---------------------------- MODULE LaunchProofs ----------------------------
(***************************************************************************)
(* Launch: the safety of the launch gate, whichever steps may fail and     *)
(* whenever the controller dies.                                           *)
(***************************************************************************)
EXTENDS Launch, TLAPS

\* TypeOK, with one conjunct for each variable.
Typed ==
  /\ child \in ChildSteps \cup {"none", "target", "dead"}
  /\ controller \in ParentSteps \cup {"supervise", "crashed"}
  /\ installed \subseteq Hardening
  /\ active \in BOOLEAN /\ reason \in BOOLEAN /\ operator \in BOOLEAN /\ byte \in BOOLEAN
  /\ parentWrites \in BOOLEAN /\ childWrites \in BOOLEAN /\ recorded \in BOOLEAN
  /\ attached \in BOOLEAN /\ armed \in BOOLEAN /\ killed \in BOOLEAN

Steady ==
  /\ killed => armed /\ controller = "crashed"
  /\ attached => active

\* The hardening steps that lie behind the child at each step.
Behind(c) ==
  CASE c \in {"none", "close_write", "reset", "dead"} -> {}
    [] c = "setpgid" -> {"reset"}
    [] c \in {"prctl", "getppid", "rlimit"} -> {"reset", "setpgid"}
    [] c \in {"gate", "landlock"} -> {"reset", "setpgid", "rlimit"}
    [] c = "seccomp" -> {"reset", "setpgid", "rlimit", "landlock"}
    [] c = "close_fds" -> {"reset", "setpgid", "rlimit", "landlock", "seccomp"}
    [] OTHER -> Hardening

InOrder == Behind(child) \subseteq installed

PastGate == {"landlock", "seccomp", "close_fds", "exec", "target"}

\* The permission byte carries what the parent had done when it wrote it: it
\* never changes its mind afterwards, and no one else writes.
ByteIsPermission ==
  /\ child \in PastGate => byte
  /\ byte => recorded /\ ~reason /\ (active => attached)
  /\ byte => controller \in {"close", "supervise", "crashed"}
  /\ controller \in {"attach", "release"} => recorded
  /\ controller = "release" /\ ~reason /\ active => attached

LaunchInv == Typed /\ Steady /\ InOrder /\ ByteIsPermission

LEMMA InitInv == Init => LaunchInv
BY DEF Init, LaunchInv, Typed, Steady, InOrder, Behind, ByteIsPermission, PastGate,
   ChildSteps, ParentSteps

-----------------------------------------------------------------------------
(* The steps of the child.                                                 *)

LEMMA FailsInv ==
  ASSUME LaunchInv, Fails, UNCHANGED <<controller, parentVars, operator>>
  PROVE  LaunchInv'
<1> USE DEF Fails, parentVars
<1>1. Typed' /\ Steady'
  BY DEF LaunchInv, Typed, Steady
<1>2. InOrder' /\ ByteIsPermission'
  BY DEF LaunchInv, InOrder, Behind, ByteIsPermission, PastGate
<1> QED
  BY <1>1, <1>2 DEF LaunchInv

LEMMA InstallInv ==
  ASSUME LaunchInv, NEW step \in Hardening \cup {"exec"}, Install(step)
  PROVE  LaunchInv'
<1>1. CASE step \in StepFails /\ Fails
  BY <1>1, FailsInv DEF Install
<1>2. CASE /\ Proceeds /\ installed' = installed \cup ({step} \cap Hardening)
           /\ UNCHANGED <<childWrites, armed, killed>>
  <2> USE <1>2 DEF Install, Proceeds, NextStep, Hardening, parentVars
  <2>1. Typed' /\ Steady'
    BY DEF LaunchInv, Typed, Steady, ChildSteps
  <2>2. InOrder'
    BY DEF LaunchInv, InOrder, Behind
  <2>3. ByteIsPermission'
    BY DEF LaunchInv, ByteIsPermission, PastGate
  <2> QED
    BY <2>1, <2>2, <2>3 DEF LaunchInv
<1> QED
  BY <1>1, <1>2 DEF Install

\* The steps that go on without adding to the hardening.
LEMMA ProceedInv ==
  ASSUME LaunchInv, Proceeds, child \in {"close_write", "prctl", "getppid", "gate"},
         child = "gate" => byte, childWrites' \in BOOLEAN, armed' \in BOOLEAN, armed => armed',
         UNCHANGED <<controller, parentVars, operator, installed, killed>>
  PROVE  LaunchInv'
<1> USE DEF Proceeds, NextStep, parentVars
<1>1. Typed'
  BY DEF LaunchInv, Typed, ChildSteps
<1>2. Steady'
  BY DEF LaunchInv, Steady
<1>3. InOrder'
  BY DEF LaunchInv, InOrder, Behind
<1>4. ByteIsPermission'
  BY DEF LaunchInv, ByteIsPermission, PastGate
<1> QED
  BY <1>1, <1>2, <1>3, <1>4 DEF LaunchInv

LEMMA ChildInv == LaunchInv /\ (ChildStep \/ TargetExits) => LaunchInv'
<1> SUFFICES ASSUME LaunchInv, ChildStep \/ TargetExits
             PROVE  LaunchInv'
  OBVIOUS
<1>1. CASE CloseWrite
  BY <1>1, ProceedInv DEF CloseWrite, LaunchInv, Typed
<1>2. CASE \E step \in (Hardening \cup {"exec"}) : Install(step)
  BY <1>2, InstallInv
<1>3. CASE ArmParentDeath
  BY <1>3, ProceedInv, FailsInv DEF ArmParentDeath, LaunchInv, Typed
<1>4. CASE CheckParent
  BY <1>4, ProceedInv, FailsInv DEF CheckParent, childVars, LaunchInv, Typed
<1>5. CASE PassGate
  BY <1>5, ProceedInv, FailsInv DEF PassGate, childVars, LaunchInv, Typed
<1>6. CASE ParentDeathKills \/ TargetExits
  BY <1>6, FailsInv DEF ParentDeathKills, TargetExits
<1> QED
  BY <1>1, <1>2, <1>3, <1>4, <1>5, <1>6 DEF ChildStep

-----------------------------------------------------------------------------
(* The steps of the parent.                                                *)

LEMMA ForkInv ==
  ASSUME LaunchInv, ForkChild
  PROVE  LaunchInv'
<1> USE DEF ForkChild, parentVars
<1>1. Typed' /\ Steady'
  BY DEF LaunchInv, Typed, Steady, ChildSteps, ParentSteps
<1>2. InOrder' /\ ByteIsPermission'
  BY DEF LaunchInv, InOrder, Behind, ByteIsPermission, PastGate
<1> QED
  BY <1>1, <1>2 DEF LaunchInv

\* What the other steps of the parent leave alone.
LEMMA OrderKept ==
  ASSUME InOrder, UNCHANGED <<child, installed>>
  PROVE  InOrder'
BY DEF InOrder, Behind

LEMMA ParentInv == LaunchInv /\ ParentStep => LaunchInv'
<1> SUFFICES ASSUME LaunchInv, ParentStep
             PROVE  LaunchInv'
  OBVIOUS
<1> USE DEF childVars
<1>1. CASE ParentSetpgid
  <2>1. Typed' /\ Steady'
    BY <1>1 DEF ParentSetpgid, LaunchInv, Typed, Steady, ParentSteps
  <2>2. ByteIsPermission'
    BY <1>1 DEF ParentSetpgid, LaunchInv, ByteIsPermission
  <2> QED
    BY <1>1, <2>1, <2>2, OrderKept DEF LaunchInv, ParentSetpgid
<1>2. CASE RecordChild
  <2>1. Typed' /\ Steady'
    BY <1>2 DEF RecordChild, LaunchInv, Typed, Steady, ParentSteps
  <2>2. ByteIsPermission'
    BY <1>2 DEF RecordChild, LaunchInv, ByteIsPermission
  <2> QED
    BY <1>2, <2>1, <2>2, OrderKept DEF LaunchInv, RecordChild
<1>3. CASE AttachChild
  <2>1. Typed' /\ Steady'
    <3>1. attached' \in BOOLEAN /\ reason' \in BOOLEAN
      BY <1>3 DEF AttachChild, LaunchInv, Typed
    <3>2. Typed'
      BY <1>3, <3>1 DEF AttachChild, LaunchInv, Typed, ParentSteps
    <3>3. Steady'
      BY <1>3 DEF AttachChild, LaunchInv, Steady
    <3> QED
      BY <3>2, <3>3
  <2>2. ByteIsPermission'
    BY <1>3 DEF AttachChild, LaunchInv, ByteIsPermission
  <2> QED
    BY <1>3, <2>1, <2>2, OrderKept DEF LaunchInv, AttachChild
<1>4. CASE ReleaseChild
  <2>1. Typed' /\ Steady'
    BY <1>4 DEF ReleaseChild, LaunchInv, Typed, Steady, ParentSteps
  <2>2. ByteIsPermission'
    BY <1>4 DEF ReleaseChild, LaunchInv, ByteIsPermission
  <2> QED
    BY <1>4, <2>1, <2>2, OrderKept DEF LaunchInv, ReleaseChild
<1>5. CASE CloseGate
  <2>1. Typed' /\ Steady'
    BY <1>5 DEF CloseGate, LaunchInv, Typed, Steady, ParentSteps
  <2>2. ByteIsPermission'
    BY <1>5 DEF CloseGate, LaunchInv, ByteIsPermission
  <2> QED
    BY <1>5, <2>1, <2>2, OrderKept DEF LaunchInv, CloseGate
<1> QED
  BY <1>1, <1>2, <1>3, <1>4, <1>5, ForkInv DEF ParentStep

LEMMA NextInv == LaunchInv /\ [Next]_vars => LaunchInv'
<1> SUFFICES ASSUME LaunchInv, [Next]_vars
             PROVE  LaunchInv'
  OBVIOUS
<1>1. CASE ControllerCrashes
  <2>1. Typed' /\ Steady'
    BY <1>1 DEF ControllerCrashes, childVars, LaunchInv, Typed, Steady
  <2>2. ByteIsPermission'
    BY <1>1 DEF ControllerCrashes, LaunchInv, ByteIsPermission
  <2> QED
    BY <1>1, <2>1, <2>2, OrderKept DEF LaunchInv, ControllerCrashes, childVars
<1>2. CASE OperatorSignal
  <2>1. Typed' /\ Steady'
    BY <1>2 DEF OperatorSignal, childVars, parentVars, LaunchInv, Typed, Steady
  <2>2. ByteIsPermission'
    BY <1>2 DEF OperatorSignal, parentVars, LaunchInv, ByteIsPermission
  <2> QED
    BY <1>2, <2>1, <2>2, OrderKept DEF LaunchInv, OperatorSignal, childVars
<1>3. CASE UNCHANGED vars
  <2>1. Typed' /\ Steady'
    BY <1>3 DEF vars, LaunchInv, Typed, Steady
  <2>2. ByteIsPermission'
    BY <1>3 DEF vars, LaunchInv, ByteIsPermission
  <2> QED
    BY <1>3, <2>1, <2>2, OrderKept DEF LaunchInv, vars
<1> QED
  BY <1>1, <1>2, <1>3, ChildInv, ParentInv DEF Next, Done

LEMMA Invariance == Spec => []LaunchInv
BY InitInv, NextInv, PTL DEF Spec

-----------------------------------------------------------------------------
\* The variables keep their types, the parent-death signal is pending only of a
\* controller that is dead, and a child is attached only to a cgroup there is.
THEOREM LaunchTypeCorrect == Spec => []TypeOK
<1>1. LaunchInv => TypeOK
  BY DEF LaunchInv, Typed, Steady, TypeOK
<1> QED
  BY <1>1, Invariance, PTL

\* Whichever launch steps fail and wherever the controller dies, the target
\* gets control only with every hardening step behind it, recorded, and in the
\* cgroup if there is one.
THEOREM TargetIsConfined == Spec => []TargetConfined
<1>1. LaunchInv => TargetConfined
  BY DEF LaunchInv, Typed, InOrder, Behind, ByteIsPermission, PastGate, TargetConfined
<1> QED
  BY <1>1, Invariance, PTL

\* A cancelled launch stops at the gate.
THEOREM CancelledLaunchStops == Spec => []CancelledNeverRuns
<1>1. LaunchInv => CancelledNeverRuns
  BY DEF LaunchInv, ByteIsPermission, PastGate, CancelledNeverRuns
<1> QED
  BY <1>1, Invariance, PTL
=============================================================================
