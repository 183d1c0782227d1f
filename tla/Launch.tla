------------------------------- MODULE Launch -------------------------------
(***************************************************************************)
(* Launching the target: run_sandbox_child() against the parent side of    *)
(* main(), synchronized by the launch pipe, with a controller that may be  *)
(* killed between any two steps.                                           *)
(***************************************************************************)
EXTENDS Naturals

CONSTANT StepFails   \* the launch steps whose system call may fail

ChildSteps == {"close_write", "reset", "setpgid", "prctl", "getppid", "rlimit",
               "gate", "landlock", "seccomp", "close_fds", "exec"}
ParentSteps == {"fork", "setpgid_child", "set_workload", "attach", "release",
                "close"}

ASSUME StepFailsAssumption == StepFails \subseteq ChildSteps \cup ParentSteps

VARIABLES
  child,        \* next step of the child; "none", "target" or "dead"
  controller,   \* next step of the parent; "supervise" or "crashed"
  active,       \* cgroup.active
  reason,       \* termination_reason of main() is set
  operator,     \* operator_signal_number # 0
  byte,         \* the launch pipe holds the permission byte
  parentWrites, \* the parent has the write end of the pipe open
  childWrites,  \* the child has it open, inherited by fork()
  installed,    \* hardening steps the child has behind it
  recorded,     \* sandbox_state_set_workload() has been called
  attached,     \* the child is in the cgroup
  armed,        \* PR_SET_PDEATHSIG is set
  killed        \* the parent-death signal is pending

vars == <<child, controller, active, reason, operator, byte, parentWrites,
          childWrites, installed, recorded, attached, armed, killed>>

parentVars == <<active, reason, byte, parentWrites, recorded, attached>>
childVars == <<childWrites, installed, armed>>

\* What must be in place when the target gets control.
Hardening == {"reset", "setpgid", "rlimit", "landlock", "seccomp", "close_fds"}

TypeOK ==
  /\ child \in ChildSteps \cup {"none", "target", "dead"}
  /\ controller \in ParentSteps \cup {"supervise", "crashed"}
  /\ installed \subseteq Hardening
  /\ killed => armed /\ controller = "crashed"
  /\ attached => active
  /\ {active, reason, operator, byte, parentWrites, childWrites, recorded,
      attached, armed, killed} \subseteq BOOLEAN

Init ==
  /\ child = "none"
  /\ controller = "fork"
  /\ active \in BOOLEAN
  /\ reason = FALSE
  /\ operator = FALSE
  /\ byte = FALSE
  /\ parentWrites = TRUE
  /\ childWrites = FALSE
  /\ installed = {}
  /\ recorded = FALSE
  /\ attached = FALSE
  /\ armed = FALSE
  /\ killed = FALSE

-----------------------------------------------------------------------------
(* The parent.                                                             *)

\* fork(): the child holds copies of both ends of the pipe.
ForkChild ==
  /\ controller = "fork"
  /\ child' = "close_write"
  /\ childWrites' = TRUE
  /\ controller' = "setpgid_child"
  /\ UNCHANGED <<parentVars, operator, installed, armed, killed>>

\* setpgid(child_pid, child_pid): a failure cancels the launch, unless it says
\* that the child is gone (ESRCH) or has run execve() (EACCES).
ParentSetpgid ==
  /\ controller = "setpgid_child"
  /\ reason' = FALSE \/ (reason' = TRUE /\ "setpgid_child" \in StepFails)
  /\ controller' = "set_workload"
  /\ UNCHANGED <<child, operator, childVars, killed, active, byte,
                 parentWrites, recorded, attached>>

\* sandbox_state_set_workload().
RecordChild ==
  /\ controller = "set_workload"
  /\ recorded' = TRUE
  /\ controller' = "attach"
  /\ UNCHANGED <<child, operator, childVars, killed, active, reason, byte,
                 parentWrites, attached>>

\* Mutant: the attach does not ask whether there is a cgroup.
AttachAlways ==
  /\ controller = "attach"
  /\ attached' = TRUE
  /\ controller' = "release"
  /\ UNCHANGED <<child, operator, childVars, killed, active, reason, byte,
                 parentWrites, recorded>>

\* sandbox_cgroup_attach() when there is a cgroup: a failure cancels.
AttachChild ==
  /\ controller = "attach"
  /\ \/ active /\ attached' = TRUE /\ UNCHANGED reason
     \/ active /\ "attach" \in StepFails /\ reason' = TRUE /\ UNCHANGED attached
     \/ ~active /\ UNCHANGED <<attached, reason>>
  /\ controller' = "release"
  /\ UNCHANGED <<child, operator, childVars, killed, active, byte,
                 parentWrites, recorded>>

\* Mutant: the child is released although the set-up failed.
ReleaseAnyway ==
  /\ controller = "release"
  /\ byte' = (child # "dead")
  /\ reason' = (reason \/ operator \/ child = "dead")
  /\ controller' = "close"
  /\ UNCHANGED <<child, operator, childVars, killed, active, parentWrites,
                 recorded, attached>>

\* The operator check, and release_child() when nothing went wrong.  Writing to
\* a child that is dead fails with EPIPE, SIGPIPE being ignored.
ReleaseChild ==
  /\ controller = "release"
  /\ \/ /\ ~reason /\ ~operator /\ child # "dead"
        /\ byte' = TRUE
        /\ UNCHANGED reason
     \/ /\ reason \/ operator \/ child = "dead" \/ "release" \in StepFails
        /\ reason' = TRUE
        /\ UNCHANGED byte
  /\ controller' = "close"
  /\ UNCHANGED <<child, operator, childVars, killed, active, parentWrites,
                 recorded, attached>>

\* close() of the write end, in every case.
CloseGate ==
  /\ controller = "close"
  /\ parentWrites' = FALSE
  /\ controller' = "supervise"
  /\ UNCHANGED <<child, operator, childVars, killed, active, reason, byte,
                 recorded, attached>>

\* The controller is killed: its descriptors close, and the kernel sends the
\* parent-death signal to a child that has armed it.
ControllerCrashes ==
  /\ controller # "crashed"
  /\ controller' = "crashed"
  /\ parentWrites' = FALSE
  /\ killed' = (armed /\ child # "dead")
  /\ UNCHANGED <<child, operator, childVars, active, reason, byte, recorded,
                 attached>>

\* handle_operator_signal().
OperatorSignal ==
  /\ controller # "crashed"
  /\ ~operator
  /\ operator' = TRUE
  /\ UNCHANGED <<child, controller, parentVars, childVars, killed>>

-----------------------------------------------------------------------------
(* The child: run_sandbox_child().                                         *)

\* The order of run_sandbox_child(); prctl() and getppid() are the two halves
\* of sandbox_child_set_parent_death_signal().
NextStep(step) ==
  CASE step = "close_write" -> "reset"
    [] step = "reset" -> "setpgid"
    [] step = "setpgid" -> "prctl"
    [] step = "prctl" -> "getppid"
    [] step = "getppid" -> "rlimit"
    [] step = "rlimit" -> "gate"
    [] step = "gate" -> "landlock"
    [] step = "landlock" -> "seccomp"
    [] step = "seccomp" -> "close_fds"
    [] step = "close_fds" -> "exec"
    [] step = "exec" -> "target"

\* _exit(127): the child's descriptors close and no signal can reach it.
Fails ==
  /\ child' = "dead"
  /\ childWrites' = FALSE
  /\ killed' = FALSE
  /\ UNCHANGED <<installed, armed>>

Proceeds == child' = NextStep(child)

\* Mutant: the child keeps its copy of the write end.
KeepWrite ==
  /\ child = "close_write"
  /\ Proceeds
  /\ UNCHANGED <<controller, parentVars, operator, childVars, killed>>

\* close(launch_write_descriptor) comes first.
CloseWrite ==
  /\ child = "close_write"
  /\ Proceeds
  /\ childWrites' = FALSE
  /\ UNCHANGED <<controller, parentVars, operator, installed, armed, killed>>

\* A hardening step, or execve().
Install(step) ==
  /\ child = step
  /\ \/ /\ Proceeds
        /\ installed' = installed \cup ({step} \cap Hardening)
        /\ UNCHANGED <<childWrites, armed, killed>>
     \/ step \in StepFails /\ Fails
  /\ UNCHANGED <<controller, parentVars, operator>>

\* prctl(PR_SET_PDEATHSIG, SIGKILL).
ArmParentDeath ==
  /\ child = "prctl"
  /\ \/ Proceeds /\ armed' = TRUE /\ UNCHANGED <<childWrites, installed, killed>>
     \/ "prctl" \in StepFails /\ Fails
  /\ UNCHANGED <<controller, parentVars, operator>>

\* Mutant: nobody looks whether the parent is still there.
SkipParentCheck ==
  /\ child = "getppid"
  /\ Proceeds
  /\ UNCHANGED <<controller, parentVars, operator, childVars, killed>>

\* getppid() differs from expected_parent once the controller is dead.
CheckParent ==
  /\ child = "getppid"
  /\ IF controller = "crashed"
     THEN Fails
     ELSE Proceeds /\ UNCHANGED <<childVars, killed>>
  /\ UNCHANGED <<controller, parentVars, operator>>

\* wait_for_launch_permission(): the byte, else end of file once nobody holds
\* the write end any more, else read() blocks.
PassGate ==
  /\ child = "gate"
  /\ \/ byte /\ Proceeds /\ UNCHANGED <<childVars, killed>>
     \/ ~byte /\ ~parentWrites /\ ~childWrites /\ Fails
  /\ UNCHANGED <<controller, parentVars, operator>>

\* The target ends by itself.
TargetExits ==
  /\ child = "target"
  /\ Fails
  /\ UNCHANGED <<controller, parentVars, operator>>

\* The parent-death signal is delivered.
ParentDeathKills ==
  /\ killed
  /\ Fails
  /\ UNCHANGED <<controller, parentVars, operator>>

ParentStep ==
  \/ ForkChild \/ ParentSetpgid \/ RecordChild \/ AttachChild \/ ReleaseChild
  \/ CloseGate

ChildStep ==
  \/ CloseWrite
  \/ \E step \in (Hardening \cup {"exec"}) : Install(step)
  \/ ArmParentDeath \/ CheckParent \/ PassGate \/ ParentDeathKills

\* Both sides have come to rest.
Done ==
  /\ controller \in {"supervise", "crashed"}
  /\ child \in {"none", "dead"}
  /\ UNCHANGED vars

Next ==
  \/ ParentStep \/ ChildStep \/ TargetExits \/ ControllerCrashes
  \/ OperatorSignal \/ Done

Spec == Init /\ [][Next]_vars

\* The scheduler runs both processes and the kernel delivers SIGKILL.  Nothing
\* makes the target exit, the operator act or the controller crash.
FairSpec == Spec /\ WF_vars(ParentStep) /\ WF_vars(ChildStep)

-----------------------------------------------------------------------------
(* Properties.                                                             *)

\* The target gets control only behind every hardening step, once the parent
\* has recorded it and put it into the cgroup if there is one.
TargetConfined ==
  child = "target" => /\ installed = Hardening
                      /\ recorded
                      /\ active => attached

\* A launch the parent cancelled, because of an error or an operator signal it
\* saw, never gets past the gate.
CancelledNeverRuns ==
  reason => child \notin {"landlock", "seccomp", "close_fds", "exec", "target"}

\* When the controller dies, the target dies with it or never starts: whenever
\* the death falls, before, between or after prctl() and getppid().
NoOrphanTarget == controller = "crashed" ~> child \in {"none", "dead"}

\* The gate never holds the child for ever: the parent releases it, closes the
\* pipe or dies, and the child itself does not keep the pipe open.
GateResolves == child = "gate" ~> child # "gate"
=============================================================================
