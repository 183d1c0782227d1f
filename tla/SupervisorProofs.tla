--------------------------- MODULE SupervisorProofs -------------------------
(***************************************************************************)
(* Safety of the controller, for a workload of any size, any number of     *)
(* poll rounds and any set of faults: first what its conclusions mean      *)
(* (SafetyInv), then that without a cgroup the leader's status is          *)
(* collected (CollectedInv), then that termination leaves nobody running   *)
(* (KillInv).                                                              *)
(***************************************************************************)
EXTENDS Supervisor, WorkloadProofs

\* main() before the launch gate is decided.
Early == {"prepare", "setup", "attach", "release"}

\* supervise_workload() is entered once, before any termination.
CtxInv ==
  /\ ctx = "supervise" => attempt = 0
  /\ pc \in Early \cup {"spawn_timeout", "spawn_memory", "spawn_cpu", "dispatch",
                        "supervise", "snapshot"} => ctx = "supervise"

\* Before the gate the leader is alone; a leader that exits with code 0 has
\* been through the gate.
LaunchInv ==
  /\ launch # "started" => \A p \in Proc \ {Leader} : pstate[p] = "unborn"
  /\ launch = "started" => permission
  /\ permission => pc \notin Early
  /\ pc = "prepare" => pstate[Leader] = "unborn"
  /\ inCgroup \subseteq Running
  /\ leaderExit = "ok" => launch = "started"

\* Where every running process is known to be in the cgroup.
Confinement ==
  cgroup = "active" =>
    /\ permission => Running \subseteq inCgroup
    /\ pc = "release" /\ termination_reason = "none" => Running \subseteq inCgroup
    /\ "attach" \notin Faults /\ pc \notin {"prepare", "setup", "attach"}
         => Running \subseteq inCgroup

\* What workload_finished and leader_status stand for.
OutcomeInv ==
  /\ pc \in Early => ~workload_finished /\ leader_status = "none"
  /\ workload_finished /\ (permission \/ "attach" \notin Faults) => Running = {}
  /\ leader_status # "none" => leader_status = leaderExit /\ pstate[Leader] = "gone"
  /\ exit_code # "none" => pc = "exited"

-----------------------------------------------------------------------------
\* The child main() forks is one of the workload's processes.
LEMMA LeaderProc == Leader \in Proc
BY MaxProcsAssumption DEF Leader, Proc

\* main() starts with every variable of its type.
LEMMA InitType == Init => TypeOK /\ CtxInv
<1> SUFFICES ASSUME Init PROVE TypeOK /\ CtxInv
  OBVIOUS
<1>1. WorkloadTypeOK
  BY LeaderProc DEF Init, WorkloadInit, WorkloadTypeOK, PState, ExitStatus, Controller
<1>2. MonitorTypeOK
  BY DEF Init, MonitorInit, MonitorTypeOK, Reason, ThreadPlaces
<1>3. waited \in 0..(GraceRounds + KillRounds) /\ attempt \in 0..2
  BY RoundsAssumption DEF Init
<1>4. CtxInv
  BY DEF Init, CtxInv
<1> QED
  BY <1>1, <1>2, <1>3, <1>4 DEF Init, TypeOK, MainTypeOK, PCs, Contexts, Reason, ExitStatus

StateType == [leader_alive : BOOLEAN, workload_alive : BOOLEAN,
              termination_requested : BOOLEAN, termination_reason : Reason]

\* The critical sections of monitor.c keep the type of the shared state.
LEMMA CriticalSections ==
  ASSUME NEW st \in StateType, NEW reason \in Reason
  PROVE  /\ sandbox_state_set_workload(st) \in StateType
         /\ sandbox_state_request_termination(st, reason) \in StateType
         /\ sandbox_state_mark_leader_exited(st) \in StateType
         /\ sandbox_state_mark_workload_exited(st) \in StateType
<1>1. sandbox_state_set_workload(st) \in StateType
  BY DEF StateType, sandbox_state_set_workload, Reason
<1>2. sandbox_state_request_termination(st, reason) \in StateType
  BY DEF StateType, sandbox_state_request_termination
<1>3. sandbox_state_mark_leader_exited(st) \in StateType
  BY DEF StateType, sandbox_state_mark_leader_exited
<1>4. sandbox_state_mark_workload_exited(st) \in StateType
  BY DEF StateType, sandbox_state_mark_workload_exited
<1> QED
  BY <1>1, <1>2, <1>3, <1>4

-----------------------------------------------------------------------------
(* Type correctness.                                                       *)

\* A step that leaves the workload alone keeps its type.
LEMMA SameWorkloadType ==
  ASSUME WorkloadTypeOK, UNCHANGED workloadVars PROVE WorkloadTypeOK'
BY DEF WorkloadTypeOK, workloadVars

\* Signals only add to the doomed processes.
LEMMA SignalType ==
  ASSUME WorkloadTypeOK, NEW sig, NEW S, Signal(sig, S) PROVE WorkloadTypeOK'
BY DEF WorkloadTypeOK, Signal, Killed, Running

\* Launching.
LEMMA LaunchType ==
  ASSUME TypeOK, CtxInv, Prepare \/ SetWorkload \/ Attach \/ Release
  PROVE  TypeOK' /\ CtxInv'
<1> USE DEF TypeOK
<1>1. CASE Prepare
  <2>1. WorkloadTypeOK'
    BY <1>1, LeaderProc DEF Prepare, ForkLeader, WorkloadTypeOK, workloadVars, PState
  <2>2. MonitorTypeOK'
    BY <1>1, CgroupModesAssumption
       DEF Prepare, sandbox_cgroup_prepare, MonitorTypeOK, monitorVars
  <2> QED
    BY <1>1, <2>1, <2>2 DEF Prepare, Goto, MainTypeOK, PCs, CtxInv, Early
<1>2. CASE SetWorkload
  <2>1. WorkloadTypeOK'
    BY <1>2, LeaderProc DEF SetWorkload, WorkloadTypeOK
  <2>2. MonitorTypeOK'
    BY <1>2 DEF SetWorkload, MonitorTypeOK, sandbox_state_set_workload, Reason
  <2> QED
    BY <1>2, <2>1, <2>2
       DEF SetWorkload, Goto, GotoWithReason, MainTypeOK, PCs, Reason, CtxInv, Early
<1>3. CASE Attach
  <2>1. WorkloadTypeOK'
    BY <1>3 DEF Attach, WorkloadTypeOK, Running
  <2> QED
    BY <1>3, <2>1
       DEF Attach, Goto, GotoWithReason, MainTypeOK, PCs, Reason, CtxInv, Early,
           MonitorTypeOK, monitorVars
<1>4. CASE Release
  <2>1. WorkloadTypeOK'
    BY <1>4 DEF Release, WorkloadTypeOK
  <2>2. MonitorTypeOK'
    BY <1>4 DEF Release, MonitorTypeOK, monitorVars
  <2> QED
    BY <1>4, <2>1, <2>2
       DEF Release, Goto, GotoWithReason, MainTypeOK, PCs, Reason, CtxInv, Early
<1> QED
  BY <1>1, <1>2, <1>3, <1>4

\* Threads, dispatch, supervision and cleanup.
LEMMA ControlType ==
  ASSUME TypeOK, CtxInv,
         \/ Spawn("timeout", "spawn_timeout", "spawn_memory")
         \/ Spawn("memory", "spawn_memory", "spawn_cpu")
         \/ Spawn("cpu", "spawn_cpu", "dispatch")
         \/ Dispatch \/ Supervise \/ Snapshot \/ Cleanup \/ Join \/ Report
  PROVE  TypeOK' /\ CtxInv'
<1> USE DEF TypeOK
<1>0. state \in StateType /\ \A r \in Reason :
         /\ sandbox_state_request_termination(state, r) \in StateType
         /\ sandbox_state_mark_workload_exited(state) \in StateType
  BY CriticalSections DEF MonitorTypeOK, StateType
<1>1. WorkloadTypeOK'
  <2>1. UNCHANGED workloadVars
    BY DEF Spawn, Dispatch, Supervise, Snapshot, Cleanup, Join, Report
  <2> QED
    BY <2>1, SameWorkloadType
<1>2. ASSUME NEW m \in Monitors, NEW here \in PCs, NEW next \in PCs,
             Spawn(m, here, next),
             next \in {"spawn_memory", "spawn_cpu", "dispatch"},
             here \in {"spawn_timeout", "spawn_memory", "spawn_cpu"}
      PROVE  TypeOK' /\ CtxInv'
  <2>1. MonitorTypeOK'
    <3>1. state' \in StateType
      BY <1>0, <1>2 DEF Spawn, Reason
    <3>2. mon' \in [Monitors -> ThreadPlaces]
      BY <1>2 DEF Spawn, MonitorTypeOK, ThreadPlaces
    <3> QED
      BY <1>2, <3>1, <3>2 DEF Spawn, MonitorTypeOK, StateType
  <2> QED
    BY <1>1, <1>2, <2>1 DEF Spawn, Goto, MainTypeOK, CtxInv
<1>3. CASE Dispatch \/ Snapshot
  <2>1. MonitorTypeOK' /\ state.termination_reason \in Reason
    BY <1>3 DEF Dispatch, Snapshot, MonitorTypeOK, monitorVars
  <2> QED
    BY <1>1, <1>3, <2>1
       DEF Dispatch, Snapshot, Goto, BeginTerminate, MainTypeOK, PCs, Contexts,
           CtxInv, Early
<1>4. CASE Supervise
  <2>1. MonitorTypeOK'
    BY <1>0, <1>4 DEF Supervise, MonitorTypeOK, StateType, Reason
  <2> QED
    BY <1>1, <1>4, <2>1
       DEF Supervise, BeginTerminate, MainTypeOK, PCs, Contexts, CtxInv, Early, Reason
<1>5. CASE Cleanup
  <2>1. MonitorTypeOK'
    BY <1>0, <1>5 DEF Cleanup, MonitorTypeOK, StateType, Reason
  <2> QED
    BY <1>1, <1>5, <2>1
       DEF Cleanup, Goto, BeginTerminate, MainTypeOK, PCs, Contexts, CtxInv, Early,
           Reason
<1>6. CASE Join \/ Report
  <2>1. MonitorTypeOK'
    BY <1>6 DEF Join, Report, sandbox_cgroup_destroy, MonitorTypeOK, monitorVars
  <2> QED
    BY <1>1, <1>6, <2>1
       DEF Join, Report, Goto, MainTypeOK, PCs, CtxInv, Early, report_child_status
<1> QED
  BY <1>2, <1>3, <1>4, <1>5, <1>6 DEF Monitors, PCs

\* poll_workload().
LEMMA PollType ==
  ASSUME TypeOK, CtxInv,
         \/ \E c \in Proc : ReapChild(c)
         \/ ReapDone \/ PollGone \/ PollAlive \/ PollError
  PROVE  TypeOK' /\ CtxInv'
<1> USE DEF TypeOK
<1>0. /\ state \in StateType
      /\ sandbox_state_mark_leader_exited(state) \in StateType
      /\ sandbox_state_mark_workload_exited(state) \in StateType
  BY CriticalSections DEF MonitorTypeOK, StateType, Reason
<1>1. ASSUME NEW c \in Proc, ReapChild(c)
      PROVE  TypeOK' /\ CtxInv'
  <2>1. WorkloadTypeOK'
    BY <1>1 DEF ReapChild, Reap, WorkloadTypeOK, PState
  <2>2. MonitorTypeOK'
    BY <1>0, <1>1 DEF ReapChild, MonitorTypeOK, StateType
  <2> QED
    BY <1>1, <2>1, <2>2 DEF ReapChild, MainTypeOK, CtxInv, WorkloadTypeOK
<1>2. CASE PollGone
  <2>1. WorkloadTypeOK'
    BY <1>2, SameWorkloadType DEF PollGone
  <2>2. MonitorTypeOK'
    BY <1>0, <1>2 DEF PollGone, MonitorTypeOK, StateType
  <2> QED
    BY <1>2, <2>1, <2>2 DEF PollGone, MainTypeOK, PCs, CtxInv, Early, Reason
<1>3. CASE ReapDone \/ PollAlive \/ PollError
  <2>1. WorkloadTypeOK'
    BY <1>3, SameWorkloadType DEF ReapDone, PollAlive, PollError
  <2>2. MonitorTypeOK'
    BY <1>3 DEF ReapDone, PollAlive, PollError, MonitorTypeOK, monitorVars
  <2>3. MainTypeOK' /\ CtxInv'
    <3>1. CASE ReapDone
      BY <3>1 DEF ReapDone, Goto, MainTypeOK, PCs, CtxInv, Early
    <3>2. CASE PollError
      BY <3>2 DEF PollError, Goto, BeginTerminate, Escalate, MainTypeOK, PCs,
                  Contexts, CtxInv, Early, Reason
    <3>3. CASE PollAlive
      BY <3>3, RoundsAssumption
         DEF PollAlive, Goto, NextWaitRound, Escalate, MainTypeOK, PCs, Contexts,
             CtxInv, Early
    <3> QED
      BY <1>3, <3>1, <3>2, <3>3
  <2> QED
    BY <1>3, <2>1, <2>2, <2>3 DEF ReapDone, PollAlive, PollError
<1> QED
  BY <1>1, <1>2, <1>3

\* signal_workload().
LEMMA SignalStepsType ==
  ASSUME TypeOK, CtxInv, SignalCgroup \/ SignalGroup \/ SignalScan \/ SignalEach
  PROVE  TypeOK' /\ CtxInv'
<1> USE DEF TypeOK
<1>1. WorkloadTypeOK'
  BY SameWorkloadType, SignalType
     DEF SignalCgroup, sandbox_cgroup_kill, SignalGroup, SignalScan, SignalEach
<1>2. MonitorTypeOK' /\ operator' \in BOOLEAN
  BY DEF SignalCgroup, SignalGroup, SignalScan, SignalEach, MonitorTypeOK, monitorVars
<1>3. MainTypeOK' /\ CtxInv'
  <2>1. CASE SignalCgroup
    BY <2>1 DEF SignalCgroup, Goto, MainTypeOK, PCs, CtxInv, Early
  <2>2. CASE SignalGroup
    BY <2>2 DEF SignalGroup, MainTypeOK, PCs, CtxInv, Early, Roots, ChildrenOf, Existing
  <2>3. CASE SignalScan
    BY <2>3 DEF SignalScan, MainTypeOK, PCs, CtxInv, Early, Existing
  <2>4. CASE SignalEach
    <3>1. CASE toSignal # {}
      BY <2>4, <3>1 DEF SignalEach, MainTypeOK, CtxInv
    <3>2. CASE toSignal = {}
      <4>1. AfterSignal /\ UNCHANGED <<toSignal, group_signalled>>
        BY <2>4, <3>2 DEF SignalEach
      <4>2. waited' \in 0..(GraceRounds + KillRounds)
        BY <4>1, RoundsAssumption DEF AfterSignal, MainTypeOK
      <4>3. MainTypeOK'
        BY <4>1, <4>2 DEF AfterSignal, MainTypeOK, PCs, Contexts
      <4>4. CtxInv'
        BY <4>1 DEF AfterSignal, CtxInv, Early
      <4> QED
        BY <4>3, <4>4
    <3> QED
      BY <3>1, <3>2
  <2> QED
    BY <2>1, <2>2, <2>3, <2>4
<1> QED
  BY <1>1, <1>2, <1>3

\* The monitors, the clock, the operator and the workload.
LEMMA OthersType ==
  ASSUME TypeOK, CtxInv,
         \/ \E m \in Monitors : ThreadStep(m)
         \/ DeadlinePasses \/ WorkloadMoves \/ OperatorSignal \/ Done
  PROVE  TypeOK' /\ CtxInv'
<1> USE DEF TypeOK
<1>0. state \in StateType /\ \A r \in Reason :
         sandbox_state_request_termination(state, r) \in StateType
  BY CriticalSections DEF MonitorTypeOK, StateType
<1>1. UNCHANGED mainVars => MainTypeOK' /\ CtxInv'
  BY DEF mainVars, MainTypeOK, CtxInv
<1>2. ASSUME NEW m \in Monitors, ThreadStep(m)
      PROVE  TypeOK' /\ CtxInv'
  <2>1. ASSUME NEW where \in {"loop", "work", "over", "done"}, NEW n \in Monitors,
               Continue(n, where)
        PROVE  /\ state' \in StateType
               /\ mon' \in [Monitors -> ThreadPlaces]
    BY <1>0, <2>1 DEF Continue, MonitorTypeOK, ThreadPlaces
  <2>2. ASSUME NEW r \in Reason, NEW n \in Monitors, RequestAndReturn(n, r)
        PROVE  /\ state' \in StateType
               /\ mon' \in [Monitors -> ThreadPlaces]
    BY <1>0, <2>2 DEF RequestAndReturn, MonitorTypeOK, ThreadPlaces
  <2>3. /\ state' \in StateType
        /\ mon' \in [Monitors -> ThreadPlaces]
        /\ expired' = expired
    BY <1>2, <2>1, <2>2
       DEF ThreadStep, MonitorStep, MonitorSnapshot, TimeoutMonitorWork,
           MemoryMonitorWork, MemoryMonitorRequests, CpuMonitorWork, Monitors, Reason
  <2>4. MonitorTypeOK'
    BY <1>2, <2>3 DEF ThreadStep, MonitorTypeOK, StateType
  <2> QED
    BY <1>1, <1>2, <2>4, SameWorkloadType DEF ThreadStep
<1>3. CASE DeadlinePasses
  BY <1>1, <1>3, SameWorkloadType DEF DeadlinePasses, Expire, MonitorTypeOK
<1>4. CASE WorkloadMoves
  BY <1>1, <1>4, WorkloadStepType DEF WorkloadMoves, MonitorTypeOK, monitorVars
<1>5. CASE OperatorSignal \/ Done
  BY <1>1, <1>5, SameWorkloadType
     DEF OperatorSignal, Done, MonitorTypeOK, monitorVars, vars
<1> QED
  BY <1>2, <1>3, <1>4, <1>5

\* Type correctness is inductive.
LEMMA TypeNext == TypeOK /\ CtxInv /\ [Next]_vars => TypeOK' /\ CtxInv'
<1> SUFFICES ASSUME TypeOK, CtxInv, [Next]_vars PROVE TypeOK' /\ CtxInv'
  OBVIOUS
<1>1. CASE UNCHANGED vars
  BY <1>1 DEF TypeOK, WorkloadTypeOK, MonitorTypeOK, MainTypeOK, CtxInv, vars, workloadVars,
              monitorVars, mainVars
<1>2. CASE Next
  BY <1>2, LaunchType, ControlType, PollType, SignalStepsType, OthersType
     DEF Next, MainStep
<1> QED
  BY <1>1, <1>2

\* Every variable of the controller, of its threads and of the workload keeps
\* its type; main() calls terminate_workload() at most twice.
THEOREM TypeCorrect == Spec => []TypeOK
<1>1. Spec => [](TypeOK /\ CtxInv)
  BY InitType, TypeNext, PTL DEF Spec
<1> QED
  BY <1>1, PTL

-----------------------------------------------------------------------------
(* Confinement and the outcome.                                            *)

SafetyInv == LaunchInv /\ Confinement /\ OutcomeInv /\ SuccessMeansClean

\* The safety invariant holds when main() starts.
LEMMA SafetyInit == Init => SafetyInv
<1> SUFFICES ASSUME Init PROVE SafetyInv
  OBVIOUS
<1>1. Running = {} /\ pstate[Leader] = "unborn"
  BY LeaderProc DEF Init, WorkloadInit, Running
<1> QED
  BY <1>1 DEF Init, WorkloadInit, MonitorInit, SafetyInv, LaunchInv, Confinement,
              OutcomeInv, SuccessMeansClean, Early

\* The steps of main() that neither launch, reap, conclude nor report.
LateStep ==
  \/ Spawn("timeout", "spawn_timeout", "spawn_memory")
  \/ Spawn("memory", "spawn_memory", "spawn_cpu")
  \/ Spawn("cpu", "spawn_cpu", "dispatch")
  \/ Dispatch \/ Supervise \/ ReapDone \/ PollAlive \/ PollError \/ Snapshot
  \/ SignalCgroup \/ SignalGroup \/ SignalScan \/ SignalEach
  \/ Cleanup \/ Join

\* They come after the gate and leave the outcome and the processes' lives,
\* parents and cgroup alone: a signal only dooms.
LateFootprint ==
  /\ pc \notin Early \cup {"exited"}
  /\ pc' \notin Early \cup {"exited"}
  /\ UNCHANGED <<pstate, inCgroup, leaderExit, launch, permission, cgroup,
                 leader_status, workload_finished, exit_code>>

\* Those steps have that footprint.
LEMMA LateStepFootprint == ASSUME LateStep PROVE LateFootprint
<1> USE DEF LateFootprint, Early, workloadVars
<1>1. CASE Dispatch \/ Supervise \/ Snapshot \/ Cleanup
  BY <1>1 DEF Dispatch, Supervise, Snapshot, Cleanup, Goto, BeginTerminate
<1>2. CASE ReapDone \/ Join
  BY <1>2 DEF ReapDone, Join, Goto
<1>3. CASE PollAlive \/ PollError
  BY <1>3 DEF PollAlive, PollError, Goto, BeginTerminate, Escalate, NextWaitRound
<1>4. CASE SignalCgroup \/ SignalGroup
  BY <1>4 DEF SignalCgroup, sandbox_cgroup_kill, SignalGroup, Signal, Goto
<1>5. CASE SignalScan
  BY <1>5 DEF SignalScan
<1>6. CASE SignalEach
  BY <1>6 DEF SignalEach, AfterSignal, Signal
<1>7. ASSUME NEW m, NEW here, NEW next, Spawn(m, here, next),
             here \in {"spawn_timeout", "spawn_memory", "spawn_cpu"},
             next \in {"spawn_memory", "spawn_cpu", "dispatch"}
      PROVE  LateFootprint
  BY <1>7 DEF Spawn, Goto
<1> QED
  BY <1>1, <1>2, <1>3, <1>4, <1>5, <1>6, <1>7 DEF LateStep

\* A step with that footprint, or one that changes neither main() nor the
\* workload, keeps the safety invariant.
LEMMA FootprintKeepsSafety ==
  ASSUME SafetyInv, LateFootprint
  PROVE  SafetyInv'
<1>1. Running' = Running
  BY DEF LateFootprint, Running
<1>2. LaunchInv'
  BY <1>1 DEF SafetyInv, LaunchInv, LateFootprint, Early
<1>3. Confinement'
  BY <1>1 DEF SafetyInv, Confinement, LateFootprint, Early
<1>4. OutcomeInv' /\ SuccessMeansClean'
  BY <1>1 DEF SafetyInv, OutcomeInv, SuccessMeansClean, LateFootprint
<1> QED
  BY <1>2, <1>3, <1>4 DEF SafetyInv

\* Steps of the monitors, the clock and the operator touch none of it.
LEMMA SameMainKeepsSafety ==
  ASSUME SafetyInv, UNCHANGED <<workloadVars, mainVars, cgroup>>
  PROVE  SafetyInv'
BY DEF SafetyInv, LaunchInv, Confinement, OutcomeInv, SuccessMeansClean, Running,
       workloadVars, mainVars

\* The launch keeps it: the permission byte is written only behind a successful
\* sandbox_cgroup_attach().
LEMMA LaunchKeepsSafety ==
  ASSUME TypeOK, SafetyInv, Prepare \/ SetWorkload \/ Attach \/ Release
  PROVE  SafetyInv'
<1> USE DEF SafetyInv
<1>0. launch # "started" /\ ~permission /\ ~workload_finished
  BY DEF LaunchInv, OutcomeInv, Early, Prepare, SetWorkload, Attach, Release
<1>1. Running \subseteq {Leader}
  BY <1>0 DEF LaunchInv, Running
<1>2. CASE Prepare
  <2>1. Running = {} /\ inCgroup = {} /\ Leader \notin Running
    BY <1>0, <1>1, <1>2 DEF Prepare, LaunchInv, Running
  <2>2. CASE ForkLeader /\ Goto("setup")
    <3>1. pstate' = [pstate EXCEPT ![Leader] = "running"]
      BY <2>2 DEF ForkLeader
    <3>2. Running' = {Leader}
      BY <2>1, <3>1, LeaderProc DEF Running, TypeOK, WorkloadTypeOK
    <3>3. LaunchInv'
      BY <1>0, <2>1, <2>2, <3>1 DEF ForkLeader, Goto, LaunchInv, TypeOK, WorkloadTypeOK
    <3>4. Confinement'
      BY <1>0, <2>2 DEF ForkLeader, Goto, Confinement
    <3>5. OutcomeInv' /\ SuccessMeansClean'
      BY <1>0, <1>2, <2>1, <2>2, <3>2
         DEF Prepare, ForkLeader, Goto, OutcomeInv, SuccessMeansClean, Early
    <3> QED
      BY <3>3, <3>4, <3>5
  <2>3. CASE UNCHANGED workloadVars /\ Goto("cleanup")
    <3>1. Running' = {} /\ inCgroup' = {}
      BY <2>1, <2>3 DEF workloadVars, Running
    <3>2. LaunchInv'
      BY <1>0, <2>3, <3>1 DEF workloadVars, Goto, LaunchInv
    <3>3. Confinement'
      BY <3>1 DEF Confinement
    <3>4. OutcomeInv' /\ SuccessMeansClean'
      BY <1>0, <1>2, <2>3, <3>1
         DEF Prepare, workloadVars, Goto, OutcomeInv, SuccessMeansClean, Early
    <3> QED
      BY <3>2, <3>3, <3>4
  <2> QED
    BY <1>2, <2>2, <2>3 DEF Prepare
<1>3. CASE SetWorkload
  <2>1. Running' = Running
    BY <1>3 DEF SetWorkload, Running
  <2>2. /\ pc = "setup" /\ pc' = "attach"
        /\ UNCHANGED <<pstate, inCgroup, leaderExit, launch, permission, cgroup,
                       leader_status, workload_finished, exit_code>>
    BY <1>3 DEF SetWorkload, Goto, GotoWithReason
  <2> QED
    BY <1>0, <2>1, <2>2 DEF LaunchInv, Confinement, OutcomeInv, SuccessMeansClean, Early
<1>4. CASE Attach
  <2>1. Running' = Running
    BY <1>4 DEF Attach, Running
  <2>2. /\ pc = "attach" /\ pc' = "release"
        /\ UNCHANGED <<pstate, leaderExit, launch, permission, cgroup,
                       leader_status, workload_finished, exit_code>>
    BY <1>4 DEF Attach, Goto, GotoWithReason
  <2>3. /\ inCgroup' \subseteq Running
        /\ cgroup = "active" =>
             \/ Running \subseteq inCgroup'
             \/ "attach" \in Faults /\ termination_reason' = "supervisor_error"
    BY <1>1, <1>4 DEF Attach, LaunchInv, GotoWithReason
  <2>4. LaunchInv'
    BY <1>0, <2>1, <2>2, <2>3 DEF LaunchInv, Early
  <2>5. Confinement'
    BY <1>0, <2>1, <2>2, <2>3 DEF Confinement
  <2>6. OutcomeInv' /\ SuccessMeansClean'
    BY <1>0, <2>1, <2>2 DEF OutcomeInv, SuccessMeansClean, Early
  <2> QED
    BY <2>4, <2>5, <2>6
<1>5. CASE Release
  <2>1. Running' = Running
    BY <1>5 DEF Release, Running
  <2>2. /\ pc = "release" /\ pc' = "spawn_timeout"
        /\ UNCHANGED <<pstate, inCgroup, leaderExit, launch, cgroup,
                       leader_status, workload_finished, exit_code>>
        /\ permission' => termination_reason = "none"
    BY <1>0, <1>5 DEF Release, Goto, GotoWithReason
  <2>3. LaunchInv'
    BY <1>0, <2>1, <2>2 DEF LaunchInv, Early
  <2>4. Confinement'
    BY <1>0, <2>1, <2>2 DEF Confinement
  <2>5. OutcomeInv' /\ SuccessMeansClean'
    BY <1>0, <2>1, <2>2 DEF OutcomeInv, SuccessMeansClean, Early
  <2> QED
    BY <2>3, <2>4, <2>5
<1> QED
  BY <1>2, <1>3, <1>4, <1>5

\* reap_available_children() keeps it and records the status of the leader.
LEMMA ReapKeepsSafety ==
  ASSUME TypeOK, SafetyInv, NEW c \in Proc, ReapChild(c)
  PROVE  SafetyInv'
<1> USE DEF SafetyInv, ReapChild
<1>1. pstate[c] = "zombie" /\ pstate' = [pstate EXCEPT ![c] = "gone"]
  BY DEF Reap, Reapable
<1>2. Running' = Running /\ c \notin Running
  BY <1>1 DEF Running, TypeOK, WorkloadTypeOK
<1>3. /\ pc = "reap"
      /\ UNCHANGED <<pc, inCgroup, leaderExit, launch, permission, cgroup,
                     workload_finished, exit_code, termination_reason>>
  BY DEF Reap
<1>4. LaunchInv'
  <2>1. c # Leader => launch = "started"
    BY <1>1 DEF LaunchInv
  <2> QED
    BY <1>1, <1>2, <1>3, <2>1 DEF LaunchInv, TypeOK, WorkloadTypeOK
<1>5. Confinement'
  BY <1>2, <1>3 DEF Confinement
<1>6. OutcomeInv' /\ SuccessMeansClean'
  BY <1>1, <1>2, <1>3 DEF OutcomeInv, SuccessMeansClean, Early, TypeOK, WorkloadTypeOK
<1> QED
  BY <1>4, <1>5, <1>6

\* The heart of the matter: an empty cgroup, or an empty tree, is the end.
LEMMA PollGoneKeepsSafety ==
  ASSUME TypeOK, SafetyInv, PollGone
  PROVE  SafetyInv'
<1> USE DEF SafetyInv, PollGone
<1>1. /\ pc = "probe" /\ pc' = "cleanup"
      /\ UNCHANGED <<pstate, inCgroup, leaderExit, launch, permission, cgroup,
                     leader_status, exit_code>>
  BY DEF workloadVars
<1>2. Running' = Running
  BY <1>1 DEF Running
<1>3. permission \/ "attach" \notin Faults => Running = {}
  <2>1. CASE cgroup = "active"
    BY <1>1, <2>1 DEF WorkloadAlive, Populated, Confinement
  <2>2. CASE cgroup # "active"
    BY <2>2 DEF WorkloadAlive, Existing, Running
  <2> QED
    BY <2>1, <2>2
<1>4. LaunchInv' /\ Confinement'
  BY <1>1, <1>2 DEF LaunchInv, Confinement, Early
<1>5. OutcomeInv' /\ SuccessMeansClean'
  BY <1>1, <1>2, <1>3 DEF OutcomeInv, SuccessMeansClean, Early
<1> QED
  BY <1>4, <1>5

\* report_child_status() returns 0 only behind a clean end.
LEMMA ReportKeepsSafety ==
  ASSUME TypeOK, SafetyInv, Report
  PROVE  SafetyInv'
<1> USE DEF SafetyInv, Report, sandbox_cgroup_destroy
<1>1. /\ pc = "report" /\ pc' = "exited"
      /\ UNCHANGED <<pstate, inCgroup, leaderExit, launch, permission,
                     leader_status, workload_finished>>
      /\ cgroup' = "active" => cgroup = "active"
  BY DEF workloadVars
<1>2. Running' = Running
  BY <1>1 DEF Running
<1>3. LaunchInv' /\ Confinement' /\ OutcomeInv'
  BY <1>1, <1>2 DEF LaunchInv, Confinement, OutcomeInv, Early
<1>4. SuccessMeansClean'
  <2> SUFFICES ASSUME exit_code' = "success"
               PROVE  /\ permission /\ leaderExit = "ok"
                      /\ Running = {}
                      /\ cgroup' = "active" => "rmdir" \in Faults
    BY <1>1, <1>2 DEF SuccessMeansClean
  <2>1. workload_finished /\ leader_status = "ok"
    BY DEF report_child_status
  <2>2. leaderExit = "ok" /\ permission
    BY <2>1 DEF OutcomeInv, LaunchInv
  <2>3. Running = {} /\ inCgroup = {}
    BY <2>1, <2>2 DEF OutcomeInv, LaunchInv
  <2> QED
    BY <2>2, <2>3 DEF Populated
<1> QED
  BY <1>3, <1>4

\* The workload cannot break it: children inherit the cgroup, and nobody is left
\* to fork once nobody runs.
LEMMA WorkloadKeepsSafety ==
  ASSUME TypeOK, SafetyInv, WorkloadMoves
  PROVE  SafetyInv'
<1> USE DEF SafetyInv
<1>0. pc # "exited" /\ exit_code = "none" /\ UNCHANGED <<mainVars, cgroup>>
  BY DEF WorkloadMoves, OutcomeInv
<1>1. UNCHANGED <<pc, termination_reason, leader_status, workload_finished, exit_code>>
  BY <1>0 DEF mainVars
<1>2. ASSUME UNCHANGED <<pstate, inCgroup, leaderExit, permission>>,
             launch' = launch \/ (launch' = "started" /\ permission)
                              \/ (launch' = "gated" /\ launch = "setup")
      PROVE  SafetyInv'
  <2>1. Running' = Running
    BY <1>2 DEF Running
  <2> QED
    BY <1>0, <1>1, <1>2, <2>1
       DEF LaunchInv, Confinement, OutcomeInv, SuccessMeansClean
<1>3. ASSUME NEW p \in Proc, NEW c \in Proc, Fork(p, c)
      PROVE  SafetyInv'
  <2>1. /\ p \in Running /\ launch = "started" /\ pstate[c] = "unborn"
        /\ pstate' = [pstate EXCEPT ![c] = "running"]
        /\ UNCHANGED <<leaderExit, launch, permission>>
    BY <1>3 DEF Fork, Active, Unborn
  <2>2. Running' = Running \cup {c}
    BY <2>1 DEF Running, TypeOK, WorkloadTypeOK
  <2>3. Running # {} /\ permission
    BY <2>1 DEF LaunchInv
  <2>4. inCgroup' = inCgroup \cup (IF p \in inCgroup THEN {c} ELSE {})
    BY <1>3 DEF Fork
  <2>5. LaunchInv'
    BY <1>1, <2>1, <2>2, <2>3, <2>4 DEF LaunchInv, Early
  <2>6. Confinement'
    BY <1>0, <1>1, <2>1, <2>2, <2>3, <2>4 DEF Confinement
  <2>7. OutcomeInv' /\ SuccessMeansClean'
    <3>1. leader_status # "none" => c # Leader
      BY <2>1 DEF OutcomeInv
    <3> QED
      BY <1>0, <1>1, <2>1, <2>2, <2>3, <3>1
         DEF OutcomeInv, SuccessMeansClean, TypeOK, WorkloadTypeOK
  <2> QED
    BY <2>5, <2>6, <2>7
<1>4. ASSUME NEW p \in Proc, NEW how \in ExitStatus, BecomesZombie(p, how),
             how = "ok" => launch = "started"
      PROVE  SafetyInv'
  <2>1. /\ p \in Running /\ pstate' = [pstate EXCEPT ![p] = "zombie"]
        /\ inCgroup' = inCgroup \ {p}
        /\ leaderExit' = IF p = Leader THEN how ELSE leaderExit
        /\ UNCHANGED <<launch, permission>>
    BY <1>4 DEF BecomesZombie
  <2>2. Running' = Running \ {p}
    BY <2>1 DEF Running, TypeOK, WorkloadTypeOK
  <2>3. LaunchInv'
    <3>1. p # Leader => launch = "started"
      BY <2>1 DEF LaunchInv, Running
    <3>2. pc # "prepare"
      BY <2>1, <3>1 DEF LaunchInv, Running, Early
    <3> QED
      BY <1>1, <1>4, <2>1, <2>2, <3>1, <3>2 DEF LaunchInv, TypeOK, WorkloadTypeOK
  <2>4. Confinement'
    BY <1>0, <1>1, <2>1, <2>2 DEF Confinement
  <2>5. OutcomeInv' /\ SuccessMeansClean'
    BY <1>0, <1>1, <2>1, <2>2
       DEF OutcomeInv, SuccessMeansClean, Running, TypeOK, WorkloadTypeOK
  <2> QED
    BY <2>3, <2>4, <2>5
<1>5. ASSUME NEW p \in Proc, NEW c \in Proc, WaitChild(p, c)
      PROVE  SafetyInv'
  <2>1. /\ pstate[c] = "zombie" /\ pstate' = [pstate EXCEPT ![c] = "gone"]
        /\ UNCHANGED <<inCgroup, leaderExit, launch, permission>>
    BY <1>5 DEF WaitChild, Reap, Reapable
  <2>2. Running' = Running
    BY <2>1 DEF Running, TypeOK, WorkloadTypeOK
  <2>3. LaunchInv'
    <3>1. c # Leader => launch = "started"
      BY <2>1 DEF LaunchInv
    <3> QED
      BY <1>1, <2>1, <2>2, <3>1 DEF LaunchInv, TypeOK, WorkloadTypeOK
  <2>4. Confinement' /\ OutcomeInv' /\ SuccessMeansClean'
    BY <1>0, <1>1, <2>1, <2>2
       DEF Confinement, OutcomeInv, SuccessMeansClean, TypeOK, WorkloadTypeOK
  <2> QED
    BY <2>3, <2>4
<1>6. WorkloadStep
  BY DEF WorkloadMoves
<1>7. CASE LeaderReachesGate \/ LeaderStarts \/ \E p \in Proc : LeaveGroup(p) \/ IgnoreTerm(p)
  BY <1>2, <1>7 DEF LeaderReachesGate, LeaderStarts, LeaveGroup, IgnoreTerm
<1>8. CASE \E p \in Proc, how \in ExitStatus : Exit(p, how)
  BY <1>4, <1>8 DEF Exit
<1>9. CASE \E p \in Proc : Die(p)
  BY <1>4, <1>9 DEF Die, ExitStatus
<1> QED
  BY <1>3, <1>5, <1>6, <1>7, <1>8, <1>9 DEF WorkloadStep

\* The safety invariant is inductive.
LEMMA SafetyNext == TypeOK /\ SafetyInv /\ [Next]_vars => SafetyInv'
<1> SUFFICES ASSUME TypeOK, SafetyInv, [Next]_vars PROVE SafetyInv'
  OBVIOUS
<1>1. CASE MainStep
  <2>1. CASE LateStep
    BY <2>1, LateStepFootprint, FootprintKeepsSafety
  <2>2. CASE ~LateStep
    BY <1>1, <2>2, LaunchKeepsSafety, ReapKeepsSafety, PollGoneKeepsSafety,
       ReportKeepsSafety DEF MainStep, LateStep
  <2> QED
    BY <2>1, <2>2
<1>2. CASE \/ \E m \in Monitors : ThreadStep(m)
           \/ DeadlinePasses \/ OperatorSignal \/ Done \/ UNCHANGED vars
  BY <1>2, SameMainKeepsSafety
     DEF ThreadStep, DeadlinePasses, OperatorSignal, Done, vars
<1>3. CASE WorkloadMoves
  BY <1>3, WorkloadKeepsSafety
<1> QED
  BY <1>1, <1>2, <1>3 DEF Next

\* Every state of the controller satisfies the safety invariant: who runs is
\* confined, and workload_finished and leader_status mean what they say.
THEOREM SafetyInvariant == Spec => [](TypeOK /\ SafetyInv)
<1>1. Init => TypeOK /\ CtxInv /\ SafetyInv
  BY InitType, SafetyInit
<1>2. TypeOK /\ CtxInv /\ SafetyInv /\ [Next]_vars => (TypeOK /\ CtxInv /\ SafetyInv)'
  BY TypeNext, SafetyNext
<1> QED
  BY <1>1, <1>2, PTL DEF Spec

\* Whatever fails, the controller returns 0 only for a leader that exited with
\* code 0 behind the gate, with nobody left running, and the cgroup removed unless
\* rmdir() itself failed.
THEOREM SuccessIsClean == Spec => []SuccessMeansClean
<1>1. TypeOK /\ SafetyInv => SuccessMeansClean
  BY DEF SafetyInv
<1> QED
  BY <1>1, SafetyInvariant, PTL

\* Whatever fails, target code runs only inside the cgroup when there is one.
THEOREM WorkloadIsConfined == Spec => []MembersConfined
<1>1. TypeOK /\ SafetyInv => MembersConfined
  BY DEF SafetyInv, MembersConfined, Confinement, LaunchInv
<1> QED
  BY <1>1, SafetyInvariant, PTL

\* If the leader can be put into the cgroup, then workload_finished means that
\* nobody runs, with a cgroup and without, whatever else fails.
THEOREM FinishedIsGone ==
  ASSUME "attach" \notin Faults PROVE Spec => []FinishedMeansGone
<1>1. TypeOK /\ SafetyInv => FinishedMeansGone
  BY DEF SafetyInv, OutcomeInv, FinishedMeansGone
<1> QED
  BY <1>1, SafetyInvariant, PTL

-----------------------------------------------------------------------------
(* What the workload does by itself.                                       *)

\* What a step of the workload by itself can do to a process that runs or has
\* run: nobody comes back to life, a doomed process stays doomed until it is
\* dead, nobody joins the leader's group but the leader on its way to the gate.
WorkloadEffect ==
  /\ TreeInv' /\ Running # {}
  /\ \A p \in Proc : pstate[p] \in {"zombie", "gone"} => pstate'[p] \in {"zombie", "gone"}
  /\ \A p \in Running' \ Running : pstate[p] = "unborn"
  /\ \A p \in Running' : p \in doomed => p \in doomed'
  /\ \A p \in Running' : p \in group' =>
       \/ p \in group \/ pstate[p] = "unborn"
       \/ p = Leader /\ launch = "setup"

LEMMA WorkloadHasEffect ==
  ASSUME TreeInv, WorkloadStep
  PROVE  WorkloadEffect
<1>1. ASSUME UNCHANGED <<pstate, parent, doomed>>, WorkloadTypeOK', Running # {},
             group' \subseteq group \/ (launch = "setup" /\ group' \subseteq group \cup {Leader})
      PROVE  WorkloadEffect
  <2>1. Existing' = Existing /\ Running' = Running
    BY <1>1 DEF Existing, Running
  <2>2. TreeInv'
    BY <1>1, <2>1 DEF TreeInv
  <2> QED
    BY <1>1, <2>1, <2>2 DEF WorkloadEffect
<1>2. WorkloadTypeOK'
  BY WorkloadStepType DEF TreeInv
<1>3. CASE LeaderReachesGate \/ LeaderStarts \/ \E p \in Proc : LeaveGroup(p) \/ IgnoreTerm(p)
  BY <1>1, <1>2, <1>3 DEF LeaderReachesGate, LeaderStarts, LeaveGroup, IgnoreTerm, Active
<1>4. ASSUME NEW p \in Proc, NEW c \in Proc, Fork(p, c)
      PROVE  WorkloadEffect
  <2>1. TreeInv' /\ Running' = Running \cup {c}
    BY <1>4, ForkKeepsTree
  <2>2. /\ pstate[c] = "unborn" /\ p \in Running
        /\ pstate' = [pstate EXCEPT ![c] = "running"]
        /\ doomed' = doomed /\ group' \subseteq group \cup {c}
    BY <1>4 DEF Fork, Active, Unborn
  <2>3. \A q \in Proc : pstate[q] \in {"zombie", "gone"} => pstate'[q] \in {"zombie", "gone"}
    BY <2>2 DEF TreeInv, WorkloadTypeOK
  <2> QED
    BY <2>1, <2>2, <2>3 DEF WorkloadEffect
<1>5. ASSUME NEW p \in Proc, NEW how \in ExitStatus, BecomesZombie(p, how)
      PROVE  WorkloadEffect
  <2>1. TreeInv' /\ Running' = Running \ {p}
    BY <1>5, ExitKeepsTree
  <2>2. /\ pstate' = [pstate EXCEPT ![p] = "zombie"]
        /\ doomed' = doomed \ {p} /\ group' = group /\ p \in Running
    BY <1>5 DEF BecomesZombie
  <2>3. \A q \in Proc : pstate[q] \in {"zombie", "gone"} => pstate'[q] \in {"zombie", "gone"}
    BY <2>2 DEF TreeInv, WorkloadTypeOK
  <2> QED
    BY <2>1, <2>2, <2>3 DEF WorkloadEffect
<1>6. ASSUME NEW p \in Proc, NEW c \in Proc, WaitChild(p, c)
      PROVE  WorkloadEffect
  <2>1. Reap(p, c)
    BY <1>6 DEF WaitChild
  <2>2. TreeInv' /\ Running' = Running /\ pstate' = [pstate EXCEPT ![c] = "gone"]
    BY <2>1, ReapKeepsTree
  <2>3. doomed' = doomed /\ group' \subseteq group /\ p \in Running
    BY <1>6, <2>1 DEF Reap, WaitChild, Active
  <2>4. \A q \in Proc : pstate[q] \in {"zombie", "gone"} => pstate'[q] \in {"zombie", "gone"}
    BY <2>2 DEF TreeInv, WorkloadTypeOK
  <2> QED
    BY <2>2, <2>3, <2>4 DEF WorkloadEffect
<1>7. CASE \E p \in Proc, how \in ExitStatus : Exit(p, how)
  BY <1>5, <1>7 DEF Exit
<1>8. CASE \E p \in Proc : Die(p)
  BY <1>5, <1>8 DEF Die, ExitStatus
<1> QED
  BY <1>3, <1>4, <1>6, <1>7, <1>8 DEF WorkloadStep

-----------------------------------------------------------------------------
(* The status is collected.                                                *)

\* Without a cgroup: the leader has no parent but the controller, so that only
\* reap_available_children() can take its status, and an empty tree has been
\* reaped to the last process.
CollectedInv ==
  /\ cgroup = "none"
  /\ parent[Leader] = Controller
  /\ pstate[Leader] = "unborn" =>
       /\ Existing = {} /\ ~workload_finished
       /\ pc \in {"prepare", "cleanup", "join", "report", "exited"}
  /\ pstate[Leader] = "gone" => leader_status = leaderExit
  /\ workload_finished => Existing = {}

LEMMA CollectedInit == Init => CollectedInv
BY LeaderProc DEF Init, WorkloadInit, MonitorInit, CollectedInv, Existing

LEMMA CollectedNext ==
  ASSUME "active" \notin CgroupModes, TypeOK, SafetyInv, CollectedInv, [Next]_vars
  PROVE  CollectedInv'
<1> USE DEF CollectedInv
<1>1. ASSUME UNCHANGED <<cgroup, pstate, parent, leader_status, leaderExit, workload_finished>>,
             pstate[Leader] = "unborn" => pc' \in {"prepare", "cleanup", "join", "report", "exited"}
      PROVE  CollectedInv'
  BY <1>1 DEF Existing
<1>2. CASE Prepare
  <2>1. cgroup' = "none"
    BY <1>2, CgroupModesAssumption DEF Prepare, sandbox_cgroup_prepare
  <2>2. pstate[Leader] = "unborn" /\ ~workload_finished
    BY <1>2 DEF Prepare, SafetyInv, LaunchInv, OutcomeInv, Early
  <2>3. CASE ForkLeader /\ Goto("setup")
    <3>1. pstate'[Leader] = "running" /\ parent' = parent /\ ~workload_finished'
      BY <2>2, <2>3, LeaderProc DEF ForkLeader, Goto, TypeOK, WorkloadTypeOK
    <3> QED
      BY <2>1, <3>1
  <2>4. CASE UNCHANGED workloadVars /\ Goto("cleanup")
    BY <2>1, <2>4 DEF workloadVars, Goto, Existing
  <2> QED
    BY <1>2, <2>3, <2>4 DEF Prepare
<1>3. CASE SetWorkload \/ Attach \/ Release
  BY <1>1, <1>3 DEF SetWorkload, Attach, Release, Goto, GotoWithReason
<1>4. ASSUME NEW c \in Proc, ReapChild(c)
      PROVE  CollectedInv'
  <2>1. /\ c \in Existing /\ pstate[c] = "zombie" /\ pc = "reap"
        /\ pstate' = [pstate EXCEPT ![c] = "gone"]
        /\ parent' = [parent EXCEPT ![c] = Controller]
        /\ UNCHANGED <<leaderExit, cgroup, pc, workload_finished>>
        /\ leader_status' = IF c = Leader THEN leaderExit ELSE leader_status
    BY <1>4 DEF ReapChild, Reap, Reapable, ChildrenOf
  <2>2. ~workload_finished /\ pstate[Leader] # "unborn"
    BY <2>1
  <2>3. parent'[Leader] = Controller
    BY <2>1, LeaderProc DEF TypeOK, WorkloadTypeOK
  <2>4. pstate'[Leader] # "unborn" /\ (pstate'[Leader] = "gone" => leader_status' = leaderExit)
    BY <2>1, <2>2, LeaderProc DEF TypeOK, WorkloadTypeOK
  <2> QED
    BY <2>1, <2>2, <2>3, <2>4
<1>5. CASE PollGone
  <2>1. Existing = {} /\ pc = "probe"
    BY <1>5 DEF PollGone, WorkloadAlive
  <2>2. UNCHANGED <<pstate, parent, leaderExit, cgroup, leader_status>>
    BY <1>5 DEF PollGone, workloadVars
  <2>3. Existing' = Existing /\ pstate[Leader] # "unborn"
    BY <2>1, <2>2 DEF Existing
  <2> QED
    BY <2>1, <2>2, <2>3
<1>6. CASE Report
  <2>1. /\ cgroup' = "none" /\ pc' = "exited"
        /\ UNCHANGED <<pstate, parent, leaderExit, leader_status, workload_finished>>
    BY <1>6 DEF Report, sandbox_cgroup_destroy, workloadVars
  <2> QED
    BY <2>1 DEF Existing
<1>7. CASE LateStep
  <2>1. UNCHANGED <<cgroup, pstate, leader_status, leaderExit, workload_finished>>
    BY <1>7, LateStepFootprint DEF LateFootprint
  <2>2. parent' = parent
    BY <1>7 DEF LateStep, Spawn, Dispatch, Supervise, ReapDone, PollAlive, PollError, Snapshot,
                SignalCgroup, sandbox_cgroup_kill, SignalGroup, SignalScan, SignalEach, Signal,
                Cleanup, Join, workloadVars
  <2>3. ASSUME pstate[Leader] = "unborn"
        PROVE  pc' \in {"prepare", "cleanup", "join", "report", "exited"}
    <3>1. pc \in {"prepare", "cleanup", "join", "report", "exited"}
      BY <2>3
    <3>2. CASE Cleanup \/ Join
      BY <2>3, <3>2 DEF Cleanup, Join, Goto, child_started
    <3>3. CASE ~(Cleanup \/ Join)
      BY <1>7, <3>1, <3>3
         DEF LateStep, Spawn, Dispatch, Supervise, ReapDone, PollAlive, PollError, Snapshot,
             SignalCgroup, SignalGroup, SignalScan, SignalEach
    <3> QED
      BY <3>2, <3>3
  <2> QED
    BY <1>1, <2>1, <2>2, <2>3
<1>8. CASE \/ \E m \in Monitors : ThreadStep(m)
           \/ DeadlinePasses \/ OperatorSignal \/ Done \/ UNCHANGED vars
  <2>1. UNCHANGED <<workloadVars, mainVars, cgroup>>
    BY <1>8 DEF ThreadStep, DeadlinePasses, OperatorSignal, Done, vars
  <2> QED
    BY <1>1, <2>1 DEF workloadVars, mainVars
<1>9. CASE WorkloadMoves
  <2>1. WorkloadStep /\ UNCHANGED <<cgroup, pc, leader_status, workload_finished>>
    BY <1>9 DEF WorkloadMoves, mainVars
  <2>2. CASE LeaderReachesGate \/ LeaderStarts \/ \E p \in Proc : LeaveGroup(p) \/ IgnoreTerm(p)
    BY <1>1, <2>1, <2>2 DEF LeaderReachesGate, LeaderStarts, LeaveGroup, IgnoreTerm
  <2>3. ASSUME NEW p \in Proc, NEW c \in Proc, Fork(p, c)
        PROVE  CollectedInv'
    <3>1. /\ p \in Running /\ pstate[c] = "unborn"
          /\ pstate' = [pstate EXCEPT ![c] = "running"]
          /\ parent' = [parent EXCEPT ![c] = p] /\ leaderExit' = leaderExit
      BY <2>3 DEF Fork, Active, Unborn
    <3>2. p \in Existing
      BY <3>1 DEF Running, Existing
    <3>3. pstate[Leader] # "unborn" /\ ~workload_finished
      BY <3>2
    <3>4. pstate'[Leader] = pstate[Leader] /\ parent'[Leader] = parent[Leader]
      BY <3>1, <3>3, LeaderProc DEF TypeOK, WorkloadTypeOK
    <3> QED
      BY <2>1, <3>1, <3>3, <3>4
  <2>4. ASSUME NEW p \in Proc, NEW how \in ExitStatus, BecomesZombie(p, how)
        PROVE  CollectedInv'
    <3>1. /\ p \in Running /\ pstate' = [pstate EXCEPT ![p] = "zombie"]
          /\ parent' = [c \in Proc |-> IF parent[c] = p THEN Controller ELSE parent[c]]
          /\ leaderExit' = IF p = Leader THEN how ELSE leaderExit
      BY <2>4 DEF BecomesZombie
    <3>2. p \in Existing
      BY <3>1 DEF Running, Existing
    <3>3. pstate[Leader] # "unborn" /\ ~workload_finished
      BY <3>2
    <3>4. /\ parent'[Leader] = Controller
          /\ pstate'[Leader] = IF p = Leader THEN "zombie" ELSE pstate[Leader]
      BY <3>1, LeaderProc DEF TypeOK, WorkloadTypeOK
    <3> QED
      BY <2>1, <3>1, <3>3, <3>4
  <2>5. ASSUME NEW p \in Proc, NEW c \in Proc, WaitChild(p, c)
        PROVE  CollectedInv'
    <3>1. /\ c \in Existing /\ parent[c] = p /\ leaderExit' = leaderExit
          /\ pstate' = [pstate EXCEPT ![c] = "gone"]
          /\ parent' = [parent EXCEPT ![c] = Controller]
      BY <2>5 DEF WaitChild, Reap, Reapable, ChildrenOf
    <3>2. c # Leader
      BY <3>1 DEF Controller, Proc
    <3>3. pstate[Leader] # "unborn" /\ ~workload_finished
      BY <3>1
    <3>4. pstate'[Leader] = pstate[Leader] /\ parent'[Leader] = Controller
      BY <3>1, <3>2, LeaderProc DEF TypeOK, WorkloadTypeOK
    <3> QED
      BY <2>1, <3>1, <3>3, <3>4
  <2> QED
    BY <2>1, <2>2, <2>3, <2>4, <2>5 DEF WorkloadStep, Exit, Die, ExitStatus
<1> QED
  BY <1>2, <1>3, <1>4, <1>5, <1>6, <1>7, <1>8, <1>9 DEF Next, MainStep, LateStep

\* Without a cgroup, whatever fails, the end of the workload is reported only
\* when the whole tree has been reaped and the leader's status is known.  With
\* one, cgroup.events may say so before the leader has been waited for: the run
\* cgroup_lost_status.
THEOREM FinishedIsCollected ==
  ASSUME "active" \notin CgroupModes PROVE Spec => []FinishedMeansCollected
<1>1. Init => TypeOK /\ CtxInv /\ SafetyInv /\ CollectedInv
  BY InitType, SafetyInit, CollectedInit
<1>2. TypeOK /\ CtxInv /\ SafetyInv /\ CollectedInv /\ [Next]_vars
        => (TypeOK /\ CtxInv /\ SafetyInv /\ CollectedInv)'
  BY TypeNext, SafetyNext, CollectedNext
<1>3. TypeOK /\ CollectedInv => FinishedMeansCollected
  <2> SUFFICES ASSUME TypeOK, CollectedInv, workload_finished
               PROVE  Existing = {} /\ leader_status = leaderExit
    BY DEF FinishedMeansCollected
  <2>1. pstate[Leader] \in PState /\ pstate[Leader] # "unborn" /\ Leader \notin Existing
    BY LeaderProc DEF CollectedInv, TypeOK, WorkloadTypeOK
  <2>2. pstate[Leader] = "gone"
    BY <2>1, LeaderProc DEF PState, Existing
  <2> QED
    BY <2>2 DEF CollectedInv
<1> QED
  BY <1>1, <1>2, <1>3, PTL DEF Spec

-----------------------------------------------------------------------------
(* Nobody is left running.                                                 *)

\* The assumptions of ExitMeansGone: what is killed dies within a poll
\* interval, the controller can see the workload, and there are as many rounds
\* of SIGKILL as the workload makes processes.
CanKill ==
  /\ PromptDeath /\ KillRounds >= MaxProcs
  /\ {"attach", "sample", "cgroup_read"} \cap Faults = {}

\* The first k processes are dead for good, or nobody runs any more.
Dead(k) == Running = {} \/ \A p \in Proc : p <= k => pstate[p] \in {"zombie", "gone"}

\* Before the gate nobody but the leader can be in its group, and a group that
\* could be signalled as a whole had it in it.
GroupInv ==
  /\ launch # "started" => group \subseteq {Leader}
  /\ pc = "sig_scan" /\ group_signalled /\ launch # "started" =>
       Leader \in group \/ Leader \notin Running

\* In the last wait of terminate_workload() every round adds one to the dead:
\* the oldest process that still runs is a root, so the group or the sample
\* has it and SIGKILL reaches it before the round ends.
RoundInv ==
  ctx = "force" =>
    /\ Dead(waited)
    /\ pc = "sig_scan" /\ waited + 1 \in Running =>
         \/ waited + 1 \in doomed
         \/ waited + 1 \in toSignal /\ ~(group_signalled /\ waited + 1 \in group)
    /\ pc = "sig_each" /\ waited + 1 \in Running => waited + 1 \in doomed \cup toSignal

\* Nobody runs before the launch and after the last termination.
EndInv ==
  /\ pc \in {"prepare", "cleanup", "join", "report", "exited"} => Running = {}
  /\ pc = "prepare" => parent[Leader] = Controller

KillInv == TreeInv /\ GroupInv /\ RoundInv /\ EndInv

LEMMA KillInit == Init => KillInv
<1> SUFFICES ASSUME Init
             PROVE  KillInv
  OBVIOUS
<1>1. Existing = {} /\ Running = {} /\ WorkloadTypeOK
  BY InitType DEF Init, WorkloadInit, Existing, Running, TypeOK
<1>2. TreeInv
  BY <1>1 DEF Init, WorkloadInit, TreeInv
<1> QED
  BY <1>1, <1>2, LeaderProc DEF KillInv, GroupInv, RoundInv, EndInv, Init, WorkloadInit

\* Processes are born in order: behind the dead the next one has been born.
LEMMA NextIsBorn ==
  ASSUME TreeInv, NEW k \in Nat, Dead(k), Running # {}, k + 1 \in Proc
  PROVE  pstate[k + 1] # "unborn"
<1>1. PICK q \in Proc : pstate[q] = "running"
  BY DEF Running
<1>2. q > k
  BY <1>1 DEF Dead, Proc
<1> QED
  BY <1>1, <1>2 DEF TreeInv, Proc

\* It has no parent but the controller.
LEMMA NextIsRoot ==
  ASSUME TreeInv, NEW k \in Nat, Dead(k), k + 1 \in Running
  PROVE  k + 1 \in Roots
<1>1. k + 1 \in Existing /\ k + 1 \in Proc
  BY DEF Running, Existing
<1>2. ASSUME NEW q \in Running, q < k + 1
      PROVE  FALSE
  <2>1. q \in Proc /\ pstate[q] = "running" /\ q <= k
    BY <1>2 DEF Running, Proc
  <2> QED
    BY <1>2, <2>1 DEF Dead
<1>3. parent[k + 1] = Controller
  BY <1>1, <1>2 DEF TreeInv
<1> QED
  BY <1>1, <1>3 DEF Roots, ChildrenOf

\* When it does not run any more, there is one more.
LEMMA OneMoreDead ==
  ASSUME TreeInv, NEW k \in Nat, Dead(k), k + 1 \notin Running
  PROVE  Dead(k + 1)
<1> SUFFICES ASSUME Running # {}, NEW p \in Proc, p <= k + 1
             PROVE  pstate[p] \in {"zombie", "gone"}
  BY DEF Dead
<1>1. CASE p <= k
  BY <1>1 DEF Dead
<1>2. CASE p = k + 1
  <2>1. pstate[p] \in PState
    BY DEF TreeInv, WorkloadTypeOK
  <2> QED
    BY <1>2, <2>1, NextIsBorn DEF Running, PState
<1> QED
  BY <1>1, <1>2 DEF Proc

LEMMA WorkloadKeepsKill ==
  ASSUME TypeOK, KillInv, WorkloadStep, UNCHANGED mainVars
  PROVE  KillInv'
<1>0. WorkloadEffect
  BY WorkloadHasEffect DEF KillInv
<1>1. UNCHANGED <<pc, ctx, waited, toSignal, group_signalled>> /\ waited \in Nat
  BY RoundsAssumption DEF mainVars, TypeOK, MainTypeOK
<1>2. Running = {} => Running' = {}
  BY <1>0 DEF WorkloadEffect
<1>3. ASSUME Dead(waited)
      PROVE  Dead(waited)'
  <2>1. CASE Running = {}
    BY <1>1, <1>2, <2>1 DEF Dead
  <2>2. CASE Running # {}
    BY <1>0, <1>1, <1>3, <2>2 DEF Dead, WorkloadEffect
  <2> QED
    BY <2>1, <2>2
<1>4. GroupInv'
  <2>1. launch' # "started" => launch # "started"
    BY DEF WorkloadStep, LeaderReachesGate, LeaderStarts, Fork, LeaveGroup, IgnoreTerm, Exit, Die,
           BecomesZombie, WaitChild, Reap
  <2>2. ASSUME launch # "started", launch' # "started"
        PROVE  /\ group' \subseteq group \cup {Leader}
               /\ Leader \in group /\ Leader \in Running' => Leader \in group'
    <3>1. CASE LeaderReachesGate
      BY <3>1 DEF LeaderReachesGate
    <3>2. CASE \E p \in Proc, how \in ExitStatus : Exit(p, how)
      BY <3>2 DEF Exit, BecomesZombie
    <3>3. CASE \E p \in Proc : Die(p)
      BY <3>3 DEF Die, BecomesZombie
    <3>4. ASSUME NEW p \in Proc, NEW c \in Proc, WaitChild(p, c)
          PROVE  /\ group' \subseteq group \cup {Leader}
                 /\ Leader \in group /\ Leader \in Running' => Leader \in group'
      <4>1. group' = group \ {c} /\ c \notin Running'
        BY <3>4 DEF WaitChild, Reap, Running, TypeOK, WorkloadTypeOK
      <4> QED
        BY <4>1
    <3> QED
      BY <2>2, <3>1, <3>2, <3>3, <3>4 DEF WorkloadStep, LeaderStarts, Fork, LeaveGroup, IgnoreTerm
  <2>3. Leader \notin Running => Leader \notin Running'
    <3> SUFFICES ASSUME Leader \in Running' \ Running
                 PROVE  FALSE
      OBVIOUS
    <3>1. pstate[Leader] = "unborn" /\ Running # {}
      BY <1>0 DEF WorkloadEffect
    <3>2. PICK q \in Proc : pstate[q] = "running"
      BY <3>1 DEF Running
    <3>3. Leader < q
      BY <3>1, <3>2 DEF Leader, Proc
    <3> QED
      BY <3>1, <3>2, <3>3, LeaderProc DEF KillInv, TreeInv
  <2> QED
    BY <1>1, <2>1, <2>2, <2>3 DEF KillInv, GroupInv
<1>5. ASSUME ctx = "force", waited + 1 \in Running'
      PROVE  waited + 1 \in Running
  <2> SUFFICES ASSUME waited + 1 \notin Running
               PROVE  FALSE
    OBVIOUS
  <2>1. pstate[waited + 1] = "unborn" /\ Running # {} /\ waited + 1 \in Proc
    BY <1>0, <1>5 DEF WorkloadEffect, Running
  <2> QED
    BY <1>1, <1>5, <2>1, NextIsBorn DEF KillInv, RoundInv
<1>6. ASSUME ctx = "force", pc = "sig_scan", waited + 1 \in Running'
      PROVE  \/ waited + 1 \in doomed'
             \/ waited + 1 \in toSignal /\ ~(group_signalled /\ waited + 1 \in group')
  <2>1. waited + 1 \in Running /\ pstate[waited + 1] = "running"
    BY <1>5, <1>6 DEF Running
  <2>2. CASE waited + 1 \in doomed
    BY <1>0, <1>6, <2>2 DEF WorkloadEffect
  <2>3. CASE waited + 1 \in toSignal /\ ~(group_signalled /\ waited + 1 \in group)
    <3> SUFFICES ASSUME group_signalled, waited + 1 \in group'
                 PROVE  FALSE
      BY <2>3
    <3>1. waited + 1 = Leader /\ launch = "setup"
      BY <1>0, <1>6, <2>1, <2>3 DEF WorkloadEffect
    <3> QED
      BY <1>6, <2>1, <2>3, <3>1 DEF KillInv, GroupInv
  <2> QED
    BY <1>6, <2>1, <2>2, <2>3 DEF KillInv, RoundInv
<1>7. ASSUME ctx = "force", pc = "sig_each", waited + 1 \in Running'
      PROVE  waited + 1 \in doomed' \cup toSignal
  <2>1. waited + 1 \in doomed \cup toSignal
    BY <1>5, <1>7 DEF KillInv, RoundInv
  <2> QED
    BY <1>0, <1>7, <2>1 DEF WorkloadEffect
<1>8. RoundInv'
  BY <1>1, <1>3, <1>6, <1>7 DEF KillInv, RoundInv
<1>9. TreeInv' /\ EndInv'
  BY <1>0, <1>1, <1>2 DEF WorkloadEffect, KillInv, EndInv
<1> QED
  BY <1>4, <1>8, <1>9 DEF KillInv

\* Steps of the main thread that leave the processes alone, in terms of where
\* they lead.
LEMMA SameProcesses ==
  ASSUME KillInv, UNCHANGED <<pstate, parent, group, doomed, launch>>, WorkloadTypeOK',
         pc' \notin {"prepare", "sig_scan", "sig_each"},
         ctx' = "force" => ctx = "force" /\ waited' = waited,
         pc' \in {"cleanup", "join", "report", "exited"} => Running = {}
  PROVE  KillInv'
<1>1. Running' = Running /\ Existing' = Existing
  BY DEF Running, Existing
<1>2. TreeInv'
  BY <1>1 DEF KillInv, TreeInv
<1>3. Dead(waited) /\ waited' = waited => Dead(waited)'
  BY <1>1 DEF Dead
<1> QED
  BY <1>1, <1>2, <1>3 DEF KillInv, GroupInv, RoundInv, EndInv

\* A signal only dooms.
LEMMA SignalKeepsTree ==
  ASSUME KillInv, NEW sig, NEW S, Signal(sig, S), WorkloadTypeOK'
  PROVE  /\ TreeInv' /\ Running' = Running /\ Existing' = Existing
         /\ doomed \subseteq doomed' /\ group' = group /\ launch' = launch
         /\ sig = "SIGKILL" => S \cap Running \subseteq doomed'
         /\ \A k : Dead(k) => Dead(k)'
<1>1. UNCHANGED <<pstate, parent, group, launch>> /\ doomed' = doomed \cup Killed(sig, S)
  BY DEF Signal
<1>2. Running' = Running /\ Existing' = Existing
  BY <1>1 DEF Running, Existing
<1>3. TreeInv'
  BY <1>1, <1>2 DEF KillInv, TreeInv
<1>4. \A k : Dead(k) => Dead(k)'
  BY <1>1, <1>2 DEF Dead
<1> QED
  BY <1>1, <1>2, <1>3, <1>4 DEF Killed

LEMMA MainKeepsKill ==
  ASSUME CanKill, TypeOK, TypeOK', CtxInv, SafetyInv, SafetyInv', KillInv, MainStep
  PROVE  KillInv'
<1>0. WorkloadTypeOK' /\ waited \in Nat /\ attempt \in Nat
  BY RoundsAssumption DEF TypeOK, MainTypeOK
<1>1. CASE Prepare
  <2>1. pstate[Leader] = "unborn" /\ launch # "started" /\ ctx = "supervise"
    BY <1>1 DEF Prepare, SafetyInv, LaunchInv, Early, CtxInv
  <2>2. Running = {} /\ parent[Leader] = Controller
    BY <1>1 DEF Prepare, KillInv, EndInv
  <2>3. ctx' = "supervise"
    BY <1>1, <2>1 DEF Prepare, Goto
  <2>4. CASE ForkLeader /\ Goto("setup")
    <3>1. /\ pstate' = [pstate EXCEPT ![Leader] = "running"]
          /\ UNCHANGED <<parent, group, launch>> /\ pc' = "setup"
      BY <2>4 DEF ForkLeader, Goto
    <3>2. \A p \in Proc : pstate[p] = "unborn"
      BY <2>1 DEF SafetyInv, LaunchInv
    <3>3. \A p \in Proc : pstate'[p] = IF p = Leader THEN "running" ELSE "unborn"
      BY <3>1, <3>2 DEF TypeOK, WorkloadTypeOK
    <3>4. Existing' = {Leader}
      BY <3>3, LeaderProc DEF Existing
    <3>5. \A p, q \in Proc : p < q /\ pstate'[p] = "unborn" => pstate'[q] = "unborn"
      BY <3>3 DEF Leader, Proc
    <3>6. TreeInv'
      BY <1>0, <2>2, <3>1, <3>4, <3>5 DEF TreeInv
    <3>7. GroupInv'
      BY <3>1 DEF KillInv, GroupInv
    <3> QED
      BY <2>3, <3>1, <3>6, <3>7 DEF KillInv, RoundInv, EndInv
  <2>5. CASE UNCHANGED workloadVars /\ Goto("cleanup")
    BY <1>0, <2>2, <2>3, <2>5, SameProcesses DEF workloadVars, Goto
  <2> QED
    BY <1>1, <2>4, <2>5 DEF Prepare
<1>2. CASE SetWorkload
  <2>1. /\ pc = "setup" /\ pc' = "attach" /\ ctx' = ctx /\ ctx = "supervise"
        /\ UNCHANGED <<pstate, parent, doomed, launch>> /\ group' \subseteq group \cup {Leader}
    BY <1>2 DEF SetWorkload, Goto, GotoWithReason, CtxInv, Early
  <2>2. Existing' = Existing /\ Running' = Running
    BY <2>1 DEF Existing, Running
  <2>3. TreeInv'
    BY <1>0, <2>1, <2>2 DEF KillInv, TreeInv
  <2> QED
    BY <2>1, <2>3 DEF KillInv, GroupInv, RoundInv, EndInv
<1>3. CASE Attach \/ Release
  BY <1>0, <1>3, SameProcesses DEF Attach, Release, Goto, GotoWithReason
<1>4. ASSUME NEW m, NEW here, NEW next, Spawn(m, here, next),
             next \in {"spawn_memory", "spawn_cpu", "dispatch"}
      PROVE  KillInv'
  BY <1>0, <1>4, SameProcesses DEF Spawn, Goto, workloadVars
<1>5. CASE Dispatch \/ Supervise \/ Snapshot
  BY <1>0, <1>5, SameProcesses DEF Dispatch, Supervise, Snapshot, Goto, BeginTerminate, workloadVars
<1>6. ASSUME NEW c \in Proc, ReapChild(c)
      PROVE  KillInv'
  <2>1. Reap(Controller, c) /\ pc = "reap" /\ pc' = pc /\ ctx' = ctx /\ waited' = waited
    BY <1>6 DEF ReapChild
  <2>2. TreeInv' /\ Running' = Running /\ pstate' = [pstate EXCEPT ![c] = "gone"]
    BY <2>1, ReapKeepsTree DEF KillInv
  <2>3. group' \subseteq group /\ launch' = launch
    BY <2>1 DEF Reap
  <2>4. Dead(waited) => Dead(waited)'
    BY <2>1, <2>2 DEF Dead, TypeOK, WorkloadTypeOK
  <2> QED
    BY <2>1, <2>2, <2>3, <2>4 DEF KillInv, GroupInv, RoundInv, EndInv
<1>7. CASE ReapDone
  BY <1>0, <1>7, SameProcesses DEF ReapDone, Goto, workloadVars
<1>8. CASE PollGone
  <2>1. workload_finished' /\ Running' = {} /\ UNCHANGED workloadVars
    BY <1>8 DEF PollGone, SafetyInv, OutcomeInv, CanKill
  <2>2. Running = {}
    BY <2>1 DEF Running, workloadVars
  <2> QED
    BY <1>0, <1>8, <2>2, SameProcesses DEF PollGone, workloadVars
<1>9. CASE PollAlive
  BY <1>0, <1>9, SameProcesses
     DEF PollAlive, Goto, NextWaitRound, Escalate, workloadVars
<1>10. CASE PollError
  BY <1>10 DEF PollError, PollFails, CanKill
<1>11. CASE SignalCgroup
  <2>1. pc' = "sig_group" /\ ctx' = ctx /\ waited' = waited
    BY <1>11 DEF SignalCgroup, Goto
  <2>2. CASE UNCHANGED workloadVars
    BY <1>0, <2>1, <2>2, SameProcesses DEF workloadVars
  <2>3. CASE Signal("SIGKILL", inCgroup)
    <3>1. /\ TreeInv' /\ Running' = Running /\ group' = group /\ launch' = launch
          /\ Dead(waited) => Dead(waited)'
      BY <1>0, <2>1, <2>3, SignalKeepsTree DEF Dead
    <3> QED
      BY <2>1, <3>1 DEF KillInv, GroupInv, RoundInv, EndInv
  <2> QED
    BY <1>11, <2>2, <2>3 DEF SignalCgroup, sandbox_cgroup_kill
<1>12. CASE SignalGroup
  <2>1. /\ pc' = "sig_scan" /\ ctx' = ctx /\ waited' = waited
        /\ toSignal' = Roots /\ group_signalled' = (group # {}) /\ Signal(Sig, group)
    BY <1>12 DEF SignalGroup
  <2>2. /\ TreeInv' /\ Running' = Running /\ group' = group /\ launch' = launch
        /\ Sig = "SIGKILL" => group \cap Running \subseteq doomed'
        /\ Dead(waited) => Dead(waited)'
    BY <1>0, <2>1, SignalKeepsTree DEF Dead
  <2>3. GroupInv'
    BY <2>1, <2>2 DEF KillInv, GroupInv
  <2>4. ASSUME ctx = "force", waited + 1 \in Running
        PROVE  waited + 1 \in doomed' \/ (waited + 1 \in Roots /\ waited + 1 \notin group)
    <3>1. Sig = "SIGKILL"
      BY <2>4 DEF Sig
    <3>2. waited + 1 \in Roots
      BY <1>0, <2>4, NextIsRoot DEF KillInv, RoundInv
    <3> QED
      BY <2>2, <2>4, <3>1, <3>2
  <2>5. RoundInv'
    BY <2>1, <2>2, <2>4 DEF KillInv, RoundInv
  <2> QED
    BY <2>1, <2>2, <2>3, <2>5 DEF KillInv, EndInv
<1>13. CASE SignalScan
  <2>1. /\ pc = "sig_scan" /\ pc' = "sig_each" /\ ctx' = ctx /\ waited' = waited
        /\ UNCHANGED <<pstate, parent, group, doomed, launch>>
    BY <1>13 DEF SignalScan, workloadVars
  <2>2. toSignal \ (IF group_signalled THEN group ELSE {}) \subseteq toSignal'
    BY <1>13 DEF SignalScan, CanKill
  <2>3. Running' = Running /\ Existing' = Existing
    BY <2>1 DEF Running, Existing
  <2>4. TreeInv'
    BY <1>0, <2>1, <2>3 DEF KillInv, TreeInv
  <2>5. Dead(waited) => Dead(waited)'
    BY <2>1, <2>3 DEF Dead
  <2>6. RoundInv'
    BY <2>1, <2>2, <2>3, <2>5 DEF KillInv, RoundInv
  <2> QED
    BY <2>1, <2>4, <2>6 DEF KillInv, GroupInv, EndInv
<1>14. CASE SignalEach
  <2>1. ASSUME NEW p \in toSignal, Signal(Sig, {p}), toSignal' = toSignal \ {p},
               UNCHANGED <<pc, ctx, waited>>
        PROVE  KillInv'
    <3>1. /\ TreeInv' /\ Running' = Running /\ group' = group /\ launch' = launch
          /\ doomed \subseteq doomed'
          /\ Sig = "SIGKILL" => {p} \cap Running \subseteq doomed'
          /\ Dead(waited) => Dead(waited)'
      BY <1>0, <2>1, SignalKeepsTree DEF Dead
    <3>2. ASSUME ctx = "force", waited + 1 \in Running
          PROVE  waited + 1 \in doomed' \cup toSignal'
      <4>1. waited + 1 \in doomed \cup toSignal /\ Sig = "SIGKILL"
        BY <1>14, <3>2 DEF SignalEach, KillInv, RoundInv, Sig
      <4> QED
        BY <2>1, <3>1, <3>2, <4>1
    <3>3. pc = "sig_each"
      BY <1>14 DEF SignalEach
    <3>4. RoundInv'
      BY <2>1, <3>1, <3>2, <3>3 DEF KillInv, RoundInv
    <3> QED
      BY <2>1, <3>1, <3>3, <3>4 DEF KillInv, GroupInv, EndInv
  <2>2. ASSUME toSignal = {}, AfterSignal, UNCHANGED workloadVars
        PROVE  KillInv'
    <3>1. UNCHANGED <<pstate, parent, group, doomed, launch>> /\ pc = "sig_each"
      BY <1>14, <2>2 DEF SignalEach, workloadVars
    <3>2. Running' = Running /\ Existing' = Existing
      BY <3>1 DEF Running, Existing
    <3>3. TreeInv'
      BY <1>0, <3>1, <3>2 DEF KillInv, TreeInv
    <3>4. CASE ctx \in {"term", "kill"}
      <4>1. pc' = "reap" /\ (ctx' = "force" => waited' = 0)
        BY <2>2, <3>4 DEF AfterSignal
      <4>2. ctx' = "force" => Dead(waited)'
        BY <4>1 DEF Dead, Proc
      <4> QED
        BY <3>1, <3>3, <4>1, <4>2 DEF KillInv, GroupInv, RoundInv, EndInv
    <3>5. CASE ctx = "force" /\ waited >= KillRounds
      <4>1. pc' = "cleanup" /\ ctx' = ctx /\ waited' = waited
        BY <1>0, <2>2, <3>5, RoundsAssumption DEF AfterSignal
      <4>2. \A p \in Proc : p <= waited
        BY <1>0, <3>5, RoundsAssumption, MaxProcsAssumption DEF CanKill, Proc
      <4>3. Running = {}
        BY <3>5, <4>2 DEF KillInv, RoundInv, Dead, Running
      <4> QED
        BY <1>0, <3>1, <4>1, <4>3, SameProcesses
    <3>6. CASE ctx = "force" /\ waited < KillRounds
      <4>1. pc' = "reap" /\ ctx' = ctx /\ waited' = waited + 1 /\ doomed = {}
        BY <1>0, <2>2, <3>6, RoundsAssumption DEF AfterSignal, MaySleep, CanKill
      <4>2. waited + 1 \notin Running
        BY <2>2, <3>1, <3>6, <4>1 DEF KillInv, RoundInv
      <4>3. Dead(waited + 1)
        BY <1>0, <3>6, <4>2, OneMoreDead DEF KillInv, RoundInv
      <4>4. Dead(waited)'
        BY <3>1, <3>2, <4>1, <4>3 DEF Dead
      <4> QED
        BY <3>1, <3>3, <4>1, <4>4 DEF KillInv, GroupInv, RoundInv, EndInv
    <3> QED
      BY <1>0, <2>2, <3>4, <3>5, <3>6, RoundsAssumption DEF AfterSignal
  <2> QED
    BY <1>14, <2>1, <2>2 DEF SignalEach
<1>15. CASE Cleanup
  BY <1>0, <1>15, SameProcesses DEF Cleanup, Goto, BeginTerminate, workloadVars, KillInv, EndInv
<1>16. CASE Join \/ Report
  BY <1>0, <1>16, SameProcesses DEF Join, Report, Goto, workloadVars, KillInv, EndInv
<1> QED
  BY <1>1, <1>2, <1>3, <1>4, <1>5, <1>6, <1>7, <1>8, <1>9, <1>10, <1>11, <1>12, <1>13, <1>14,
     <1>15, <1>16 DEF MainStep

LEMMA KillNext ==
  ASSUME CanKill, TypeOK, TypeOK', CtxInv, SafetyInv, SafetyInv', KillInv, [Next]_vars
  PROVE  KillInv'
<1>1. CASE MainStep
  BY <1>1, MainKeepsKill
<1>2. CASE WorkloadMoves
  BY <1>2, WorkloadKeepsKill DEF WorkloadMoves
<1>3. CASE \/ \E m \in Monitors : ThreadStep(m)
           \/ DeadlinePasses \/ OperatorSignal \/ Done \/ UNCHANGED vars
  <2>1. UNCHANGED <<workloadVars, mainVars>>
    BY <1>3 DEF ThreadStep, DeadlinePasses, OperatorSignal, Done, vars
  <2>2. Running' = Running /\ Existing' = Existing
    BY <2>1 DEF workloadVars, Running, Existing
  <2>3. TreeInv'
    BY <2>1, <2>2 DEF KillInv, TreeInv, TypeOK, workloadVars
  <2>4. Dead(waited) => Dead(waited)'
    BY <2>1, <2>2 DEF Dead, workloadVars, mainVars
  <2> QED
    BY <2>1, <2>2, <2>3, <2>4 DEF KillInv, GroupInv, RoundInv, EndInv, workloadVars, mainVars
<1> QED
  BY <1>1, <1>2, <1>3 DEF Next

\* For a workload of any size, however it forks, detaches or ignores SIGTERM:
\* if what is killed dies within a poll interval, the controller can see the
\* workload, and there are as many rounds as the workload makes processes, then
\* terminate_workload() has left nobody running when main() returns.
THEOREM ExitIsGone ==
  ASSUME CanKill PROVE Spec => []ExitMeansGone
<1>1. Init => TypeOK /\ CtxInv /\ SafetyInv /\ KillInv
  BY InitType, SafetyInit, KillInit
<1>2. TypeOK /\ CtxInv /\ SafetyInv /\ KillInv /\ [Next]_vars
        => (TypeOK /\ CtxInv /\ SafetyInv /\ KillInv)'
  BY TypeNext, SafetyNext, KillNext
<1>3. KillInv => ExitMeansGone
  BY DEF KillInv, EndInv, ExitMeansGone
<1> QED
  BY <1>1, <1>2, <1>3, PTL DEF Spec
=============================================================================
