---------------------------- MODULE RequestProofs ---------------------------
(***************************************************************************)
(* The termination request: why every reason the controller acts on is     *)
(* true, and why a request is final although four threads may make one.    *)
(***************************************************************************)
EXTENDS SupervisorProofs

\* The request fields of the shared state agree, and their reason is true.
\* Nothing is requested before sandbox_state_set_workload(), which resets them.
RequestInv ==
  /\ state.termination_requested <=> state.termination_reason # "none"
  /\ state.termination_reason = "timeout" => expired
  /\ state.termination_reason = "operator_signal" => operator
  /\ pc \in {"prepare", "setup"} =>
       /\ termination_reason = "none"
       /\ ~state.workload_alive
       /\ ~state.termination_requested

\* What a step may do to the request: nothing, or make a true one while the
\* workload is alive and nobody else has.
NewRequest(r) ==
  /\ state.workload_alive /\ ~state.termination_requested
  /\ r \in Reason \ {"none"}
  /\ r = "timeout" => expired
  /\ r = "operator_signal" => operator
  /\ state'.termination_requested = TRUE
  /\ state'.termination_reason = r

SameRequest ==
  /\ state'.termination_requested = state.termination_requested
  /\ state'.termination_reason = state.termination_reason

RequestStep == SameRequest \/ \E r \in Reason : NewRequest(r)

\* What a step may do to main()'s own reason: nothing, forget it, blame the
\* supervisor or the operator, or take over the shared one.
ReasonStep ==
  \/ termination_reason' \in {termination_reason, "none", "supervisor_error"}
  \/ termination_reason' = "operator_signal" /\ operator
  \/ termination_reason' = state.termination_reason /\ SameRequest

TruthStep ==
  /\ RequestStep
  /\ ReasonStep
  /\ expired => expired'
  /\ operator => operator'
  /\ pc' \in {"prepare", "setup"} =>
       /\ pc \in {"prepare", "setup"}
       /\ UNCHANGED termination_reason
       /\ state'.workload_alive => state.workload_alive

-----------------------------------------------------------------------------
\* sandbox_state_request_termination() makes a request or leaves it alone.
LEMMA RequestEffect ==
  ASSUME MonitorTypeOK, NEW r \in Reason \ {"none"},
         r = "timeout" => expired, r = "operator_signal" => operator,
         state' = sandbox_state_request_termination(state, r)
  PROVE  RequestStep /\ (state'.workload_alive => state.workload_alive)
BY DEF MonitorTypeOK, sandbox_state_request_termination, RequestStep, SameRequest, NewRequest

\* The two marks change no request and revive nobody.
LEMMA MarkEffect ==
  ASSUME MonitorTypeOK,
         \/ state' = state
         \/ state' = sandbox_state_mark_leader_exited(state)
         \/ state' = sandbox_state_mark_workload_exited(state)
  PROVE  SameRequest /\ (state'.workload_alive => state.workload_alive)
BY DEF MonitorTypeOK, sandbox_state_mark_leader_exited,
       sandbox_state_mark_workload_exited, SameRequest

\* A truthful step keeps every reason truthful.
LEMMA TruthStepKeeps ==
  ASSUME TypeOK, RequestInv, ReasonIsTruthful, TruthStep
  PROVE  RequestInv' /\ ReasonIsTruthful'
<1>1. CASE SameRequest
  BY <1>1 DEF TruthStep, ReasonStep, SameRequest, RequestInv, ReasonIsTruthful
<1>2. CASE \E r \in Reason : NewRequest(r)
  BY <1>2 DEF TruthStep, ReasonStep, SameRequest, NewRequest, RequestInv, ReasonIsTruthful
<1> QED
  BY <1>1, <1>2 DEF TruthStep, RequestStep

\* Steps of main() other than sandbox_state_set_workload().
LEMMA MainStepIsTruthful ==
  ASSUME TypeOK, MainStep, ~SetWorkload
  PROVE  TruthStep
<1> USE DEF TypeOK
<1>1. CASE Prepare \/ Attach \/ Release
  BY <1>1, MarkEffect
     DEF Prepare, sandbox_cgroup_prepare, Attach, Release, Goto, GotoWithReason,
         monitorVars, TruthStep, RequestStep, ReasonStep
<1>2. ASSUME NEW m, NEW here, NEW next, Spawn(m, here, next),
             next \in {"spawn_memory", "spawn_cpu", "dispatch"}
      PROVE  TruthStep
  <2>1. RequestStep
    BY <1>2, RequestEffect, MarkEffect DEF Spawn, Reason, RequestStep
  <2> QED
    BY <1>2, <2>1 DEF Spawn, Goto, TruthStep, ReasonStep
<1>3. CASE Dispatch \/ Snapshot
  BY <1>3, MarkEffect
     DEF Dispatch, Snapshot, Goto, BeginTerminate, monitorVars, TruthStep,
         RequestStep, ReasonStep
<1>4. CASE Supervise
  <2>1. RequestStep
    BY <1>4, RequestEffect, MarkEffect DEF Supervise, Reason, RequestStep
  <2> QED
    BY <1>4, <2>1 DEF Supervise, BeginTerminate, TruthStep, ReasonStep
<1>5. ASSUME NEW c \in Proc, ReapChild(c)
      PROVE  TruthStep
  BY <1>5, MarkEffect DEF ReapChild, TruthStep, RequestStep, ReasonStep
<1>6. CASE ReapDone \/ PollAlive \/ PollError
  BY <1>6, MarkEffect
     DEF ReapDone, PollAlive, PollError, Goto, NextWaitRound, Escalate,
         BeginTerminate, monitorVars, TruthStep, RequestStep, ReasonStep
<1>7. CASE PollGone
  BY <1>7, MarkEffect DEF PollGone, TruthStep, RequestStep, ReasonStep
<1>8. CASE SignalCgroup \/ SignalGroup \/ SignalScan \/ SignalEach
  <2>1. UNCHANGED <<state, expired, operator, termination_reason>>
    BY <1>8 DEF SignalCgroup, sandbox_cgroup_kill, SignalGroup, SignalScan,
                SignalEach, AfterSignal, Goto, monitorVars
  <2>2. pc' \notin {"prepare", "setup"}
    BY <1>8 DEF SignalCgroup, sandbox_cgroup_kill, SignalGroup, SignalScan,
                SignalEach, AfterSignal, Goto
  <2> QED
    BY <2>1, <2>2, MarkEffect DEF TruthStep, RequestStep, ReasonStep
<1>9. CASE Cleanup
  BY <1>9, MarkEffect
     DEF Cleanup, BeginTerminate, Goto, TruthStep, RequestStep, ReasonStep
<1>10. CASE Join \/ Report
  BY <1>10, MarkEffect DEF Join, Report, Goto, monitorVars, TruthStep, RequestStep, ReasonStep
<1> QED
  BY <1>1, <1>2, <1>3, <1>4, <1>5, <1>6, <1>7, <1>8, <1>9, <1>10 DEF MainStep

\* Steps of the threads, the clock, the operator and the workload.
LEMMA OtherStepIsTruthful ==
  ASSUME TypeOK,
         \/ \E m \in Monitors : ThreadStep(m)
         \/ DeadlinePasses \/ WorkloadMoves \/ OperatorSignal \/ UNCHANGED vars
  PROVE  TruthStep
<1> USE DEF TypeOK
<1>1. ASSUME NEW m \in Monitors, ThreadStep(m)
      PROVE  TruthStep
  <2>1. UNCHANGED <<pc, termination_reason, operator, expired>>
    BY <1>1 DEF ThreadStep, mainVars, MonitorStep, MonitorSnapshot,
                TimeoutMonitorWork, MemoryMonitorWork, MemoryMonitorRequests,
                CpuMonitorWork
  <2>2. \/ UNCHANGED state
        \/ state' = sandbox_state_request_termination(state, "monitor_error")
        \/ state' = sandbox_state_request_termination(state, "memory_limit")
        \/ expired /\ state' = sandbox_state_request_termination(state, "timeout")
    BY <1>1 DEF ThreadStep, MonitorStep, MonitorSnapshot, TimeoutMonitorWork,
                MemoryMonitorWork, MemoryMonitorRequests, CpuMonitorWork,
                Continue, RequestAndReturn
  <2>3. RequestStep /\ (state'.workload_alive => state.workload_alive)
    BY <2>2, RequestEffect, MarkEffect DEF Reason, RequestStep
  <2> QED
    BY <2>1, <2>3 DEF TruthStep, ReasonStep
<1>2. CASE DeadlinePasses \/ WorkloadMoves \/ OperatorSignal \/ UNCHANGED vars
  BY <1>2, MarkEffect
     DEF DeadlinePasses, Expire, WorkloadMoves, OperatorSignal, vars, monitorVars,
         mainVars, TruthStep, RequestStep, ReasonStep
<1> QED
  BY <1>1, <1>2

\* sandbox_state_set_workload() has nothing to reset.
LEMMA SetWorkloadKeeps ==
  ASSUME RequestInv, SetWorkload
  PROVE  /\ RequestInv' /\ ReasonIsTruthful'
         /\ state.termination_reason = state'.termination_reason
BY DEF RequestInv, ReasonIsTruthful, SetWorkload, sandbox_state_set_workload,
       Goto, GotoWithReason

\* The invariant holds to begin with.
LEMMA RequestInit == Init => RequestInv /\ ReasonIsTruthful
BY DEF Init, MonitorInit, RequestInv, ReasonIsTruthful

\* Every step keeps it.
LEMMA RequestNext ==
  TypeOK /\ RequestInv /\ ReasonIsTruthful /\ [Next]_vars
    => RequestInv' /\ ReasonIsTruthful'
<1> SUFFICES ASSUME TypeOK, RequestInv, ReasonIsTruthful, [Next]_vars
             PROVE  RequestInv' /\ ReasonIsTruthful'
  OBVIOUS
<1>1. CASE SetWorkload
  BY <1>1, SetWorkloadKeeps
<1>2. CASE ~SetWorkload
  <2>1. TruthStep
    BY <1>2, MainStepIsTruthful, OtherStepIsTruthful DEF Next, Done
  <2> QED
    BY <2>1, TruthStepKeeps
<1> QED
  BY <1>1, <1>2

\* A step that finds a request, or a workload that is over, leaves the reason.
LEMMA RequestStepIsFinal ==
  TypeOK /\ RequestInv /\ [Next]_vars =>
    (state.termination_requested \/ (child_started /\ pc # "setup" /\ ~state.workload_alive)
       => state'.termination_reason = state.termination_reason)
<1> SUFFICES ASSUME TypeOK, RequestInv, [Next]_vars,
                    state.termination_requested \/ ~state.workload_alive
             PROVE  state'.termination_reason = state.termination_reason
  OBVIOUS
<1>1. CASE SetWorkload
  BY <1>1, SetWorkloadKeeps
<1>2. CASE ~SetWorkload
  <2>1. RequestStep
    BY <1>2, MainStepIsTruthful, OtherStepIsTruthful DEF Next, Done, TruthStep
  <2> QED
    BY <2>1 DEF RequestStep, SameRequest, NewRequest
<1> QED
  BY <1>1, <1>2

\* The invariant that both results rest on.
THEOREM RequestInvariant == Spec => [](TypeOK /\ RequestInv /\ ReasonIsTruthful)
<1>1. Init => TypeOK /\ CtxInv /\ RequestInv /\ ReasonIsTruthful
  BY InitType, RequestInit
<1>2. TypeOK /\ CtxInv /\ RequestInv /\ ReasonIsTruthful /\ [Next]_vars
        => (TypeOK /\ CtxInv /\ RequestInv /\ ReasonIsTruthful)'
  BY TypeNext, RequestNext
<1> QED
  BY <1>1, <1>2, PTL DEF Spec

\* Whatever fails and however the threads interleave, the reason main() acts on
\* and reports is true: the deadline had passed, the operator had signalled, or
\* a monitor had made exactly that request.
THEOREM ReasonIsTrue == Spec => []ReasonIsTruthful
BY RequestInvariant, PTL

\* The first request made through sandbox_state_request_termination() is the
\* last, and none is made after sandbox_state_mark_workload_exited().
THEOREM FirstRequestIsFinal == Spec => RequestIsFinal
<1>1. TypeOK /\ RequestInv /\ ReasonIsTruthful /\ [Next]_vars =>
        [state.termination_requested \/ (child_started /\ pc # "setup" /\ ~state.workload_alive)
           => state'.termination_reason = state.termination_reason]_vars
  BY RequestStepIsFinal
<1> QED
  BY <1>1, RequestInvariant, PTL DEF Spec, RequestIsFinal
=============================================================================
