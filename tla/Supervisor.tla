----------------------------- MODULE Supervisor -----------------------------
(***************************************************************************)
(* The main thread of the sandbox controller (Sandbox.c), composed with    *)
(* the monitor threads and the workload it supervises.                     *)
(*                                                                         *)
(* pc is the place in the code.  supervise_workload(), the grace wait and  *)
(* the SIGKILL wait all run poll_workload(), and the two rounds of         *)
(* terminate_workload() both run signal_workload(): ctx says on whose      *)
(* behalf the shared code runs.                                            *)
(***************************************************************************)
EXTENDS Monitor

CONSTANTS
  CgroupModes,  \* what sandbox_cgroup_prepare() may achieve: "none", "active"
  GraceRounds,  \* TERMINATION_GRACE_MILLISECONDS / SUPERVISOR_POLL_MILLISECONDS
  KillRounds,   \* FORCE_KILL_WAIT_MILLISECONDS / SUPERVISOR_POLL_MILLISECONDS
  PromptDeath   \* environment: a killed process dies within one poll interval

ASSUME CgroupModesAssumption == CgroupModes \subseteq {"none", "active"}
ASSUME RoundsAssumption == GraceRounds \in Nat /\ KillRounds \in Nat
ASSUME PromptDeathAssumption == PromptDeath \in BOOLEAN

VARIABLES
  pc,                \* next step of the main thread
  ctx,               \* the function on whose behalf it polls or signals
  waited,            \* poll intervals spent in the current wait
  attempt,           \* calls of terminate_workload() so far
  toSignal,          \* sampled processes signal_workload() has still to reach
  group_signalled,   \* local of signal_workload()
  termination_reason,\* local of main()
  leader_status,     \* workload_status.leader_status, "none" if not available
  workload_finished, \* local of main()
  operator,          \* operator_signal_number # 0
  exit_code          \* "none" until main() returns

mainVars == <<pc, ctx, waited, attempt, toSignal, group_signalled,
              termination_reason, leader_status, workload_finished, exit_code>>
vars == <<workloadVars, monitorVars, cgroup, mainVars, operator>>

PCs == {"prepare", "setup", "attach", "release", "spawn_timeout",
        "spawn_memory", "spawn_cpu", "dispatch", "supervise", "reap", "probe",
        "snapshot", "sig_cgroup", "sig_group", "sig_scan", "sig_each",
        "cleanup", "join", "report", "exited"}

\* "supervise", then "term" (SIGTERM round) and "grace" (the wait after it),
\* then "kill" (first SIGKILL round) and "force" (the wait that repeats it).
Contexts == {"supervise", "term", "grace", "kill", "force"}

MainTypeOK ==
  /\ pc \in PCs
  /\ ctx \in Contexts
  /\ waited \in 0..(GraceRounds + KillRounds)
  /\ attempt \in 0..2
  /\ toSignal \subseteq Proc
  /\ group_signalled \in BOOLEAN
  /\ termination_reason \in Reason
  /\ leader_status \in ExitStatus \cup {"none"}
  /\ workload_finished \in BOOLEAN
  /\ exit_code \in {"none", "success", "failure"}

\* Types; and terminate_workload() is called at most twice.
TypeOK ==
  /\ WorkloadTypeOK
  /\ MonitorTypeOK
  /\ MainTypeOK
  /\ operator \in BOOLEAN

Init ==
  /\ WorkloadInit
  /\ MonitorInit
  /\ pc = "prepare"
  /\ ctx = "supervise"
  /\ waited = 0
  /\ attempt = 0
  /\ toSignal = {}
  /\ group_signalled = FALSE
  /\ termination_reason = "none"
  /\ leader_status = "none"
  /\ workload_finished = FALSE
  /\ operator = FALSE
  /\ exit_code = "none"

child_started == pstate[Leader] # "unborn"

-----------------------------------------------------------------------------
(* main(): launching the workload.                                         *)

\* Step of the main thread to where, for steps that change no other local.
Goto(where) ==
  /\ pc' = where
  /\ UNCHANGED <<ctx, waited, attempt, toSignal, group_signalled,
                 termination_reason, leader_status, workload_finished,
                 exit_code>>

\* As Goto, and termination_reason is assigned.
GotoWithReason(where, reason) ==
  /\ pc' = where
  /\ termination_reason' = reason
  /\ UNCHANGED <<ctx, waited, attempt, toSignal, group_signalled,
                 leader_status, workload_finished, exit_code>>

\* sandbox_cgroup_prepare(): whatever goes wrong, main() goes on without one.
sandbox_cgroup_prepare == cgroup' \in CgroupModes

\* The cgroup, pipe2() and fork().  When the pipe or the fork fails there is no
\* child and main() goes to cleanup.
Prepare ==
  /\ pc = "prepare"
  /\ sandbox_cgroup_prepare
  /\ \/ ForkLeader /\ Goto("setup")
     \/ "prepare" \in Faults /\ UNCHANGED workloadVars /\ Goto("cleanup")
  /\ UNCHANGED <<monitorVars, operator>>

\* The parent's setpgid() and sandbox_state_set_workload().
SetWorkload ==
  /\ pc = "setup"
  /\ state' = sandbox_state_set_workload(state)
  /\ \/ group' = group \cup {Leader} /\ Goto("attach")
     \/ /\ "setpgid" \in Faults
        /\ UNCHANGED group
        /\ GotoWithReason("attach", "supervisor_error")
  /\ UNCHANGED <<pstate, parent, ignoring, doomed, inCgroup, leaderExit, launch,
                 permission, mon, expired, cgroup, operator>>

\* Mutant: a failed attach is logged but is not a supervisor error.
AttachFailureIgnored ==
  /\ pc = "attach"
  /\ \/ cgroup = "active" /\ inCgroup' = {Leader} \cap Running
     \/ UNCHANGED inCgroup
  /\ Goto("release")
  /\ UNCHANGED <<pstate, parent, group, ignoring, doomed, leaderExit, launch,
                 permission, monitorVars, cgroup, operator>>

\* sandbox_cgroup_attach(): without a cgroup there is nothing to do.  A leader
\* that has already exited is not moved, and the kernel may report it.
Attach ==
  /\ pc = "attach"
  /\ \/ cgroup = "none" /\ UNCHANGED inCgroup /\ Goto("release")
     \/ /\ cgroup = "active"
        /\ inCgroup' = {Leader} \cap Running
        /\ Goto("release")
     \/ /\ cgroup = "active"
        /\ "attach" \in Faults \/ Leader \notin Running
        /\ UNCHANGED inCgroup
        /\ GotoWithReason("release", "supervisor_error")
  /\ UNCHANGED <<pstate, parent, group, ignoring, doomed, leaderExit, launch,
                 permission, monitorVars, cgroup, operator>>

\* Operator check during set-up, then release_child() if nothing went wrong: its
\* write fails when the leader is dead and nobody can read (EPIPE).  Closing the
\* pipe without a byte in it cancels the launch.
Release ==
  /\ pc = "release"
  /\ LET reason == IF operator THEN "operator_signal" ELSE termination_reason IN
     \/ /\ reason = "none"
        /\ Leader \in Running
        /\ permission' = TRUE
        /\ Goto("spawn_timeout")
     \/ /\ reason # "none"
        /\ UNCHANGED permission
        /\ GotoWithReason("spawn_timeout", reason)
     \/ /\ reason = "none"
        /\ "release" \in Faults \/ Leader \notin Running
        /\ UNCHANGED permission
        /\ GotoWithReason("spawn_timeout", "supervisor_error")
  /\ UNCHANGED <<pstate, parent, group, ignoring, doomed, inCgroup, leaderExit,
                 launch, monitorVars, cgroup, operator>>

\* Mutant: a monitor thread that cannot be created is only logged.
ThreadFailureIgnored(m, here, next) ==
  /\ pc = here
  /\ \/ mon' = [mon EXCEPT ![m] = "loop"]
     \/ m = "memory" /\ ~MemoryLimited /\ UNCHANGED mon
     \/ "thread" \in Faults /\ UNCHANGED mon
  /\ Goto(next)
  /\ UNCHANGED <<workloadVars, state, expired, cgroup, operator>>

\* pthread_create() of monitor m.  A failure is a termination request, so that
\* the threads which do run come to an end.
Spawn(m, here, next) ==
  /\ pc = here
  /\ \/ /\ m = "memory" => MemoryLimited
        /\ mon' = [mon EXCEPT ![m] = "loop"]
        /\ UNCHANGED state
     \/ /\ m = "memory" /\ ~MemoryLimited
        /\ UNCHANGED <<mon, state>>
     \/ /\ m = "memory" => MemoryLimited
        /\ "thread" \in Faults
        /\ UNCHANGED mon
        /\ state' = sandbox_state_request_termination(state, "monitor_error")
  /\ Goto(next)
  /\ UNCHANGED <<workloadVars, expired, cgroup, operator>>

-----------------------------------------------------------------------------
(* terminate_workload() and the ways into it.                              *)

\* Entry of terminate_workload(): a SIGTERM round comes first.
BeginTerminate(reason) ==
  /\ pc' = "sig_group"
  /\ ctx' = "term"
  /\ attempt' = attempt + 1
  /\ termination_reason' = reason
  /\ UNCHANGED <<waited, toSignal, group_signalled, leader_status,
                 workload_finished, exit_code>>

\* The escalation to SIGKILL after the grace period.
Escalate ==
  /\ pc' = "sig_cgroup"
  /\ ctx' = "kill"
  /\ UNCHANGED <<waited, attempt, toSignal, group_signalled,
                 termination_reason, leader_status, workload_finished,
                 exit_code>>

\* A set-up error skips supervise_workload().
Dispatch ==
  /\ pc = "dispatch"
  /\ IF termination_reason # "none"
     THEN BeginTerminate(termination_reason)
     ELSE Goto("supervise")
  /\ UNCHANGED <<workloadVars, monitorVars, cgroup, operator>>

\* Head of the supervise_workload() loop: the operator comes first.
Supervise ==
  /\ pc = "supervise"
  /\ IF operator
     THEN /\ state' = sandbox_state_request_termination(state, "operator_signal")
          /\ BeginTerminate("operator_signal")
     ELSE /\ UNCHANGED state
          /\ pc' = "reap"
          /\ ctx' = "supervise"
          /\ UNCHANGED <<waited, attempt, toSignal, group_signalled,
                         termination_reason, leader_status, workload_finished,
                         exit_code>>
  /\ UNCHANGED <<workloadVars, mon, expired, cgroup, operator>>

-----------------------------------------------------------------------------
(* poll_workload().                                                        *)

\* One waitpid(-1, WNOHANG) that returns a child, the leader or an orphan.
ReapChild(c) ==
  /\ pc = "reap"
  /\ Reap(Controller, c)
  /\ IF c = Leader
     THEN /\ leader_status' = leaderExit
          /\ state' = sandbox_state_mark_leader_exited(state)
     ELSE UNCHANGED <<leader_status, state>>
  /\ UNCHANGED <<mon, expired, cgroup, operator, pc, ctx, waited, attempt,
                 toSignal, group_signalled, termination_reason,
                 workload_finished, exit_code>>

\* waitpid() finds no more zombies, or no children at all.
ReapDone ==
  /\ pc = "reap"
  /\ Reapable(Controller) = {}
  /\ Goto("probe")
  /\ UNCHANGED <<workloadVars, monitorVars, cgroup, operator>>

\* Mutant: the workload is over when its leader is.
AliveIfLeader == Leader \in Existing

\* Whether poll_workload() finds the workload alive: cgroup.events when there
\* is a cgroup, else whether a tree sample is empty.  In the main thread the
\* sample is empty exactly when nobody is left (ProcessTree.tla).
WorkloadAlive == IF cgroup = "active" THEN Populated ELSE Existing # {}

PollFails ==
  (IF cgroup = "active" THEN "cgroup_read" ELSE "sample") \in Faults

\* poll_workload() reports the end of the workload: every caller returns.
PollGone ==
  /\ pc = "probe"
  /\ ~WorkloadAlive
  /\ state' = sandbox_state_mark_workload_exited(state)
  /\ workload_finished' = TRUE
  /\ termination_reason' = IF ctx = "supervise" THEN "none"
                           ELSE termination_reason
  /\ pc' = "cleanup"
  /\ UNCHANGED <<workloadVars, mon, expired, cgroup, operator, ctx, waited,
                 attempt, toSignal, group_signalled, leader_status, exit_code>>

\* A sleep between two polls.  With PromptDeath it is long enough for a killed
\* process to be dead when it ends.
MaySleep == PromptDeath => doomed = {}

\* The tail of a wait_for_workload_exit() iteration: give up after the given
\* number of intervals, else sleep and poll again.
NextWaitRound(rounds, GiveUp) ==
  \/ waited >= rounds /\ GiveUp
  \/ /\ waited < rounds
     /\ MaySleep
     /\ waited' = waited + 1
     /\ pc' = "reap"
     /\ UNCHANGED <<ctx, attempt, toSignal, group_signalled,
                    termination_reason, leader_status, workload_finished,
                    exit_code>>

\* Mutant: the last wait does not repeat SIGKILL.
KillOnce ==
  /\ pc = "probe"
  /\ WorkloadAlive
  /\ \/ ctx = "supervise" /\ Goto("snapshot")
     \/ ctx = "grace" /\ NextWaitRound(GraceRounds, Escalate)
     \/ ctx = "force" /\ NextWaitRound(KillRounds, Goto("cleanup"))
  /\ UNCHANGED <<workloadVars, monitorVars, cgroup, operator>>

\* poll_workload() reports a live workload.
PollAlive ==
  /\ pc = "probe"
  /\ WorkloadAlive
  /\ \/ ctx = "supervise" /\ Goto("snapshot")
     \/ ctx = "grace" /\ NextWaitRound(GraceRounds, Escalate)
     \/ ctx = "force" /\ Goto("sig_cgroup")
  /\ UNCHANGED <<workloadVars, monitorVars, cgroup, operator>>

\* poll_workload() fails: supervision turns into termination, the grace wait
\* escalates, the last wait gives up.
PollError ==
  /\ pc = "probe"
  /\ PollFails
  /\ \/ ctx = "supervise" /\ BeginTerminate("supervisor_error")
     \/ ctx = "grace" /\ Escalate
     \/ ctx = "force" /\ Goto("cleanup")
  /\ UNCHANGED <<workloadVars, monitorVars, cgroup, operator>>

\* The rest of the supervise_workload() iteration: honour a request, or sleep.
Snapshot ==
  /\ pc = "snapshot"
  /\ \/ /\ state.termination_requested
        /\ BeginTerminate(state.termination_reason)
     \/ /\ ~state.termination_requested
        /\ Goto("supervise")
  /\ UNCHANGED <<workloadVars, monitorVars, cgroup, operator>>

-----------------------------------------------------------------------------
(* signal_workload().                                                      *)

Sig == IF ctx = "term" THEN "SIGTERM" ELSE "SIGKILL"

\* sandbox_cgroup_kill(): cgroup.kill reaches every member at once.
sandbox_cgroup_kill ==
  \/ Signal("SIGKILL", inCgroup)
  \/ "cgroup_kill" \in Faults /\ UNCHANGED workloadVars

\* SIGKILL round: through the cgroup first, if there is one.
SignalCgroup ==
  /\ pc = "sig_cgroup"
  /\ \/ cgroup = "active" /\ sandbox_cgroup_kill
     \/ cgroup = "none" /\ UNCHANGED workloadVars
  /\ Goto("sig_group")
  /\ UNCHANGED <<monitorVars, cgroup, operator>>

\* kill(-pgid): succeeds while the group has a member, zombies included.  The
\* tree scan starts here: whoever is a root now will be in the sample.
SignalGroup ==
  /\ pc = "sig_group"
  /\ Signal(Sig, group)
  /\ group_signalled' = (group # {})
  /\ toSignal' = Roots
  /\ pc' = "sig_scan"
  /\ UNCHANGED <<monitorVars, cgroup, operator, ctx, waited, attempt,
                 termination_reason, leader_status, workload_finished,
                 exit_code>>

\* What follows a signal_workload() call at each of its three call sites.
AfterSignal ==
  \/ /\ ctx \in {"term", "kill"}
     /\ pc' = "reap"
     /\ ctx' = IF ctx = "term" THEN "grace" ELSE "force"
     /\ waited' = 0
     /\ UNCHANGED <<attempt, termination_reason, leader_status,
                    workload_finished, exit_code>>
  \/ /\ ctx = "force"
     /\ waited >= KillRounds
     /\ pc' = "cleanup"
     /\ UNCHANGED <<ctx, waited, attempt, termination_reason, leader_status,
                    workload_finished, exit_code>>
  \/ /\ ctx = "force"
     /\ waited < KillRounds
     /\ MaySleep
     /\ pc' = "reap"
     /\ waited' = waited + 1
     /\ UNCHANGED <<ctx, attempt, termination_reason, leader_status,
                    workload_finished, exit_code>>

\* process_tree_sample() returns: the roots it started from and any of their
\* descendants.  Members of a group that was signalled as a whole are skipped.
SignalScan ==
  /\ pc = "sig_scan"
  /\ \/ \E S \in SUBSET Existing :
          /\ toSignal \subseteq S
          /\ toSignal' = S \ (IF group_signalled THEN group ELSE {})
     \/ "sample" \in Faults /\ toSignal' = {}
  /\ pc' = "sig_each"
  /\ group_signalled' = FALSE
  /\ UNCHANGED <<workloadVars, monitorVars, cgroup, operator, ctx, waited,
                 attempt, termination_reason, leader_status,
                 workload_finished, exit_code>>

\* kill() on one sampled process, or the end of the loop.
SignalEach ==
  /\ pc = "sig_each"
  /\ \/ \E p \in toSignal :
          /\ Signal(Sig, {p})
          /\ toSignal' = toSignal \ {p}
          /\ UNCHANGED <<pc, ctx, waited, attempt, group_signalled,
                         termination_reason, leader_status,
                         workload_finished, exit_code>>
     \/ /\ toSignal = {}
        /\ AfterSignal
        /\ UNCHANGED <<workloadVars, toSignal, group_signalled>>
  /\ UNCHANGED <<monitorVars, cgroup, operator>>

-----------------------------------------------------------------------------
(* cleanup: and the end of main().                                         *)

\* Mutant: termination is tried until it succeeds.
CleanupAgain ==
  /\ pc = "cleanup"
  /\ \/ /\ child_started /\ ~workload_finished
        /\ BeginTerminate(termination_reason)
        /\ UNCHANGED state
     \/ /\ child_started => workload_finished
        /\ state' = sandbox_state_mark_workload_exited(state)
        /\ Goto("join")
  /\ UNCHANGED <<workloadVars, mon, expired, cgroup, operator>>

\* A workload that is not known to be over is terminated once more.  Then the
\* monitors are told, and joined.
Cleanup ==
  /\ pc = "cleanup"
  /\ \/ /\ child_started /\ ~workload_finished /\ attempt < 2
        /\ BeginTerminate(IF termination_reason = "none" THEN "supervisor_error"
                          ELSE termination_reason)
        /\ UNCHANGED state
     \/ /\ child_started => workload_finished \/ attempt >= 2
        /\ state' = IF workload_finished
                    THEN sandbox_state_mark_workload_exited(state) ELSE state
        /\ Goto("join")
  /\ UNCHANGED <<workloadVars, mon, expired, cgroup, operator>>

\* pthread_join() of every monitor that was started.
Join ==
  /\ pc = "join"
  /\ \A m \in Monitors : mon[m] \in {"off", "done"}
  /\ Goto("report")
  /\ UNCHANGED <<workloadVars, monitorVars, cgroup, operator>>

\* report_child_status().
report_child_status(status, reason) ==
  IF status = "ok" /\ reason = "none" THEN "success" ELSE "failure"

\* sandbox_cgroup_destroy(): rmdir() fails while the cgroup is populated and may
\* fail without that; main() ignores the result.
sandbox_cgroup_destroy ==
  \/ ~Populated /\ cgroup' = "none"
  \/ cgroup = "active" /\ (Populated \/ "rmdir" \in Faults) /\ UNCHANGED cgroup

\* The exit code, and the end of the cgroup.
Report ==
  /\ pc = "report"
  /\ exit_code' = IF workload_finished /\ leader_status # "none"
                  THEN report_child_status(leader_status, termination_reason)
                  ELSE "failure"
  /\ sandbox_cgroup_destroy
  /\ pc' = "exited"
  /\ UNCHANGED <<workloadVars, monitorVars, operator, ctx, waited, attempt,
                 toSignal, group_signalled, termination_reason, leader_status,
                 workload_finished>>

-----------------------------------------------------------------------------
(* The system.                                                             *)

\* handle_operator_signal(): SIGINT, SIGTERM or SIGHUP reaches the controller.
OperatorSignal ==
  /\ ~operator
  /\ pc # "exited"
  /\ operator' = TRUE
  /\ UNCHANGED <<workloadVars, monitorVars, cgroup, mainVars>>

MainStep ==
  \/ Prepare \/ SetWorkload \/ Attach \/ Release
  \/ Spawn("timeout", "spawn_timeout", "spawn_memory")
  \/ Spawn("memory", "spawn_memory", "spawn_cpu")
  \/ Spawn("cpu", "spawn_cpu", "dispatch")
  \/ Dispatch \/ Supervise
  \/ \E c \in Proc : ReapChild(c)
  \/ ReapDone \/ PollGone \/ PollAlive \/ PollError \/ Snapshot
  \/ SignalCgroup \/ SignalGroup \/ SignalScan \/ SignalEach
  \/ Cleanup \/ Join \/ Report

ThreadStep(m) ==
  /\ MonitorStep(m)
  /\ UNCHANGED <<workloadVars, cgroup, mainVars, operator>>

DeadlinePasses ==
  /\ Expire
  /\ UNCHANGED <<workloadVars, cgroup, mainVars, operator>>

\* What the workload does once the controller has exited is nobody's business.
WorkloadMoves ==
  /\ pc # "exited"
  /\ WorkloadStep
  /\ UNCHANGED <<monitorVars, cgroup, mainVars, operator>>

\* The controller has returned from main(); nothing is left to wait for.
Done == pc = "exited" /\ UNCHANGED vars

Next ==
  \/ MainStep
  \/ \E m \in Monitors : ThreadStep(m)
  \/ DeadlinePasses
  \/ WorkloadMoves
  \/ OperatorSignal
  \/ Done

Spec == Init /\ [][Next]_vars

(***************************************************************************)
(* Fairness: the scheduler runs the main thread and the monitors, and time *)
(* passes.  The workload owes nothing: it may hang, and it may ignore      *)
(* everything but SIGKILL.                                                 *)
(***************************************************************************)
Fairness ==
  /\ WF_vars(MainStep)
  /\ \A m \in Monitors : WF_vars(ThreadStep(m))
  /\ WF_vars(DeadlinePasses)

FairSpec == Spec /\ Fairness

-----------------------------------------------------------------------------
(* Properties.                                                             *)

\* main() sets workload_finished only when no process of the workload runs:
\* neither poll_workload() nor terminate_workload() returns 0 too early.
FinishedMeansGone == workload_finished => Running = {}

\* When main() sets workload_finished the whole tree has been reaped and the
\* leader's wait status is in workload_status.
FinishedMeansCollected ==
  workload_finished => Existing = {} /\ leader_status = leaderExit

\* The controller returns 0 only for a leader that was let through the gate,
\* exited with code 0 and left nobody running, inside its cgroup or outside it.
\* A cgroup it leaves behind is an empty one that rmdir() refused to remove:
\* main() ignores that failure and still returns 0.
SuccessMeansClean ==
  exit_code = "success" =>
    /\ permission /\ leaderExit = "ok"
    /\ Running = {}
    /\ cgroup = "active" => "rmdir" \in Faults

\* The controller returns 0 only when no policy requested termination.
SuccessMeansNoRequest ==
  exit_code = "success" => ~state.termination_requested

\* Once the gate is open, every running process is in the cgroup if there is
\* one: the attach comes before release_child(), and a failed attach cancels.
MembersConfined ==
  cgroup = "active" /\ launch = "started" => Running \subseteq inCgroup

\* The reason main() acts on and reports is true, and it is the one the shared
\* state holds if a monitor gave it.
ReasonIsTruthful ==
  /\ termination_reason = "timeout" => expired
  /\ termination_reason = "operator_signal" => operator
  /\ termination_reason \in {"timeout", "memory_limit", "monitor_error"} =>
       termination_reason = state.termination_reason

\* A request, once made, is never changed or taken back, and none is made after
\* mark_workload_exited().
RequestIsFinal ==
  [][state.termination_requested \/ (child_started /\ pc # "setup" /\ ~state.workload_alive)
       => state'.termination_reason = state.termination_reason]_vars

\* terminate_workload() leaves nobody running, however the workload forks,
\* detaches or ignores SIGTERM, provided killed processes die promptly.
ExitMeansGone == pc = "exited" => Running = {}

\* The controller returns from main(), whatever fails and however stubborn the
\* workload is: no wait goes round for ever and no join waits for ever.  The
\* workload makes at most MaxProcs processes: the waitpid() loop of
\* reap_available_children() has no bound of its own, and a workload that never
\* stopped producing orphans could keep it busy.
ControllerTerminates == <>(pc = "exited")
=============================================================================
