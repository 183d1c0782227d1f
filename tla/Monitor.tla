------------------------------ MODULE Monitor -------------------------------
(***************************************************************************)
(* The shared SandboxState of monitor.c and the three monitor threads that *)
(* watch the workload through it.  Monitors only observe: the one thing    *)
(* they ever write is a termination request, which the first writer wins.  *)
(*                                                                         *)
(* Every access to the shared state is one critical section of the code    *)
(* and one step here; between a thread's snapshot and the request it makes *)
(* from it, every other thread may run.  Locking and sleeping do not fail. *)
(***************************************************************************)
EXTENDS Workload

CONSTANT
  Faults,       \* the library and system calls that may fail in this run
  MemoryLimited \* memory_limit_kilobytes > 0: the memory monitor is used

AllFaults == {"prepare", "setpgid", "attach", "release", "thread", "clock",
              "sample", "scan_race", "cgroup_read", "cgroup_kill", "rmdir"}

ASSUME FaultsAssumption == Faults \subseteq AllFaults
ASSUME MemoryLimitedAssumption == MemoryLimited \in BOOLEAN

Monitors == {"timeout", "memory", "cpu"}

\* "over": the memory monitor has found the limit exceeded and not yet said so.
ThreadPlaces == {"off", "loop", "work", "over", "done"}

Reason == {"none", "timeout", "memory_limit", "monitor_error",
           "supervisor_error", "operator_signal"}

VARIABLES
  state,        \* SandboxState, the fields that change
  cgroup,       \* cgroup.active, and whether its directory exists
  mon,          \* where each monitor thread is
  expired       \* timeout_seconds have passed since the timeout monitor began

monitorVars == <<state, mon, expired>>

MonitorTypeOK ==
  /\ state \in [leader_alive : BOOLEAN, workload_alive : BOOLEAN,
                termination_requested : BOOLEAN, termination_reason : Reason]
  /\ cgroup \in {"none", "active"}
  /\ mon \in [Monitors -> ThreadPlaces]
  /\ expired \in BOOLEAN

\* sandbox_state_init(), and no thread yet.
MonitorInit ==
  /\ state = [leader_alive |-> FALSE, workload_alive |-> FALSE,
              termination_requested |-> FALSE, termination_reason |-> "none"]
  /\ cgroup = "none"
  /\ mon = [m \in Monitors |-> "off"]
  /\ expired = FALSE

-----------------------------------------------------------------------------
(* The critical sections of monitor.c, as functions of the shared state.   *)

sandbox_state_set_workload(st) ==
  [leader_alive |-> TRUE, workload_alive |-> TRUE,
   termination_requested |-> FALSE, termination_reason |-> "none"]

\* Mutant: the last request wins instead of the first.
LastRequestWins(st, reason) ==
  IF st.workload_alive
  THEN [st EXCEPT !.termination_requested = TRUE,
                  !.termination_reason = reason]
  ELSE st

\* Mutant: a request is recorded even when the workload has exited.
RequestAfterExit(st, reason) ==
  IF ~st.termination_requested
  THEN [st EXCEPT !.termination_requested = TRUE,
                  !.termination_reason = reason]
  ELSE st

sandbox_state_request_termination(st, reason) ==
  IF st.workload_alive /\ ~st.termination_requested
  THEN [st EXCEPT !.termination_requested = TRUE,
                  !.termination_reason = reason]
  ELSE st

sandbox_state_mark_leader_exited(st) == [st EXCEPT !.leader_alive = FALSE]

sandbox_state_mark_workload_exited(st) ==
  [st EXCEPT !.leader_alive = FALSE, !.workload_alive = FALSE]

-----------------------------------------------------------------------------
(* The threads.                                                            *)

\* The thread goes on without touching the shared state.
Continue(m, where) ==
  /\ mon' = [mon EXCEPT ![m] = where]
  /\ UNCHANGED state

\* The thread asks for termination and returns.
RequestAndReturn(m, reason) ==
  /\ mon' = [mon EXCEPT ![m] = "done"]
  /\ state' = sandbox_state_request_termination(state, reason)

\* Head of every monitor loop: sandbox_state_snapshot(), and return when the
\* workload is over or somebody has already asked for its termination.  What a
\* thread does before its loop (the first clock reading, sysconf) is local, and
\* its failure has the effect of the same failure in the first iteration.
MonitorSnapshot(m) ==
  /\ mon[m] = "loop"
  /\ IF ~state.workload_alive \/ state.termination_requested
     THEN Continue(m, "done")
     ELSE Continue(m, "work")
  /\ UNCHANGED expired

\* process_tree_sample() in a monitor thread finds nobody.  While the main
\* thread reaps concurrently this can happen with the workload alive
\* (ProcessTree.tla), hence "scan_race".
SampleMayBeEmpty == Existing = {} \/ "scan_race" \in Faults

\* The rest of the timeout monitor's iteration.
TimeoutMonitorWork ==
  /\ mon["timeout"] = "work"
  /\ \/ "clock" \in Faults /\ RequestAndReturn("timeout", "monitor_error")
     \/ expired /\ RequestAndReturn("timeout", "timeout")
     \/ ~expired /\ Continue("timeout", "loop")
  /\ UNCHANGED expired

\* The rest of the memory monitor's iteration: it reads the cgroup, or adds up
\* the tree; how much memory it finds is the workload's choice.
MemoryMonitorWork ==
  /\ mon["memory"] = "work"
  /\ \/ /\ cgroup = "active"
        /\ \/ "cgroup_read" \in Faults /\ RequestAndReturn("memory", "monitor_error")
           \/ ~Populated /\ Continue("memory", "done")
           \/ Populated /\ Continue("memory", "loop")
           \/ Populated /\ Continue("memory", "over")
     \/ /\ cgroup = "none"
        /\ \/ "sample" \in Faults /\ RequestAndReturn("memory", "monitor_error")
           \/ SampleMayBeEmpty /\ Continue("memory", "done")
           \/ Existing # {} /\ Continue("memory", "loop")
           \/ Existing # {} /\ Continue("memory", "over")
  /\ UNCHANGED expired

\* The request for what was measured; the workload may have ended meanwhile.
MemoryMonitorRequests ==
  /\ mon["memory"] = "over"
  /\ RequestAndReturn("memory", "memory_limit")
  /\ UNCHANGED expired

\* The rest of the CPU monitor's iteration: it only ever logs what it samples.
CpuMonitorWork ==
  /\ mon["cpu"] = "work"
  /\ \/ {"sample", "clock"} \cap Faults # {} /\ RequestAndReturn("cpu", "monitor_error")
     \/ SampleMayBeEmpty /\ Continue("cpu", "done")
     \/ Existing # {} /\ Continue("cpu", "loop")
  /\ UNCHANGED expired

\* The deadline of the timeout monitor passes.
Expire ==
  /\ mon["timeout"] # "off"
  /\ ~expired
  /\ expired' = TRUE
  /\ UNCHANGED <<state, mon>>

MonitorStep(m) ==
  \/ MonitorSnapshot(m)
  \/ m = "timeout" /\ TimeoutMonitorWork
  \/ m = "memory" /\ (MemoryMonitorWork \/ MemoryMonitorRequests)
  \/ m = "cpu" /\ CpuMonitorWork
=============================================================================
