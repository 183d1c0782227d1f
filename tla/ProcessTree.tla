---------------------------- MODULE ProcessTree -----------------------------
(***************************************************************************)
(* process_tree_sample() of process_tree.c while the workload runs: the    *)
(* scan of /proc reads one stat file after the other, and between two      *)
(* reads processes fork, exit, are reaped and are reparented.              *)
(*                                                                         *)
(* readdir() returns PIDs in ascending order.  As long as PIDs have not    *)
(* wrapped around that is the order of birth (Ascending); afterwards a     *)
(* child may have a smaller PID than its parent and the scan meets the     *)
(* processes of the workload in any order.                                 *)
(***************************************************************************)
EXTENDS Workload

CONSTANT Ascending    \* PIDs have not wrapped: they grow in order of birth

ASSUME AscendingAssumption == Ascending \in BOOLEAN

\* What the table of the scan holds for a process: nothing yet, its parent, or
\* the stat file of an unrelated process that was given the leader's PID.
Unread == MaxProcs + 1
Stranger == MaxProcs + 2

VARIABLES
  phase,        \* "idle", "stat", "select", "memory", then "done" or "failed"
  caller,       \* the thread that samples: the supervisor also reaps
  leader_alive, \* argument: the caller's snapshot of state.leader_alive
  entry,        \* all_processes: parent_pid as read, by process
  selected,     \* selected[]
  measured,     \* processes whose memory has been read
  present,      \* processes in /proc ever since the scan began
  rootsAtStart, \* the workload's roots when the scan began
  stranger      \* an unrelated process has the PID of the dead leader

scanVars == <<phase, caller, leader_alive, entry, selected, measured,
              rootsAtStart>>
vars == <<workloadVars, scanVars, present, stranger>>

Phases == {"idle", "stat", "select", "memory", "done", "failed"}

TypeOK ==
  /\ WorkloadTypeOK
  /\ phase \in Phases
  /\ caller \in {"supervisor", "monitor"}
  /\ leader_alive \in BOOLEAN
  /\ entry \in [Proc -> 0..Stranger]
  /\ selected \subseteq {p \in Proc : entry[p] # Unread}
  /\ measured \subseteq selected
  /\ present \subseteq Existing
  /\ rootsAtStart \subseteq Proc
  /\ stranger \in BOOLEAN

\* A workload that has just been released.
Init ==
  /\ pstate = [p \in Proc |-> IF p = Leader THEN "running" ELSE "unborn"]
  /\ parent = [p \in Proc |-> Controller]
  /\ group = {Leader}
  /\ ignoring = {}
  /\ doomed = {}
  /\ inCgroup = {}
  /\ leaderExit = "none"
  /\ launch = "started"
  /\ permission = TRUE
  /\ phase = "idle"
  /\ caller = "supervisor"
  /\ leader_alive = FALSE
  /\ entry = [p \in Proc |-> Unread]
  /\ selected = {}
  /\ measured = {}
  /\ present = {}
  /\ rootsAtStart = {}
  /\ stranger = FALSE

Read == {p \in Proc : entry[p] # Unread}

-----------------------------------------------------------------------------
(* The scan.                                                               *)

\* The caller has its snapshot of the shared state and opens /proc.  A monitor's
\* snapshot may be older than the reaping of the leader, the main thread's not.
BeginScan(thread, stale) ==
  /\ stale => thread = "monitor"
  /\ phase = "idle"
  /\ phase' = "stat"
  /\ caller' = thread
  /\ leader_alive' = (stale \/ Leader \in Existing)
  /\ present' = Existing
  /\ rootsAtStart' = Roots
  /\ UNCHANGED <<workloadVars, entry, selected, measured, stranger>>

\* readdir() comes to p next.
Turn(p) ==
  /\ p \notin Read
  /\ Ascending => /\ \A q \in Read : q < p
                  /\ \A q \in Existing \ Read : p <= q

\* read_process_stat() of a workload process: its parent now.  A process that
\* is gone when its file is opened is skipped, as if it had never been listed.
ReadStat(p) ==
  /\ phase = "stat"
  /\ p \in Existing
  /\ Turn(p)
  /\ entry' = [entry EXCEPT ![p] = parent[p]]
  /\ UNCHANGED <<workloadVars, phase, caller, leader_alive, selected, measured,
                 present, rootsAtStart, stranger>>

\* read_process_stat() under the leader's PID finds the unrelated process.
ReadStranger ==
  /\ phase = "stat"
  /\ stranger
  /\ Turn(Leader)
  /\ entry' = [entry EXCEPT ![Leader] = Stranger]
  /\ UNCHANGED <<workloadVars, phase, caller, leader_alive, selected, measured,
                 present, rootsAtStart, stranger>>

\* Mutant: the leader's PID is taken for the leader even when it has been
\* reaped.
RootsByPid ==
  {p \in Read : p = Leader \/ entry[p] = Controller}

\* Mutant: only the leader starts the selection, orphans do not.
RootsByLeader ==
  {p \in Read : leader_alive /\ p = Leader}

\* The entries the selection starts from.
SelectedRoots ==
  {p \in Read : (leader_alive /\ p = Leader) \/ entry[p] = Controller}

\* The end of /proc: every process that has been there all the time was listed.
ScanEnd ==
  /\ phase = "stat"
  /\ present \subseteq Read
  /\ phase' = "select"
  /\ selected' = SelectedRoots
  /\ UNCHANGED <<workloadVars, caller, leader_alive, entry, measured, present,
                 rootsAtStart, stranger>>

\* The scan or an allocation fails, and the caller gets no sample.
CollectFails ==
  /\ phase \in {"stat", "select"}
  /\ phase' = "failed"
  /\ UNCHANGED <<workloadVars, caller, leader_alive, entry, selected, measured,
                 present, rootsAtStart, stranger>>

\* Mutant: the parent is looked up among the roots instead of everything that
\* has been selected so far.
ChildrenOfRoots == {p \in Read \ selected : entry[p] \in SelectedRoots}

\* Entries whose parent is selected while they are not.
Selectable == {p \in Read \ selected : entry[p] \in selected}

\* One assignment of the do-while loop; the order within a pass is immaterial.
SelectChild(p) ==
  /\ phase = "select"
  /\ p \in Selectable
  /\ selected' = selected \cup {p}
  /\ UNCHANGED <<workloadVars, phase, caller, leader_alive, entry, measured,
                 present, rootsAtStart, stranger>>

\* A pass that changes nothing ends the loop.
SelectDone ==
  /\ phase = "select"
  /\ Selectable = {}
  /\ phase' = "memory"
  /\ UNCHANGED <<workloadVars, caller, leader_alive, entry, selected, measured,
                 present, rootsAtStart, stranger>>

\* Mutant: memory is read for every process of the table.
MeasureAll(p) ==
  /\ phase = "memory"
  /\ p \in Read \ measured
  /\ measured' = measured \cup {p}
  /\ UNCHANGED <<workloadVars, phase, caller, leader_alive, entry, selected,
                 present, rootsAtStart, stranger>>

\* read_process_memory() of a selected process; one that is gone when its file
\* is opened stays in the sample and adds nothing.
ReadMemory(p) ==
  /\ phase = "memory"
  /\ p \in selected \ measured
  /\ measured' = measured \cup {p}
  /\ UNCHANGED <<workloadVars, phase, caller, leader_alive, entry, selected,
                 present, rootsAtStart, stranger>>

\* A process that vanishes between fopen() and the read of its status file is a
\* PROC_READ_ERROR here, and the whole sample fails.
MemoryReadFails(p) ==
  /\ phase = "memory"
  /\ p \in selected \ (measured \cup Existing)
  /\ phase' = "failed"
  /\ UNCHANGED <<workloadVars, caller, leader_alive, entry, selected, measured,
                 present, rootsAtStart, stranger>>

\* The sample is complete.
SampleDone ==
  /\ phase = "memory"
  /\ measured = selected
  /\ phase' = "done"
  /\ UNCHANGED <<workloadVars, caller, leader_alive, entry, selected, measured,
                 present, rootsAtStart, stranger>>

\* The caller has used the sample and frees it.
process_tree_sample_destroy ==
  /\ phase \in {"done", "failed"}
  /\ phase' = "idle"
  /\ leader_alive' = FALSE
  /\ entry' = [p \in Proc |-> Unread]
  /\ selected' = {}
  /\ measured' = {}
  /\ present' = {}
  /\ rootsAtStart' = {}
  /\ UNCHANGED <<workloadVars, caller, stranger>>

-----------------------------------------------------------------------------
(* Everyone else, at any moment of the scan.                               *)

\* Processes that are reaped are no longer present.
StillPresent == present' = {p \in present : pstate'[p] # "gone"}

WorkloadMoves ==
  /\ \/ \E p \in Proc, c \in Proc : Fork(p, c)
     \/ \E p \in Proc : Exit(p, "ok")
     \/ \E p \in Proc, c \in Proc : WaitChild(p, c)
  /\ StillPresent
  /\ UNCHANGED <<scanVars, stranger>>

\* reap_available_children() in the main thread, which cannot run while that
\* thread is itself in the scan.
MainReaps ==
  /\ phase = "idle" \/ caller = "monitor"
  /\ \E c \in Proc : Reap(Controller, c)
  /\ StillPresent
  /\ UNCHANGED <<scanVars, stranger>>

\* The kernel gives the leader's PID to a process outside the sandbox.
LeaderPidReused ==
  /\ pstate[Leader] = "gone"
  /\ ~stranger
  /\ stranger' = TRUE
  /\ UNCHANGED <<workloadVars, scanVars, present>>

Next ==
  \/ \E thread \in {"supervisor", "monitor"}, stale \in BOOLEAN : BeginScan(thread, stale)
  \/ \E p \in Proc : ReadStat(p)
  \/ ReadStranger
  \/ ScanEnd
  \/ CollectFails
  \/ \E p \in Proc : SelectChild(p)
  \/ SelectDone
  \/ \E p \in Proc : ReadMemory(p)
  \/ \E p \in Proc : MemoryReadFails(p)
  \/ SampleDone
  \/ process_tree_sample_destroy
  \/ WorkloadMoves
  \/ MainReaps
  \/ LeaderPidReused

Spec == Init /\ [][Next]_vars

-----------------------------------------------------------------------------
(* Properties.                                                             *)

\* In the supervisor's own sample nothing it could reap is missing, whatever
\* the order of PIDs: signal_workload() reaches every root.
RootsSampled ==
  phase = "done" /\ caller = "supervisor" => rootsAtStart \subseteq selected

\* process_count = 0 in the supervisor's sample means that the workload is gone:
\* poll_workload() may mark it as exited.
EmptySampleMeansGone ==
  phase = "done" /\ caller = "supervisor" /\ selected = {} => Existing = {}

\* The supervisor never samples, and so never signals, an unrelated process
\* that was given the leader's PID: this is what leader_alive is for.
NoStrangerSampled ==
  caller = "supervisor" /\ Leader \in selected => entry[Leader] # Stranger

\* Every process that lives through the whole scan is in the sample: leader and
\* all descendants, detached or orphaned ones too.
SurvivorsSampled == phase = "done" => present \subseteq selected
=============================================================================
