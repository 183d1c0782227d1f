-------------------------- MODULE ProcessTreeProofs -------------------------
(***************************************************************************)
(* What process_tree_sample() guarantees, for a workload of any size.      *)
(***************************************************************************)
EXTENDS ProcessTree, WorkloadProofs

\* What each phase of the scan has established.
PhaseInv ==
  /\ phase = "idle" => Read = {}
  /\ phase \in {"idle", "stat"} => selected = {} /\ measured = {}
  /\ phase \in {"select", "memory", "done"} =>
       present \subseteq Read /\ SelectedRoots \subseteq selected
  /\ phase \in {"memory", "done"} => Selectable = {}

\* Table entries are about processes that have been born, and only the PID of
\* a leader that has been reaped can be a stranger's.
EntryInv ==
  /\ stranger => pstate[Leader] = "gone"
  /\ \A p \in Read : pstate[p] # "unborn"
  /\ \A p \in Read : entry[p] = Stranger => p = Leader /\ pstate[p] = "gone"

\* While the main thread samples, nobody else can reap a root, so the roots of
\* the beginning stay roots and are read as such.
SupervisorInv ==
  phase # "idle" /\ caller = "supervisor" =>
    /\ rootsAtStart \subseteq Roots
    /\ rootsAtStart \subseteq present
    /\ \A p \in rootsAtStart \cap Read : entry[p] = Controller
    /\ leader_alive => Leader \in rootsAtStart
    /\ rootsAtStart = {} => Existing = {}

\* In an ascending scan everyone older than a process that was read has been
\* read too, its parent among them, and as itself.
AscendingInv ==
  Ascending =>
    /\ \A p \in Existing, q \in Read : p < q => p \in Read
    /\ \A p \in Read :
         \/ entry[p] = Controller
         \/ entry[p] = Stranger
         \/ entry[p] \in Read /\ entry[p] < p /\ entry[entry[p]] # Stranger

ScanInv ==
  /\ TypeOK
  /\ TreeInv
  /\ PhaseInv
  /\ EntryInv
  /\ SupervisorInv
  /\ NoStrangerSampled
  /\ AscendingInv

-----------------------------------------------------------------------------
\* The leader's parent is the controller: it is the oldest process of all.
LEMMA LeaderIsRoot ==
  ASSUME TreeInv, Leader \in Existing
  PROVE  Leader \in Roots
BY DEF TreeInv, Roots, ChildrenOf, Leader, Running, Proc

\* The child main() forks is one of the workload's processes.
LEMMA LeaderInProc == Leader \in Proc
BY MaxProcsAssumption DEF Leader, Proc

\* The scan invariant holds when the workload has just been released.
LEMMA ScanInit == Init => ScanInv
<1> SUFFICES ASSUME Init PROVE ScanInv
  OBVIOUS
<1> USE DEF Init
<1>1. Existing = {Leader} /\ Read = {} /\ Running = {Leader}
  BY LeaderInProc DEF Existing, Read, Running, Unread
<1>2. WorkloadTypeOK
  BY LeaderInProc DEF WorkloadTypeOK, PState, ExitStatus, Controller, Leader
<1>3. TypeOK
  <2>1. entry \in [Proc -> 0..Stranger]
    BY MaxProcsAssumption DEF Unread, Stranger
  <2> QED
    BY <1>2, <2>1 DEF TypeOK, Phases
<1>4. TreeInv
  BY <1>1, <1>2, MaxProcsAssumption DEF TreeInv, Leader, Proc, Controller
<1>5. PhaseInv /\ EntryInv /\ SupervisorInv /\ NoStrangerSampled /\ AscendingInv
  BY <1>1 DEF PhaseInv, EntryInv, SupervisorInv, NoStrangerSampled, AscendingInv
<1> QED
  BY <1>3, <1>4, <1>5 DEF ScanInv

\* Steps that leave the workload alone keep what is said about it.
LEMMA SameWorkload ==
  ASSUME UNCHANGED workloadVars
  PROVE  /\ TreeInv => TreeInv'
         /\ Existing' = Existing /\ Roots' = Roots /\ Running' = Running
         /\ pstate' = pstate /\ parent' = parent
BY DEF workloadVars, TreeInv, WorkloadTypeOK, Existing, Running, Roots, ChildrenOf

-----------------------------------------------------------------------------
(* The steps of the workload and of the main thread during a scan.         *)

\* How the processes may change while a scan goes on: nobody comes back, new
\* processes were unborn, and the supervisor's roots stay when it scans.
Aging ==
  /\ \A p \in Proc : pstate[p] # "unborn" => pstate'[p] # "unborn"
  /\ \A p \in Proc : pstate[p] = "gone" => pstate'[p] = "gone"
  /\ \A p \in Existing' \ Existing : pstate[p] = "unborn"
  /\ \A p \in Existing : pstate'[p] # "gone" => p \in Existing'
  /\ Existing = {} => Existing' = {}
  /\ phase # "idle" /\ caller = "supervisor" =>
       Roots \subseteq Roots'

\* Whatever the processes do between two reads of /proc, the table so far stays
\* right about them.
LEMMA AgingKeepsScanInv ==
  ASSUME ScanInv, TreeInv', Aging, StillPresent, UNCHANGED <<scanVars, stranger>>
  PROVE  ScanInv'
<1> USE DEF ScanInv
<1>0. Read' = Read /\ SelectedRoots' = SelectedRoots /\ Selectable' = Selectable
  BY DEF scanVars, Read, SelectedRoots, Selectable
<1>1. present' \subseteq present /\ present' \subseteq Existing'
  BY DEF StillPresent, Aging, TypeOK
<1>2. TypeOK'
  BY <1>1 DEF TypeOK, TreeInv, scanVars
<1>3. PhaseInv'
  BY <1>0, <1>1 DEF PhaseInv, scanVars
<1>4. EntryInv'
  BY <1>0, LeaderInProc DEF EntryInv, Aging, scanVars, Read
<1>5. SupervisorInv'
  <2> SUFFICES ASSUME phase # "idle", caller = "supervisor"
               PROVE  /\ rootsAtStart \subseteq Roots'
                      /\ rootsAtStart \subseteq present'
                      /\ \A p \in rootsAtStart \cap Read : entry[p] = Controller
                      /\ leader_alive => Leader \in rootsAtStart
                      /\ rootsAtStart = {} => Existing' = {}
    BY <1>0 DEF SupervisorInv, scanVars
  <2>1. rootsAtStart \subseteq Roots' /\ (rootsAtStart = {} => Existing' = {})
    BY DEF SupervisorInv, Aging
  <2>2. rootsAtStart \subseteq present'
    <3>1. \A p \in rootsAtStart : p \in present /\ p \in Existing'
      BY DEF SupervisorInv, Aging, TypeOK, Roots, ChildrenOf
    <3>2. \A p \in Existing' : pstate'[p] # "gone"
      BY DEF Existing
    <3> QED
      BY <3>1, <3>2 DEF StillPresent
  <2> QED
    BY <2>1, <2>2 DEF SupervisorInv
<1>6. NoStrangerSampled'
  BY DEF NoStrangerSampled, scanVars, Stranger
<1>7. AscendingInv'
  <2> SUFFICES ASSUME Ascending
               PROVE  /\ \A p \in Existing', q \in Read : p < q => p \in Read
                      /\ \A p \in Read :
                           \/ entry[p] = Controller
                           \/ entry[p] = Stranger
                           \/ entry[p] \in Read /\ entry[p] < p /\ entry[entry[p]] # Stranger
    BY <1>0 DEF AscendingInv, scanVars, Stranger
  <2>1. ASSUME NEW p \in Existing', NEW q \in Read, p < q
        PROVE  p \in Read
    <3>1. CASE p \in Existing
      BY <2>1, <3>1 DEF AscendingInv
    <3>2. CASE p \notin Existing
      <4>1. pstate[p] = "unborn" /\ p \in Proc /\ q \in Proc
        BY <2>1, <3>2 DEF Aging, Existing, Read
      <4>2. pstate[q] = "unborn"
        BY <2>1, <4>1 DEF TreeInv
      <4> QED
        BY <4>2 DEF EntryInv
    <3> QED
      BY <3>1, <3>2
  <2> QED
    BY <2>1 DEF AscendingInv
<1> QED
  BY <1>2, <1>3, <1>4, <1>5, <1>6, <1>7

\* Forks, exits and waits inside the workload are such steps.
LEMMA WorkloadKeepsScanInv ==
  ASSUME ScanInv, WorkloadMoves
  PROVE  ScanInv'
<1> USE DEF ScanInv
<1>1. ASSUME NEW p \in Proc, NEW c \in Proc, Fork(p, c)
      PROVE  TreeInv' /\ Aging
  <2>1. /\ TreeInv' /\ Existing' = Existing \cup {c} /\ Roots' = Roots
        /\ c \notin Existing
    BY <1>1, ForkKeepsTree
  <2>2. pstate[c] = "unborn" /\ pstate' = [pstate EXCEPT ![c] = "running"]
    BY <1>1 DEF Fork, Unborn
  <2>3. Existing # {}
    BY <1>1 DEF Fork, Active, Running, Existing
  <2> QED
    BY <2>1, <2>2, <2>3 DEF Aging, TreeInv, WorkloadTypeOK
<1>2. ASSUME NEW p \in Proc, Exit(p, "ok")
      PROVE  TreeInv' /\ Aging
  <2>1. BecomesZombie(p, "ok") /\ "ok" \in ExitStatus
    BY <1>2 DEF Exit, ExitStatus
  <2>2. TreeInv' /\ Existing' = Existing /\ Roots \subseteq Roots'
    BY <2>1, ExitKeepsTree
  <2>3. pstate[p] = "running" /\ pstate' = [pstate EXCEPT ![p] = "zombie"]
    BY <2>1 DEF BecomesZombie, Running
  <2> QED
    BY <2>2, <2>3 DEF Aging, TreeInv, WorkloadTypeOK
<1>3. ASSUME NEW p \in Proc, NEW c \in Proc, WaitChild(p, c)
      PROVE  TreeInv' /\ Aging
  <2>1. Reap(p, c) /\ p # Controller
    BY <1>3 DEF WaitChild, Proc, Controller
  <2>2. /\ TreeInv' /\ Existing' = Existing \ {c} /\ Roots' = Roots
        /\ pstate[c] = "zombie" /\ pstate' = [pstate EXCEPT ![c] = "gone"]
    BY <2>1, ReapKeepsTree
  <2> QED
    BY <2>2 DEF Aging, TreeInv, WorkloadTypeOK
<1>4. TreeInv' /\ Aging
  BY <1>1, <1>2, <1>3 DEF WorkloadMoves
<1> QED
  BY <1>4, AgingKeepsScanInv DEF WorkloadMoves

\* So is reap_available_children() while a monitor thread samples.
LEMMA MainReapsKeepsScanInv ==
  ASSUME ScanInv, MainReaps
  PROVE  ScanInv'
<1> USE DEF ScanInv
<1>1. PICK c \in Proc : Reap(Controller, c)
  BY DEF MainReaps
<1>2. /\ TreeInv' /\ Existing' = Existing \ {c}
      /\ pstate[c] = "zombie" /\ pstate' = [pstate EXCEPT ![c] = "gone"]
  BY <1>1, ReapKeepsTree
<1>3. Aging
  BY <1>2 DEF Aging, TreeInv, WorkloadTypeOK, MainReaps
<1> QED
  BY <1>2, <1>3, AgingKeepsScanInv DEF MainReaps

-----------------------------------------------------------------------------
(* The steps of the scan.                                                  *)

\* A scan begins with an empty table and knows the roots of that moment.
LEMMA BeginKeepsScanInv ==
  ASSUME ScanInv, NEW thread \in {"supervisor", "monitor"}, NEW stale \in BOOLEAN,
         BeginScan(thread, stale)
  PROVE  ScanInv'
<1> USE DEF ScanInv, BeginScan
<1>0. /\ TreeInv' /\ Existing' = Existing /\ Roots' = Roots /\ pstate' = pstate
      /\ WorkloadTypeOK'
  BY SameWorkload DEF TreeInv
<1>1. Read' = Read /\ Read = {} /\ selected = {} /\ measured = {}
  BY DEF Read, PhaseInv
<1>2. TypeOK'
  BY <1>0, <1>1 DEF TypeOK, Phases, Roots, ChildrenOf, Existing
<1>3. PhaseInv' /\ EntryInv' /\ NoStrangerSampled' /\ AscendingInv'
  BY <1>0, <1>1 DEF PhaseInv, EntryInv, NoStrangerSampled, AscendingInv
<1>4. SupervisorInv'
  <2>1. Roots \subseteq Existing
    BY DEF Roots, ChildrenOf
  <2>2. Leader \in Existing => Leader \in Roots
    BY LeaderIsRoot
  <2>3. Roots = {} => Existing = {}
    BY OldestIsRoot
  <2> QED
    BY <1>0, <1>1, <2>1, <2>2, <2>3 DEF SupervisorInv
<1> QED
  BY <1>0, <1>2, <1>3, <1>4

\* read_process_stat() of a workload process adds its parent of that moment.
LEMMA ReadStatKeepsScanInv ==
  ASSUME ScanInv, NEW p \in Proc, ReadStat(p)
  PROVE  ScanInv'
<1> USE DEF ScanInv, ReadStat
<1>0. /\ TreeInv' /\ Existing' = Existing /\ Roots' = Roots /\ pstate' = pstate
      /\ WorkloadTypeOK'
  BY SameWorkload DEF TreeInv
<1>1. parent[p] \in Proc \cup {Controller} /\ parent[p] # Unread /\ parent[p] # Stranger
  BY MaxProcsAssumption
     DEF TreeInv, WorkloadTypeOK, Unread, Stranger, Proc, Controller
<1>2. /\ Read' = Read \cup {p}
      /\ entry'[p] = parent[p]
      /\ \A q \in Proc \ {p} : entry'[q] = entry[q]
  BY <1>1 DEF Read, TypeOK
<1>3. TypeOK'
  <2>1. entry' \in [Proc -> 0..Stranger]
    BY <1>1, MaxProcsAssumption DEF TypeOK, Stranger, Proc, Controller
  <2> QED
    BY <1>0, <1>2, <2>1 DEF TypeOK, PhaseInv
<1>4. PhaseInv' /\ NoStrangerSampled'
  BY DEF PhaseInv, NoStrangerSampled
<1>5. EntryInv'
  BY <1>0, <1>1, <1>2 DEF EntryInv, Existing, Read, Stranger
<1>6. SupervisorInv'
  BY <1>0, <1>2 DEF SupervisorInv, Roots, ChildrenOf, Existing
<1>7. AscendingInv'
  <2> SUFFICES ASSUME Ascending
               PROVE  /\ \A r \in Existing, q \in Read' : r < q => r \in Read'
                      /\ \A q \in Read' :
                           \/ entry'[q] = Controller
                           \/ entry'[q] = Stranger
                           \/ entry'[q] \in Read' /\ entry'[q] < q /\ entry'[entry'[q]] # Stranger
    BY <1>0 DEF AscendingInv, Stranger
  <2>1. /\ p \notin Read
        /\ \A q \in Read : q < p
        /\ \A q \in Existing \ Read : p <= q
    BY DEF Turn
  <2>2. \A r \in Existing, q \in Read' : r < q => r \in Read'
    BY <1>2, <2>1 DEF AscendingInv, Existing, Proc
  <2>3. ASSUME NEW q \in Read
        PROVE  \/ entry'[q] = Controller
               \/ entry'[q] = Stranger
               \/ entry'[q] \in Read' /\ entry'[q] < q /\ entry'[entry'[q]] # Stranger
    <3>1. q \in Proc /\ q # p /\ entry'[q] = entry[q]
      BY <1>2, <2>1, <2>3 DEF Read
    <3>2. entry[q] \in Read => entry[q] \in Proc /\ entry[q] # p
      BY <2>1 DEF Read
    <3> QED
      BY <1>2, <2>3, <3>1, <3>2 DEF AscendingInv
  <2>4. \/ entry'[p] = Controller
        \/ entry'[p] \in Read' /\ entry'[p] < p /\ entry'[entry'[p]] # Stranger
    <3>1. CASE parent[p] = Controller
      BY <1>2, <3>1
    <3>2. CASE parent[p] # Controller
      <4>1. parent[p] \in Running /\ parent[p] < p
        BY <3>2 DEF TreeInv
      <4>2. parent[p] \in Existing /\ pstate[parent[p]] = "running" /\ parent[p] \in Proc
        BY <4>1 DEF Existing, Running
      <4>3. parent[p] \in Read
        BY <2>1, <4>1, <4>2 DEF Proc
      <4>4. entry[parent[p]] # Stranger
        BY <4>2, <4>3 DEF EntryInv
      <4>5. parent[p] # p
        BY <2>1, <4>3
      <4> QED
        BY <1>2, <4>1, <4>2, <4>3, <4>4, <4>5
    <3> QED
      BY <3>1, <3>2
  <2> QED
    BY <1>2, <2>2, <2>3, <2>4
<1> QED
  BY <1>0, <1>3, <1>4, <1>5, <1>6, <1>7

\* read_process_stat() of a reused PID puts a stranger in the leader's place.
LEMMA ReadStrangerKeepsScanInv ==
  ASSUME ScanInv, ReadStranger
  PROVE  ScanInv'
<1> USE DEF ScanInv, ReadStranger
<1>0. /\ TreeInv' /\ Existing' = Existing /\ Roots' = Roots /\ pstate' = pstate
      /\ WorkloadTypeOK'
  BY SameWorkload DEF TreeInv
<1>1. Leader \in Proc /\ pstate[Leader] = "gone" /\ Leader \notin Existing
  BY LeaderInProc DEF EntryInv, Existing
<1>2. /\ Read' = Read \cup {Leader} /\ Leader \notin Read
      /\ entry'[Leader] = Stranger
      /\ \A q \in Proc \ {Leader} : entry'[q] = entry[q]
  BY <1>1, MaxProcsAssumption DEF Read, TypeOK, Turn, Stranger, Unread
<1>3. TypeOK'
  <2>1. entry' \in [Proc -> 0..Stranger]
    BY <1>1, MaxProcsAssumption DEF TypeOK, Stranger
  <2> QED
    BY <1>0, <1>2, <2>1 DEF TypeOK, PhaseInv
<1>4. PhaseInv' /\ NoStrangerSampled'
  BY DEF PhaseInv, NoStrangerSampled
<1>5. EntryInv'
  BY <1>0, <1>1, <1>2 DEF EntryInv, Read, Stranger
<1>6. SupervisorInv'
  BY <1>0, <1>1, <1>2 DEF SupervisorInv, Roots, ChildrenOf, Existing
<1>7. AscendingInv'
  <2> SUFFICES ASSUME Ascending
               PROVE  /\ \A r \in Existing, q \in Read' : r < q => r \in Read'
                      /\ \A q \in Read' :
                           \/ entry'[q] = Controller
                           \/ entry'[q] = Stranger
                           \/ entry'[q] \in Read' /\ entry'[q] < q /\ entry'[entry'[q]] # Stranger
    BY <1>0 DEF AscendingInv, Stranger
  <2>1. Read = {}
    BY DEF Turn, Leader, Read, Proc
  <2>2. Read' = {Leader}
    BY <1>2, <2>1
  <2>3. \A r \in Existing : ~(r < Leader)
    BY DEF Leader, Existing, Proc
  <2> QED
    BY <1>2, <2>2, <2>3
<1> QED
  BY <1>0, <1>3, <1>4, <1>5, <1>6, <1>7

\* The selection starts from the roots of the complete table.
LEMMA ScanEndKeepsScanInv ==
  ASSUME ScanInv, ScanEnd
  PROVE  ScanInv'
<1> USE DEF ScanInv, ScanEnd
<1>0. /\ TreeInv' /\ Existing' = Existing /\ Roots' = Roots /\ pstate' = pstate
      /\ WorkloadTypeOK'
  BY SameWorkload DEF TreeInv
<1>1. Read' = Read /\ SelectedRoots' = SelectedRoots /\ SelectedRoots \subseteq Read
  BY DEF Read, SelectedRoots
<1>2. TypeOK'
  BY <1>0, <1>1 DEF TypeOK, Phases, PhaseInv, Read
<1>3. PhaseInv' /\ EntryInv' /\ SupervisorInv'
  BY <1>0, <1>1 DEF PhaseInv, EntryInv, SupervisorInv, Stranger
<1>4. AscendingInv'
  BY <1>0, <1>1 DEF AscendingInv, Stranger
<1>5. NoStrangerSampled'
  <2> SUFFICES ASSUME caller = "supervisor", Leader \in SelectedRoots
               PROVE  entry[Leader] # Stranger
    BY DEF NoStrangerSampled, Stranger
  <2>1. entry[Leader] = Controller
    BY DEF SelectedRoots, SupervisorInv
  <2> QED
    BY <2>1, MaxProcsAssumption DEF Stranger, Controller
<1> QED
  BY <1>0, <1>2, <1>3, <1>4, <1>5

\* One assignment of the do-while loop selects no stranger.
LEMMA SelectKeepsScanInv ==
  ASSUME ScanInv, NEW p \in Proc, SelectChild(p)
  PROVE  ScanInv'
<1> USE DEF ScanInv, SelectChild
<1>0. /\ TreeInv' /\ Existing' = Existing /\ Roots' = Roots /\ pstate' = pstate
      /\ WorkloadTypeOK'
  BY SameWorkload DEF TreeInv
<1>1. Read' = Read /\ SelectedRoots' = SelectedRoots /\ p \in Read /\ entry[p] \in selected
  BY DEF Read, SelectedRoots, Selectable
<1>2. TypeOK'
  BY <1>0, <1>1 DEF TypeOK, Read
<1>3. PhaseInv' /\ EntryInv' /\ SupervisorInv' /\ AscendingInv'
  BY <1>0, <1>1 DEF PhaseInv, EntryInv, SupervisorInv, AscendingInv, Stranger
<1>4. NoStrangerSampled'
  <2>1. entry[p] \in Proc
    BY <1>1 DEF TypeOK
  <2>2. entry[p] # Stranger
    BY <2>1, MaxProcsAssumption DEF Proc, Stranger
  <2> QED
    BY <2>2 DEF NoStrangerSampled, Stranger
<1> QED
  BY <1>0, <1>2, <1>3, <1>4

\* The steps that only change the phase, the memory total, or free the sample.
LEMMA OtherStepsKeepScanInv ==
  ASSUME ScanInv,
         \/ CollectFails
         \/ SelectDone
         \/ \E p \in Proc : ReadMemory(p)
         \/ \E p \in Proc : MemoryReadFails(p)
         \/ SampleDone
         \/ process_tree_sample_destroy
         \/ LeaderPidReused
  PROVE  ScanInv'
<1> USE DEF ScanInv
<1>0. UNCHANGED workloadVars
  BY DEF CollectFails, SelectDone, ReadMemory, MemoryReadFails, SampleDone,
         process_tree_sample_destroy, LeaderPidReused
<1>1. /\ TreeInv' /\ Existing' = Existing /\ Roots' = Roots /\ pstate' = pstate
      /\ WorkloadTypeOK'
  BY <1>0, SameWorkload DEF TreeInv
<1>2. CASE process_tree_sample_destroy
  <2>1. Read' = {}
    BY <1>2 DEF process_tree_sample_destroy, Read, Unread
  <2>2. entry' \in [Proc -> 0..Stranger]
    BY <1>2, MaxProcsAssumption DEF process_tree_sample_destroy, Unread, Stranger
  <2>3. TypeOK'
    BY <1>1, <1>2, <2>2 DEF process_tree_sample_destroy, TypeOK, Phases
  <2>4. PhaseInv' /\ EntryInv' /\ SupervisorInv' /\ NoStrangerSampled' /\ AscendingInv'
    BY <1>1, <1>2, <2>1
       DEF process_tree_sample_destroy, PhaseInv, EntryInv, SupervisorInv,
           NoStrangerSampled, AscendingInv
  <2> QED
    BY <1>1, <2>3, <2>4
<1>3. CASE ~process_tree_sample_destroy
  <2> DEFINE Tables == <<caller, leader_alive, entry, selected, present, rootsAtStart>>
             PhaseStep == \/ phase' = phase
                          \/ phase = "select" /\ phase' = "memory" /\ Selectable = {}
                          \/ phase = "memory" /\ phase' = "done"
                          \/ phase # "idle" /\ phase' = "failed"
             Measures == measured' \subseteq selected /\ (measured' # measured => phase = "memory")
             Reuse == \/ stranger' = stranger
                      \/ stranger' = TRUE /\ pstate[Leader] = "gone"
  <2>1. UNCHANGED Tables /\ PhaseStep /\ Measures /\ Reuse
    <3>1. CASE CollectFails \/ SelectDone \/ SampleDone
      BY <3>1 DEF CollectFails, SelectDone, SampleDone, TypeOK
    <3>2. CASE \E p \in Proc : ReadMemory(p) \/ MemoryReadFails(p)
      BY <3>2 DEF ReadMemory, MemoryReadFails, TypeOK
    <3>3. CASE LeaderPidReused
      BY <3>3 DEF LeaderPidReused, scanVars, TypeOK
    <3> QED
      BY <1>3, <3>1, <3>2, <3>3
  <2>2. Read' = Read /\ SelectedRoots' = SelectedRoots /\ Selectable' = Selectable
    BY <2>1 DEF Read, SelectedRoots, Selectable
  <2>3. TypeOK'
    BY <1>1, <2>1, <2>2 DEF TypeOK, Phases
  <2>4. PhaseInv'
    BY <2>1, <2>2 DEF PhaseInv
  <2>5. EntryInv' /\ SupervisorInv' /\ NoStrangerSampled' /\ AscendingInv'
    BY <1>1, <2>1, <2>2
       DEF EntryInv, SupervisorInv, NoStrangerSampled, AscendingInv, Stranger
  <2> QED
    BY <1>1, <2>3, <2>4, <2>5
<1> QED
  BY <1>2, <1>3

\* The scan invariant is inductive.
LEMMA ScanNext == ScanInv /\ [Next]_vars => ScanInv'
<1> SUFFICES ASSUME ScanInv, [Next]_vars PROVE ScanInv'
  OBVIOUS
<1>1. CASE UNCHANGED vars
  <2>1. /\ TreeInv' /\ Existing' = Existing /\ Roots' = Roots /\ pstate' = pstate
        /\ WorkloadTypeOK'
    BY <1>1, SameWorkload DEF ScanInv, TreeInv, vars
  <2>2. Read' = Read /\ SelectedRoots' = SelectedRoots /\ Selectable' = Selectable
    BY <1>1 DEF Read, SelectedRoots, Selectable, vars, scanVars
  <2> QED
    BY <1>1, <2>1, <2>2
       DEF ScanInv, TypeOK, PhaseInv, EntryInv, SupervisorInv, NoStrangerSampled,
           AscendingInv, vars, scanVars, Stranger
<1>2. CASE Next
  BY <1>2, BeginKeepsScanInv, ReadStatKeepsScanInv, ReadStrangerKeepsScanInv,
     ScanEndKeepsScanInv, SelectKeepsScanInv, OtherStepsKeepScanInv,
     WorkloadKeepsScanInv, MainReapsKeepsScanInv DEF Next
<1> QED
  BY <1>1, <1>2

\* A sample that is complete holds everything that was read, except a stranger:
\* were there an oldest process left out, its parent would be in the sample.
LEMMA ReadIsSelected ==
  ASSUME ScanInv, Ascending, phase = "done"
  PROVE  \A p \in Read : entry[p] # Stranger => p \in selected
<1> DEFINE Missed == {p \in Read : entry[p] # Stranger /\ p \notin selected}
<1> SUFFICES ASSUME Missed # {} PROVE FALSE
  OBVIOUS
<1>1. Missed \in SUBSET Nat
  BY DEF Read, Proc
<1>2. PICK p \in Missed : \A q \in Missed : p <= q
  BY <1>1, LeastNatural
<1>3. p \in Read /\ entry[p] # Stranger /\ p \notin selected /\ p \in Nat
  BY <1>1, <1>2 DEF Missed
<1>4. entry[p] # Controller
  BY <1>3 DEF ScanInv, PhaseInv, SelectedRoots
<1>5. entry[p] \in Read /\ entry[p] < p /\ entry[entry[p]] # Stranger
  BY <1>3, <1>4 DEF ScanInv, AscendingInv
<1>6. entry[p] \notin Missed
  BY <1>1, <1>2, <1>3, <1>5, SMT
<1>7. entry[p] \in selected
  BY <1>5, <1>6 DEF Missed
<1> QED
  BY <1>3, <1>7 DEF ScanInv, PhaseInv, Selectable

-----------------------------------------------------------------------------
(* The theorems.                                                           *)

\* At every moment of every scan the table, the selection and the processes are
\* related as ScanInv says: the invariant the results below rest on.
THEOREM ScanInvariant == Spec => []ScanInv
BY ScanInit, ScanNext, PTL DEF Spec

\* The table, the selection and the memory pass of process_tree_sample() are
\* well formed in every reachable state.
THEOREM ScanTypeCorrect == Spec => []TypeOK
<1>1. ScanInv => TypeOK
  BY DEF ScanInv
<1> QED
  BY <1>1, ScanInvariant, PTL

\* Whatever the order of PIDs, signal_workload() has every root of the workload
\* in its sample.
THEOREM RootsAreSampled == Spec => []RootsSampled
<1>1. ScanInv => RootsSampled
  <2> SUFFICES ASSUME ScanInv, phase = "done", caller = "supervisor",
                      NEW p \in rootsAtStart
               PROVE  p \in selected
    BY DEF RootsSampled
  <2>1. p \in Read
    BY DEF ScanInv, SupervisorInv, PhaseInv
  <2>2. entry[p] = Controller
    BY <2>1 DEF ScanInv, SupervisorInv
  <2> QED
    BY <2>1, <2>2 DEF ScanInv, PhaseInv, SelectedRoots
<1> QED
  BY <1>1, ScanInvariant, PTL

\* Whatever the order of PIDs, poll_workload() takes an empty sample for the end
\* of the workload, and it is.
THEOREM EmptySampleIsEnd == Spec => []EmptySampleMeansGone
<1>1. ScanInv => EmptySampleMeansGone
  <2> SUFFICES ASSUME ScanInv, phase = "done", caller = "supervisor", selected = {}
               PROVE  Existing = {}
    BY DEF EmptySampleMeansGone
  <2>1. rootsAtStart = {}
    <3> SUFFICES ASSUME NEW p \in rootsAtStart PROVE FALSE
      OBVIOUS
    <3>1. p \in Read /\ entry[p] = Controller
      BY DEF ScanInv, SupervisorInv, PhaseInv
    <3> QED
      BY <3>1 DEF ScanInv, PhaseInv, SelectedRoots
  <2> QED
    BY <2>1 DEF ScanInv, SupervisorInv
<1> QED
  BY <1>1, ScanInvariant, PTL

\* signal_workload() never reaches an unrelated process through the leader's
\* recycled PID.
THEOREM StrangerIsSafe == Spec => []NoStrangerSampled
<1>1. ScanInv => NoStrangerSampled
  BY DEF ScanInv
<1> QED
  BY <1>1, ScanInvariant, PTL

\* With PIDs in order of birth, no process that lives through the scan escapes
\* the sample, however it forks, detaches or loses its parent meanwhile.
THEOREM AscendingScanIsComplete == ASSUME Ascending PROVE Spec => []SurvivorsSampled
<1>1. ScanInv => SurvivorsSampled
  <2> SUFFICES ASSUME ScanInv, phase = "done", NEW p \in present
               PROVE  p \in selected
    BY DEF SurvivorsSampled
  <2>1. p \in Read /\ p \in Existing
    BY DEF ScanInv, PhaseInv, TypeOK
  <2>2. entry[p] # Stranger
    BY <2>1 DEF ScanInv, EntryInv, Existing
  <2> QED
    BY <2>1, <2>2, ReadIsSelected
<1> QED
  BY <1>1, ScanInvariant, PTL
=============================================================================
