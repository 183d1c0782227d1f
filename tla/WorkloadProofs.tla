--------------------------- MODULE WorkloadProofs ---------------------------
(***************************************************************************)
(* Facts about the process tree that the proofs of the other modules use.  *)
(***************************************************************************)
EXTENDS Workload, WellFoundedInduction, TLAPS

\* Every existing process is the child of the controller, or of a process that
\* runs and is older.  Processes are born in order.
TreeInv ==
  /\ WorkloadTypeOK
  /\ \A p \in Existing :
       \/ parent[p] = Controller
       \/ parent[p] \in Running /\ parent[p] < p
  /\ \A p, q \in Proc : p < q /\ pstate[p] = "unborn" => pstate[q] = "unborn"

\* A nonempty set of natural numbers has a least element.
LEMMA LeastNatural ==
  ASSUME NEW S \in SUBSET Nat, S # {}
  PROVE  \E n \in S : \A m \in S : n <= m
<1>1. PICK n \in S : \A m \in S : ~(<<m, n>> \in OpToRel(<, Nat))
  BY NatLessThanWellFounded, WFMin
<1>2. \A m \in S : ~(m < n)
  BY <1>1 DEF OpToRel
<1> QED
  BY <1>2

\* The oldest process that exists has lost its parent, or is the leader: a
\* workload that is not over has a root.
LEMMA OldestIsRoot ==
  ASSUME TreeInv, Existing # {}
  PROVE  Roots # {}
<1>1. Existing \in SUBSET Nat
  BY DEF Existing, Proc
<1>2. PICK p \in Existing : \A q \in Existing : p <= q
  BY <1>1, LeastNatural
<1>3. parent[p] \notin Running \/ ~(parent[p] < p)
  BY <1>1, <1>2 DEF Running, Existing, Proc
<1> QED
  BY <1>2, <1>3 DEF TreeInv, Roots, ChildrenOf

\* fork() keeps the tree in order.
LEMMA ForkKeepsTree ==
  ASSUME TreeInv, NEW p \in Proc, NEW c \in Proc, Fork(p, c)
  PROVE  /\ TreeInv'
         /\ Existing' = Existing \cup {c}
         /\ c \notin Existing
         /\ Running' = Running \cup {c}
         /\ Roots' = Roots
<1> USE DEF TreeInv, WorkloadTypeOK, Fork, Active
<1>1. pstate[c] = "unborn" /\ pstate[p] = "running" /\ c # p
  BY DEF Unborn, Running
<1>2. pstate' = [pstate EXCEPT ![c] = "running"] /\ parent' = [parent EXCEPT ![c] = p]
  OBVIOUS
<1>3. p < c
  BY <1>1 DEF Proc
<1>4. WorkloadTypeOK'
  <2>1. pstate' \in [Proc -> PState]
    BY <1>2 DEF PState
  <2>2. parent' \in [Proc -> Proc \cup {Controller}]
    BY <1>2
  <2> QED
    BY <2>1, <2>2
<1>5. /\ Existing' = Existing \cup {c} /\ c \notin Existing
      /\ Running' = Running \cup {c}
  BY <1>1, <1>2 DEF Existing, Running
<1>6. \A q \in Existing' : \/ parent'[q] = Controller
                           \/ parent'[q] \in Running' /\ parent'[q] < q
  BY <1>1, <1>2, <1>3, <1>5 DEF Running
<1>7. \A q, r \in Proc : q < r /\ pstate'[q] = "unborn" => pstate'[r] = "unborn"
  <2> SUFFICES ASSUME NEW q \in Proc, NEW r \in Proc, q < r,
                      pstate'[q] = "unborn"
               PROVE  pstate'[r] = "unborn"
    OBVIOUS
  <2>1. q # c /\ pstate[q] = "unborn"
    BY <1>2
  <2>2. r # c
    BY <2>1 DEF Unborn, Proc
  <2> QED
    BY <1>2, <2>1, <2>2
<1>8. Roots' = Roots
  BY <1>1, <1>2, <1>5 DEF Roots, ChildrenOf, Controller, Proc
<1> QED
  BY <1>4, <1>5, <1>6, <1>7, <1>8

\* An exit keeps the tree in order: orphans become children of the subreaper.
LEMMA ExitKeepsTree ==
  ASSUME TreeInv, NEW p \in Proc, NEW how \in ExitStatus, BecomesZombie(p, how)
  PROVE  /\ TreeInv'
         /\ Existing' = Existing
         /\ Running' = Running \ {p}
         /\ Roots \subseteq Roots'
<1> USE DEF TreeInv, WorkloadTypeOK, BecomesZombie
<1>1. pstate[p] = "running" /\ pstate' = [pstate EXCEPT ![p] = "zombie"]
  BY DEF Running
<1>2. \A c \in Proc : parent'[c] = IF parent[c] = p THEN Controller ELSE parent[c]
  OBVIOUS
<1>3. Existing' = Existing /\ Running' = Running \ {p}
  BY <1>1 DEF Existing, Running
<1>4. WorkloadTypeOK'
  <2>1. pstate' \in [Proc -> PState]
    BY <1>1 DEF PState
  <2>2. parent' \in [Proc -> Proc \cup {Controller}]
    OBVIOUS
  <2>3. leaderExit' \in ExitStatus \cup {"none"}
    OBVIOUS
  <2> QED
    BY <2>1, <2>2, <2>3
<1>5. \A q \in Existing' : \/ parent'[q] = Controller
                           \/ parent'[q] \in Running' /\ parent'[q] < q
  BY <1>2, <1>3 DEF Existing
<1>6. \A q, r \in Proc : q < r /\ pstate'[q] = "unborn" => pstate'[r] = "unborn"
  BY <1>1
<1>7. Roots \subseteq Roots'
  BY <1>2, <1>3 DEF Roots, ChildrenOf, Existing
<1> QED
  BY <1>3, <1>4, <1>5, <1>6, <1>7

\* waitpid() keeps the tree in order: a zombie has no children any more.
LEMMA ReapKeepsTree ==
  ASSUME TreeInv, NEW q, NEW c \in Proc, Reap(q, c)
  PROVE  /\ TreeInv'
         /\ Existing' = Existing \ {c}
         /\ c \in Existing
         /\ Running' = Running
         /\ pstate[c] = "zombie"
         /\ pstate' = [pstate EXCEPT ![c] = "gone"]
         /\ q # Controller => Roots' = Roots
<1> USE DEF TreeInv, WorkloadTypeOK, Reap
<1>1. c \in Existing /\ parent[c] = q /\ pstate[c] = "zombie"
  BY DEF Reapable, ChildrenOf
<1>2. pstate' = [pstate EXCEPT ![c] = "gone"] /\ parent' = [parent EXCEPT ![c] = Controller]
  OBVIOUS
<1>3. Existing' = Existing \ {c} /\ Running' = Running
  BY <1>1, <1>2 DEF Existing, Running
<1>4. WorkloadTypeOK'
  BY <1>2 DEF PState
<1>5. \A r \in Existing' : \/ parent'[r] = Controller
                           \/ parent'[r] \in Running' /\ parent'[r] < r
  BY <1>2, <1>3
<1>6. \A r, s \in Proc : r < s /\ pstate'[r] = "unborn" => pstate'[s] = "unborn"
  BY <1>1, <1>2
<1>7. q # Controller => Roots' = Roots
  BY <1>1, <1>2, <1>3 DEF Roots, ChildrenOf
<1> QED
  BY <1>1, <1>2, <1>3, <1>4, <1>5, <1>6, <1>7

\* Every step of the workload keeps the types of its variables.
LEMMA WorkloadStepType ==
  ASSUME WorkloadTypeOK, WorkloadStep
  PROVE  WorkloadTypeOK'
<1> USE DEF WorkloadTypeOK, PState, ExitStatus
<1>1. CASE LeaderReachesGate
  BY <1>1, MaxProcsAssumption DEF LeaderReachesGate, Leader, Proc
<1>2. CASE LeaderStarts
  BY <1>2 DEF LeaderStarts
<1>3. ASSUME NEW p \in Proc, NEW c \in Proc, Fork(p, c)
      PROVE  WorkloadTypeOK'
  BY <1>3 DEF Fork
<1>4. ASSUME NEW p \in Proc, LeaveGroup(p) \/ IgnoreTerm(p)
      PROVE  WorkloadTypeOK'
  BY <1>4 DEF LeaveGroup, IgnoreTerm
<1>5. ASSUME NEW p \in Proc, NEW how \in ExitStatus, BecomesZombie(p, how)
      PROVE  WorkloadTypeOK'
  BY <1>5 DEF BecomesZombie
<1>6. ASSUME NEW p \in Proc, NEW c \in Proc, WaitChild(p, c)
      PROVE  WorkloadTypeOK'
  BY <1>6 DEF WaitChild, Reap
<1> QED
  BY <1>1, <1>2, <1>3, <1>4, <1>5, <1>6 DEF WorkloadStep, Exit, Die
=============================================================================
