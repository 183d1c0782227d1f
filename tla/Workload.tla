------------------------------ MODULE Workload ------------------------------
(***************************************************************************)
(* The workload of the sandbox: the process tree that grows from the child *)
(* Sandbox.c forks, as the Linux kernel presents it to the controller.     *)
(*                                                                         *)
(* Almost everything here is kernel behaviour the controller relies on:    *)
(* fork, exit, zombies, reparenting to the child subreaper, process        *)
(* groups, cgroup membership and fatal signals.  A process is named by its *)
(* order of birth, not by its PID, so a PID that is used twice is two      *)
(* processes; ProcessTree.tla is the module that looks at PIDs.            *)
(***************************************************************************)
EXTENDS Naturals, FiniteSets

CONSTANTS
  MaxProcs,     \* bound: processes the workload may create in all
  Habits        \* which of "detach" and "ignore_term" its processes practise

ASSUME MaxProcsAssumption == MaxProcs \in Nat \ {0}
ASSUME HabitsAssumption == Habits \subseteq {"detach", "ignore_term"}

Proc == 1..MaxProcs
Leader == 1               \* the child main() forks
Controller == 0           \* the sandbox controller, a child subreaper

PState == {"unborn", "running", "zombie", "gone"}
ExitStatus == {"ok", "fail"}   \* code 0; any other code, or a signal
Signals == {"SIGTERM", "SIGKILL"}

VARIABLES
  pstate,       \* pstate[p]: life of process p
  parent,       \* parent[p]: current parent, Controller once orphaned
  group,        \* processes in the leader's process group (zombies too)
  ignoring,     \* processes SIGTERM does not kill (ignored or handled)
  doomed,       \* processes with a fatal signal pending: they can only die
  inCgroup,     \* running processes that belong to the sandbox cgroup
  leaderExit,   \* wait status of the leader, "none" while it lives
  launch,       \* how far the leader's own set-up has come
  permission    \* the launch pipe holds the byte release_child() wrote

workloadVars == <<pstate, parent, group, ignoring, doomed, inCgroup,
                  leaderExit, launch, permission>>

Running == {p \in Proc : pstate[p] = "running"}
Existing == {p \in Proc : pstate[p] \in {"running", "zombie"}}
Unborn == {p \in Proc : pstate[p] = "unborn"}

\* Existing processes the kernel shows with parent q.
ChildrenOf(q) == {p \in Existing : parent[p] = q}

\* The roots of the workload: what only the controller itself can reap.
Roots == ChildrenOf(Controller)

\* Zombies that waitpid() in process q would return.
Reapable(q) == {p \in ChildrenOf(q) : pstate[p] = "zombie"}

\* cgroup.events says "populated 1": a process stops counting when it exits,
\* before anyone has waited for it.
Populated == inCgroup # {}

WorkloadTypeOK ==
  /\ pstate \in [Proc -> PState]
  /\ parent \in [Proc -> Proc \cup {Controller}]
  /\ group \subseteq Proc
  /\ ignoring \subseteq Proc
  /\ doomed \subseteq Proc
  /\ inCgroup \subseteq Proc
  /\ leaderExit \in ExitStatus \cup {"none"}
  /\ launch \in {"setup", "gated", "started"}
  /\ permission \in BOOLEAN

WorkloadInit ==
  /\ pstate = [p \in Proc |-> "unborn"]
  /\ parent = [p \in Proc |-> Controller]
  /\ group = {}
  /\ ignoring = {}
  /\ doomed = {}
  /\ inCgroup = {}
  /\ leaderExit = "none"
  /\ launch = "setup"
  /\ permission = FALSE

-----------------------------------------------------------------------------
(* What the controller does to the workload.                               *)

\* fork() in main(): the child inherits the controller's operator-signal
\* handlers, so SIGTERM does not kill it until it has reset them.
ForkLeader ==
  /\ pstate' = [pstate EXCEPT ![Leader] = "running"]
  /\ ignoring' = {Leader}
  /\ UNCHANGED <<parent, group, doomed, inCgroup, leaderExit, launch,
                 permission>>

\* The processes of S that signal sig kills: everyone for SIGKILL, those that
\* neither ignore nor handle it for SIGTERM.
Killed(sig, S) ==
  (S \cap Running) \ (IF sig = "SIGTERM" THEN ignoring ELSE {})

\* kill() on each process of S; a zombie takes no signal, a gone one is ESRCH.
Signal(sig, S) ==
  /\ doomed' = doomed \cup Killed(sig, S)
  /\ UNCHANGED <<pstate, parent, group, ignoring, inCgroup, leaderExit,
                 launch, permission>>

\* waitpid() in process q returns zombie c; only now does c leave its group.
Reap(q, c) ==
  /\ c \in Reapable(q)
  /\ pstate' = [pstate EXCEPT ![c] = "gone"]
  /\ parent' = [parent EXCEPT ![c] = Controller]
  /\ group' = group \ {c}
  /\ UNCHANGED <<ignoring, doomed, inCgroup, leaderExit, launch, permission>>

-----------------------------------------------------------------------------
(* What the workload does by itself.                                       *)

\* A process that still executes: it exists and no fatal signal is pending.
Active(p) == p \in Running \ doomed

\* run_sandbox_child() up to the launch gate: the default signal handlers are
\* back, the child leads its own process group.
LeaderReachesGate ==
  /\ launch = "setup"
  /\ Active(Leader)
  /\ launch' = "gated"
  /\ ignoring' = ignoring \ {Leader}
  /\ group' = group \cup {Leader}
  /\ UNCHANGED <<pstate, parent, doomed, inCgroup, leaderExit, permission>>

\* wait_for_launch_permission() returns 0; isolation and execve() follow.
LeaderStarts ==
  /\ launch = "gated"
  /\ permission
  /\ Active(Leader)
  /\ launch' = "started"
  /\ UNCHANGED <<pstate, parent, group, ignoring, doomed, inCgroup,
                 leaderExit, permission>>

\* p forks c.  The child inherits group, SIGTERM disposition and cgroup.
Fork(p, c) ==
  /\ launch = "started"
  /\ Active(p)
  /\ c \in Unborn
  /\ \A d \in Unborn : c <= d
  /\ pstate' = [pstate EXCEPT ![c] = "running"]
  /\ parent' = [parent EXCEPT ![c] = p]
  /\ group' = group \cup (IF p \in group THEN {c} ELSE {})
  /\ ignoring' = ignoring \cup (IF p \in ignoring THEN {c} ELSE {})
  /\ inCgroup' = inCgroup \cup (IF p \in inCgroup THEN {c} ELSE {})
  /\ UNCHANGED <<doomed, leaderExit, launch, permission>>

\* setsid() or setpgid(): p detaches from the leader's process group.  The
\* leader itself cannot use setsid() (EPERM), but it leads no session and can
\* join another group of its session, the controller's for one.
LeaveGroup(p) ==
  /\ "detach" \in Habits
  /\ launch = "started"
  /\ Active(p)
  /\ p \in group
  /\ group' = group \ {p}
  /\ UNCHANGED <<pstate, parent, ignoring, doomed, inCgroup, leaderExit,
                 launch, permission>>

\* p ignores or handles SIGTERM from now on.
IgnoreTerm(p) ==
  /\ "ignore_term" \in Habits
  /\ launch = "started"
  /\ Active(p)
  /\ p \notin ignoring
  /\ ignoring' = ignoring \cup {p}
  /\ UNCHANGED <<pstate, parent, group, doomed, inCgroup, leaderExit,
                 launch, permission>>

\* p stops running with status how: it becomes a zombie, leaves its cgroup, and
\* its children, dead or alive, are reparented to the subreaper.
BecomesZombie(p, how) ==
  /\ p \in Running
  /\ pstate' = [pstate EXCEPT ![p] = "zombie"]
  /\ parent' = [c \in Proc |-> IF parent[c] = p THEN Controller ELSE parent[c]]
  /\ leaderExit' = IF p = Leader THEN how ELSE leaderExit
  /\ ignoring' = ignoring \ {p}
  /\ doomed' = doomed \ {p}
  /\ inCgroup' = inCgroup \ {p}
  /\ UNCHANGED <<group, launch, permission>>

\* p exits or is killed by something other than the controller (OOM killer, a
\* fatal fault, another process).  Before the gate the leader only ever fails.
Exit(p, how) ==
  /\ launch # "started" => how # "ok"
  /\ BecomesZombie(p, how)

\* A pending fatal signal takes effect.
Die(p) ==
  /\ p \in doomed
  /\ BecomesZombie(p, "fail")

\* A workload process waits for one of its own children.
WaitChild(p, c) ==
  /\ Active(p)
  /\ Reap(p, c)

WorkloadStep ==
  \/ LeaderReachesGate
  \/ LeaderStarts
  \/ \E p \in Proc, c \in Proc : Fork(p, c)
  \/ \E p \in Proc : LeaveGroup(p)
  \/ \E p \in Proc : IgnoreTerm(p)
  \/ \E p \in Proc, how \in ExitStatus : Exit(p, how)
  \/ \E p \in Proc : Die(p)
  \/ \E p \in Proc, c \in Proc : WaitChild(p, c)
=============================================================================
