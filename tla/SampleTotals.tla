---------------------------- MODULE SampleTotals ----------------------------
(***************************************************************************)
(* The figures of a sample: what read_process_memory() makes of a status   *)
(* file, how process_tree_sample() adds them up without wrapping around,   *)
(* and what the memory and CPU monitors conclude (process_tree.c,          *)
(* monitor.c).                                                             *)
(***************************************************************************)
EXTENDS Naturals, Sequences, FiniteSetsExt

CONSTANTS
  UMax,          \* ULONG_MAX and ULLONG_MAX
  Figures,        \* the figures a file may show
  MaxProcesses,  \* bound on the selected processes
  MemoryLimits         \* the values of memory_limit_kilobytes

ASSUME TotalsAssumption ==
  UMax \in Nat /\ Figures \subseteq 0..UMax /\ MemoryLimits \subseteq 1..UMax

VARIABLES
  processes,   \* the selected processes: their status file and ticks
  sample_index,
  sample_memory, fallback, user_ticks, system_ticks,
  state        \* "adding", "done" or "failed"

totals_vars == <<processes, sample_index, sample_memory, fallback, user_ticks, system_ticks, state>>

\* A line of /proc/PID/status that matters, in kB.
StatusLine == [key : {"VmSize", "VmRSS"}, value : Figures]

\* A file shows each of the two at most once, in either order.
StatusFiles ==
  {s \in UNION {[1..n -> StatusLine] : n \in 0..2} :
     \A i, j \in DOMAIN s : s[i].key = s[j].key => i = j}

\* A process may be gone when its file is opened, or become unreadable.
Process ==
  [status : {"readable"}, lines : StatusFiles, user : Figures, system : Figures]
    \cup [status : {"gone", "unreadable"}, lines : {<<>>}, user : {1}, system : {0}]

TotalsStart ==
  /\ sample_index = 1 /\ sample_memory = 0 /\ fallback = FALSE
  /\ user_ticks = 0 /\ system_ticks = 0 /\ state = "adding"

TotalsInit ==
  /\ processes \in UNION {[1..n -> Process] : n \in 0..MaxProcesses}
  /\ TotalsStart

-----------------------------------------------------------------------------
LinesOf(p, key) == {i \in DOMAIN p.lines : p.lines[i].key = key}

\* read_process_memory(): the first VmRSS ends the search, the last VmSize is
\* used when there is none, and a kernel thread or zombie has neither.
read_process_memory(p) ==
  IF LinesOf(p, "VmRSS") # {} THEN p.lines[Min(LinesOf(p, "VmRSS"))].value
  ELSE IF LinesOf(p, "VmSize") # {} THEN p.lines[Max(LinesOf(p, "VmSize"))].value
  ELSE 0

UsedFallback(p) == LinesOf(p, "VmRSS") = {} /\ LinesOf(p, "VmSize") # {}

\* Mutant: the sum wraps around.
Wrapping(total, value) == (total + value) % (UMax + 1)

Saturating(total, value) == IF UMax - total < value THEN UMax ELSE total + value

\* One round of the loop in process_tree_sample().
AddProcess ==
  /\ state = "adding" /\ sample_index <= Len(processes)
  /\ LET p == processes[sample_index] IN
     /\ user_ticks' = Saturating(user_ticks, p.user)
     /\ system_ticks' = Saturating(system_ticks, p.system)
     /\ \/ /\ p.status = "readable"
           /\ sample_memory' = Saturating(sample_memory, read_process_memory(p))
           /\ fallback' = (fallback \/ UsedFallback(p))
           /\ sample_index' = sample_index + 1 /\ UNCHANGED state
        \/ /\ p.status = "gone"
           /\ sample_index' = sample_index + 1 /\ UNCHANGED <<sample_memory, fallback, state>>
        \/ /\ p.status = "unreadable"
           /\ state' = "failed" /\ UNCHANGED <<sample_memory, fallback, sample_index>>
  /\ UNCHANGED processes

FinishTotals ==
  /\ state = "adding" /\ sample_index > Len(processes)
  /\ state' = "done"
  /\ UNCHANGED <<processes, sample_index, sample_memory, fallback, user_ticks, system_ticks>>

TotalsDone == state # "adding" /\ UNCHANGED totals_vars

TotalsNext == AddProcess \/ FinishTotals \/ TotalsDone

TotalsSpec == TotalsInit /\ [][TotalsNext]_totals_vars

\* memory_monitor_thread()
LimitExceeded(limit) == sample_memory >= limit

\* cpu_monitor_thread()
total_ticks == Saturating(user_ticks, system_ticks)

-----------------------------------------------------------------------------
\* What a process counts for: the line the kernel shows for resident memory,
\* or else the one for virtual memory.
Shows(p, key, v) == \E i \in DOMAIN p.lines : p.lines[i] = [key |-> key, value |-> v]

Footprint(p) ==
  LET shown == {v \in Figures : Shows(p, "VmRSS", v)}
      instead == {v \in Figures : Shows(p, "VmSize", v)}
  IN IF shown \cup instead = {} THEN 0
     ELSE CHOOSE v \in (IF shown # {} THEN shown ELSE instead) : TRUE

\* The exact figures of the first n processes together.
MemoryOf[n \in 0..Len(processes)] ==
  IF n = 0 THEN 0 ELSE MemoryOf[n - 1] + Footprint(processes[n])
TicksOf[n \in 0..Len(processes)] ==
  IF n = 0 THEN 0 ELSE TicksOf[n - 1] + processes[n].user + processes[n].system

TrueMemory == MemoryOf[Len(processes)]
TrueTicks == TicksOf[Len(processes)]

\* A complete sample exceeds a limit exactly when the processes together do,
\* also when their sum is beyond the type (process_tree.c 392-434, monitor.c
\* 328-341); the CPU total is the exact one or the largest number, so that it
\* never looks smaller than it was because of an overflow (monitor.c 404-406).
LimitIsNotMissed ==
  state = "done" =>
    /\ \A limit \in MemoryLimits : LimitExceeded(limit) <=> TrueMemory >= limit
    /\ total_ticks = Min({UMax, TrueTicks})
=============================================================================
