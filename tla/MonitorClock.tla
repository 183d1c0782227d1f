---------------------------- MODULE MonitorClock ----------------------------
(***************************************************************************)
(* The arithmetic of time in timeout_monitor_thread() (monitor.c): when    *)
(* does a thread that polls a clock of seconds and nanoseconds, computes   *)
(* whole milliseconds and sleeps through interruptions ask for the         *)
(* termination.  Time is counted in ticks, the nanoseconds of the code;    *)
(* the thread may be delayed for any time between two of its steps.        *)
(***************************************************************************)
EXTENDS Integers

CONSTANTS
  TicksPerMs,   \* 1000000 in the code
  MsPerSecond,  \* 1000 in the code
  TimeoutSeconds,        \* timeout_seconds
  Poll,         \* poll_interval_milliseconds
  StartTimes,       \* the moments at which the thread may start
  Horizon       \* bound on the time

ASSUME ClockAssumption ==
  /\ {TicksPerMs, MsPerSecond, TimeoutSeconds, Poll, Horizon} \subseteq Nat \ {0}
  /\ StartTimes \subseteq Nat

VARIABLES
  now, clock_pc,
  start, current,    \* the two readings, in ticks
  wake,              \* when the pending nanosleep() is over
  remaining,         \* what an interrupted one left
  slept_from         \* when sleep_milliseconds() was called

clock_vars == <<now, clock_pc, start, current, wake, remaining, slept_from>>

TicksPerSecond == TicksPerMs * MsPerSecond

\* struct timespec
Timespec(t) == [tv_sec |-> t \div TicksPerSecond, tv_nsec |-> t % TicksPerSecond]

\* Division of C, which truncates towards zero.
Quotient(a, b) == IF a >= 0 THEN a \div b ELSE -((-a) \div b)

elapsed_milliseconds(from, to) ==
  (to.tv_sec - from.tv_sec) * MsPerSecond + Quotient(to.tv_nsec - from.tv_nsec, TicksPerMs)

Elapsed == elapsed_milliseconds(Timespec(start), Timespec(current))

ClockStart ==
  /\ clock_pc = "begin"
  /\ start = 0 /\ current = 0 /\ wake = 0 /\ remaining = 0 /\ slept_from = 0

ClockInit == now \in StartTimes /\ ClockStart

Tick ==
  /\ now < Horizon /\ clock_pc # "requested"
  /\ now' = now + 1
  /\ UNCHANGED <<clock_pc, start, current, wake, remaining, slept_from>>

ReadStart ==
  /\ clock_pc = "begin"
  /\ start' = now /\ current' = now
  /\ clock_pc' = "check"
  /\ UNCHANGED <<now, wake, remaining, slept_from>>

\* Mutant: the limit has to be passed.
CheckPassed ==
  /\ clock_pc = "check"
  /\ current' = now
  /\ clock_pc' = IF elapsed_milliseconds(Timespec(start), Timespec(now)) > TimeoutSeconds * MsPerSecond
           THEN "requested" ELSE "sleep"
  /\ UNCHANGED <<now, start, wake, remaining, slept_from>>

\* clock_gettime(), the comparison and, if it holds, the request.
CheckLimit ==
  /\ clock_pc = "check"
  /\ current' = now
  /\ clock_pc' = IF elapsed_milliseconds(Timespec(start), Timespec(now)) >= TimeoutSeconds * MsPerSecond
           THEN "requested" ELSE "sleep"
  /\ UNCHANGED <<now, start, wake, remaining, slept_from>>

\* sleep_milliseconds(): nanosleep() with the whole delay.
Sleep ==
  /\ clock_pc = "sleep"
  /\ slept_from' = now /\ wake' = now + Poll * TicksPerMs
  /\ clock_pc' = "asleep"
  /\ UNCHANGED <<now, start, current, remaining>>

\* EINTR: the rest of the delay is stored, however long the handler takes.
Interrupted ==
  /\ clock_pc = "asleep" /\ now < wake
  /\ remaining' = wake - now /\ wake' = 0
  /\ clock_pc' = "again"
  /\ UNCHANGED <<now, start, current, slept_from>>

\* Mutant: an interrupted sleep is over.
GiveUpSleep ==
  /\ clock_pc = "again"
  /\ clock_pc' = "awake"
  /\ UNCHANGED <<now, start, current, wake, remaining, slept_from>>

\* delay = remaining
SleepAgain ==
  /\ clock_pc = "again"
  /\ wake' = now + remaining /\ remaining' = 0
  /\ clock_pc' = "asleep"
  /\ UNCHANGED <<now, start, current, slept_from>>

WakeUp ==
  /\ clock_pc = "asleep" /\ now >= wake
  /\ clock_pc' = "awake"
  /\ UNCHANGED <<now, start, current, wake, remaining, slept_from>>

\* The next round of the loop: the variables of sleep_milliseconds() are gone.
Again ==
  /\ clock_pc = "awake"
  /\ clock_pc' = "check"
  /\ wake' = 0 /\ remaining' = 0 /\ slept_from' = 0
  /\ UNCHANGED <<now, start, current>>

\* The request ends the thread; the bound ends time.
ClockDone == (clock_pc = "requested" \/ now = Horizon) /\ UNCHANGED clock_vars

ClockNext ==
  \/ Tick \/ ReadStart \/ CheckLimit \/ Sleep \/ Interrupted \/ SleepAgain
  \/ WakeUp \/ Again \/ ClockDone

ClockSpec == ClockInit /\ [][ClockNext]_clock_vars

-----------------------------------------------------------------------------
Real == current - start
LimitTicks == TimeoutSeconds * TicksPerSecond

\* The truncated difference is off by less than one millisecond, never below
\* zero, and so never a huge number after the conversion to uint64_t
\* (elapsed_milliseconds(), monitor.c 55-62), whatever the two nanosecond
\* fields are.
ElapsedWithinOne ==
  clock_pc # "begin" =>
    /\ Elapsed >= 0
    /\ Elapsed * TicksPerMs < Real + TicksPerMs
    /\ Elapsed * TicksPerMs > Real - TicksPerMs

\* The thread goes to sleep only while the limit has not been reached, and it
\* asks for the termination at most one millisecond before (monitor.c 221-238).
RequestedInTime ==
  /\ clock_pc = "sleep" => Real < LimitTicks
  /\ clock_pc = "requested" => Real > LimitTicks - TicksPerMs

\* The timeout thread computes the time right and acts on it in time (monitor.c
\* 55-62 and 221-238): the two parts above.
TimeoutIsKept == ElapsedWithinOne /\ RequestedInTime

\* Interruptions do not shorten the interval between two checks
\* (sleep_milliseconds(), monitor.c 38-53).
SleepIsWhole == clock_pc = "awake" => now - slept_from >= Poll * TicksPerMs
=============================================================================
