------------------------------- MODULE Options ------------------------------
(***************************************************************************)
(* parse_options() (Sandbox.c) on every short argument list.  An argument  *)
(* is a word, named for what the code tells apart, or a numeral: a sign,   *)
(* a magnitude and perhaps more characters behind it.                      *)
(***************************************************************************)
EXTENDS Naturals, Sequences, FiniteSetsExt

CONSTANTS
  Width,             \* the bits of unsigned long
  MaximumTimeout,    \* MAXIMUM_TIMEOUT_SECONDS
  MaximumMemory,     \* MAXIMUM_MEMORY_LIMIT_KILOBYTES
  DefaultTimeout,    \* DEFAULT_TIMEOUT_SECONDS
  Numerals,          \* the numerals that occur
  MaxArguments       \* bound on argc - 1

ASSUME OptionsAssumption ==
  /\ {Width, MaximumTimeout, MaximumMemory, DefaultTimeout} \subseteq Nat \ {0}
  /\ 2 ^ Width \in Nat
  /\ MaximumTimeout < 2 ^ Width /\ MaximumMemory < 2 ^ Width
  /\ DefaultTimeout <= MaximumTimeout

VARIABLES argv, argument_index, timeout, memory_limit, target, parse_result

parse_vars == <<argv, argument_index, timeout, memory_limit, target, parse_result>>

Numeral(minus, magnitude, junk) ==
  [kind |-> "numeral", minus |-> minus, magnitude |-> magnitude, junk |-> junk]
Word(kind) == [kind |-> kind]

OptionWords == {Word(k) : k \in {"--timeout", "--memory-kb", "--", "-other", "empty", "word"}}

StartsWithDash(a) ==
  a.kind \in {"--timeout", "--memory-kb", "--", "-other"} \/ (a.kind = "numeral" /\ a.minus)

ParseStart ==
  /\ argument_index = 1
  /\ timeout = DefaultTimeout /\ memory_limit = 0
  /\ target = 0 /\ parse_result = "none"

ParseInit ==
  /\ argv \in UNION {[1..n -> OptionWords \cup Numerals] : n \in 0..MaxArguments}
  /\ ParseStart

\* strtoul(): a minus sign negates the result in the unsigned type.
strtoul(a) == IF a.minus THEN (2 ^ Width - a.magnitude) % 2 ^ Width ELSE a.magnitude

\* Mutant: a limit of zero is let through.
ParsesZero(a, maximum) ==
  /\ a.kind = "numeral" /\ a.magnitude < 2 ^ Width /\ ~a.junk
  /\ strtoul(a) \in 0..maximum

\* parse_unsigned_limit(): no digits, characters after them, a number out of
\* range of the type (ERANGE) and one out of range of the option are refused.
Parses(a, maximum) ==
  /\ a.kind = "numeral" /\ a.magnitude < 2 ^ Width /\ ~a.junk
  /\ strtoul(a) \in 1..maximum

Present == parse_result = "none" /\ argument_index <= Len(argv)
Argument == argv[argument_index]

\* The argument is an option whose value is missing or bad.
Lacks(option, maximum) ==
  /\ Argument.kind = option
  /\ argument_index + 1 <= Len(argv) => ~Parses(argv[argument_index + 1], maximum)

Gives(option, maximum) ==
  /\ Argument.kind = option
  /\ argument_index + 1 <= Len(argv)
  /\ Parses(argv[argument_index + 1], maximum)

TakeTimeout ==
  /\ Present /\ Gives("--timeout", MaximumTimeout)
  /\ timeout' = strtoul(argv[argument_index + 1])
  /\ argument_index' = argument_index + 2
  /\ UNCHANGED <<argv, memory_limit, target, parse_result>>

TakeMemory ==
  /\ Present /\ Gives("--memory-kb", MaximumMemory)
  /\ memory_limit' = strtoul(argv[argument_index + 1])
  /\ argument_index' = argument_index + 2
  /\ UNCHANGED <<argv, timeout, target, parse_result>>

RefuseArguments ==
  /\ Present
  /\ \/ Lacks("--timeout", MaximumTimeout)
     \/ Lacks("--memory-kb", MaximumMemory)
     \/ /\ StartsWithDash(Argument)
        /\ Argument.kind \notin {"--timeout", "--memory-kb", "--"}
  /\ parse_result' = "refused"
  /\ UNCHANGED <<argv, argument_index, timeout, memory_limit, target>>

\* The checks behind the loop, with the target at position t.
EndOfOptions(t) ==
  /\ IF t <= Len(argv) /\ argv[t].kind # "empty"
     THEN parse_result' = "accepted" /\ target' = t
     ELSE parse_result' = "refused" /\ UNCHANGED target
  /\ UNCHANGED <<argv, argument_index, timeout, memory_limit>>

ReachTarget ==
  /\ parse_result = "none"
  /\ \/ argument_index > Len(argv) /\ EndOfOptions(argument_index)
     \/ Present /\ Argument.kind = "--" /\ EndOfOptions(argument_index + 1)
     \/ Present /\ ~StartsWithDash(Argument) /\ EndOfOptions(argument_index)

ParseDone == parse_result # "none" /\ UNCHANGED parse_vars

ParseNext == TakeTimeout \/ TakeMemory \/ RefuseArguments \/ ReachTarget \/ ParseDone

ParseSpec == ParseInit /\ [][ParseNext]_parse_vars

-----------------------------------------------------------------------------
(* The command line as a whole, read as the usage text and README.md have it. *)

Maximum(option) == IF option = "--timeout" THEN MaximumTimeout ELSE MaximumMemory

\* An integer from 1 to the maximum and nothing behind it.
Legal(a, maximum) ==
  a.kind = "numeral" /\ ~a.junk /\ ~a.minus /\ a.magnitude \in 1..maximum

\* The first 2n arguments are options with their values.
Pairs(n) ==
  /\ 2 * n <= Len(argv)
  /\ \A i \in 1..n :
       /\ argv[2 * i - 1].kind \in {"--timeout", "--memory-kb"}
       /\ Legal(argv[2 * i], Maximum(argv[2 * i - 1].kind))

\* The value the last of these gives to an option.
Value(option, n, default) ==
  LET given == {i \in 1..n : argv[2 * i - 1].kind = option} IN
  IF given = {} THEN default ELSE argv[2 * Max(given)].magnitude

\* A command line that has a target at position t behind n options.
Reads(n, t) ==
  /\ Pairs(n) /\ t \in 1..Len(argv)
  /\ argv[t].kind # "empty"
  /\ \/ t = 2 * n + 1 /\ ~StartsWithDash(argv[t])
     \/ t = 2 * n + 2 /\ argv[2 * n + 1].kind = "--"

\* An option before the target is given a numeral with a minus sign.  strtoul()
\* adds 2^Width to it, so that one just above -2^Width passes for a small limit.
NegativeLimit ==
  \E i \in 1..(target - 2) :
    /\ argv[i].kind \in {"--timeout", "--memory-kb"}
    /\ argv[i + 1].kind = "numeral" /\ argv[i + 1].minus

\* Whatever is accepted, the limits in force are in the documented range.
LimitsInRange ==
  parse_result = "accepted" =>
    timeout \in 1..MaximumTimeout /\ memory_limit \in 0..MaximumMemory

\* parse_options() accepts the command lines made of options whose values are
\* integers from 1 to the maximum, perhaps "--", and a target, and, unless a
\* limit is written with a minus sign, no other; the last value of an option
\* counts, and what follows the target belongs to it, even if it looks like an
\* option (Sandbox.c 133-207, README.md 366-367).
OptionsMeanWhatTheySay ==
  /\ parse_result = "accepted" =>
       \/ NegativeLimit
       \/ \E n \in 0..Len(argv) :
            /\ Reads(n, target)
            /\ timeout = Value("--timeout", n, DefaultTimeout)
            /\ memory_limit = Value("--memory-kb", n, 0)
  /\ LimitsInRange
  /\ parse_result = "refused" =>
       ~ \E n \in 0..Len(argv), t \in 1..Len(argv) : Reads(n, t)
=============================================================================
