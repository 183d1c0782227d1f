------------------------------- MODULE Seccomp ------------------------------
(***************************************************************************)
(* sandbox_child_install_network_filter() (security.c): the filter is      *)
(* assembled instruction by instruction into an array of fixed size, with  *)
(* jumps counted by hand, and from then on the kernel runs it on every     *)
(* system call of the target.  Positions count from 0, as in C.            *)
(***************************************************************************)
EXTENDS Naturals, Sequences

CONSTANTS
  Blocked,     \* blocked_network_syscalls[], a sequence of numbers
  SyscallNumbers,     \* the system call numbers
  Capacity,    \* the size of filter[]
  PrctlFails       \* may prctl() fail

ASSUME FilterAssumption ==
  /\ Blocked \in Seq(SyscallNumbers) /\ Capacity \in Nat
  /\ 2 * Len(Blocked) + 5 <= Capacity

VARIABLES
  filter,     \* the instructions written so far
  filter_index,      \* the loop variable
  stage,      \* "head", "loop", "no_new_privs", "install", "active", "failed"
  no_new_privs,
  call,       \* the system call being judged: its architecture and number
  at,         \* the kernel's position in the program
  loaded,     \* the kernel's accumulator
  verdict

filter_vars == <<filter, filter_index, stage, no_new_privs, call, at, loaded, verdict>>

kernel == <<call, at, loaded, verdict>>

Load(field) == [op |-> "load", field |-> field]
JumpIfEqual(value, yes, no) == [op |-> "jump", value |-> value, yes |-> yes, no |-> no]
Ret(action) == [op |-> "return", action |-> action]

NATIVE == "native"      \* SANDBOX_AUDIT_ARCH
NoCall == [arch |-> "none", nr |-> "none"]

FilterInit ==
  /\ filter = <<>> /\ filter_index = 0 /\ stage = "head" /\ no_new_privs = FALSE
  /\ call = NoCall /\ at = 0 /\ loaded = "none" /\ verdict = "none"

-----------------------------------------------------------------------------
(* The assembly. *)

EmitHead ==
  /\ stage = "head"
  /\ filter' = <<Load("arch"), JumpIfEqual(NATIVE, 1, 0), Ret("kill"), Load("nr")>>
  /\ stage' = "loop"
  /\ UNCHANGED <<filter_index, no_new_privs, kernel>>

\* Mutant: the two offsets of the test are exchanged.
EmitSwapped ==
  /\ stage = "loop"
  /\ filter_index < Len(Blocked)
  /\ filter' = filter \o <<JumpIfEqual(Blocked[filter_index + 1], 1, 0), Ret("EPERM")>>
  /\ filter_index' = filter_index + 1
  /\ UNCHANGED <<stage, no_new_privs, kernel>>

EmitPair ==
  /\ stage = "loop"
  /\ filter_index < Len(Blocked)
  /\ filter' = filter \o <<JumpIfEqual(Blocked[filter_index + 1], 0, 1), Ret("EPERM")>>
  /\ filter_index' = filter_index + 1
  /\ UNCHANGED <<stage, no_new_privs, kernel>>

EmitAllow ==
  /\ stage = "loop"
  /\ filter_index = Len(Blocked)
  /\ filter' = Append(filter, Ret("allow"))
  /\ stage' = "no_new_privs"
  /\ UNCHANGED <<filter_index, no_new_privs, kernel>>

\* Without CAP_SYS_ADMIN the kernel takes a filter only after this.
SetNoNewPrivs ==
  /\ stage = "no_new_privs"
  /\ \/ stage' = "install" /\ no_new_privs' = TRUE
     \/ PrctlFails /\ stage' = "failed" /\ UNCHANGED no_new_privs
  /\ UNCHANGED <<filter, filter_index, kernel>>

InstallFilter ==
  /\ stage = "install"
  /\ \/ stage' = "active"
     \/ PrctlFails /\ stage' = "failed"
  /\ UNCHANGED <<filter, filter_index, no_new_privs, kernel>>

-----------------------------------------------------------------------------
(* The kernel's interpreter. *)

Enter ==
  /\ stage = "active" /\ call = NoCall
  /\ call' \in [arch : {NATIVE, "foreign"}, nr : SyscallNumbers]
  /\ UNCHANGED <<filter, filter_index, stage, no_new_privs, at, loaded, verdict>>

Instruction == filter[at + 1]

Running == stage = "active" /\ call # NoCall /\ verdict = "none"

RunLoad ==
  /\ Running /\ Instruction.op = "load"
  /\ loaded' = <<Instruction.field, call[Instruction.field]>>
  /\ at' = at + 1
  /\ UNCHANGED <<filter, filter_index, stage, no_new_privs, call, verdict>>

RunJump ==
  /\ Running /\ Instruction.op = "jump"
  /\ at' = at + 1 + (IF loaded[2] = Instruction.value
                     THEN Instruction.yes ELSE Instruction.no)
  /\ UNCHANGED <<filter, filter_index, stage, no_new_privs, call, loaded, verdict>>

RunReturn ==
  /\ Running /\ Instruction.op = "return"
  /\ verdict' = Instruction.action
  /\ UNCHANGED <<filter, filter_index, stage, no_new_privs, call, at, loaded>>

\* The next system call starts at the top of the program.
Leave ==
  /\ verdict \notin {"none", "kill"}
  /\ call' = NoCall /\ at' = 0 /\ loaded' = "none" /\ verdict' = "none"
  /\ UNCHANGED <<filter, filter_index, stage, no_new_privs>>

FilterDone == (stage = "failed" \/ verdict = "kill") /\ UNCHANGED filter_vars

FilterNext ==
  \/ EmitHead \/ EmitPair \/ EmitAllow \/ SetNoNewPrivs \/ InstallFilter
  \/ Enter \/ RunLoad \/ RunJump \/ RunReturn \/ Leave \/ FilterDone

FilterSpec == FilterInit /\ [][FilterNext]_filter_vars

-----------------------------------------------------------------------------
IsBlocked(nr) == \E i \in 1..Len(Blocked) : Blocked[i] = nr

\* What the filter is meant to say of a system call: foreign ones kill the
\* process, the listed ones fail with EPERM, the others are allowed
\* (security.c 487-580).
Policy(c) ==
  IF c.arch # NATIVE THEN "kill"
  ELSE IF IsBlocked(c.nr) THEN "EPERM" ELSE "allow"

\* The assembly stays inside filter[], and the kernel never runs past the end
\* of the program.
InBounds ==
  /\ Len(filter) <= Capacity
  /\ Running => at < Len(filter)

\* Every system call gets the verdict of the policy, wherever its number stands
\* in the list or if it is not there: the jumps by 0 and 1 never skip a test,
\* fall into the wrong return or lead out of the program.
VerdictFollowsPolicy == InBounds /\ (verdict # "none" => verdict = Policy(call))
=============================================================================
