----------------------------- MODULE Procedures -----------------------------
(***************************************************************************)
(* The procedures both programs call that nobody else takes part in: each  *)
(* has a module of its own, and its state is shared with no other.  A      *)
(* behaviour is one call of one of them, from every state it can be called *)
(* in; the others stay in one of their initial states.                     *)
(***************************************************************************)
EXTENDS RequestCheck, CredentialFile, Privileges, Options, CgroupSetup,
        Landlock, Seccomp, MonitorClock, SampleTotals

VARIABLE procedure   \* the one that is called

vars == <<procedure, check_vars, file_vars, drop_vars, parse_vars, setup_vars,
          rules_vars, filter_vars, clock_vars, totals_vars>>

-----------------------------------------------------------------------------
(* One initial state of each, for when it is not called. *)

AnyByte == CHOOSE b \in Bytes : TRUE

CheckIdle ==
  /\ request = [version |-> AUTH_PROTOCOL_VERSION, type |-> AUTH_REQUEST_VALIDATE,
                username |-> Packed(<<>>, UsernameMax),
                password |-> Packed(<<>>, PasswordMax)]
  /\ stored = [username |-> Packed(<<AnyByte>>, UsernameMax),
               password |-> Packed(<<AnyByte>>, PasswordMax)]
  /\ CheckStart

FileIdle == file = <<>> /\ FileStart

DropIdle ==
  /\ uid = AllThree(0) /\ gid = AllThree(0)
  /\ groups = FALSE /\ CapsAfterExec(uid, {}, FALSE)
  /\ DropStart

ParseIdle == argv = <<>> /\ ParseStart

SetupIdle ==
  /\ limit = 0 /\ delegated = [group |-> FALSE, memory |-> FALSE, swap |-> FALSE]
  /\ SetupStart

RulesIdle == existing = Paths /\ home = "opt" /\ abi = 0 /\ header_abi = 0 /\ RulesStart

ClockIdle == now = 0 /\ ClockStart

TotalsIdle == processes = <<>> /\ TotalsStart

-----------------------------------------------------------------------------
ProcedureNames ==
  {"request", "file", "drop", "parse", "setup", "rules", "filter", "clock", "totals"}

Init ==
  /\ procedure \in ProcedureNames
  /\ IF procedure = "setup" THEN SetupInit ELSE SetupIdle
  /\ FilterInit
  /\ IF procedure = "clock" THEN ClockInit ELSE ClockIdle
  /\ IF procedure = "drop" THEN DropInit ELSE DropIdle
  /\ IF procedure = "rules" THEN RulesInit ELSE RulesIdle
  /\ IF procedure = "request" THEN CheckInit ELSE CheckIdle
  /\ IF procedure = "totals" THEN TotalsInit ELSE TotalsIdle
  /\ IF procedure = "parse" THEN ParseInit ELSE ParseIdle
  /\ IF procedure = "file" THEN FileInit ELSE FileIdle

\* The variables of a procedure other than the called one.
Idle(name, part) == IF procedure = name THEN TRUE ELSE UNCHANGED part

Next ==
  /\ \/ procedure = "request" /\ CheckNext
     \/ procedure = "file" /\ FileNext
     \/ procedure = "drop" /\ DropNext
     \/ procedure = "parse" /\ ParseNext
     \/ procedure = "setup" /\ SetupNext
     \/ procedure = "rules" /\ RulesNext
     \/ procedure = "filter" /\ FilterNext
     \/ procedure = "clock" /\ ClockNext
     \/ procedure = "totals" /\ TotalsNext
  /\ UNCHANGED procedure
  /\ Idle("request", check_vars) /\ Idle("file", file_vars)
  /\ Idle("drop", drop_vars) /\ Idle("parse", parse_vars)
  /\ Idle("setup", setup_vars) /\ Idle("rules", rules_vars)
  /\ Idle("filter", filter_vars) /\ Idle("clock", clock_vars)
  /\ Idle("totals", totals_vars)

Spec == Init /\ [][Next]_vars
=============================================================================
