--------------------------- MODULE ProcedureProofs --------------------------
(***************************************************************************)
(* The procedures nobody else takes part in, for every value of their      *)
(* constants: the privilege drop, the life of a control group, the seccomp *)
(* filter, the Landlock ruleset, the option parser, the answer to a        *)
(* request, the clock of the timeout thread, the totals of a sample and    *)
(* the credential file; and then all of them together, as the programs     *)
(* call them.                                                              *)
(***************************************************************************)
EXTENDS Procedures, ProtocolProofs, FiniteSetTheorems, SequenceTheorems

-----------------------------------------------------------------------------
(* drop_privileges_permanently().                                          *)

Triples == [real : Ids, effective : Ids, saved : Ids]

DropType ==
  /\ drop_pc \in {"refuse_root", "setgroups", "setresgid", "setresuid", "check",
                  "regain", "give_back", "returned"}
  /\ uid \in Triples /\ gid \in Triples
  /\ groups \in BOOLEAN /\ started_as_root \in BOOLEAN
  /\ drop_result \in {"none", "success", "failure"}

BeforeUids == drop_pc \in {"refuse_root", "setgroups", "setresgid", "setresuid"}

\* While the user identifiers are as execve() left them, a process that started
\* as root has root for its effective user; afterwards it has no capability.
CapsInv ==
  /\ BeforeUids => started_as_root = (uid.effective = 0)
  /\ drop_pc \in {"check", "regain"} => (started_as_root => permitted = {})

\* What each step has achieved when the next one begins.
ProgressInv ==
  /\ drop_pc \notin {"refuse_root", "returned"} => uid.real # 0
  /\ drop_pc \in {"setresgid", "setresuid", "check", "regain"} =>
       ~(started_as_root /\ groups)
  /\ drop_pc \in {"setresuid", "check", "regain"} => gid = AllThree(gid.real)
  /\ drop_pc = "regain" => uid = AllThree(uid.real)

DropInv ==
  /\ DropType /\ CapsInv /\ ProgressInv
  /\ drop_result # "none" => drop_pc = "returned"
  /\ NothingLeftToRegain

LEMMA DropInitInv == DropInit => DropInv
BY DEF DropInit, DropStart, DropInv, DropType, CapsInv, ProgressInv, BeforeUids,
       AfterExec, Triples, IdsOf, NothingLeftToRegain, PermanentlyDropped, GroupsDropped

LEMMA DropNextInv == DropInv /\ [DropNext]_drop_vars => DropInv'
<1> SUFFICES ASSUME DropInv, [DropNext]_drop_vars
             PROVE  DropInv'
  OBVIOUS
<1> USE IdsAssumption
<1> USE DEF DropInv, DropType, CapsInv, ProgressInv, BeforeUids, Triples,
        NothingLeftToRegain, PermanentlyDropped, GroupsDropped,
        target_uid, target_gid, caps, DropReturns, DropContinues, AllThree
<1>1. CASE RefuseRoot
  BY <1>1 DEF RefuseRoot
<1>2. CASE ClearGroups
  BY <1>2 DEF ClearGroups
<1>3. CASE SetGids
  BY <1>3 DEF SetGids
<1>4. CASE DropUids
  <2>1. CASE SetUids(AllThree(target_uid)) /\ DropContinues("check")
    <3>1. /\ uid' = AllThree(uid.real)
          /\ 0 \in IdsOf(uid) => permitted' = {}
      BY <1>4, <2>1 DEF DropUids, SetUids, IdsOf
    <3> QED
      BY <1>4, <2>1, <3>1 DEF DropUids, IdsOf
  <2>2. CASE UNCHANGED <<uid, caps>> /\ DropReturns("failure")
    BY <1>4, <2>2 DEF DropUids
  <2> QED
    BY <1>4, <2>1, <2>2 DEF DropUids
<1>5. CASE CheckUids
  BY <1>5 DEF CheckUids
<1>6. CASE TryToRegain
  BY <1>6 DEF TryToRegain, SetUids, IdsOf
<1>7. CASE GiveBack
  BY <1>7 DEF GiveBack, SetUids
<1>8. CASE UNCHANGED drop_vars
  BY <1>8 DEF drop_vars
<1> QED
  BY <1>1, <1>2, <1>3, <1>4, <1>5, <1>6, <1>7, <1>8 DEF DropNext, DropDone

\* From whatever identifiers, groups and capabilities the process starts, a
\* successful drop_privileges_permanently() leaves no way back to root, and one
\* that started as root neither capability and no group of root's.
THEOREM DropIsPermanent == DropSpec => []NothingLeftToRegain
<1>1. DropInv => NothingLeftToRegain
  BY DEF DropInv
<1> QED
  BY <1>1, DropInitInv, DropNextInv, PTL DEF DropSpec

-----------------------------------------------------------------------------
(* The control group.                                                      *)

SetupType ==
  /\ generation \in Nat /\ generation > 0
  /\ directory \in Nat /\ directory <= generation
  /\ setup_pc \in {"directory", "mkdir", "memory_max", "oom_group", "swap_max",
                   "activate", "undo", "running", "attached", "returned", "killed"}
  /\ limit \in Nat
  /\ files \in [max : Nat, oom_group : BOOLEAN, no_swap : BOOLEAN]

\* Whose directory it is at each step, and which limit it holds: between mkdir()
\* and the end of the preparation it is this controller's, before it is not,
\* and a controller without an active group has none unless it could not be
\* removed.
OwnerInv ==
  /\ active => setup_pc \in {"running", "attached", "returned"}
  /\ setup_pc \in {"directory", "mkdir"} => directory < generation
  /\ setup_pc \in {"memory_max", "oom_group", "swap_max", "activate", "undo"} =>
       directory = generation
  /\ setup_pc \in {"oom_group", "swap_max", "activate"} => files.max = limit
  /\ setup_pc \in {"running", "attached"} /\ ~active /\ ~kept => directory # generation

SetupInv == SetupType /\ OwnerInv /\ GroupIsOwn

LEMMA UnlimitedType == Unlimited \in [max : Nat, oom_group : BOOLEAN, no_swap : BOOLEAN]
BY DEF Unlimited

LEMMA SetupInitInv == SetupInit => SetupInv
<1> SUFFICES ASSUME SetupInit
             PROVE  SetupInv
  OBVIOUS
<1>1. SetupType
  BY SetupAssumption, UnlimitedType DEF SetupInit, SetupStart, SetupType
<1>2. OwnerInv /\ GroupIsOwn
  BY DEF SetupInit, SetupStart, OwnerInv, GroupIsOwn, LimitInForce, NoGroupLeftBehind
<1> QED
  BY <1>1, <1>2 DEF SetupInv

LEMMA SetupNextInv == SetupInv /\ [SetupNext]_setup_vars => SetupInv'
<1> SUFFICES ASSUME SetupType, OwnerInv, LimitInForce, NoGroupLeftBehind,
                    [SetupNext]_setup_vars
             PROVE  SetupInv'
  BY DEF SetupInv, GroupIsOwn
<1> USE DEF SetupType, OwnerInv, LimitInForce, NoGroupLeftBehind, given
<1>1. CASE FindParent
  <2>1. SetupType'
    BY <1>1 DEF FindParent
  <2>2. OwnerInv'
    BY <1>1 DEF FindParent
  <2>3. LimitInForce' /\ NoGroupLeftBehind'
    BY <1>1 DEF FindParent
  <2> QED
    BY <2>1, <2>2, <2>3 DEF SetupInv, GroupIsOwn
<1>2. CASE MakeDirectory
  <2>1. SetupType'
    BY <1>2, UnlimitedType DEF MakeDirectory
  <2>2. OwnerInv'
    <3>1. CASE directory = 0 /\ delegated.group
      BY <1>2, <3>1 DEF MakeDirectory, Unlimited
    <3>2. CASE directory # 0 \/ ~delegated.group
      BY <1>2, <3>2 DEF MakeDirectory
    <3> QED
      BY <3>1, <3>2
  <2>3. LimitInForce' /\ NoGroupLeftBehind'
    BY <1>2 DEF MakeDirectory
  <2> QED
    BY <2>1, <2>2, <2>3 DEF SetupInv, GroupIsOwn
<1>3. CASE SetMemoryMax
  <2>1. SetupType'
    BY <1>3 DEF SetMemoryMax, WriteFile
  <2>2. OwnerInv'
    BY <1>3 DEF SetMemoryMax, WriteFile
  <2>3. LimitInForce' /\ NoGroupLeftBehind'
    BY <1>3 DEF SetMemoryMax, WriteFile
  <2> QED
    BY <2>1, <2>2, <2>3 DEF SetupInv, GroupIsOwn
<1>4. CASE UndoDirectory
  <2>1. SetupType'
    BY <1>4 DEF UndoDirectory
  <2>2. OwnerInv'
    BY <1>4 DEF UndoDirectory
  <2>3. LimitInForce' /\ NoGroupLeftBehind'
    BY <1>4 DEF UndoDirectory
  <2> QED
    BY <2>1, <2>2, <2>3 DEF SetupInv, GroupIsOwn
<1>5. CASE SetOomGroup
  <2>1. SetupType'
    BY <1>5 DEF SetOomGroup, WriteFile
  <2>2. OwnerInv'
    BY <1>5 DEF SetOomGroup, WriteFile
  <2>3. LimitInForce' /\ NoGroupLeftBehind'
    BY <1>5 DEF SetOomGroup, WriteFile
  <2> QED
    BY <2>1, <2>2, <2>3 DEF SetupInv, GroupIsOwn
<1>6. CASE SetSwapMax
  <2>1. SetupType'
    BY <1>6 DEF SetSwapMax, WriteFile
  <2>2. OwnerInv'
    BY <1>6 DEF SetSwapMax, WriteFile
  <2>3. LimitInForce' /\ NoGroupLeftBehind'
    BY <1>6 DEF SetSwapMax, WriteFile
  <2> QED
    BY <2>1, <2>2, <2>3 DEF SetupInv, GroupIsOwn
<1>7. CASE Activate
  <2>1. SetupType'
    BY <1>7 DEF Activate
  <2>2. OwnerInv'
    BY <1>7 DEF Activate
  <2>3. LimitInForce' /\ NoGroupLeftBehind'
    BY <1>7 DEF Activate
  <2> QED
    BY <2>1, <2>2, <2>3 DEF SetupInv, GroupIsOwn
<1>8. CASE Attach
  <2>1. SetupType'
    BY <1>8 DEF Attach
  <2>2. OwnerInv'
    BY <1>8 DEF Attach
  <2>3. LimitInForce' /\ NoGroupLeftBehind'
    BY <1>8 DEF Attach
  <2> QED
    BY <2>1, <2>2, <2>3 DEF SetupInv, GroupIsOwn
<1>9. CASE WorkloadEnds
  <2>1. SetupType'
    BY <1>9 DEF WorkloadEnds
  <2>2. OwnerInv'
    BY <1>9 DEF WorkloadEnds
  <2>3. LimitInForce' /\ NoGroupLeftBehind'
    BY <1>9 DEF WorkloadEnds
  <2> QED
    BY <2>1, <2>2, <2>3 DEF SetupInv, GroupIsOwn
<1>10. CASE Destroy
  <2>1. SetupType'
    BY <1>10 DEF Destroy
  <2>2. OwnerInv'
    BY <1>10 DEF Destroy
  <2>3. LimitInForce' /\ NoGroupLeftBehind'
    BY <1>10 DEF Destroy
  <2> QED
    BY <2>1, <2>2, <2>3 DEF SetupInv, GroupIsOwn
<1>11. CASE Killed
  <2>1. SetupType'
    BY <1>11 DEF Killed
  <2>2. OwnerInv'
    BY <1>11 DEF Killed
  <2>3. LimitInForce' /\ NoGroupLeftBehind'
    BY <1>11 DEF Killed
  <2> QED
    BY <2>1, <2>2, <2>3 DEF SetupInv, GroupIsOwn
<1>12. CASE NextController
  <2>1. SetupType'
    BY <1>12, SetupAssumption DEF NextController
  <2>2. OwnerInv'
    BY <1>12 DEF NextController
  <2>3. LimitInForce' /\ NoGroupLeftBehind'
    BY <1>12 DEF NextController
  <2> QED
    BY <2>1, <2>2, <2>3 DEF SetupInv, GroupIsOwn
<1>13. CASE UNCHANGED setup_vars
  <2>1. SetupType'
    BY <1>13 DEF setup_vars
  <2>2. OwnerInv'
    BY <1>13 DEF setup_vars
  <2>3. LimitInForce' /\ NoGroupLeftBehind'
    BY <1>13 DEF setup_vars
  <2> QED
    BY <2>1, <2>2, <2>3 DEF SetupInv, GroupIsOwn
<1> QED
  BY <1>1, <1>2, <1>3, <1>4, <1>5, <1>6, <1>7, <1>8, <1>9, <1>10, <1>11, <1>12,
     <1>13 DEF SetupNext, SetupDone

\* For any number of controllers that get the same PID, with any limits: the
\* group that is used is the controller's own, with its limit, and none is left
\* by one that returns.
THEOREM GroupStaysOwn == SetupSpec => []GroupIsOwn
<1>1. SetupInv => GroupIsOwn
  BY DEF SetupInv
<1> QED
  BY <1>1, SetupInitInv, SetupNextInv, PTL DEF SetupSpec

-----------------------------------------------------------------------------
(* The system call filter.                                                 *)

Test(k) == JumpIfEqual(Blocked[k], 0, 1)

Instructions ==
  {Load("arch"), JumpIfEqual(NATIVE, 1, 0), Ret("kill"), Load("nr"), Ret("EPERM"), Ret("allow")}
    \cup {Test(k) : k \in 1..Len(Blocked)}

\* What is where in the part of the program that is written: the head, a pair
\* for each number done, and at the end the return that allows.
Layout ==
  /\ filter \in Seq(Instructions)
  /\ filter_index \in 0..Len(Blocked)
  /\ stage \in {"head", "loop", "no_new_privs", "install", "active", "failed"}
  /\ stage = "head" => filter = <<>> /\ filter_index = 0
  /\ stage = "loop" => Len(filter) = 4 + 2 * filter_index
  /\ stage # "head" =>
       /\ filter[1] = Load("arch") /\ filter[2] = JumpIfEqual(NATIVE, 1, 0)
       /\ filter[3] = Ret("kill") /\ filter[4] = Load("nr")
       /\ \A k \in 1..filter_index : filter[2 * k + 3] = Test(k) /\ filter[2 * k + 4] = Ret("EPERM")
  /\ stage \notin {"head", "loop"} =>
       /\ filter_index = Len(Blocked) /\ Len(filter) = 5 + 2 * Len(Blocked)
       /\ filter[5 + 2 * Len(Blocked)] = Ret("allow")

\* What the kernel knows of the system call at the position it has reached.
AtHead ==
  \/ at = 0
  \/ at = 1 /\ loaded = <<"arch", call.arch>>
  \/ at = 2 /\ call.arch # NATIVE
  \/ at = 3 /\ call.arch = NATIVE

AtTest(k) ==
  /\ at = 2 * k + 2 /\ call.arch = NATIVE /\ loaded = <<"nr", call.nr>>
  /\ \A i \in 1..(k - 1) : Blocked[i] # call.nr

AtRefusal(k) == at = 2 * k + 3 /\ call.arch = NATIVE /\ Blocked[k] = call.nr

Position ==
  \/ AtHead
  \/ \E k \in 1..(Len(Blocked) + 1) : AtTest(k)
  \/ \E k \in 1..Len(Blocked) : AtRefusal(k)

Judged ==
  /\ call # NoCall => stage = "active"
  /\ call = NoCall => at = 0 /\ verdict = "none"
  /\ Running => Position
  /\ verdict # "none" => verdict = Policy(call)

FilterInv == Layout /\ Judged

LEMMA FilterIsFinite == Len(Blocked) \in Nat
BY FilterAssumption

LEMMA HeadLayout ==
  ASSUME Layout, EmitHead
  PROVE  Layout'
<1> DEFINE head == <<Load("arch"), JumpIfEqual(NATIVE, 1, 0), Ret("kill"), Load("nr")>>
<1>1. head \in Seq(Instructions) /\ Len(head) = 4
  BY DEF Instructions
<1>2. filter' = head /\ filter_index' = 0 /\ stage' = "loop"
  BY DEF Layout, EmitHead
<1>3. /\ filter'[1] = Load("arch") /\ filter'[2] = JumpIfEqual(NATIVE, 1, 0)
      /\ filter'[3] = Ret("kill") /\ filter'[4] = Load("nr")
  BY <1>2
<1> QED
  BY <1>1, <1>2, <1>3, FilterIsFinite DEF Layout

LEMMA AppendingPair ==
  ASSUME NEW S, NEW s \in Seq(S), NEW a \in S, NEW b \in S
  PROVE  /\ s \o <<a, b>> \in Seq(S) /\ Len(s \o <<a, b>>) = Len(s) + 2
         /\ \A i \in 1..Len(s) : (s \o <<a, b>>)[i] = s[i]
         /\ (s \o <<a, b>>)[Len(s) + 1] = a /\ (s \o <<a, b>>)[Len(s) + 2] = b
<1>1. <<a, b>> \in Seq(S) /\ Len(<<a, b>>) = 2
  OBVIOUS
<1>2. Len(s) \in Nat
  OBVIOUS
<1> QED
  BY <1>1, <1>2

LEMMA PairLayout ==
  ASSUME Layout, EmitPair
  PROVE  Layout'
<1> DEFINE new == Test(filter_index + 1)
           grown == filter \o <<new, Ret("EPERM")>>
<1>1. /\ filter \in Seq(Instructions) /\ filter_index \in Nat
      /\ Len(filter) = 4 + 2 * filter_index /\ filter_index + 1 \in 1..Len(Blocked)
  BY FilterIsFinite DEF Layout, EmitPair
<1>2. new \in Instructions /\ Ret("EPERM") \in Instructions
  BY <1>1 DEF Instructions
<1>3. filter' = grown /\ filter_index' = filter_index + 1 /\ stage = "loop" /\ stage' = "loop"
  BY DEF EmitPair, Test
<1>4. /\ grown \in Seq(Instructions) /\ Len(grown) = Len(filter) + 2
      /\ \A i \in 1..Len(filter) : grown[i] = filter[i]
      /\ grown[Len(filter) + 1] = new /\ grown[Len(filter) + 2] = Ret("EPERM")
  <2>1. PICK f \in Seq(Instructions), a \in Instructions, b \in Instructions :
          f = filter /\ a = new /\ b = Ret("EPERM")
    BY <1>1, <1>2
  <2>2. /\ f \o <<a, b>> \in Seq(Instructions) /\ Len(f \o <<a, b>>) = Len(f) + 2
        /\ \A i \in 1..Len(f) : (f \o <<a, b>>)[i] = f[i]
        /\ (f \o <<a, b>>)[Len(f) + 1] = a /\ (f \o <<a, b>>)[Len(f) + 2] = b
    BY AppendingPair
  <2> HIDE DEF new
  <2> QED
    BY <2>1, <2>2
<1> HIDE DEF grown, new
<1>6. grown[2 * filter_index + 5] = new /\ grown[2 * filter_index + 6] = Ret("EPERM")
  BY <1>1, <1>4
<1>7. ASSUME NEW k \in 1..(filter_index + 1)
      PROVE  grown[2 * k + 3] = Test(k) /\ grown[2 * k + 4] = Ret("EPERM")
  <2>1. CASE k = filter_index + 1
    <3>1. 2 * k + 3 = 2 * filter_index + 5 /\ 2 * k + 4 = 2 * filter_index + 6
      BY <2>1, <1>1
    <3> QED
      BY <2>1, <3>1, <1>6 DEF new
  <2>2. CASE k # filter_index + 1
    <3>1. k \in 1..filter_index /\ 2 * k + 3 \in 1..Len(filter) /\ 2 * k + 4 \in 1..Len(filter)
      BY <2>2, <1>1
    <3> QED
      BY <3>1, <1>3, <1>4 DEF Layout
  <2> QED
    BY <2>1, <2>2
<1>8. /\ grown[1] = Load("arch") /\ grown[2] = JumpIfEqual(NATIVE, 1, 0)
      /\ grown[3] = Ret("kill") /\ grown[4] = Load("nr")
  BY <1>1, <1>3, <1>4 DEF Layout
<1>9. Len(grown) = 4 + 2 * (filter_index + 1) /\ filter_index + 1 \in 0..Len(Blocked)
  BY <1>1, <1>4, FilterIsFinite
<1> QED
  BY <1>3, <1>4, <1>7, <1>8, <1>9 DEF Layout, Test

LEMMA AllowLayout ==
  ASSUME Layout, EmitAllow
  PROVE  Layout'
<1> DEFINE grown == Append(filter, Ret("allow"))
<1>1. /\ filter \in Seq(Instructions) /\ filter_index = Len(Blocked)
      /\ Len(filter) = 4 + 2 * Len(Blocked)
  BY DEF Layout, EmitAllow
<1>2. Ret("allow") \in Instructions
  BY DEF Instructions
<1>3. filter' = grown /\ filter_index' = filter_index /\ stage = "loop" /\ stage' = "no_new_privs"
  BY DEF EmitAllow
<1>4. /\ grown \in Seq(Instructions) /\ Len(grown) = Len(filter) + 1
      /\ \A i \in 1..Len(filter) : grown[i] = filter[i]
      /\ grown[Len(filter) + 1] = Ret("allow")
  <2> HIDE DEF Instructions
  <2> QED
    BY <1>1, <1>2
<1> HIDE DEF grown
<1>5. Len(grown) = 5 + 2 * Len(Blocked) /\ grown[5 + 2 * Len(Blocked)] = Ret("allow")
  BY <1>1, <1>4, FilterIsFinite
<1>6. ASSUME NEW k \in 1..filter_index
      PROVE  grown[2 * k + 3] = Test(k) /\ grown[2 * k + 4] = Ret("EPERM")
  <2>1. 2 * k + 3 \in 1..Len(filter) /\ 2 * k + 4 \in 1..Len(filter)
    BY <1>1, FilterIsFinite
  <2> QED
    BY <2>1, <1>3, <1>4 DEF Layout
<1>7. /\ grown[1] = Load("arch") /\ grown[2] = JumpIfEqual(NATIVE, 1, 0)
      /\ grown[3] = Ret("kill") /\ grown[4] = Load("nr")
  BY <1>1, <1>3, <1>4, FilterIsFinite DEF Layout
<1> QED
  BY <1>1, <1>3, <1>4, <1>5, <1>6, <1>7, FilterIsFinite DEF Layout, Test

LEMMA LayoutPreserved == Layout /\ [FilterNext]_filter_vars => Layout'
<1> SUFFICES ASSUME Layout, [FilterNext]_filter_vars
             PROVE  Layout'
  OBVIOUS
<1>1. CASE UNCHANGED <<filter, filter_index>> /\ (UNCHANGED stage \/ SetNoNewPrivs \/ InstallFilter)
  <2>1. /\ stage' \in {"head", "loop", "no_new_privs", "install", "active", "failed"}
        /\ stage' = "head" <=> stage = "head"
        /\ stage' = "loop" <=> stage = "loop"
    BY <1>1 DEF Layout, SetNoNewPrivs, InstallFilter
  <2> QED
    BY <1>1, <2>1 DEF Layout, Test
<1> QED
  BY <1>1, HeadLayout, PairLayout, AllowLayout
     DEF FilterNext, filter_vars, SetNoNewPrivs, InstallFilter, Enter, RunLoad,
         RunJump, RunReturn, Leave, FilterDone

\* The instruction at each position the kernel can be in.
LEMMA Decoding ==
  ASSUME Layout, Running, Position
  PROVE  /\ at < Len(filter)
         /\ at = 0 => Instruction = Load("arch")
         /\ at = 1 => Instruction = JumpIfEqual(NATIVE, 1, 0)
         /\ at = 2 => Instruction = Ret("kill")
         /\ at = 3 => Instruction = Load("nr")
         /\ \A k \in 1..Len(Blocked) :
              /\ AtTest(k) => Instruction = Test(k)
              /\ AtRefusal(k) => Instruction = Ret("EPERM")
         /\ AtTest(Len(Blocked) + 1) => Instruction = Ret("allow")
<1>1. /\ filter_index = Len(Blocked) /\ Len(filter) = 5 + 2 * Len(Blocked)
      /\ filter[5 + 2 * Len(Blocked)] = Ret("allow")
      /\ filter[1] = Load("arch") /\ filter[2] = JumpIfEqual(NATIVE, 1, 0)
      /\ filter[3] = Ret("kill") /\ filter[4] = Load("nr")
      /\ \A k \in 1..Len(Blocked) : filter[2 * k + 3] = Test(k) /\ filter[2 * k + 4] = Ret("EPERM")
  BY DEF Layout, Running
<1>2. at < Len(filter)
  BY <1>1, FilterIsFinite DEF Position, AtHead, AtTest, AtRefusal
<1>3. ASSUME NEW k \in 1..Len(Blocked)
      PROVE  /\ AtTest(k) => Instruction = Test(k)
             /\ AtRefusal(k) => Instruction = Ret("EPERM")
  <2>1. k \in Nat /\ (2 * k + 2) + 1 = 2 * k + 3 /\ (2 * k + 3) + 1 = 2 * k + 4
    BY FilterIsFinite
  <2> QED
    BY <1>1, <2>1 DEF AtTest, AtRefusal, Instruction
<1>4. AtTest(Len(Blocked) + 1) => Instruction = Ret("allow")
  <2>1. (2 * (Len(Blocked) + 1) + 2) + 1 = 5 + 2 * Len(Blocked)
    BY FilterIsFinite
  <2> QED
    BY <1>1, <2>1 DEF AtTest, Instruction
<1> QED
  BY <1>1, <1>2, <1>3, <1>4 DEF Instruction

LEMMA LoadStep ==
  ASSUME Layout, Judged, RunLoad
  PROVE  Judged'
<1>1. /\ Running /\ Position /\ Instruction.op = "load"
      /\ loaded' = <<Instruction.field, call[Instruction.field]>> /\ at' = at + 1
      /\ UNCHANGED <<stage, call, verdict>> /\ verdict = "none" /\ call # NoCall
  BY DEF RunLoad, Judged, Running
<1>2. Running' /\ stage = "active"
  BY <1>1 DEF Running
<1>3. CASE at = 0
  <2>1. Instruction = Load("arch")
    BY <1>1, <1>3, Decoding
  <2>2. at' = 1 /\ loaded' = <<"arch", call'.arch>>
    BY <1>1, <1>3, <2>1 DEF Load
  <2> QED
    BY <1>1, <1>2, <2>2 DEF Judged, Position, AtHead
<1>4. CASE at = 3 /\ call.arch = NATIVE
  <2>1. Instruction = Load("nr")
    BY <1>1, <1>4, Decoding
  <2>2. at' = 4 /\ loaded' = <<"nr", call'.nr>> /\ call'.arch = NATIVE
    BY <1>1, <1>4, <2>1 DEF Load
  <2>3. AtTest(1)'
    BY <2>2 DEF AtTest
  <2>4. Position'
    BY <2>3, FilterIsFinite DEF Position
  <2> QED
    BY <1>1, <1>2, <2>4 DEF Judged
<1>5. CASE at = 1 \/ at = 2
  BY <1>1, <1>5, Decoding DEF JumpIfEqual, Ret
<1>6. ASSUME NEW k \in 1..Len(Blocked), AtTest(k) \/ AtRefusal(k)
      PROVE  FALSE
  BY <1>1, <1>6, Decoding DEF Test, JumpIfEqual, Ret
<1>7. ~AtTest(Len(Blocked) + 1)
  BY <1>1, Decoding DEF Ret
<1>8. AtHead
  BY <1>1, <1>6, <1>7, FilterIsFinite DEF Position
<1> QED
  BY <1>3, <1>4, <1>5, <1>8 DEF AtHead

LEMMA JumpStep ==
  ASSUME Layout, Judged, RunJump
  PROVE  Judged'
<1>1. /\ Running /\ Position /\ Instruction.op = "jump"
      /\ at' = at + 1 + (IF loaded[2] = Instruction.value
                         THEN Instruction.yes ELSE Instruction.no)
      /\ UNCHANGED <<stage, call, loaded, verdict>> /\ verdict = "none" /\ call # NoCall
  BY DEF RunJump, Judged, Running
<1>2. Running' /\ stage = "active"
  BY <1>1 DEF Running
<1>3. CASE at = 1 /\ loaded = <<"arch", call.arch>>
  <2>1. Instruction = JumpIfEqual(NATIVE, 1, 0)
    BY <1>1, <1>3, Decoding
  <2>2. at' = IF call.arch = NATIVE THEN 3 ELSE 2
    BY <1>1, <1>3, <2>1 DEF JumpIfEqual
  <2> QED
    BY <1>1, <1>2, <2>2 DEF Judged, Position, AtHead
<1>4. ASSUME NEW k \in 1..Len(Blocked), AtTest(k)
      PROVE  Position'
  <2>1. Instruction = JumpIfEqual(Blocked[k], 0, 1)
    BY <1>1, <1>4, Decoding DEF Test
  <2>2. at' = IF call.nr = Blocked[k] THEN 2 * k + 3 ELSE 2 * k + 4
    BY <1>1, <1>4, <2>1, FilterIsFinite DEF JumpIfEqual, AtTest
  <2>3. CASE call.nr = Blocked[k]
    BY <1>1, <1>4, <2>2, <2>3 DEF AtTest, AtRefusal, Position
  <2>4. CASE call.nr # Blocked[k]
    <3>1. at' = 2 * (k + 1) + 2 /\ k + 1 \in 1..(Len(Blocked) + 1)
      BY <2>2, <2>4, FilterIsFinite
    <3>2. \A i \in 1..((k + 1) - 1) : Blocked[i] # call.nr
      BY <1>4, <2>4, FilterIsFinite DEF AtTest
    <3>3. AtTest(k + 1)'
      BY <1>1, <1>4, <3>1, <3>2 DEF AtTest
    <3> QED
      BY <3>1, <3>3 DEF Position
  <2> QED
    BY <2>3, <2>4
<1>5. CASE at = 0 \/ at = 2 \/ at = 3
  BY <1>1, <1>5, Decoding DEF Load, Ret
<1>6. ~(\E k \in 1..Len(Blocked) : AtRefusal(k)) /\ ~AtTest(Len(Blocked) + 1)
  BY <1>1, Decoding DEF Ret
<1>7. CASE \E k \in 1..Len(Blocked) : AtTest(k)
  BY <1>1, <1>2, <1>4, <1>7 DEF Judged
<1>8. AtHead \/ \E k \in 1..Len(Blocked) : AtTest(k)
  BY <1>1, <1>6, FilterIsFinite DEF Position
<1> QED
  BY <1>3, <1>5, <1>7, <1>8 DEF AtHead

LEMMA ReturnStep ==
  ASSUME Layout, Judged, RunReturn
  PROVE  Judged'
<1>1. /\ Running /\ Position /\ Instruction.op = "return" /\ verdict' = Instruction.action
      /\ UNCHANGED <<stage, call, at, loaded>> /\ call # NoCall /\ stage = "active"
  BY DEF RunReturn, Judged, Running
<1>2. CASE at = 2 /\ call.arch # NATIVE
  <2>1. verdict' = "kill"
    BY <1>1, <1>2, Decoding DEF Ret
  <2> QED
    BY <1>1, <1>2, <2>1 DEF Judged, Running, Policy
<1>3. ASSUME NEW k \in 1..Len(Blocked), AtRefusal(k)
      PROVE  verdict' = "EPERM" /\ verdict' = Policy(call)
  <2>1. verdict' = "EPERM"
    BY <1>1, <1>3, Decoding DEF Ret
  <2> QED
    BY <1>3, <2>1 DEF AtRefusal, Policy, IsBlocked
<1>4. CASE AtTest(Len(Blocked) + 1)
  <2>1. verdict' = "allow"
    BY <1>1, <1>4, Decoding DEF Ret
  <2>2. \A i \in 1..Len(Blocked) : Blocked[i] # call.nr
    BY <1>4, FilterIsFinite DEF AtTest
  <2>3. verdict' = Policy(call)
    BY <1>4, <2>1, <2>2 DEF AtTest, Policy, IsBlocked
  <2> QED
    BY <1>1, <2>1, <2>3 DEF Judged, Running, Policy
<1>5. CASE at = 0 \/ at = 1 \/ at = 3
  BY <1>1, <1>5, Decoding DEF Load, JumpIfEqual
<1>6. ~(\E k \in 1..Len(Blocked) : AtTest(k))
  BY <1>1, Decoding DEF Test, JumpIfEqual
<1>7. CASE \E k \in 1..Len(Blocked) : AtRefusal(k)
  <2>1. verdict' = "EPERM" /\ verdict' = Policy(call)
    BY <1>3, <1>7
  <2> QED
    BY <1>1, <2>1 DEF Judged, Running, Policy
<1>8. AtHead \/ AtTest(Len(Blocked) + 1) \/ \E k \in 1..Len(Blocked) : AtRefusal(k)
  BY <1>1, <1>6, FilterIsFinite DEF Position
<1> QED
  BY <1>2, <1>4, <1>5, <1>7, <1>8 DEF AtHead

LEMMA FilterNextInv == FilterInv /\ [FilterNext]_filter_vars => FilterInv'
<1> SUFFICES ASSUME Layout, Judged, [FilterNext]_filter_vars
             PROVE  Judged'
  BY LayoutPreserved DEF FilterInv
<1>1. CASE UNCHANGED kernel /\ call = NoCall
  BY <1>1 DEF Judged, kernel, Running
<1>2. CASE EmitHead \/ EmitPair \/ EmitAllow \/ SetNoNewPrivs \/ InstallFilter
  <2>1. call = NoCall /\ UNCHANGED kernel
    BY <1>2 DEF Judged, EmitHead, EmitPair, EmitAllow, SetNoNewPrivs, InstallFilter
  <2> QED
    BY <1>1, <2>1
<1>3. CASE Enter
  BY <1>3 DEF Enter, Judged, Running, Position, AtHead
<1>4. CASE Leave
  BY <1>4 DEF Leave, Judged, Running
<1>5. CASE UNCHANGED filter_vars
  BY <1>5 DEF filter_vars, Judged, Running, Position, AtHead, AtTest, AtRefusal, Policy, IsBlocked
<1> QED
  BY <1>2, <1>3, <1>4, <1>5, LoadStep, JumpStep, ReturnStep DEF FilterNext, FilterDone

LEMMA FilterInitInv == FilterInit => FilterInv
BY FilterIsFinite DEF FilterInit, FilterInv, Layout, Judged, Running

LEMMA FilterSuffices == FilterInv => VerdictFollowsPolicy
<1> SUFFICES ASSUME Layout, Judged
             PROVE  VerdictFollowsPolicy
  BY DEF FilterInv
<1>1. Len(filter) <= Capacity
  BY FilterAssumption, FilterIsFinite DEF Layout
<1>2. Running => at < Len(filter)
  BY Decoding DEF Judged
<1> QED
  BY <1>1, <1>2 DEF Judged, VerdictFollowsPolicy, InBounds

\* Whatever numbers are on the list and however many, provided filter[] has room
\* for them as it is declared: every system call gets the verdict of the policy
\* and neither the assembly nor the kernel leaves the program (security.c
\* 487-580).
THEOREM FilterIsThePolicy == FilterSpec => []VerdictFollowsPolicy
BY FilterInitInv, FilterSuffices, FilterNextInv, PTL DEF FilterSpec

-----------------------------------------------------------------------------
(* sandbox_child_restrict_filesystem().                                    *)

\* Every rule of the ruleset is one of the list; once a rule's turn is over,
\* it is in the ruleset unless it was optional and its path is missing.
RulesetInv ==
  /\ next_rule \in 1..(Len(RuleList) + 1)
  /\ rules \subseteq {RuleList[i] : i \in 1..Len(RuleList)}
  /\ \A i \in 1..(next_rule - 1) :
       IF RuleList[i].path \in existing THEN RuleList[i] \in rules ELSE ~RuleList[i].required

\* Where the function is, and what it has achieved there.
RulesPlaceInv ==
  /\ rules_pc \in {"resolve", "abi", "create", "rules", "close", "returned"}
  /\ rules_result \in {"none", "success", "failure", "fault"}
  /\ home \in existing
  /\ rules_pc \in {"rules", "close"} => handled = HandledAccess
  /\ rules_pc = "close" => restricted /\ next_rule = Len(RuleList) + 1
  /\ rules_pc # "returned" => rules_result = "none"
  /\ rules_result = "success" =>
       restricted /\ next_rule = Len(RuleList) + 1 /\ handled = HandledAccess
  /\ rules_result = "failure" => abi < 1 \/ ~({"target", "usr"} \subseteq existing)

RulesInv == home \in {"opt", "usr", "root"} /\ abi \in Nat /\ RulesetInv /\ RulesPlaceInv

LEMMA TenRules ==
  /\ Len(RuleList) = 10
  /\ RuleList[1] = Rule("target", RuntimeFile, TRUE)
  /\ RuleList[2] = Rule(home, RuntimeDirectory, TRUE)
  /\ RuleList[3] = Rule("usr", RuntimeDirectory, TRUE)
  /\ RuleList[4] = Rule("lib", RuntimeDirectory, FALSE)
  /\ RuleList[5] = Rule("lib64", RuntimeDirectory, FALSE)
  /\ RuleList[6] = Rule("ld_cache", {"read_file"}, FALSE)
  /\ RuleList[7] = Rule("ld_preload", {"read_file"}, FALSE)
  /\ RuleList[8] = Rule("null", {"read_file", "write_file"}, FALSE)
  /\ RuleList[9] = Rule("urandom", {"read_file"}, FALSE)
  /\ RuleList[10] = Rule("random", {"read_file"}, FALSE)
BY DEF RuleList

LEMMA RulesInitInv == RulesInit => RulesInv
<1> SUFFICES ASSUME RulesInit
             PROVE  RulesInv
  OBVIOUS
<1>1. home \in {"opt", "usr", "root"} /\ home \in existing /\ abi \in Nat
  BY AbiAssumption DEF RulesInit
<1>2. RulesetInv
  BY TenRules DEF RulesInit, RulesStart, RulesetInv
<1>3. RulesPlaceInv
  BY <1>1 DEF RulesInit, RulesStart, RulesPlaceInv
<1> QED BY <1>1, <1>2, <1>3 DEF RulesInv

\* The list depends on nothing that changes.
LEMMA ListIsFixed == UNCHANGED home => RuleList' = RuleList
BY DEF RuleList, Rule

LEMMA RequiredRules ==
  ASSUME home \in existing, NEW i \in 1..Len(RuleList),
         RuleList[i].required, RuleList[i].path \notin existing
  PROVE  ~({"target", "usr"} \subseteq existing)
<1>1. i \in {1, 2, 3, 4, 5, 6, 7, 8, 9, 10}
  BY TenRules
<1> QED BY <1>1, TenRules DEF Rule

LEMMA RulesNextInv == RulesInv /\ [RulesNext]_rules_vars => RulesInv'
<1> SUFFICES ASSUME RulesInv, [RulesNext]_rules_vars
             PROVE  RulesInv'
  OBVIOUS
<1>0. UNCHANGED fixed
  BY DEF RulesNext, ResolveTargetDirectory, QueryAbi, CreateRuleset, AddPathRule,
         RestrictSelf, CloseRuleset, RulesDone, rules_vars, fixed
<1>1. /\ existing' = existing /\ home' = home /\ abi' = abi
      /\ RuleList' = RuleList /\ HandledAccess' = HandledAccess
  BY <1>0, ListIsFixed DEF fixed, HandledAccess, Known
<1>2. RulesetInv'
  <2> USE <1>1 DEF RulesInv
  <2>1. CASE AddPathRule
    <3> DEFINE r == RuleList[next_rule]
    <3>1. next_rule \in 1..Len(RuleList)
      BY <2>1, TenRules DEF AddPathRule, RulesetInv
    <3>2. CASE r.path \in existing /\ rules' = rules \cup {r} /\ next_rule' = next_rule + 1
      BY <3>1, <3>2, TenRules DEF RulesetInv
    <3>3. CASE r.path \notin existing /\ ~r.required /\ UNCHANGED rules /\ next_rule' = next_rule + 1
      BY <3>1, <3>3, TenRules DEF RulesetInv
    <3>4. CASE UNCHANGED <<rules, next_rule>>
      BY <3>4 DEF RulesetInv
    <3> QED BY <2>1, <3>2, <3>3, <3>4 DEF AddPathRule
  <2>2. CASE UNCHANGED <<rules, next_rule>>
    BY <2>2 DEF RulesetInv
  <2> QED BY <2>1, <2>2 DEF RulesNext, ResolveTargetDirectory, QueryAbi, CreateRuleset,
                            RestrictSelf, CloseRuleset, RulesDone, rules_vars
<1>3. RulesPlaceInv'
  <2> USE <1>1 DEF RulesInv, RulesPlaceInv, RulesReturn, RulesContinue, SystemFails
  <2>1. CASE ResolveTargetDirectory
    BY <2>1 DEF ResolveTargetDirectory
  <2>2. CASE QueryAbi
    BY <2>2 DEF QueryAbi
  <2>3. CASE CreateRuleset
    BY <2>3 DEF CreateRuleset
  <2>4. CASE AddPathRule
    <3> DEFINE r == RuleList[next_rule]
    <3>1. next_rule \in 1..Len(RuleList)
      BY <2>4, TenRules DEF AddPathRule, RulesetInv
    <3>2. r.path \notin existing /\ r.required => ~({"target", "usr"} \subseteq existing)
      BY <3>1, RequiredRules
    <3> QED BY <2>4, <3>2 DEF AddPathRule
  <2>5. CASE RestrictSelf
    BY <2>5, TenRules DEF RestrictSelf, RulesetInv
  <2>6. CASE CloseRuleset
    BY <2>6 DEF CloseRuleset
  <2>7. CASE RulesDone \/ UNCHANGED rules_vars
    BY <2>7 DEF RulesDone, rules_vars
  <2> QED BY <2>1, <2>2, <2>3, <2>4, <2>5, <2>6, <2>7 DEF RulesNext
<1> QED BY <1>1, <1>2, <1>3 DEF RulesInv

\* What a rule of the list grants, by the place of the rule.
LEMMA RuleGrants ==
  ASSUME NEW r, r \in {RuleList[i] : i \in 1..Len(RuleList)}, NEW access, access \in r.access
  PROVE  \/ r.path = "target" /\ access \in RuntimeFile
         \/ r.path \in {home, "usr", "lib", "lib64"} /\ access \in Reading
         \/ r.path \in Optional /\ access = "read_file"
         \/ r.path = "null" /\ access = "write_file"
<1>1. PICK i \in {1, 2, 3, 4, 5, 6, 7, 8, 9, 10} : r = RuleList[i]
  BY TenRules
<1>2. CASE i = 1
  BY <1>1, <1>2, TenRules DEF Rule
<1>3. CASE i \in {2, 3, 4, 5}
  BY <1>1, <1>3, TenRules DEF Rule, RuntimeDirectory
<1>4. CASE i \in {6, 7, 9, 10}
  BY <1>1, <1>4, TenRules DEF Rule, Optional
<1>5. CASE i = 8
  BY <1>1, <1>5, TenRules DEF Rule, Optional
<1> QED BY <1>1, <1>2, <1>3, <1>4, <1>5

\* No file of the allowlist is above another path.
LEMMA OnlyDirectoriesAbove ==
  ASSUME home \in {"opt", "usr", "root"}, NEW p \in Paths, NEW q \in Above(p),
         q \in Optional \ {"lib", "lib64"} \/ q = "target"
  PROVE  q = p
<1>1. Parent(p) \in Directories
  BY DEF Parent, Directories
<1>2. q # Parent(p) /\ q # "root"
  BY <1>1 DEF Directories, Optional
<1> QED BY <1>2 DEF Above

LEMMA WritesDenied == RulesInv => HostWritesDenied
<1> SUFFICES ASSUME RulesInv, rules_result = "success", NEW p \in Paths,
                    NEW access \in Modifying \cup {"refer"} \cup
                      (IF abi >= 3 /\ header_abi >= 3 THEN {"truncate"} ELSE {}),
                    Allowed(p, access)
             PROVE  p = "null" /\ access = "write_file"
  BY DEF HostWritesDenied
<1>1. restricted /\ access \in handled \cup {"refer"}
  BY DEF RulesInv, RulesPlaceInv, HandledAccess, Known
<1>2. PICK r \in rules : access \in r.access /\ r.path \in Above(p)
  BY <1>1 DEF Allowed, Granted
<1>3. r \in {RuleList[i] : i \in 1..Len(RuleList)}
  BY <1>2 DEF RulesInv, RulesetInv
<1>4. access \notin Reading
  BY DEF Reading, Modifying
<1>5. r.path = "null" /\ access = "write_file"
  BY <1>2, <1>3, <1>4, RuleGrants DEF RuntimeFile, Reading
<1>6. p = "null"
  BY <1>2, <1>5, OnlyDirectoriesAbove DEF RulesInv, Optional
<1> QED BY <1>5, <1>6

LEMMA ReadsListed == RulesInv => HostReadsListed
<1> SUFFICES ASSUME RulesInv, rules_result = "success", NEW p \in Paths,
                    NEW access \in Reading, Allowed(p, access), home # "root"
             PROVE  \/ Above(p) \cap {"usr", "lib", "lib64", home} # {}
                    \/ access = "read_file" /\ p \in Optional
                    \/ access \in RuntimeFile /\ p = "target"
  BY DEF HostReadsListed
<1>1. restricted /\ access \in handled \cup {"refer"}
  BY DEF RulesInv, RulesPlaceInv, HandledAccess, Known
<1>2. PICK r \in rules : access \in r.access /\ r.path \in Above(p)
  BY <1>1 DEF Allowed, Granted
<1>3. r \in {RuleList[i] : i \in 1..Len(RuleList)}
  BY <1>2 DEF RulesInv, RulesetInv
<1>4. CASE r.path \in {home, "usr", "lib", "lib64"}
  BY <1>2, <1>4
<1>5. CASE r.path = "target" /\ access \in RuntimeFile
  BY <1>2, <1>5, OnlyDirectoriesAbove DEF RulesInv
<1>6. CASE r.path \in Optional \ {"lib", "lib64"} /\ access = "read_file"
  BY <1>2, <1>6, OnlyDirectoriesAbove DEF RulesInv
<1>7. access # "write_file"
  BY DEF Reading
<1> QED BY <1>2, <1>3, <1>4, <1>5, <1>6, <1>7, RuleGrants

\* Under every version of the interface, and whichever paths are missing, a
\* successful sandbox_child_restrict_filesystem() leaves the host unwritable
\* but for /dev/null and unreadable beyond the list (security.c 394-485).
THEOREM HostStaysOutOfReach == RulesSpec => []HostOutOfReach
<1>1. RulesInv => HostOutOfReach
  BY WritesDenied, ReadsListed DEF HostOutOfReach
<1> QED BY <1>1, RulesInitInv, RulesNextInv, PTL DEF RulesSpec

LEMMA RulesSuffice == RulesInv => TargetCanStart
<1> SUFFICES ASSUME RulesInv
             PROVE  TargetCanStart
  OBVIOUS
<1>1. ASSUME rules_result = "success", NEW i \in 1..10,
             RuleList[i].required \/ RuleList[i].path \in existing
      PROVE  RuleList[i] \in rules
  <2>1. next_rule - 1 = 10
    BY <1>1, TenRules DEF RulesInv, RulesPlaceInv
  <2> QED BY <1>1, <2>1 DEF RulesInv, RulesetInv
<1>2. ASSUME rules_result = "success", NEW access \in RuntimeFile
      PROVE  Allowed("target", access) /\ Allowed("usr_file", access)
  <2>1. Rule("target", RuntimeFile, TRUE) \in rules
    <3>1. RuleList[1].required
      BY <1>2, TenRules DEF Rule
    <3>2. RuleList[1] \in rules
      BY <1>1, <1>2, <3>1
    <3> QED BY <3>2, TenRules
  <2>2. Rule("usr", RuntimeDirectory, TRUE) \in rules
    <3>1. RuleList[3].required
      BY <1>2, TenRules DEF Rule
    <3>2. RuleList[3] \in rules
      BY <1>1, <1>2, <3>1
    <3> QED BY <3>2, TenRules
  <2>3. "usr" \in Above("usr_file") /\ "target" \in Above("target")
    BY DEF Above, Parent
  <2>4. access \in RuntimeDirectory
    BY DEF RuntimeFile, RuntimeDirectory, Reading
  <2> QED BY <2>1, <2>2, <2>3, <2>4 DEF Allowed, Granted, Rule
<1>3. ASSUME rules_result = "success", "lib" \in existing
      PROVE  Allowed("lib_file", "execute")
  <2>1. Rule("lib", RuntimeDirectory, FALSE) \in rules
    <3>1. RuleList[4].path \in existing
      BY <1>3, TenRules DEF Rule
    <3>2. RuleList[4] \in rules
      BY <1>1, <1>3, <3>1
    <3> QED BY <3>2, TenRules
  <2>2. "lib" \in Above("lib_file")
    BY DEF Above, Parent
  <2> QED BY <2>1, <2>2 DEF Allowed, Granted, Rule, RuntimeDirectory, Reading
<1> QED BY <1>2, <1>3 DEF TargetCanStart, RulesInv, RulesPlaceInv

\* The same ruleset always lets the target and the libraries it is linked with
\* be read and executed, and only a missing interface or a missing required
\* path makes the function fail without a failing system call (security.c
\* 394-485).
THEOREM TargetAlwaysCanStart == RulesSpec => []TargetCanStart
BY RulesSuffice, RulesInitInv, RulesNextInv, PTL DEF RulesSpec

-----------------------------------------------------------------------------
(* parse_options().                                                        *)

\* What the loop reads, in terms of parse_unsigned_limit(): the definitions of
\* module Options with Parses() and strtoul() for legal values.
ParsedPairs(n) ==
  /\ 2 * n <= Len(argv)
  /\ \A i \in 1..n :
       /\ argv[2 * i - 1].kind \in {"--timeout", "--memory-kb"}
       /\ Parses(argv[2 * i], Maximum(argv[2 * i - 1].kind))

ParsedValue(option, n, default) ==
  LET places == {i \in 1..n : argv[2 * i - 1].kind = option} IN
  IF places = {} THEN default ELSE strtoul(argv[2 * Max(places)])

ParsedReads(n, t) ==
  /\ ParsedPairs(n) /\ t \in 1..Len(argv)
  /\ argv[t].kind # "empty"
  /\ \/ t = 2 * n + 1 /\ ~StartsWithDash(argv[t])
     \/ t = 2 * n + 2 /\ argv[2 * n + 1].kind = "--"

Settings(n) ==
  /\ timeout = ParsedValue("--timeout", n, DefaultTimeout)
  /\ memory_limit = ParsedValue("--memory-kb", n, 0)

\* The loop has read n options with their values and stands behind them; a
\* target was found exactly there, or the command line has none.
ReadSoFar(n) ==
  /\ argument_index = 2 * n + 1 /\ ParsedPairs(n) /\ Settings(n)
  /\ parse_result = "accepted" => ParsedReads(n, target)
  /\ parse_result = "refused" => \A m \in Nat, t \in 1..Len(argv) : ~ParsedReads(m, t)

ParseInv == Len(argv) \in Nat /\ \E n \in Nat : ReadSoFar(n)

LEMMA ParseInitInv == ParseInit => ParseInv
<1> SUFFICES ASSUME ParseInit
             PROVE  ParseInv
  OBVIOUS
<1>1. PICK k \in 0..MaxArguments : argv \in [1..k -> OptionWords \cup Numerals]
  BY DEF ParseInit
<1>2. Len(argv) \in Nat
  <2>1. k \in Nat
    BY <1>1
  <2>2. argv \in Seq(OptionWords \cup Numerals)
    BY <1>1, <2>1
  <2> QED BY <2>2
<1>3. ParsedPairs(0)
  BY <1>2 DEF ParsedPairs
<1>4. Settings(0)
  BY DEF Settings, ParsedValue, ParseInit, ParseStart
<1>5. ReadSoFar(0)
  BY <1>3, <1>4 DEF ReadSoFar, ParseInit, ParseStart
<1> QED BY <1>2, <1>5 DEF ParseInv

\* A reading of the command line agrees with what the loop has read so far.
LEMMA ReadingExtends ==
  ASSUME Len(argv) \in Nat, NEW n \in Nat, ParsedPairs(n),
         NEW m \in Nat, NEW t \in 1..Len(argv), ParsedReads(m, t)
  PROVE  /\ m >= n
         /\ m > n => /\ argv[2 * n + 1].kind \in {"--timeout", "--memory-kb"}
                     /\ 2 * n + 2 <= Len(argv)
                     /\ Parses(argv[2 * n + 2], Maximum(argv[2 * n + 1].kind))
<1>1. ASSUME m < n
      PROVE  FALSE
  <2>1. m + 1 \in 1..n /\ 2 * (m + 1) - 1 = 2 * m + 1
    BY <1>1
  <2>2. argv[2 * m + 1].kind \in {"--timeout", "--memory-kb"}
    BY <2>1 DEF ParsedPairs
  <2>3. StartsWithDash(argv[2 * m + 1]) /\ argv[2 * m + 1].kind # "--"
    BY <2>2 DEF StartsWithDash
  <2> QED BY <2>3 DEF ParsedReads
<1>2. ASSUME m > n
      PROVE  /\ argv[2 * n + 1].kind \in {"--timeout", "--memory-kb"}
             /\ 2 * n + 2 <= Len(argv)
             /\ Parses(argv[2 * n + 2], Maximum(argv[2 * n + 1].kind))
  <2>1. n + 1 \in 1..m /\ 2 * (n + 1) - 1 = 2 * n + 1 /\ 2 * (n + 1) = 2 * n + 2
    BY <1>2
  <2>2. ParsedPairs(m)
    BY DEF ParsedReads
  <2>3. /\ argv[2 * (n + 1) - 1].kind \in {"--timeout", "--memory-kb"}
        /\ Parses(argv[2 * (n + 1)], Maximum(argv[2 * (n + 1) - 1].kind))
    BY <2>1, <2>2 DEF ParsedPairs
  <2>4. 2 * n + 2 <= Len(argv)
    BY <1>2, <2>2 DEF ParsedPairs
  <2> QED BY <2>1, <2>3, <2>4
<1> QED BY <1>1, <1>2

\* One more pair: the set of the positions that give an option grows by the new
\* one, which is then the last.
LEMMA OneMorePair ==
  ASSUME NEW n \in Nat, NEW option, NEW default
  PROVE  ParsedValue(option, n + 1, default) =
           IF argv[2 * n + 1].kind = option THEN strtoul(argv[2 * n + 2])
           ELSE ParsedValue(option, n, default)
<1> DEFINE places(k) == {i \in 1..k : argv[2 * i - 1].kind = option}
<1>1. 2 * (n + 1) - 1 = 2 * n + 1 /\ 2 * (n + 1) = 2 * n + 2
  OBVIOUS
<1>2. CASE argv[2 * n + 1].kind = option
  <2>1. n + 1 \in places(n + 1)
    BY <1>1, <1>2
  <2>2. Max(places(n + 1)) = n + 1
    <3>1. \A i \in places(n + 1) : i \in Nat /\ n + 1 >= i
      OBVIOUS
    <3>2. \A x \in places(n + 1) :
            (\A y \in places(n + 1) : x >= y) <=> x = n + 1
      BY <2>1, <3>1
    <3> HIDE DEF places
    <3> QED BY <2>1, <3>2 DEF Max
  <2> QED BY <1>1, <1>2, <2>1, <2>2 DEF ParsedValue
<1>3. CASE argv[2 * n + 1].kind # option
  <2>1. places(n + 1) = places(n)
    <3>1. \A i \in 1..(n + 1) : i \in 1..n \/ i = n + 1
      OBVIOUS
    <3> QED BY <1>1, <1>3, <3>1
  <2> QED BY <1>3, <2>1 DEF ParsedValue
<1> QED BY <1>2, <1>3

\* An option and its value are read.
LEMMA PairTaken ==
  ASSUME Len(argv) \in Nat, NEW n \in Nat, ParsedPairs(n), argument_index = 2 * n + 1,
         NEW option \in {"--timeout", "--memory-kb"}, Gives(option, Maximum(option))
  PROVE  ParsedPairs(n + 1) /\ argv[2 * n + 1].kind = option
<1>1. /\ argv[2 * n + 1].kind = option /\ 2 * n + 2 <= Len(argv)
      /\ Parses(argv[2 * n + 2], Maximum(option))
  BY DEF Gives, Argument
<1>2. ASSUME NEW i \in 1..(n + 1)
      PROVE  /\ argv[2 * i - 1].kind \in {"--timeout", "--memory-kb"}
             /\ Parses(argv[2 * i], Maximum(argv[2 * i - 1].kind))
  <2>1. CASE i = n + 1
    <3>1. 2 * i - 1 = 2 * n + 1 /\ 2 * i = 2 * n + 2
      BY <2>1
    <3> QED BY <1>1, <3>1
  <2>2. CASE i \in 1..n
    BY <2>2 DEF ParsedPairs
  <2> QED BY <2>1, <2>2
<1>3. 2 * (n + 1) <= Len(argv)
  BY <1>1
<1> QED BY <1>1, <1>2, <1>3 DEF ParsedPairs

\* The three ways to refuse a command line: there is no reading of it.
LEMMA NoReading ==
  ASSUME Len(argv) \in Nat, NEW n \in Nat, ParsedPairs(n), argument_index = 2 * n + 1,
         \/ argument_index > Len(argv)
         \/ argument_index <= Len(argv) /\ Lacks("--timeout", MaximumTimeout)
         \/ argument_index <= Len(argv) /\ Lacks("--memory-kb", MaximumMemory)
         \/ /\ argument_index <= Len(argv) /\ StartsWithDash(Argument)
            /\ Argument.kind \notin {"--timeout", "--memory-kb", "--"}
         \/ /\ argument_index <= Len(argv) /\ Argument.kind = "--"
            /\ ~(argument_index + 1 <= Len(argv) /\ argv[argument_index + 1].kind # "empty")
         \/ /\ argument_index <= Len(argv) /\ ~StartsWithDash(Argument)
            /\ Argument.kind = "empty",
         NEW m \in Nat, NEW t \in 1..Len(argv)
  PROVE  ~ParsedReads(m, t)
<1> SUFFICES ASSUME ParsedReads(m, t)
             PROVE  FALSE
  OBVIOUS
<1> DEFINE a == argv[2 * n + 1]
<1>0. Argument = a /\ argument_index + 1 = 2 * n + 2
  BY DEF Argument
<1>1. CASE m > n
  <2>1. /\ a.kind \in {"--timeout", "--memory-kb"} /\ 2 * n + 2 <= Len(argv)
        /\ Parses(argv[2 * n + 2], Maximum(a.kind))
    BY <1>1, ReadingExtends
  <2>2. StartsWithDash(a)
    BY <2>1 DEF StartsWithDash
  <2> QED BY <1>0, <2>1, <2>2 DEF Lacks, Maximum
<1>2. CASE m = n
  <2>1. /\ argv[t].kind # "empty"
        /\ \/ t = 2 * n + 1 /\ ~StartsWithDash(a)
           \/ t = 2 * n + 2 /\ a.kind = "--"
    BY <1>2 DEF ParsedReads
  <2>2. a.kind \in {"--timeout", "--memory-kb", "--"} => StartsWithDash(a)
    BY DEF StartsWithDash
  <2>3. a.kind # "--timeout" /\ a.kind # "--memory-kb"
    BY <2>1, <2>2
  <2> HIDE DEF a
  <2>4. argument_index <= Len(argv)
    BY <2>1
  <2>5. ~Lacks("--timeout", MaximumTimeout) /\ ~Lacks("--memory-kb", MaximumMemory)
    BY <1>0, <2>3 DEF Lacks
  <2>6. CASE StartsWithDash(a) /\ a.kind \notin {"--timeout", "--memory-kb", "--"}
    BY <2>1, <2>6
  <2>7. CASE a.kind = "--" /\ ~(2 * n + 2 <= Len(argv) /\ argv[2 * n + 2].kind # "empty")
    BY <2>1, <2>2, <2>7
  <2>8. CASE ~StartsWithDash(a) /\ a.kind = "empty"
    BY <2>1, <2>8 DEF a
  <2> QED BY <1>0, <2>4, <2>5, <2>6, <2>7, <2>8
<1> QED BY <1>1, <1>2, ReadingExtends

LEMMA ParseNextInv == ParseInv /\ [ParseNext]_parse_vars => ParseInv'
<1> SUFFICES ASSUME ParseInv, [ParseNext]_parse_vars
             PROVE  ParseInv'
  OBVIOUS
<1>1. PICK n \in Nat : ReadSoFar(n)
  BY DEF ParseInv
<1>2. argv' = argv /\ Len(argv) \in Nat
  BY DEF ParseInv, ParseNext, TakeTimeout, TakeMemory, RefuseArguments, ReachTarget,
         EndOfOptions, ParseDone, parse_vars
<1>3. ASSUME NEW k \in Nat
      PROVE  ParsedPairs(k)' = ParsedPairs(k)
  BY <1>2 DEF ParsedPairs
<1>4. ASSUME NEW k \in Nat, NEW option, NEW default
      PROVE  ParsedValue(option, k, default)' = ParsedValue(option, k, default)
  BY <1>2 DEF ParsedValue
<1>5. ASSUME NEW k \in Nat, NEW t
      PROVE  ParsedReads(k, t)' = ParsedReads(k, t)
  BY <1>2 DEF ParsedReads, ParsedPairs
<1>6. CASE TakeTimeout
  <2>1. ParsedPairs(n + 1) /\ argv[2 * n + 1].kind = "--timeout"
    BY <1>1, <1>2, <1>6, PairTaken DEF TakeTimeout, ReadSoFar, Maximum
  <2>2. /\ ParsedValue("--timeout", n + 1, DefaultTimeout) = strtoul(argv[2 * n + 2])
        /\ ParsedValue("--memory-kb", n + 1, 0) = ParsedValue("--memory-kb", n, 0)
    BY <2>1, OneMorePair
  <2>3. Settings(n + 1)'
    BY <1>1, <1>4, <1>6, <2>2 DEF TakeTimeout, ReadSoFar, Settings
  <2>4. parse_result' = "none" /\ argument_index' = 2 * (n + 1) + 1
    BY <1>1, <1>6 DEF TakeTimeout, ReadSoFar, Present
  <2>5. ReadSoFar(n + 1)'
    BY <1>3, <2>1, <2>3, <2>4 DEF ReadSoFar
  <2> QED BY <1>2, <2>5 DEF ParseInv
<1>7. CASE TakeMemory
  <2>1. ParsedPairs(n + 1) /\ argv[2 * n + 1].kind = "--memory-kb"
    BY <1>1, <1>2, <1>7, PairTaken DEF TakeMemory, ReadSoFar, Maximum
  <2>2. /\ ParsedValue("--timeout", n + 1, DefaultTimeout) =
             ParsedValue("--timeout", n, DefaultTimeout)
        /\ ParsedValue("--memory-kb", n + 1, 0) = strtoul(argv[2 * n + 2])
    BY <2>1, OneMorePair
  <2>3. Settings(n + 1)'
    BY <1>1, <1>4, <1>7, <2>2 DEF TakeMemory, ReadSoFar, Settings
  <2>4. parse_result' = "none" /\ argument_index' = 2 * (n + 1) + 1
    BY <1>1, <1>7 DEF TakeMemory, ReadSoFar, Present
  <2>5. ReadSoFar(n + 1)'
    BY <1>3, <2>1, <2>3, <2>4 DEF ReadSoFar
  <2> QED BY <1>2, <2>5 DEF ParseInv
<1>8. CASE RefuseArguments
  <2>1. \A m \in Nat, t \in 1..Len(argv) : ~ParsedReads(m, t)
    BY <1>1, <1>2, <1>8, NoReading DEF RefuseArguments, ReadSoFar, Present
  <2>2. Settings(n)' /\ parse_result' = "refused" /\ argument_index' = 2 * n + 1
    BY <1>1, <1>4, <1>8 DEF RefuseArguments, ReadSoFar, Settings
  <2>3. ReadSoFar(n)'
    BY <1>1, <1>2, <1>3, <1>5, <2>1, <2>2 DEF ReadSoFar
  <2> QED BY <1>2, <2>3 DEF ParseInv
<1>9. CASE ReachTarget
  <2>1. Settings(n)' /\ argument_index' = 2 * n + 1 /\ ParsedPairs(n) /\ argument_index = 2 * n + 1
    BY <1>1, <1>4, <1>9 DEF ReachTarget, EndOfOptions, ReadSoFar, Settings
  <2>2. CASE parse_result' = "accepted"
    <3>1. ParsedReads(n, target')
      <4>1. CASE Present /\ Argument.kind = "--" /\ EndOfOptions(argument_index + 1)
        BY <1>2, <2>1, <2>2, <4>1 DEF EndOfOptions, ParsedReads, Argument
      <4>2. CASE Present /\ ~StartsWithDash(Argument) /\ EndOfOptions(argument_index)
        BY <1>2, <2>1, <2>2, <4>2 DEF EndOfOptions, ParsedReads, Argument
      <4>3. CASE argument_index > Len(argv) /\ EndOfOptions(argument_index)
        BY <1>2, <2>1, <2>2, <4>3 DEF EndOfOptions
      <4> QED BY <1>9, <4>1, <4>2, <4>3 DEF ReachTarget
    <3>2. ParsedReads(n, target)'
      BY <1>2, <3>1 DEF ParsedReads, ParsedPairs
    <3>3. ReadSoFar(n)'
      BY <1>3, <2>1, <2>2, <3>2 DEF ReadSoFar
    <3> QED BY <1>2, <3>3 DEF ParseInv
  <2>3. CASE parse_result' = "refused"
    <3>1. \A m \in Nat, t \in 1..Len(argv) : ~ParsedReads(m, t)
      <4>1. CASE Present /\ Argument.kind = "--" /\ EndOfOptions(argument_index + 1)
        BY <1>2, <2>1, <2>3, <4>1, NoReading DEF EndOfOptions, Present
      <4>2. CASE Present /\ ~StartsWithDash(Argument) /\ EndOfOptions(argument_index)
        BY <1>2, <2>1, <2>3, <4>2, NoReading DEF EndOfOptions, Present, Argument
      <4>3. CASE argument_index > Len(argv) /\ EndOfOptions(argument_index)
        BY <1>2, <2>1, <2>3, <4>3, NoReading
      <4> QED BY <1>9, <4>1, <4>2, <4>3 DEF ReachTarget
    <3>2. ReadSoFar(n)'
      BY <1>2, <1>3, <1>5, <2>1, <2>3, <3>1 DEF ReadSoFar
    <3> QED BY <1>2, <3>2 DEF ParseInv
  <2> QED BY <1>9, <2>2, <2>3 DEF ReachTarget, EndOfOptions
<1>10. CASE ParseDone \/ UNCHANGED parse_vars
  <2>1. UNCHANGED parse_vars
    BY <1>10 DEF ParseDone
  <2>2. Settings(n)'
    BY <1>1, <1>4, <2>1 DEF ReadSoFar, Settings, parse_vars
  <2>3. ParsedReads(n, target)' = ParsedReads(n, target)
    BY <2>1 DEF parse_vars, ParsedReads, ParsedPairs
  <2>4. ReadSoFar(n)'
    BY <1>1, <1>2, <1>3, <1>5, <2>1, <2>2, <2>3 DEF ReadSoFar, parse_vars
  <2> QED BY <1>2, <2>4 DEF ParseInv
<1> QED BY <1>6, <1>7, <1>8, <1>9, <1>10 DEF ParseNext

\* A legal value is parsed as what it is, and a value that is parsed is legal
\* unless it has a minus sign.
LEMMA LegalParses ==
  ASSUME NEW a, NEW option \in {"--timeout", "--memory-kb"}
  PROVE  /\ Legal(a, Maximum(option)) => Parses(a, Maximum(option))
         /\ Parses(a, Maximum(option)) /\ ~a.minus =>
              Legal(a, Maximum(option)) /\ strtoul(a) = a.magnitude
<1> DEFINE modulus == 2 ^ Width
           maximum == Maximum(option)
<1>1. modulus \in Nat /\ maximum \in Nat /\ maximum < modulus
  BY OptionsAssumption DEF Maximum
<1>2. Legal(a, maximum) => a.magnitude < modulus /\ strtoul(a) = a.magnitude
  <2> HIDE DEF modulus, maximum
  <2> QED BY <1>1 DEF Legal, strtoul
<1>3. Legal(a, maximum) => Parses(a, maximum)
  BY <1>2 DEF Legal, Parses
<1>4. Parses(a, maximum) /\ ~a.minus => Legal(a, maximum) /\ strtoul(a) = a.magnitude
  BY DEF Legal, Parses, strtoul
<1> QED BY <1>3, <1>4

\* The last of the pairs that give an option is one of them.
LEMMA LastGiven ==
  ASSUME Len(argv) \in Nat, NEW n \in Nat, NEW option,
         {i \in 1..n : argv[2 * i - 1].kind = option} # {}
  PROVE  Max({i \in 1..n : argv[2 * i - 1].kind = option})
           \in {i \in 1..n : argv[2 * i - 1].kind = option}
<1> DEFINE places == {i \in 1..n : argv[2 * i - 1].kind = option}
<1>1. places \subseteq Int /\ \A i \in places : i <= n
  OBVIOUS
<1> HIDE DEF places
<1>2. PICK m \in places : \A i \in places : m >= i
  <2> DEFINE behind == {n - i : i \in places}
  <2>1. behind \in SUBSET Nat /\ behind # {}
    <3>1. PICK j \in places : TRUE
      BY DEF places
    <3>2. \A i \in places : n - i \in Nat
      BY <1>1
    <3>3. n - j \in behind
      BY <3>1
    <3> QED BY <3>2, <3>3
  <2>2. PICK d \in behind : \A e \in behind : d <= e
    BY <2>1, FirstPosition
  <2>3. PICK m \in places : d = n - m
    BY <2>2
  <2>4. \A i \in places : n - m <= n - i
    BY <2>2, <2>3
  <2> QED BY <1>1, <2>3, <2>4
<1>3. Max(places) \in places
  BY <1>2 DEF Max
<1> QED BY <1>3 DEF places

\* A command line with a reading has the parser's reading as well.
LEMMA ReadsParsed ==
  ASSUME Len(argv) \in Nat, NEW n \in Nat, NEW t, Reads(n, t)
  PROVE  ParsedReads(n, t)
<1>1. ParsedPairs(n)
  BY LegalParses DEF Reads, Pairs, ParsedPairs
<1> QED BY <1>1 DEF Reads, ParsedReads

\* The limits the parser takes from n pairs are within their ranges.
LEMMA ParsedInRange ==
  ASSUME Len(argv) \in Nat, NEW n \in Nat, ParsedPairs(n), Settings(n)
  PROVE  timeout \in 1..MaximumTimeout /\ memory_limit \in 0..MaximumMemory
<1> DEFINE places(option) == {i \in 1..n : argv[2 * i - 1].kind = option}
<1>1. ASSUME NEW option \in {"--timeout", "--memory-kb"}, NEW default
      PROVE  \/ ParsedValue(option, n, default) = default
             \/ ParsedValue(option, n, default) \in 1..Maximum(option)
  <2>1. CASE places(option) = {}
    BY <2>1 DEF ParsedValue
  <2>2. CASE places(option) # {}
    <3>1. Max(places(option)) \in places(option)
      BY <2>2, LastGiven
    <3>2. Parses(argv[2 * Max(places(option))], Maximum(option))
      BY <3>1 DEF ParsedPairs
    <3>3. ParsedValue(option, n, default) = strtoul(argv[2 * Max(places(option))])
      BY <2>2 DEF ParsedValue
    <3> QED BY <3>2, <3>3 DEF Parses
  <2> QED BY <2>1, <2>2
<1>2. /\ timeout = DefaultTimeout \/ timeout \in 1..Maximum("--timeout")
      /\ memory_limit = 0 \/ memory_limit \in 1..Maximum("--memory-kb")
  BY <1>1 DEF Settings
<1> QED BY <1>2, OptionsAssumption DEF Maximum

\* Without a minus sign the parser's reading is a reading with the same values.
LEMMA ParsedIsMeant ==
  ASSUME Len(argv) \in Nat, NEW n \in Nat, ParsedReads(n, target), ~NegativeLimit
  PROVE  /\ Reads(n, target)
         /\ \A option \in {"--timeout", "--memory-kb"} : \A default :
              ParsedValue(option, n, default) = Value(option, n, default)
<1>1. target \in 1..Len(argv) /\ target >= 2 * n + 1
  BY DEF ParsedReads
<1>2. ASSUME NEW i \in 1..n
      PROVE  /\ argv[2 * i - 1].kind \in {"--timeout", "--memory-kb"}
             /\ Legal(argv[2 * i], Maximum(argv[2 * i - 1].kind))
             /\ strtoul(argv[2 * i]) = argv[2 * i].magnitude
  <2>1. /\ argv[2 * i - 1].kind \in {"--timeout", "--memory-kb"}
        /\ Parses(argv[2 * i], Maximum(argv[2 * i - 1].kind))
    BY DEF ParsedReads, ParsedPairs
  <2>2. 2 * i - 1 \in 1..(target - 2) /\ (2 * i - 1) + 1 = 2 * i
    BY <1>1
  <2>3. ~(argv[2 * i].kind = "numeral" /\ argv[2 * i].minus)
    BY <2>1, <2>2 DEF NegativeLimit
  <2>4. ~argv[2 * i].minus
    BY <2>1, <2>3 DEF Parses
  <2> QED BY <2>1, <2>4, LegalParses
<1>3. Reads(n, target)
  BY <1>2 DEF ParsedReads, ParsedPairs, Reads, Pairs
<1>4. ASSUME NEW option \in {"--timeout", "--memory-kb"}, NEW default
      PROVE  ParsedValue(option, n, default) = Value(option, n, default)
  <2> DEFINE places == {i \in 1..n : argv[2 * i - 1].kind = option}
  <2>1. CASE places = {}
    BY <2>1 DEF ParsedValue, Value
  <2>2. CASE places # {}
    <3>1. Max(places) \in 1..n
      BY <2>2, LastGiven
    <3> QED BY <1>2, <2>2, <3>1 DEF ParsedValue, Value
  <2> QED BY <2>1, <2>2
<1> QED BY <1>3, <1>4

LEMMA ParseSuffices == ParseInv => OptionsMeanWhatTheySay
<1> SUFFICES ASSUME ParseInv
             PROVE  OptionsMeanWhatTheySay
  OBVIOUS
<1>1. PICK n \in Nat : ReadSoFar(n)
  BY DEF ParseInv
<1>2. Len(argv) \in Nat /\ n \in 0..Len(argv)
  BY <1>1 DEF ParseInv, ReadSoFar, ParsedPairs
<1>3. ASSUME parse_result = "accepted", ~NegativeLimit
      PROVE  /\ Reads(n, target)
             /\ timeout = Value("--timeout", n, DefaultTimeout)
             /\ memory_limit = Value("--memory-kb", n, 0)
  <2>1. ParsedReads(n, target) /\ Settings(n)
    BY <1>1, <1>3 DEF ReadSoFar
  <2> QED BY <1>2, <1>3, <2>1, ParsedIsMeant DEF Settings
<1>4. LimitsInRange
  BY <1>1, <1>2, ParsedInRange DEF ReadSoFar, LimitsInRange
<1>5. ASSUME parse_result = "refused", NEW m \in 0..Len(argv), NEW t \in 1..Len(argv)
      PROVE  ~Reads(m, t)
  BY <1>1, <1>2, <1>5, ReadsParsed DEF ReadSoFar
<1> QED BY <1>2, <1>3, <1>4, <1>5 DEF OptionsMeanWhatTheySay

\* For every width of unsigned long, every maximum and every command line,
\* however long: parse_options() accepts what is written with integers from 1
\* to the maximum and takes the last of each option, the limits in force are in
\* range whatever it accepts, and it accepts nothing else unless a limit has a
\* minus sign (Sandbox.c 133-207, README.md 366-367).
THEOREM OptionsMean == ParseSpec => []OptionsMeanWhatTheySay
BY ParseSuffices, ParseInitInv, ParseNextInv, PTL DEF ParseSpec

-----------------------------------------------------------------------------
(* process_request().                                                      *)

LEMMA TextsAreStrings ==
  ASSUME NEW maximum \in Nat, NEW text \in Texts(maximum)
  PROVE  Len(text) \in 1..maximum /\ \A i \in 1..Len(text) : text[i] \in Bytes /\ text[i] # NUL
<1>1. PICK n \in 1..maximum : text \in [1..n -> Bytes]
  BY DEF Texts
<1>2. text \in Seq(Bytes) /\ Len(text) = n
  BY <1>1
<1> QED BY <1>1, <1>2, AlphabetAssumption

\* A string an array holds is the one strlen() finds there.
LEMMA HeldLength ==
  ASSUME NEW maximum \in Nat, NEW array \in Array(maximum), NEW text \in Texts(maximum),
         Holds(array, text)
  PROVE  Terminators(array) # {} /\ Length(array) = Len(text)
<1>1. Len(text) \in 1..maximum /\ \A i \in 1..Len(text) : text[i] # NUL
  BY TextsAreStrings
<1>2. DOMAIN array = 1..(maximum + 1)
  BY DEF Array
<1>3. /\ DOMAIN array \subseteq Nat \ {0}
      /\ 1..(Len(text) + 1) \subseteq DOMAIN array
      /\ \A i \in 1..Len(text) : array[i] # NUL
      /\ array[Len(text) + 1] = NUL
  BY <1>1, <1>2 DEF Holds
<1> QED BY <1>1, <1>3, LengthOfString

\* validate_request_string() accepts exactly the arrays that hold a string.
LEMMA ValidMeansValidated ==
  ASSUME NEW maximum \in Nat, NEW array \in Array(maximum)
  PROVE  validate_request_string(array, maximum) = "valid" <=> Validated(array, maximum)
<1>1. DOMAIN array = 1..(maximum + 1) /\ array \in Seq(Bytes \cup {NUL})
      /\ Len(array) = maximum + 1
  BY DEF Array
<1>2. ASSUME Validated(array, maximum)
      PROVE  validate_request_string(array, maximum) = "valid"
  <2>1. PICK text \in Texts(maximum) : Holds(array, text)
    BY <1>2 DEF Validated
  <2>2. Terminators(array) # {} /\ Length(array) = Len(text) /\ Len(text) \in 1..maximum
    BY <2>1, HeldLength, TextsAreStrings
  <2> QED BY <1>1, <2>2, ValidMeansTerminated
<1>3. ASSUME validate_request_string(array, maximum) = "valid"
      PROVE  Validated(array, maximum)
  <2>1. Terminators(array) # {} /\ Length(array) \in 1..maximum
    BY <1>1, <1>3, ValidMeansTerminated
  <2>2. Terminators(array) \subseteq Nat \ {0}
    BY <1>1 DEF Terminators
  <2>3. PICK n \in 1..maximum : n = Length(array)
    BY <2>1
  <2>4. n + 1 \in Terminators(array) /\ \A j \in Terminators(array) : n + 1 <= j
    BY <2>1, <2>2, <2>3, LengthIsFirst
  <2>5. \A i \in 1..n : array[i] # NUL
    BY <1>1, <2>4 DEF Terminators
  <2>6. \A i \in 1..n : array[i] \in Bytes
    BY <1>1, <2>5 DEF Array
  <2> DEFINE text == [i \in 1..n |-> array[i]]
  <2>7. text \in [1..n -> Bytes]
    BY <2>6
  <2>8. Len(text) = n
    BY <2>7
  <2>9. text \in Texts(maximum)
    BY <2>7 DEF Texts
  <2>10. Holds(array, text)
    BY <1>1, <2>4, <2>8 DEF Holds, Terminators
  <2> QED BY <2>9, <2>10 DEF Validated
<1> QED BY <1>2, <1>3

\* The comparison of two arrays is the comparison of the strings they hold.
LEMMA EqualMeansDenotes ==
  ASSUME NEW maximum \in Nat, NEW array \in Array(maximum), Validated(array, maximum),
         NEW packed, NEW known \in Texts(maximum), packed = Packed(known, maximum)
  PROVE  secure_string_equal(array, Length(array), packed, Length(packed), maximum)
           <=> Denotes(array, packed, maximum)
<1>1. PICK text \in Texts(maximum) : Holds(array, text)
  BY DEF Validated
<1>2. Length(array) = Len(text) /\ Len(text) \in 1..maximum
  BY <1>1, HeldLength, TextsAreStrings
<1>3. Length(packed) = Len(known) /\ Len(known) \in 1..maximum
  BY TextsAreStrings, LengthOfPacked
<1>4. PICK m \in 0..maximum, n \in 0..maximum :
        /\ m = Length(array) /\ m = Len(text) /\ n = Length(packed) /\ n = Len(known)
  BY <1>2, <1>3
<1>5. secure_string_equal(array, m, packed, n, maximum)
        <=> m = n /\ \A i \in 1..m : array[i] = packed[i]
  BY DEF secure_string_equal
<1>6. \A i \in 1..n : packed[i] = known[i]
  BY <1>4 DEF Packed
<1>7. ASSUME m = n, \A i \in 1..m : array[i] = packed[i]
      PROVE  Denotes(array, packed, maximum)
  <2>1. Holds(array, known)
    BY <1>1, <1>4, <1>6, <1>7 DEF Holds
  <2> QED BY <2>1 DEF Denotes
<1>8. ASSUME Denotes(array, packed, maximum)
      PROVE  m = n /\ \A i \in 1..m : array[i] = packed[i]
  <2>1. PICK other \in Texts(maximum) : Holds(array, other) /\ packed = Packed(other, maximum)
    BY <1>8 DEF Denotes
  <2>2. Length(array) = Len(other)
    BY <2>1, HeldLength
  <2>3. Length(packed) = Len(other)
    BY <2>1, TextsAreStrings, LengthOfPacked
  <2>4. \A i \in 1..m : packed[i] = other[i]
    <3>1. m = Len(other)
      BY <1>4, <2>2
    <3>2. ASSUME NEW i \in 1..m
          PROVE  Packed(other, maximum)[i] = other[i]
      <4>1. i \in 1..(maximum + 1) /\ i <= Len(other)
        BY <3>1
      <4> QED BY <4>1 DEF Packed
    <3> QED BY <2>1, <3>2
  <2> QED BY <1>4, <2>1, <2>2, <2>3, <2>4 DEF Holds
<1> QED BY <1>4, <1>5, <1>7, <1>8

\* What has been answered is what process_request() makes of the request.
CheckInv ==
  /\ request.username \in Array(UsernameMax) /\ request.password \in Array(PasswordMax)
  /\ \E t \in Texts(UsernameMax) : stored.username = Packed(t, UsernameMax)
  /\ \E t \in Texts(PasswordMax) : stored.password = Packed(t, PasswordMax)
  /\ response.result = "none" \/ response = process_request(request, stored)

LEMMA CheckInitInv == CheckInit => CheckInv
BY DEF CheckInit, CheckStart, CheckInv, Response

LEMMA CheckNextInv == CheckInv /\ [CheckNext]_check_vars => CheckInv'
<1> SUFFICES ASSUME CheckInv, [CheckNext]_check_vars
             PROVE  CheckInv'
  OBVIOUS
<1>1. UNCHANGED <<request, stored>>
  BY DEF CheckNext, Answer, CheckDone, check_vars
<1>2. process_request(request, stored)' = process_request(request, stored)
  BY <1>1
<1>3. response' = response \/ response' = process_request(request, stored)
  BY DEF CheckNext, Answer, CheckDone, check_vars
<1> QED BY <1>1, <1>2, <1>3 DEF CheckInv

\* The early returns, each with the answer it gives.
LEMMA AnswerDeserved == CheckInv => AnswerIsDeserved
<1> SUFFICES ASSUME CheckInv, response = process_request(request, stored)
             PROVE  AnswerIsDeserved
  BY DEF CheckInv, AnswerIsDeserved, GrantedExactlyOnEquality, RefusalNamesTheFirstDefect
<1> DEFINE user == validate_request_string(request.username, UsernameMax)
           pass == validate_request_string(request.password, PasswordMax)
           header == /\ request.version = AUTH_PROTOCOL_VERSION
                     /\ request.type = AUTH_REQUEST_VALIDATE
<1>1. /\ user \in {"valid", "required", "too_long"}
      /\ user = "valid" <=> Validated(request.username, UsernameMax)
      /\ user = "required" => request.username[1] = NUL
  <2>1. DOMAIN request.username = 1..(UsernameMax + 1) /\ UsernameMax \in Nat
    BY LimitsAssumption DEF CheckInv, Array
  <2>2. request.username \in Array(UsernameMax)
    BY DEF CheckInv
  <2> QED BY <2>1, <2>2, ValidMeansTerminated, ValidMeansValidated
<1>2. /\ pass \in {"valid", "required", "too_long"}
      /\ pass = "valid" <=> Validated(request.password, PasswordMax)
      /\ pass = "required" => request.password[1] = NUL
  <2>1. DOMAIN request.password = 1..(PasswordMax + 1) /\ PasswordMax \in Nat
    BY LimitsAssumption DEF CheckInv, Array
  <2>2. request.password \in Array(PasswordMax)
    BY DEF CheckInv
  <2> QED BY <2>1, <2>2, ValidMeansTerminated, ValidMeansValidated
<1>3. ASSUME NEW array, NEW packed, NEW maximum, Denotes(array, packed, maximum)
      PROVE  Validated(array, maximum)
  BY <1>3 DEF Denotes, Validated
<1>4. user = "valid" /\ pass = "valid" =>
        ( Matches(request, stored) <=>
            /\ Denotes(request.username, stored.username, UsernameMax)
            /\ Denotes(request.password, stored.password, PasswordMax) )
  <2> SUFFICES ASSUME Validated(request.username, UsernameMax),
                      Validated(request.password, PasswordMax)
               PROVE  Matches(request, stored) <=>
                        /\ Denotes(request.username, stored.username, UsernameMax)
                        /\ Denotes(request.password, stored.password, PasswordMax)
    BY <1>1, <1>2
  <2>1. PICK u \in Texts(UsernameMax) : stored.username = Packed(u, UsernameMax)
    BY DEF CheckInv
  <2>2. PICK w \in Texts(PasswordMax) : stored.password = Packed(w, PasswordMax)
    BY DEF CheckInv
  <2>3. secure_string_equal(request.username, Length(request.username),
                            stored.username, Length(stored.username), UsernameMax)
          <=> Denotes(request.username, stored.username, UsernameMax)
    BY <2>1, EqualMeansDenotes, LimitsAssumption DEF CheckInv
  <2>4. secure_string_equal(request.password, Length(request.password),
                            stored.password, Length(stored.password), PasswordMax)
          <=> Denotes(request.password, stored.password, PasswordMax)
    BY <2>2, EqualMeansDenotes, LimitsAssumption DEF CheckInv
  <2> QED BY <2>3, <2>4 DEF Matches
<1>5. response =
        IF request.version # AUTH_PROTOCOL_VERSION
        THEN Response("rejected", "unsupported_version")
        ELSE IF request.type # AUTH_REQUEST_VALIDATE
        THEN Response("rejected", "bad_request")
        ELSE IF user # "valid" THEN Response("rejected", ErrorCode("username", user))
        ELSE IF pass # "valid" THEN Response("rejected", ErrorCode("password", pass))
        ELSE Response(IF Matches(request, stored) THEN "success" ELSE "invalid_credentials",
                      "none")
  BY DEF process_request
<1>6. /\ user = "required" => ErrorCode("username", user) = "username_required"
      /\ user = "too_long" => ErrorCode("username", user) = "username_too_long"
      /\ pass = "required" => ErrorCode("password", pass) = "password_required"
      /\ pass = "too_long" => ErrorCode("password", pass) = "password_too_long"
  BY DEF ErrorCode
<1> HIDE DEF user, pass
<1>7. CASE ~header
  BY <1>5, <1>7 DEF AnswerIsDeserved, GrantedExactlyOnEquality, RefusalNamesTheFirstDefect,
                    Response
<1>8. CASE header /\ user # "valid"
  <2>1. /\ response.result = "rejected"
        /\ response.error_code \in {"username_required", "username_too_long"}
        /\ response.error_code = "username_required" => request.username[1] = NUL
    BY <1>1, <1>5, <1>6, <1>8 DEF Response
  <2>2. ~Denotes(request.username, stored.username, UsernameMax)
    BY <1>1, <1>3, <1>8
  <2> QED BY <1>1, <1>8, <2>1, <2>2
          DEF AnswerIsDeserved, GrantedExactlyOnEquality, RefusalNamesTheFirstDefect
<1>9. CASE header /\ user = "valid" /\ pass # "valid"
  <2>1. /\ response.result = "rejected"
        /\ response.error_code \in {"password_required", "password_too_long"}
        /\ response.error_code = "password_required" => request.password[1] = NUL
    BY <1>2, <1>5, <1>6, <1>9 DEF Response
  <2>2. ~Denotes(request.password, stored.password, PasswordMax)
    BY <1>2, <1>3, <1>9
  <2> QED BY <1>1, <1>2, <1>9, <2>1, <2>2
          DEF AnswerIsDeserved, GrantedExactlyOnEquality, RefusalNamesTheFirstDefect
<1>10. CASE header /\ user = "valid" /\ pass = "valid"
  <2>1. /\ response.result = IF Matches(request, stored) THEN "success" ELSE "invalid_credentials"
        /\ response.error_code = "none"
    BY <1>5, <1>10 DEF Response
  <2> QED BY <1>1, <1>2, <1>4, <1>10, <2>1
          DEF AnswerIsDeserved, GrantedExactlyOnEquality, RefusalNamesTheFirstDefect
<1> QED BY <1>7, <1>8, <1>9, <1>10

\* For every alphabet, every length of the two strings and every array of
\* bytes that arrives, process_request() grants the account exactly to the
\* stored name and password, and a refusal names the first defect (Backend.c
\* 593-712).
THEOREM AnswerStaysDeserved == CheckSpec => []AnswerIsDeserved
BY AnswerDeserved, CheckInitInv, CheckNextInv, PTL DEF CheckSpec

-----------------------------------------------------------------------------
(* elapsed_milliseconds(), sleep_milliseconds() and the timeout.           *)

LEMMA DivisionLaw ==
  ASSUME NEW d \in Nat, NEW T \in Nat \ {0}
  PROVE  /\ d \div T \in Nat /\ d % T \in 0..(T - 1)
         /\ d = T * (d \div T) + (d % T)
<1>1. d % T \in 0..(T - 1)
  OBVIOUS
<1>2. d \div T \in Int
  OBVIOUS
<1>3. d = T * (d \div T) + (d % T)
  OBVIOUS
<1>4. d \div T >= 0
  OBVIOUS
<1> QED BY <1>1, <1>2, <1>3, <1>4

\* Division of C is off by less than the divisor.
LEMMA QuotientLaw ==
  ASSUME NEW d \in Int, NEW T \in Nat \ {0}
  PROVE  /\ Quotient(d, T) \in Int
         /\ Quotient(d, T) * T > d - T
         /\ Quotient(d, T) * T < d + T
         /\ d >= 0 => Quotient(d, T) >= 0
<1>1. CASE d >= 0
  <2>1. PICK q \in Nat, r \in 0..(T - 1) : d = T * q + r /\ q = d \div T
    BY <1>1, DivisionLaw
  <2>2. Quotient(d, T) = q
    BY <1>1, <2>1 DEF Quotient
  <2> QED BY <2>1, <2>2
<1>2. CASE d < 0
  <2>0. -d \in Nat
    BY <1>2
  <2>1. PICK q \in Nat, r \in 0..(T - 1) : -d = T * q + r /\ q = (-d) \div T
    BY <2>0, DivisionLaw
  <2>2. Quotient(d, T) = -q
    BY <1>2, <2>1 DEF Quotient
  <2>3. (-q) * T = -(T * q)
    BY <2>1
  <2> QED BY <1>2, <2>1, <2>2, <2>3
<1> QED BY <1>1, <1>2

LEMMA SecondsLaw ==
  ASSUME NEW t \in Nat
  PROVE  /\ TicksPerSecond \in Nat \ {0}
         /\ Timespec(t).tv_sec \in Nat
         /\ Timespec(t).tv_nsec \in Nat
         /\ t = TicksPerSecond * Timespec(t).tv_sec + Timespec(t).tv_nsec
<1>1. TicksPerMs \in Nat \ {0} /\ MsPerSecond \in Nat \ {0}
  BY ClockAssumption
<1>2. TicksPerMs * MsPerSecond \in Nat \ {0}
  BY <1>1
<1>3. TicksPerSecond \in Nat \ {0}
  BY <1>2 DEF TicksPerSecond
<1> QED BY <1>3, DivisionLaw DEF Timespec

\* The milliseconds computed from two readings, the second not the earlier
\* one, are off by less than one and not negative.
LEMMA ElapsedLaw ==
  ASSUME NEW from \in Nat, NEW to \in Nat, from <= to,
         NEW e, e = elapsed_milliseconds(Timespec(from), Timespec(to))
  PROVE  /\ e \in Nat
         /\ e * TicksPerMs < (to - from) + TicksPerMs
         /\ e * TicksPerMs > (to - from) - TicksPerMs
<1>1. PICK s1 \in Nat, n1 \in Nat :
        /\ s1 = Timespec(from).tv_sec /\ n1 = Timespec(from).tv_nsec
        /\ from = TicksPerSecond * s1 + n1
  BY SecondsLaw
<1>2. PICK s2 \in Nat, n2 \in Nat :
        /\ s2 = Timespec(to).tv_sec /\ n2 = Timespec(to).tv_nsec
        /\ to = TicksPerSecond * s2 + n2
  BY SecondsLaw
<1>3. PICK T \in Nat \ {0}, M \in Nat \ {0} : T = TicksPerMs /\ M = MsPerSecond
  BY ClockAssumption
<1>4. PICK q \in Int : /\ q = Quotient(n2 - n1, T)
                       /\ q * T > (n2 - n1) - T
                       /\ q * T < (n2 - n1) + T
  <2>1. PICK n \in Int : n = n2 - n1
    OBVIOUS
  <2>2. /\ Quotient(n, T) \in Int
        /\ Quotient(n, T) * T > n - T /\ Quotient(n, T) * T < n + T
    BY QuotientLaw
  <2> QED BY <2>1, <2>2
<1>5. e = (s2 - s1) * M + q
  BY <1>1, <1>2, <1>3, <1>4 DEF elapsed_milliseconds
<1>6. TicksPerSecond = T * M
  BY <1>3 DEF TicksPerSecond
<1>7. PICK k \in Int : k = s2 - s1
  OBVIOUS
<1>8. e \in Int /\ e = k * M + q
  BY <1>5, <1>7
<1>9. to - from = (T * M) * k + (n2 - n1)
  <2>1. (T * M) * s2 - (T * M) * s1 = (T * M) * (s2 - s1)
    OBVIOUS
  <2>2. PICK a \in Int, b \in Int : a = (T * M) * s1 /\ b = (T * M) * s2
    OBVIOUS
  <2>3. from = a + n1 /\ to = b + n2
    BY <2>2, <1>1, <1>2, <1>6
  <2>4. b - a = (T * M) * k
    BY <2>1, <2>2, <1>7
  <2> QED BY <2>3, <2>4
<1>10. e * T = (T * M) * k + q * T
  <2>1. (k * M + q) * T = (T * M) * k + q * T
    OBVIOUS
  <2> QED BY <2>1, <1>8
<1>11. PICK w \in Int, z \in Int, u \in Int : w = (T * M) * k /\ z = q * T /\ u = e * T
  BY <1>8
<1>12. u < (to - from) + T /\ u > (to - from) - T
  BY <1>4, <1>9, <1>10, <1>11
<1>13. e >= 0
  <2> SUFFICES ASSUME e <= -1
               PROVE  FALSE
    BY <1>8
  <2>1. e * T <= -T
    BY <1>8
  <2> QED BY <2>1, <1>11, <1>12
<1> QED BY <1>3, <1>8, <1>11, <1>12, <1>13

\* What a clock that never goes back and the comparison of CheckLimit leave
\* behind: the readings are in order, and where the thread is says on which
\* side of the limit the last one was.
ReadingsInv ==
  /\ now \in Nat /\ start \in Nat /\ current \in Nat
  /\ clock_pc # "begin" => start <= current /\ current <= now
  /\ clock_pc = "sleep" => Elapsed < TimeoutSeconds * MsPerSecond
  /\ clock_pc = "requested" => Elapsed >= TimeoutSeconds * MsPerSecond

\* A pending sleep, together with what an interruption left of it, still
\* covers the interval that sleep_milliseconds() was asked for.
DelayInv ==
  /\ wake \in Nat /\ remaining \in Nat /\ slept_from \in Nat
  /\ clock_pc = "asleep" => wake >= slept_from + Poll * TicksPerMs
  /\ clock_pc = "again" => now + remaining >= slept_from + Poll * TicksPerMs
  /\ clock_pc = "awake" => now >= slept_from + Poll * TicksPerMs

ClockInv == ReadingsInv /\ DelayInv

LEMMA ClockInitInv == ClockInit => ClockInv
BY ClockAssumption DEF ClockInit, ClockStart, ClockInv, ReadingsInv, DelayInv

LEMMA ClockNextInv == ClockInv /\ [ClockNext]_clock_vars => ClockInv'
<1> SUFFICES ASSUME ClockInv, [ClockNext]_clock_vars
             PROVE  ClockInv'
  OBVIOUS
<1>0. PICK delay \in Nat : delay = Poll * TicksPerMs
  BY ClockAssumption
<1>1. ReadingsInv'
  <2>1. CASE Tick
    BY <2>1 DEF Tick, ClockInv, ReadingsInv, Elapsed
  <2>2. CASE ReadStart
    BY <2>2 DEF ReadStart, ClockInv, ReadingsInv
  <2>3. CASE CheckLimit
    <3> DEFINE e == elapsed_milliseconds(Timespec(start), Timespec(now))
               bound == TimeoutSeconds * MsPerSecond
    <3>1. e \in Nat /\ bound \in Nat
      <4>1. start \in Nat /\ now \in Nat /\ start <= now
        BY <2>3 DEF CheckLimit, ClockInv, ReadingsInv
      <4>2. e \in Nat
        BY <4>1, ElapsedLaw
      <4> QED BY <4>2, ClockAssumption
    <3>2. Elapsed' = e
      BY <2>3 DEF CheckLimit, Elapsed, elapsed_milliseconds, Timespec
    <3> HIDE DEF e, bound
    <3>3. clock_pc' = IF e >= bound THEN "requested" ELSE "sleep"
      BY <2>3 DEF CheckLimit, e, bound
    <3>4. (clock_pc' = "sleep" => e < bound) /\ (clock_pc' = "requested" => e >= bound)
      BY <3>1, <3>3
    <3>5. /\ now' \in Nat /\ start' \in Nat /\ current' \in Nat
          /\ start' <= current' /\ current' <= now'
      BY <2>3, <3>3 DEF CheckLimit, ClockInv, ReadingsInv
    <3> QED BY <3>2, <3>4, <3>5 DEF ReadingsInv, bound
  <2>4. CASE Sleep \/ Interrupted \/ SleepAgain \/ WakeUp \/ Again
    BY <2>4 DEF Sleep, Interrupted, SleepAgain, WakeUp, Again, ClockInv, ReadingsInv, Elapsed
  <2>5. CASE ClockDone \/ UNCHANGED clock_vars
    BY <2>5 DEF ClockDone, clock_vars, ClockInv, ReadingsInv, Elapsed
  <2> QED BY <2>1, <2>2, <2>3, <2>4, <2>5 DEF ClockNext
<1>2. DelayInv'
  <2> USE <1>0 DEF ClockInv, ReadingsInv, DelayInv
  <2>1. CASE Tick
    BY <2>1 DEF Tick
  <2>2. CASE ReadStart \/ CheckLimit
    BY <2>2 DEF ReadStart, CheckLimit
  <2>3. CASE Sleep
    BY <2>3 DEF Sleep
  <2>4. CASE Interrupted
    BY <2>4 DEF Interrupted
  <2>5. CASE SleepAgain
    BY <2>5 DEF SleepAgain
  <2>6. CASE WakeUp
    BY <2>6 DEF WakeUp
  <2>7. CASE Again
    BY <2>7 DEF Again
  <2>8. CASE ClockDone \/ UNCHANGED clock_vars
    BY <2>8 DEF ClockDone, clock_vars
  <2> QED BY <2>1, <2>2, <2>3, <2>4, <2>5, <2>6, <2>7, <2>8 DEF ClockNext
<1> QED BY <1>1, <1>2 DEF ClockInv

LEMMA ReadingsSuffice == ReadingsInv => TimeoutIsKept
<1> SUFFICES ASSUME ReadingsInv
             PROVE  TimeoutIsKept
  OBVIOUS
<1>1. PICK T \in Nat \ {0}, L \in Nat :
        T = TicksPerMs /\ L = TimeoutSeconds * MsPerSecond
  BY ClockAssumption
<1>2. Real \in Int
  BY DEF Real, ReadingsInv
<1>3. ASSUME clock_pc # "begin"
      PROVE  /\ Elapsed \in Nat
             /\ Elapsed * T < Real + T /\ Elapsed * T > Real - T
  BY <1>1, <1>3, ElapsedLaw DEF ReadingsInv, Elapsed, Real
<1>4. LimitTicks = L * T
  BY <1>1, ClockAssumption DEF LimitTicks, TicksPerSecond
<1>5. ElapsedWithinOne
  BY <1>1, <1>3 DEF ElapsedWithinOne
<1>6. ASSUME clock_pc = "sleep"
      PROVE  Real < LimitTicks
  <2>1. PICK e \in Nat : e = Elapsed /\ e < L
    BY <1>1, <1>3, <1>6 DEF ReadingsInv
  <2>2. e * T + T <= L * T
    <3>1. PICK m \in Nat : L = e + 1 + m
      <4>1. L - e - 1 \in Nat /\ L = e + 1 + (L - e - 1)
        BY <2>1
      <4> QED BY <4>1
    <3>2. L * T = e * T + T + m * T /\ m * T \in Nat
      BY <3>1
    <3>3. e * T \in Nat
      OBVIOUS
    <3> QED BY <3>2, <3>3
  <2>3. e * T \in Nat /\ L * T \in Nat
    BY <2>1
  <2> QED BY <1>2, <1>3, <1>4, <1>6, <2>1, <2>2, <2>3
<1>7. ASSUME clock_pc = "requested"
      PROVE  Real > LimitTicks - T
  <2>1. PICK e \in Nat : e = Elapsed /\ e >= L
    BY <1>1, <1>3, <1>7 DEF ReadingsInv
  <2>2. e * T >= L * T
    <3>1. PICK m \in Nat : e = L + m
      <4>1. e - L \in Nat /\ e = L + (e - L)
        BY <2>1
      <4> QED BY <4>1
    <3>2. e * T = L * T + m * T /\ m * T \in Nat
      BY <3>1
    <3>3. L * T \in Nat
      OBVIOUS
    <3> QED BY <3>2, <3>3
  <2>3. e * T \in Nat /\ L * T \in Nat
    BY <2>1
  <2> QED BY <1>2, <1>3, <1>4, <1>7, <2>1, <2>2, <2>3
<1> QED BY <1>1, <1>5, <1>6, <1>7 DEF TimeoutIsKept, RequestedInTime

\* For every resolution of the clock, every timeout and every delay of the
\* thread, elapsed_milliseconds() is right to within one millisecond and never
\* negative, and timeout_monitor_thread() acts on the limit neither later than
\* the check that first sees it nor a whole millisecond early (monitor.c 55-62
\* and 221-238).
THEOREM TimeoutStaysKept == ClockSpec => []TimeoutIsKept
<1>1. ClockInv => TimeoutIsKept
  BY ReadingsSuffice DEF ClockInv
<1> QED BY <1>1, ClockInitInv, ClockNextInv, PTL DEF ClockSpec

LEMMA DelaySuffices == ClockInv => SleepIsWhole
<1>1. PICK delay \in Nat : delay = Poll * TicksPerMs
  BY ClockAssumption
<1> QED BY <1>1 DEF ClockInv, ReadingsInv, DelayInv, SleepIsWhole

\* However often sleep_milliseconds() is interrupted and however long the
\* interruptions last, it returns no earlier than it was asked to (monitor.c
\* 38-53).
THEOREM SleepStaysWhole == ClockSpec => []SleepIsWhole
BY DelaySuffices, ClockInitInv, ClockNextInv, PTL DEF ClockSpec

-----------------------------------------------------------------------------
(* The totals of process_tree_sample().                                    *)

\* The sums of the first figures of a list, as far as k.
PartialSums(g, k, s) ==
  /\ s \in [0..k -> Nat] /\ s[0] = 0
  /\ \A n \in 1..k : s[n] = s[n - 1] + g[n]

\* A list of any length has them: the shortest beginning without could be
\* extended from the one before.
LEMMA SumExists ==
  ASSUME NEW L \in Nat, NEW g \in [1..L -> Nat]
  PROVE  \E s : PartialSums(g, L, s)
<1> DEFINE Bad == {k \in 0..L : ~\E s : PartialSums(g, k, s)}
<1>1. Bad = {}
  <2> SUFFICES ASSUME Bad # {} PROVE FALSE
    OBVIOUS
  <2>1. \A k \in Bad : k \in 0..L /\ ~\E s : PartialSums(g, k, s)
    OBVIOUS
  <2>2. \A k \in 0..L : k \notin Bad => \E s : PartialSums(g, k, s)
    OBVIOUS
  <2>3. Bad \in SUBSET Nat
    OBVIOUS
  <2> HIDE DEF Bad
  <2>4. PICK k \in Bad : \A m \in Bad : k <= m
    BY <2>3, FirstPosition
  <2>5. PartialSums(g, 0, [n \in 0..0 |-> 0])
    BY DEF PartialSums
  <2>6. k \in 1..L
    BY <2>1, <2>4, <2>5
  <2>7. PICK s : PartialSums(g, k - 1, s)
    BY <2>2, <2>4, <2>6
  <2> DEFINE t == [n \in 0..k |-> IF n = k THEN s[k - 1] + g[k] ELSE s[n]]
  <2>8. s[k - 1] \in Nat /\ g[k] \in Nat /\ \A n \in 0..(k - 1) : s[n] \in Nat
    BY <2>6, <2>7 DEF PartialSums
  <2>9. t \in [0..k -> Nat] /\ t[0] = 0
    BY <2>6, <2>7, <2>8 DEF PartialSums
  <2>10. ASSUME NEW n \in 1..k PROVE t[n] = t[n - 1] + g[n]
    BY <2>6, <2>7, <2>8 DEF PartialSums
  <2>11. PartialSums(g, k, t)
    BY <2>9, <2>10 DEF PartialSums
  <2> QED
    BY <2>1, <2>4, <2>11
<1>2. L \in 0..L
  OBVIOUS
<1> QED
  BY <1>1, <1>2, Zenon

\* A file shows a figure at most once, so that the search of
\* read_process_memory() finds the only one.
LEMMA FileShows ==
  ASSUME NEW p \in Process
  PROVE  /\ Footprint(p) \in Nat
         /\ p.status = "readable" => Footprint(p) = read_process_memory(p)
         /\ p.status # "readable" => Footprint(p) = 0
         /\ p.user \in Nat /\ p.system \in Nat
         /\ p.status \in {"readable", "gone", "unreadable"}
<1> DEFINE shown == {v \in Figures : Shows(p, "VmRSS", v)}
           instead == {v \in Figures : Shows(p, "VmSize", v)}
<1>0. Figures \subseteq Nat
  BY TotalsAssumption
<1>1. /\ p.user \in Nat /\ p.system \in Nat
      /\ p.status \in {"readable", "gone", "unreadable"}
      /\ p.status = "readable" => p.lines \in StatusFiles
      /\ p.status # "readable" => p.lines = <<>>
  <2> DEFINE Readable == [status : {"readable"}, lines : StatusFiles, user : Figures, system : Figures]
             Other == [status : {"gone", "unreadable"}, lines : {<<>>}, user : {1}, system : {0}]
  <2>1. CASE p \in Readable
    <3>1. p.status = "readable" /\ p.lines \in StatusFiles /\ p.user \in Figures /\ p.system \in Figures
      BY <2>1
    <3> QED
      BY <1>0, <3>1
  <2>2. CASE p \in Other
    <3>1. p.status \in {"gone", "unreadable"} /\ p.lines \in {<<>>} /\ p.user \in {1} /\ p.system \in {0}
      BY <2>2
    <3> QED
      BY <3>1
  <2> QED
    BY <2>1, <2>2 DEF Process
<1>2. PICK n \in 0..2 : p.lines \in [1..n -> StatusLine]
  <2>1. CASE p.status = "readable"
    <3>1. PICK T \in {[1..m -> StatusLine] : m \in 0..2} : p.lines \in T
      BY <1>1, <2>1 DEF StatusFiles
    <3> QED
      BY <3>1
  <2>2. CASE p.status # "readable"
    <3>1. <<>> \in [1..0 -> StatusLine]
      OBVIOUS
    <3>2. 0 \in 0..2
      OBVIOUS
    <3>3. p.lines = <<>>
      BY <1>1, <2>2
    <3> QED
      BY <3>1, <3>2, <3>3, Zenon
  <2> QED
    BY <2>1, <2>2
<1>3. \A i, j \in 1..n : p.lines[i].key = p.lines[j].key => i = j
  BY <1>1, <1>2 DEF StatusFiles
<1>4. ASSUME NEW key
      PROVE  /\ LinesOf(p, key) = {} => {v \in Figures : Shows(p, key, v)} = {}
             /\ LinesOf(p, key) # {} =>
                  \E i \in 1..n : /\ LinesOf(p, key) = {i}
                                  /\ {v \in Figures : Shows(p, key, v)} = {p.lines[i].value}
                                  /\ p.lines[i].value \in Nat
  <2>1. ASSUME LinesOf(p, key) = {}
        PROVE  {v \in Figures : Shows(p, key, v)} = {}
    BY <1>2, <2>1 DEF LinesOf, Shows
  <2>2. ASSUME NEW i \in LinesOf(p, key)
        PROVE  /\ i \in 1..n /\ LinesOf(p, key) = {i}
               /\ {v \in Figures : Shows(p, key, v)} = {p.lines[i].value}
               /\ p.lines[i].value \in Nat
    <3>1. i \in 1..n /\ p.lines[i].key = key /\ p.lines[i] \in StatusLine
      BY <1>2 DEF LinesOf
    <3>2. p.lines[i] = [key |-> key, value |-> p.lines[i].value] /\ p.lines[i].value \in Figures
      BY <3>1 DEF StatusLine
    <3>3. LinesOf(p, key) = {i}
      BY <1>2, <1>3, <3>1 DEF LinesOf
    <3>4. Shows(p, key, p.lines[i].value)
      BY <1>2, <3>1, <3>2 DEF Shows
    <3>5. \A v : Shows(p, key, v) => v = p.lines[i].value
      BY <1>2, <1>3, <3>1 DEF Shows
    <3> QED
      BY <1>0, <3>1, <3>2, <3>3, <3>4, <3>5
  <2> QED
    BY <2>1, <2>2
<1>5. \A i \in Int : Min({i}) = i /\ Max({i}) = i
  BY DEF Min, Max
<1>6. /\ Footprint(p) = IF shown \cup instead = {} THEN 0
                        ELSE CHOOSE v \in (IF shown # {} THEN shown ELSE instead) : TRUE
  BY DEF Footprint
<1> HIDE DEF shown, instead
<1>7. CASE LinesOf(p, "VmRSS") # {}
  <2>1. PICK i \in 1..n : /\ LinesOf(p, "VmRSS") = {i} /\ shown = {p.lines[i].value}
                          /\ p.lines[i].value \in Nat
    BY <1>4, <1>7 DEF shown
  <2>2. Footprint(p) = p.lines[i].value
    BY <1>6, <2>1
  <2>3. read_process_memory(p) = p.lines[i].value
    BY <1>5, <1>7, <2>1 DEF read_process_memory
  <2>4. p.status = "readable"
    BY <1>1, <1>7 DEF LinesOf
  <2> QED
    BY <1>1, <2>1, <2>2, <2>3, <2>4
<1>8. CASE LinesOf(p, "VmRSS") = {} /\ LinesOf(p, "VmSize") # {}
  <2>1. PICK i \in 1..n : /\ LinesOf(p, "VmSize") = {i} /\ instead = {p.lines[i].value}
                          /\ p.lines[i].value \in Nat
    BY <1>4, <1>8 DEF instead
  <2>2. shown = {}
    BY <1>4, <1>8 DEF shown
  <2>3. Footprint(p) = p.lines[i].value
    BY <1>6, <2>1, <2>2
  <2>4. read_process_memory(p) = p.lines[i].value
    BY <1>5, <1>8, <2>1 DEF read_process_memory
  <2>5. p.status = "readable"
    BY <1>1, <1>8 DEF LinesOf
  <2> QED
    BY <1>1, <2>1, <2>3, <2>4, <2>5
<1>9. CASE LinesOf(p, "VmRSS") = {} /\ LinesOf(p, "VmSize") = {}
  <2>1. shown = {} /\ instead = {}
    BY <1>4, <1>9 DEF shown, instead
  <2>2. Footprint(p) = 0 /\ read_process_memory(p) = 0
    BY <1>6, <1>9, <2>1 DEF read_process_memory
  <2> QED
    BY <1>1, <2>2
<1> QED
  BY <1>7, <1>8, <1>9

LEMMA SumsAdd ==
  ASSUME NEW L \in Nat, processes \in [1..L -> Process]
  PROVE  /\ MemoryOf[0] = 0 /\ TicksOf[0] = 0
         /\ \A n \in 1..L : MemoryOf[n] = MemoryOf[n - 1] + Footprint(processes[n])
         /\ \A n \in 1..L : TicksOf[n] = TicksOf[n - 1] + processes[n].user + processes[n].system
<1>1. Len(processes) = L
  OBVIOUS
<1>2. MemoryOf = [n \in 0..L |-> IF n = 0 THEN 0 ELSE MemoryOf[n - 1] + Footprint(processes[n])]
  <2> DEFINE g == [n \in 1..L |-> Footprint(processes[n])]
  <2>1. g \in [1..L -> Nat]
    BY FileShows
  <2>2. PICK s : PartialSums(g, L, s)
    BY <2>1, SumExists
  <2>3. s = [n \in 0..L |-> IF n = 0 THEN 0 ELSE s[n - 1] + Footprint(processes[n])]
    BY <2>2 DEF PartialSums
  <2> QED
    BY <1>1, <2>3 DEF MemoryOf
<1>3. TicksOf = [n \in 0..L |-> IF n = 0 THEN 0
                               ELSE TicksOf[n - 1] + processes[n].user + processes[n].system]
  <2> DEFINE g == [n \in 1..L |-> processes[n].user + processes[n].system]
  <2>1. g \in [1..L -> Nat]
    BY FileShows
  <2>2. PICK s : PartialSums(g, L, s)
    BY <2>1, SumExists
  <2>3. ASSUME NEW n \in 1..L
        PROVE  s[n] = s[n - 1] + processes[n].user + processes[n].system
    <3>1. /\ s[n] = s[n - 1] + g[n] /\ g[n] = processes[n].user + processes[n].system
          /\ s[n - 1] \in Nat /\ processes[n].user \in Nat /\ processes[n].system \in Nat
      BY <2>2, FileShows DEF PartialSums
    <3> QED
      BY <3>1
  <2>4. s = [n \in 0..L |-> IF n = 0 THEN 0
                            ELSE s[n - 1] + processes[n].user + processes[n].system]
    BY <2>2, <2>3 DEF PartialSums
  <2> QED
    BY <1>1, <2>4 DEF TicksOf
<1> QED
  BY <1>2, <1>3

\* A sum cut off at the largest number of its type.
Capped(total) == IF total > UMax THEN UMax ELSE total

LEMMA CapAdds ==
  ASSUME NEW a \in Nat, NEW b \in Nat
  PROVE  /\ Saturating(Capped(a), b) = Capped(a + b)
         /\ Saturating(Capped(a), Capped(b)) = Capped(a + b)
  BY TotalsAssumption DEF Saturating, Capped

\* While process_tree_sample() adds up, its totals are the exact sums of what
\* it has been through, cut off; the two kinds of ticks each by itself.
SumsInv ==
  state # "failed" =>
    /\ MemoryOf[sample_index - 1] \in Nat
    /\ sample_memory = Capped(MemoryOf[sample_index - 1])
    /\ \E user, system \in Nat :
         /\ TicksOf[sample_index - 1] = user + system
         /\ user_ticks = Capped(user) /\ system_ticks = Capped(system)

TotalsInv ==
  /\ Len(processes) \in Nat /\ processes \in [1..Len(processes) -> Process]
  /\ sample_index \in 1..(Len(processes) + 1)
  /\ state = "done" => sample_index = Len(processes) + 1
  /\ SumsInv

LEMMA TotalsStartInv ==
  ASSUME TotalsStart, NEW L \in Nat, processes \in [1..L -> Process]
  PROVE  TotalsInv
<1>1. Len(processes) = L
  OBVIOUS
<1>2. MemoryOf[0] = 0 /\ TicksOf[0] = 0
  BY SumsAdd
<1>3. Capped(0) = 0
  BY TotalsAssumption DEF Capped
<1>4. SumsInv
  BY <1>2, <1>3 DEF SumsInv, TotalsStart
<1> QED
  BY <1>1, <1>4 DEF TotalsInv, TotalsStart

LEMMA TotalsInitInv == TotalsInit => TotalsInv
<1> SUFFICES ASSUME TotalsInit PROVE TotalsInv
  OBVIOUS
<1>1. PICK T \in {[1..n -> Process] : n \in 0..MaxProcesses} : processes \in T
  BY DEF TotalsInit
<1>2. PICK n \in 0..MaxProcesses : processes \in [1..n -> Process]
  BY <1>1
<1> QED
  BY <1>2, TotalsStartInv DEF TotalsInit

LEMMA AddKeepsSums ==
  ASSUME TotalsInv, AddProcess
  PROVE  TotalsInv'
<1> DEFINE p == processes[sample_index]
<1>1. /\ sample_index \in 1..Len(processes) /\ p \in Process /\ state = "adding"
      /\ processes' = processes
  BY DEF TotalsInv, AddProcess
<1>2. MemoryOf' = MemoryOf /\ TicksOf' = TicksOf
  BY <1>1 DEF MemoryOf, TicksOf, Footprint, Shows
<1>3. /\ MemoryOf[sample_index] = MemoryOf[sample_index - 1] + Footprint(p)
      /\ TicksOf[sample_index] = TicksOf[sample_index - 1] + p.user + p.system
  BY <1>1, SumsAdd DEF TotalsInv
<1>4. /\ Footprint(p) \in Nat /\ p.user \in Nat /\ p.system \in Nat
      /\ p.status = "readable" => Footprint(p) = read_process_memory(p)
      /\ p.status # "readable" => Footprint(p) = 0
  BY <1>1, FileShows
<1>5. /\ user_ticks' = Saturating(user_ticks, p.user)
      /\ system_ticks' = Saturating(system_ticks, p.system)
  BY DEF AddProcess
<1> HIDE DEF p
<1>6. PICK user, system \in Nat : /\ TicksOf[sample_index - 1] = user + system
                                  /\ user_ticks = Capped(user) /\ system_ticks = Capped(system)
  BY <1>1 DEF TotalsInv, SumsInv
<1>7. /\ user + p.user \in Nat /\ system + p.system \in Nat
      /\ TicksOf[sample_index] = (user + p.user) + (system + p.system)
      /\ user_ticks' = Capped(user + p.user) /\ system_ticks' = Capped(system + p.system)
  <2>1. /\ Saturating(user_ticks, p.user) = Capped(user + p.user)
        /\ Saturating(system_ticks, p.system) = Capped(system + p.system)
    BY <1>4, <1>6, CapAdds, Zenon
  <2> QED
    BY <1>3, <1>4, <1>5, <1>6, <2>1
<1>8. ASSUME sample_index' = sample_index + 1, state' = state,
             sample_memory' = Saturating(sample_memory, Footprint(p))
      PROVE  TotalsInv'
  <2>1. sample_index' - 1 = sample_index
    BY <1>1, <1>8
  <2>2. /\ MemoryOf[sample_index] \in Nat
        /\ sample_memory' = Capped(MemoryOf[sample_index])
    <3>1. /\ MemoryOf[sample_index - 1] \in Nat
          /\ sample_memory = Capped(MemoryOf[sample_index - 1])
      BY <1>1 DEF TotalsInv, SumsInv
    <3>2. Saturating(sample_memory, Footprint(p)) = Capped(MemoryOf[sample_index - 1] + Footprint(p))
      BY <1>4, <3>1, CapAdds, Zenon
    <3> QED
      BY <1>3, <1>4, <1>8, <3>1, <3>2
  <2>3. SumsInv'
    BY <1>2, <1>7, <2>1, <2>2 DEF SumsInv, Capped
  <2> QED
    BY <1>1, <1>8, <2>3 DEF TotalsInv
<1>9. CASE p.status = "readable"
  BY <1>1, <1>4, <1>8, <1>9 DEF AddProcess, p
<1>10. CASE p.status = "gone"
  <2>1. Saturating(sample_memory, 0) = sample_memory
    BY <1>1, TotalsAssumption DEF TotalsInv, SumsInv, Saturating, Capped
  <2> QED
    BY <1>1, <1>4, <1>8, <1>10, <2>1 DEF AddProcess, p
<1>11. CASE state' = "failed" /\ sample_index' = sample_index
  BY <1>1, <1>11 DEF TotalsInv, SumsInv
<1> QED
  BY <1>9, <1>10, <1>11 DEF AddProcess, p

LEMMA TotalsNextInv == TotalsInv /\ [TotalsNext]_totals_vars => TotalsInv'
<1> SUFFICES ASSUME TotalsInv, [TotalsNext]_totals_vars PROVE TotalsInv'
  OBVIOUS
<1>1. ASSUME UNCHANGED <<processes, sample_index, sample_memory, user_ticks, system_ticks>>,
             state' = "done" => sample_index = Len(processes) + 1,
             state' # "failed" => state # "failed"
      PROVE  TotalsInv'
  <2>1. MemoryOf' = MemoryOf /\ TicksOf' = TicksOf
    BY <1>1 DEF MemoryOf, TicksOf, Footprint, Shows
  <2>2. SumsInv'
    BY <1>1, <2>1 DEF TotalsInv, SumsInv, Capped
  <2> QED
    BY <1>1, <2>2 DEF TotalsInv
<1>2. CASE AddProcess
  BY <1>2, AddKeepsSums
<1>3. CASE FinishTotals
  BY <1>1, <1>3 DEF FinishTotals, TotalsInv
<1>4. CASE TotalsDone \/ UNCHANGED totals_vars
  BY <1>1, <1>4 DEF TotalsDone, totals_vars, TotalsInv
<1> QED
  BY <1>2, <1>3, <1>4 DEF TotalsNext

LEMMA SumsSuffice == TotalsInv => LimitIsNotMissed
<1> SUFFICES ASSUME TotalsInv, state = "done" PROVE LimitIsNotMissed
  BY DEF LimitIsNotMissed
<1>1. sample_index - 1 = Len(processes)
  BY DEF TotalsInv
<1>2. TrueMemory \in Nat /\ sample_memory = Capped(TrueMemory)
  BY <1>1 DEF TotalsInv, SumsInv, TrueMemory
<1>3. ASSUME NEW bound \in MemoryLimits
      PROVE  LimitExceeded(bound) <=> TrueMemory >= bound
  BY <1>2, TotalsAssumption DEF LimitExceeded, Capped
<1>4. PICK user, system \in Nat : /\ TrueTicks = user + system
                                  /\ user_ticks = Capped(user) /\ system_ticks = Capped(system)
  BY <1>1 DEF TotalsInv, SumsInv, TrueTicks
<1>5. TrueTicks \in Nat /\ total_ticks = Capped(TrueTicks)
  BY <1>4, CapAdds DEF total_ticks
<1>6. \A a, b \in Nat : Min({a, b}) = IF b > a THEN a ELSE b
  BY DEF Min
<1>7. total_ticks = Min({UMax, TrueTicks})
  BY <1>5, <1>6, TotalsAssumption DEF Capped
<1> QED
  BY <1>3, <1>7 DEF LimitIsNotMissed

\* For any number of processes, any width of the counters and any limits: the
\* sums of process_tree_sample() exceed a limit exactly when the processes
\* together do, an overflow included, and so does the CPU total.
THEOREM LimitIsNeverMissed == TotalsSpec => []LimitIsNotMissed
BY TotalsInitInv, TotalsNextInv, SumsSuffice, PTL DEF TotalsSpec

-----------------------------------------------------------------------------
(* load_demo_credential().                                                 *)

LEMMA FirstOfIs ==
  ASSUME NEW s, Len(s) \in Nat, NEW chars
  PROVE  /\ FirstOf(s, chars) \in 0..Len(s)
         /\ FirstOf(s, chars) = 0 => \A j \in 1..Len(s) : s[j] \notin chars
         /\ FirstOf(s, chars) # 0 =>
              /\ s[FirstOf(s, chars)] \in chars
              /\ \A j \in 1..(FirstOf(s, chars) - 1) : s[j] \notin chars
<1> DEFINE I == {j \in 1..Len(s) : s[j] \in chars}
<1>1. CASE I = {}
  BY <1>1 DEF FirstOf, SelectInSeq
<1>2. CASE I # {}
  <2>0. I \in SUBSET Nat
    OBVIOUS
  <2>1. \E n \in I : \A m \in I : n <= m
    BY <1>2, <2>0, FirstPosition
  <2>2. Min(I) \in I /\ \A m \in I : Min(I) <= m
    BY <2>1 DEF Min
  <2>3. FirstOf(s, chars) = Min(I)
    BY <1>2 DEF FirstOf, SelectInSeq
  <2>4. /\ FirstOf(s, chars) \in 1..Len(s) /\ s[FirstOf(s, chars)] \in chars
        /\ \A m \in 1..Len(s) : s[m] \in chars => FirstOf(s, chars) <= m
    BY <2>2, <2>3
  <2> HIDE DEF I
  <2> QED
    BY <2>4
<1> QED
  BY <1>1, <1>2

\* The same of a newline.
LEMMA FirstNewline ==
  ASSUME NEW s, NEW n \in Nat, Len(s) = n, NEW f, f = FirstOf(s, {"LF"})
  PROVE  /\ f \in 0..n
         /\ f = 0 <=> \A j \in 1..n : s[j] # "LF"
         /\ f # 0 => f \in 1..n /\ s[f] = "LF" /\ \A j \in 1..(f - 1) : s[j] # "LF"
<1>1. /\ f \in 0..n
      /\ f = 0 => \A j \in 1..n : s[j] \notin {"LF"}
      /\ f # 0 => s[f] \in {"LF"} /\ \A j \in 1..(f - 1) : s[j] \notin {"LF"}
  BY FirstOfIs
<1>2. f # 0 => f \in 1..n
  BY <1>1
<1> QED BY <1>1, <1>2

LEMMA SubSeqIs ==
  ASSUME NEW S, NEW s \in Seq(S), NEW a \in 1..(Len(s) + 1), NEW b \in (a - 1)..Len(s)
  PROVE  /\ SubSeq(s, a, b) \in Seq(S) /\ Len(SubSeq(s, a, b)) = b - a + 1
         /\ \A j \in 1..(b - a + 1) : SubSeq(s, a, b)[j] = s[a + j - 1]
  OBVIOUS

LEMMA SubSubSeq ==
  ASSUME NEW S, NEW s \in Seq(S), NEW a \in 1..(Len(s) + 1), NEW b \in (a - 1)..Len(s),
         NEW c \in 1..(b - a + 2), NEW d \in (c - 1)..(b - a + 1)
  PROVE  SubSeq(SubSeq(s, a, b), c, d) = SubSeq(s, a + c - 1, a + d - 1)
  OBVIOUS

LEMMA Suffix ==
  ASSUME NEW S, NEW s \in Seq(S), NEW a \in 1..(Len(s) + 1), NEW n \in 0..(Len(s) - a + 1)
  PROVE  SubSeq(SubSeq(s, a, Len(s)), n + 1, Len(s) - a + 1) = SubSeq(s, a + n, Len(s))
<1>1. /\ Len(s) \in Nat /\ n \in Nat /\ n <= Len(s) - a + 1 /\ a \in Nat
      /\ a + (n + 1) - 1 = a + n /\ a + (Len(s) - a + 1) - 1 = Len(s)
  OBVIOUS
<1>2. Len(s) \in (a - 1)..Len(s) /\ n + 1 \in 1..(Len(s) - a + 2)
      /\ Len(s) - a + 1 \in (n + 1 - 1)..(Len(s) - a + 1)
  BY <1>1
<1>3. SubSeq(SubSeq(s, a, Len(s)), n + 1, Len(s) - a + 1)
        = SubSeq(s, a + (n + 1) - 1, a + (Len(s) - a + 1) - 1)
  BY <1>2, SubSubSeq
<1> QED BY <1>1, <1>3

\* The line that starts at i ends at e, and its text at c - 1.
LineEnd(i, e) ==
  /\ e \in i..Len(file) /\ \A k \in i..(e - 1) : file[k] # "LF"
  /\ file[e] = "LF" \/ e = Len(file)

Ends == {"LF", "CR", "NUL"}

TextEnd(i, e, c) ==
  /\ c \in i..(e + 1) /\ \A k \in i..(c - 1) : file[k] \notin Ends
  /\ c = e + 1 \/ file[c] \in Ends

LEMMA LineHasEnd ==
  ASSUME file \in Seq(Characters), NEW i \in 1..Len(file)
  PROVE  \E e : LineEnd(i, e)
<1> DEFINE S == {k \in i..Len(file) : file[k] = "LF" \/ k = Len(file)}
<1>1. S \in SUBSET Nat /\ Len(file) \in S
  OBVIOUS
<1>2. PICK e \in S : \A m \in S : e <= m
  <2> HIDE DEF S
  <2> QED BY <1>1, FirstPosition
<1>3. LineEnd(i, e)
  BY <1>2 DEF LineEnd
<1> QED BY <1>3

LEMMA TextHasEnd ==
  ASSUME file \in Seq(Characters), NEW i \in 1..Len(file), NEW e, LineEnd(i, e)
  PROVE  \E c : TextEnd(i, e, c)
<1> DEFINE S == {k \in i..(e + 1) : k = e + 1 \/ file[k] \in Ends}
<1>0. e \in Nat /\ i <= e
  BY DEF LineEnd
<1>1. S \in SUBSET Nat /\ e + 1 \in S
  BY <1>0
<1>2. PICK c \in S : \A m \in S : c <= m
  <2> HIDE DEF S
  <2> QED BY <1>1, FirstPosition
<1>3. TextEnd(i, e, c)
  BY <1>0, <1>2 DEF TextEnd
<1> QED BY <1>3

LEMMA ExtentIs ==
  ASSUME file \in Seq(Characters), NEW i \in 1..Len(file), NEW e, LineEnd(i, e)
  PROVE  Extent(i) = i..e /\ Cardinality(Extent(i)) = e - i + 1
<1>0. e \in Nat /\ i <= e /\ e <= Len(file) /\ Len(file) \in Nat
  BY DEF LineEnd
<1>1. Extent(i) = i..e
  <2>1. ASSUME NEW j \in Extent(i) PROVE j \in i..e
    BY <1>0, <2>1 DEF Extent, LineEnd
  <2>2. ASSUME NEW j \in i..e PROVE j \in Extent(i)
    BY <1>0, <2>2 DEF Extent, LineEnd
  <2> QED BY <2>1, <2>2
<1> QED BY <1>0, <1>1, FS_Interval

LEMMA TextAtIs ==
  ASSUME file \in Seq(Characters), NEW i \in 1..Len(file), NEW e, LineEnd(i, e),
         NEW c, TextEnd(i, e, c)
  PROVE  TextAt(i) = SubSeq(file, i, c - 1)
<1> DEFINE body == {j \in Extent(i) : \A k \in i..j : file[k] \notin {"LF", "CR", "NUL"}}
<1>0. /\ e \in Nat /\ i <= e /\ e <= Len(file) /\ Len(file) \in Nat
      /\ c \in Nat /\ i <= c /\ c <= e + 1 /\ Extent(i) = i..e
  BY ExtentIs DEF LineEnd, TextEnd
<1>1. body = i..(c - 1)
  <2>1. ASSUME NEW j \in body PROVE j \in i..(c - 1)
    BY <1>0, <2>1 DEF TextEnd, Ends
  <2>2. ASSUME NEW j \in i..(c - 1) PROVE j \in body
    BY <1>0, <2>2 DEF TextEnd, Ends
  <2> QED BY <2>1, <2>2
<1>2. Cardinality(body) = c - i
  <2>1. Cardinality(i..(c - 1)) = IF i > c - 1 THEN 0 ELSE c - 1 - i + 1
    BY <1>0, FS_Interval
  <2>2. Cardinality(i..(c - 1)) = c - i
    BY <1>0, <2>1
  <2> QED BY <1>1, <2>2, Zenon
<1>3. TextAt(i) = SubSeq(file, i, i + Cardinality(body) - 1)
  BY DEF TextAt
<1> HIDE DEF body
<1> QED BY <1>0, <1>2, <1>3

\* What fgets() stores of the line that starts at i: all of it, or as much as
\* the buffer takes.
LastRead(i, e) == IF e - i + 1 < CREDENTIAL_LINE_MAX THEN e ELSE i + CREDENTIAL_LINE_MAX - 2

LEMMA BufferSize == CREDENTIAL_LINE_MAX \in Nat /\ CREDENTIAL_LINE_MAX > 5
  BY LimitsAssumption DEF CREDENTIAL_LINE_MAX

LEMMA ChunkIs ==
  ASSUME file \in Seq(Characters), NEW i \in 1..Len(file), NEW e, LineEnd(i, e),
         rest = SubSeq(file, i, Len(file))
  PROVE  /\ LastRead(i, e) \in i..e
         /\ Chunk = SubSeq(file, i, LastRead(i, e))
         /\ Len(Chunk) = LastRead(i, e) - i + 1
         /\ \A j \in 1..Len(Chunk) : Chunk[j] = file[i + j - 1]
         /\ AtEnd <=> file[e] # "LF" /\ e - i + 1 < CREDENTIAL_LINE_MAX - 1
<1> DEFINE m == CREDENTIAL_LINE_MAX - 1
           L == Len(file) - i + 1
           w == IF L < m THEN L ELSE m
           window == SubSeq(rest, 1, w)
           newline == FirstOf(window, {"LF"})
<1>0. /\ e \in Nat /\ i <= e /\ e <= Len(file) /\ Len(file) \in Nat
      /\ \A k \in i..(e - 1) : file[k] # "LF"
      /\ file[e] = "LF" \/ e = Len(file)
  BY DEF LineEnd
<1>1. m \in Nat /\ m > 4 /\ L \in Nat /\ L > 0 /\ w \in 1..L /\ w <= m
  BY <1>0, BufferSize
<1>2. LastRead(i, e) = (IF e - i + 1 <= m THEN e ELSE i + m - 1) /\ LastRead(i, e) \in i..e
  BY <1>0, <1>1, BufferSize DEF LastRead
<1>3. /\ Len(rest) = L /\ rest \in Seq(Characters)
      /\ \A j \in 1..L : rest[j] = file[i + j - 1]
  BY <1>0, SubSeqIs
<1> HIDE DEF L, m
<1>4. (w = L /\ L < m) \/ (w = m /\ L >= m)
  <2>1. L < m \/ L >= m
    BY <1>1
  <2>2. (L < m => w = L) /\ (~(L < m) => w = m)
    BY Zenon
  <2> HIDE DEF w
  <2> QED BY <1>1, <2>1, <2>2
<1> HIDE DEF w
<1>5. window = SubSeq(file, i, i + w - 1)
  <2>1. window = SubSeq(SubSeq(file, i, Len(file)), 1, w)
    OBVIOUS
  <2>2. i + 1 - 1 = i /\ Len(file) \in (i - 1)..Len(file) /\ 1 \in 1..(Len(file) - i + 2)
        /\ w \in (1 - 1)..(Len(file) - i + 1) /\ i \in 1..(Len(file) + 1)
    BY <1>0, <1>1 DEF L
  <2> QED BY <2>1, <2>2, SubSubSeq
<1>6. /\ Len(window) = w
      /\ \A j \in 1..w : window[j] = file[i + j - 1]
      /\ \A n \in 1..w : SubSeq(window, 1, n) = SubSeq(file, i, i + n - 1)
  <2>1. i \in 1..(Len(file) + 1) /\ i + w - 1 \in (i - 1)..Len(file) /\ (i + w - 1) - i + 1 = w
    BY <1>0, <1>1 DEF L
  <2>2. /\ Len(SubSeq(file, i, i + w - 1)) = w
        /\ \A j \in 1..w : SubSeq(file, i, i + w - 1)[j] = file[i + j - 1]
    BY <2>1, SubSeqIs
  <2>3. ASSUME NEW n \in 1..w
        PROVE  SubSeq(SubSeq(file, i, i + w - 1), 1, n) = SubSeq(file, i, i + n - 1)
    <3>1. i + 1 - 1 = i /\ 1 \in 1..(i + w - 1 - i + 2) /\ n \in (1 - 1)..(i + w - 1 - i + 1)
      BY <1>0, <1>1
    <3> QED BY <2>1, <3>1, SubSubSeq
  <2> QED BY <1>5, <2>2, <2>3
<1> HIDE DEF window
<1>7. Chunk = IF newline = 0 THEN window ELSE SubSeq(window, 1, newline)
  BY <1>3 DEF Chunk, window, w, m
<1>8. /\ newline \in 0..w
      /\ newline = 0 => \A j \in 1..w : window[j] # "LF"
      /\ newline # 0 => window[newline] = "LF" /\ \A j \in 1..(newline - 1) : window[j] # "LF"
  <2>1. Len(window) = w /\ w \in Nat
    BY <1>1, <1>6
  <2>2. newline = FirstOf(window, {"LF"})
    OBVIOUS
  <2> HIDE DEF newline
  <2> QED
    BY <2>1, <2>2, FirstNewline
<1> HIDE DEF newline
<1>9. Chunk = SubSeq(file, i, LastRead(i, e))
  <2>1. CASE newline = 0
    <3>1. ASSUME NEW k \in i..(i + w - 1) PROVE file[k] # "LF"
      <4>1. k - i + 1 \in 1..w /\ i + (k - i + 1) - 1 = k
        BY <1>0, <1>1
      <4> QED BY <1>6, <1>8, <2>1, <4>1
    <3>2. LastRead(i, e) = i + w - 1
      BY <1>0, <1>1, <1>2, <1>4, <3>1 DEF L
    <3> QED BY <1>5, <1>7, <2>1, <3>2
  <2>2. CASE newline # 0
    <3>1. newline \in 1..w /\ file[i + newline - 1] = "LF"
      BY <1>6, <1>8, <2>2
    <3>2. ASSUME NEW k \in i..(i + newline - 2) PROVE file[k] # "LF"
      <4>1. k - i + 1 \in 1..(newline - 1) /\ k - i + 1 \in 1..w /\ i + (k - i + 1) - 1 = k
        BY <1>0, <1>1, <3>1
      <4> QED BY <1>6, <1>8, <2>2, <4>1
    <3>3. e = i + newline - 1
      BY <1>0, <1>1, <3>1, <3>2 DEF L
    <3>4. LastRead(i, e) = i + newline - 1
      BY <1>0, <1>1, <1>2, <3>1, <3>3
    <3> QED BY <1>6, <1>7, <2>2, <3>1, <3>4
  <2> QED BY <2>1, <2>2
<1>10. /\ Len(Chunk) = LastRead(i, e) - i + 1
       /\ \A j \in 1..Len(Chunk) : Chunk[j] = file[i + j - 1]
  <2>1. i \in 1..(Len(file) + 1) /\ LastRead(i, e) \in (i - 1)..Len(file)
    BY <1>0, <1>2
  <2> QED BY <1>9, <2>1, SubSeqIs
<1>11. AtEnd <=> file[e] # "LF" /\ e - i + 1 < m
  <2>1. AtEnd <=> L < m /\ FirstOf(rest, {"LF"}) = 0
    BY <1>3 DEF AtEnd, m
  <2>2. FirstOf(rest, {"LF"}) = 0 <=> \A j \in 1..L : rest[j] # "LF"
    BY <1>1, <1>3, FirstNewline, Zenon
  <2>3. (\A j \in 1..L : rest[j] # "LF") <=> \A k \in i..Len(file) : file[k] # "LF"
    <3>1. \A k \in i..Len(file) : k - i + 1 \in 1..L /\ i + (k - i + 1) - 1 = k
      BY <1>0 DEF L
    <3>2. \A j \in 1..L : i + j - 1 \in i..Len(file)
      BY <1>0 DEF L
    <3> QED BY <1>3, <3>1, <3>2
  <2>4. (\A k \in i..Len(file) : file[k] # "LF") <=> file[e] # "LF"
    BY <1>0
  <2>5. file[e] # "LF" => e - i + 1 = L
    BY <1>0 DEF L
  <2> QED BY <2>1, <2>2, <2>3, <2>4, <2>5
<1> QED
  BY <1>2, <1>9, <1>10, <1>11 DEF m

LEMMA CutIs ==
  ASSUME file \in Seq(Characters), NEW i \in 1..Len(file), NEW e, LineEnd(i, e),
         rest = SubSeq(file, i, Len(file)), NEW c, TextEnd(i, e, c)
  PROVE  /\ c <= LastRead(i, e) => Cut(Chunk) = c - i + 1 /\ Chunk[Cut(Chunk)] = file[c]
         /\ c > LastRead(i, e) => Cut(Chunk) = 0
<1> DEFINE l == LastRead(i, e) f == Cut(Chunk) n == l - i + 1
<1>0. /\ e \in Nat /\ i <= e /\ c \in Nat /\ i <= c /\ c <= e + 1
      /\ \A k \in i..(c - 1) : file[k] \notin Ends
      /\ c = e + 1 \/ file[c] \in Ends
  BY DEF LineEnd, TextEnd
<1>1. /\ l \in i..e /\ Len(Chunk) = n /\ n \in Nat
      /\ \A j \in 1..n : Chunk[j] = file[i + j - 1]
  BY ChunkIs, <1>0
<1>2. /\ f \in 0..n
      /\ f = 0 => \A j \in 1..n : Chunk[j] \notin Ends
      /\ f # 0 => Chunk[f] \in Ends /\ \A j \in 1..(f - 1) : Chunk[j] \notin Ends
  BY <1>1, FirstOfIs DEF Cut, Ends
<1> HIDE DEF f, l
<1>3. \A k \in i..l : k - i + 1 \in 1..n /\ i + (k - i + 1) - 1 = k
  BY <1>0, <1>1
<1>4. \A j \in 1..n : i + j - 1 \in i..l
  BY <1>0, <1>1
<1> HIDE DEF n
<1>5. CASE c <= l
  <2>1. c - i + 1 \in 1..n /\ Chunk[c - i + 1] = file[c] /\ file[c] \in Ends
    <3>1. c \in i..l /\ file[c] \in Ends
      BY <1>0, <1>1, <1>5
    <3>2. c - i + 1 \in 1..n /\ i + (c - i + 1) - 1 = c
      BY <1>3, <3>1
    <3>3. Chunk[c - i + 1] = file[i + (c - i + 1) - 1]
      BY <1>1, <3>2
    <3> QED BY <3>1, <3>2, <3>3
  <2>2. f # 0
    BY <1>2, <2>1
  <2>3. f \in 1..n /\ file[i + f - 1] \in Ends
    BY <1>1, <1>2, <2>2
  <2>4. ~(i + f - 1 < c)
    BY <1>0, <1>1, <2>3
  <2>5. ~(c - i + 1 < f)
    BY <1>0, <1>1, <1>2, <2>1, <2>2
  <2>6. f = c - i + 1
    BY <1>0, <1>1, <2>3, <2>4, <2>5
  <2> QED BY <1>0, <1>1, <1>5, <2>1, <2>6 DEF f, l
<1>6. CASE c > l
  <2>1. \A j \in 1..n : Chunk[j] \notin Ends
    <3>1. ASSUME NEW j \in 1..n PROVE Chunk[j] \notin Ends
      <4>1. Chunk[j] = file[i + j - 1] /\ i + j - 1 \in i..l
        BY <1>1, <1>4
      <4>2. i + j - 1 \in i..(c - 1)
        BY <1>0, <1>1, <1>6, <4>1
      <4> QED BY <1>0, <4>1, <4>2
    <3> QED BY <3>1
  <2>2. f = 0
    BY <1>2, <1>1, <2>1
  <2> QED BY <1>0, <1>1, <1>6, <2>2 DEF f, l
<1> QED BY <1>0, <1>1, <1>5, <1>6 DEF l

\* What the reference asks of every line, and what it leaves open.
LineOK(i) == Fits(i) /\ NulIsLast(i) /\ KnownToEnd(i)
NoLongCR(i) == Fits(i) \/ \A j \in Extent(i) : file[j] # "CR"

\* load_demo_credential() goes on exactly behind the lines the reference
\* admits; it has then read all of the line and has its text.
LEMMA LineJudged ==
  ASSUME file \in Seq(Characters), NEW i \in 1..Len(file), NEW e, LineEnd(i, e),
         rest = SubSeq(file, i, Len(file)), NoLongCR(i)
  PROVE  /\ Unended(Chunk) <=> ~LineOK(i)
         /\ ~Unended(Chunk) => LastRead(i, e) = e /\ Text(Chunk) = TextAt(i)
<1> DEFINE l == LastRead(i, e) M == CREDENTIAL_LINE_MAX
<1>1. PICK c : TextEnd(i, e, c)
  BY TextHasEnd
<1>2. /\ e \in Nat /\ i <= e /\ c \in Nat /\ i <= c /\ c <= e + 1 /\ e <= Len(file)
      /\ \A k \in i..(c - 1) : file[k] \notin Ends
      /\ c = e + 1 \/ file[c] \in Ends
      /\ \A k \in i..(e - 1) : file[k] # "LF"
      /\ file[e] = "LF" \/ e = Len(file)
  BY <1>1 DEF LineEnd, TextEnd
<1>3. Extent(i) = i..e /\ Cardinality(Extent(i)) = e - i + 1
  BY ExtentIs
<1>4. /\ l \in i..e /\ Len(Chunk) = l - i + 1 /\ Chunk = SubSeq(file, i, l)
      /\ AtEnd <=> file[e] # "LF" /\ e - i + 1 < M - 1
  BY ChunkIs
<1>5. /\ c <= l => Cut(Chunk) = c - i + 1 /\ Chunk[Cut(Chunk)] = file[c]
      /\ c > l => Cut(Chunk) = 0
  BY <1>1, CutIs
<1>6. /\ M \in Nat
      /\ l = e => e - i + 1 < M
      /\ l # e => e - i + 1 >= M
  BY <1>2, BufferSize DEF LastRead
<1> HIDE DEF l, M
<1>7. /\ Fits(i) <=> e - i + 1 < M
      /\ NoLongCR(i) <=> e - i + 1 < M \/ \A j \in i..e : file[j] # "CR"
      /\ KnownToEnd(i) <=> (\E j \in i..e : file[j] \in {"LF", "CR"}) \/ e - i + 1 < M - 1
  BY <1>3 DEF Fits, NoLongCR, KnownToEnd, M
<1>8. NulIsLast(i) <=> (c <= e /\ file[c] = "NUL" => file[e] # "LF" /\ e - i + 1 < M - 1)
  <2>1. NulIsLast(i) <=>
          \A j \in i..e : /\ file[j] = "NUL"
                          /\ \A k \in i..e : file[k] \in Ends => j <= k
                          => /\ \A k \in i..e : file[k] # "LF"
                             /\ e - i + 1 < M - 1
    BY <1>3 DEF NulIsLast, Ends, M
  <2>2. (\A k \in i..e : file[k] # "LF") <=> file[e] # "LF"
    BY <1>2
  <2>3. ASSUME NEW j \in i..e, file[j] = "NUL", \A k \in i..e : file[k] \in Ends => j <= k
        PROVE  c = j
    <3>1. ~(j < c)
      BY <1>2, <2>3 DEF Ends
    <3>2. c <= e
      BY <1>2, <2>3, <3>1
    <3>3. file[c] \in Ends
      BY <1>2, <3>2
    <3> QED BY <1>2, <2>3, <3>1, <3>2, <3>3
  <2>4. ASSUME c <= e, file[c] = "NUL"
        PROVE  \A k \in i..e : file[k] \in Ends => c <= k
    BY <1>2
  <2>5. c <= e => c \in i..e
    BY <1>2
  <2> QED
    BY <2>1, <2>2, <2>3, <2>4, <2>5
<1>9. Unended(Chunk) <=> (c > l \/ file[c] = "NUL") /\ ~AtEnd
  BY <1>2, <1>4, <1>5 DEF Unended
<1>10. Unended(Chunk) <=> ~LineOK(i)
  <2>1. CASE c > l
    BY <1>2, <1>4, <1>6, <1>7, <1>8, <1>9, <2>1 DEF LineOK, Ends
  <2>2. CASE c <= l /\ file[c] = "NUL"
    BY <1>2, <1>4, <1>6, <1>7, <1>8, <1>9, <2>2 DEF LineOK, Ends
  <2>3. CASE c <= l /\ file[c] = "CR"
    BY <1>2, <1>4, <1>6, <1>7, <1>8, <1>9, <2>3 DEF LineOK, Ends
  <2>4. CASE c <= l /\ file[c] = "LF"
    BY <1>2, <1>4, <1>6, <1>7, <1>8, <1>9, <2>4 DEF LineOK, Ends
  <2> QED BY <1>2, <1>4, <2>1, <2>2, <2>3, <2>4 DEF Ends
<1>11. ASSUME ~Unended(Chunk)
       PROVE  l = e /\ Text(Chunk) = TextAt(i)
  <2>1. l = e
    BY <1>2, <1>4, <1>6, <1>7, <1>10, <1>11 DEF LineOK
  <2>2. TextAt(i) = SubSeq(file, i, c - 1)
    BY <1>1, TextAtIs
  <2>3. CASE c <= l
    <3>1. Text(Chunk) = SubSeq(Chunk, 1, c - i)
      BY <1>2, <1>4, <1>5, <2>3 DEF Text
    <3>2. SubSeq(SubSeq(file, i, l), 1, c - i) = SubSeq(file, i, c - 1)
      <4>1. /\ i \in 1..(Len(file) + 1) /\ l \in (i - 1)..Len(file)
            /\ 1 \in 1..(l - i + 2) /\ c - i \in (1 - 1)..(l - i + 1)
            /\ i + 1 - 1 = i /\ i + (c - i) - 1 = c - 1
        BY <1>2, <1>4, <2>3
      <4> QED BY <4>1, SubSubSeq
    <3> QED BY <1>4, <2>1, <2>2, <3>1, <3>2
  <2>4. CASE c > l
    BY <1>2, <1>4, <1>5, <2>1, <2>2, <2>4 DEF Text
  <2> QED BY <1>2, <1>4, <2>1, <2>3, <2>4
<1> QED BY <1>10, <1>11 DEF l

Plain == Letters \cup {":", "#"}

LEMMA TextChars ==
  ASSUME file \in Seq(Characters), NEW i \in 1..Len(file)
  PROVE  TextAt(i) \in Seq(Plain)
<1>1. PICK e : LineEnd(i, e)
  BY LineHasEnd
<1>2. PICK c : TextEnd(i, e, c)
  BY <1>1, TextHasEnd
<1>3. TextAt(i) = SubSeq(file, i, c - 1)
  BY <1>1, <1>2, TextAtIs
<1>4. /\ c \in i..(e + 1) /\ e \in i..Len(file)
      /\ \A k \in i..(c - 1) : file[k] \notin Ends
  BY <1>1, <1>2 DEF TextEnd, LineEnd
<1>5. i \in 1..(Len(file) + 1) /\ c - 1 \in (i - 1)..Len(file) /\ (c - 1) - i + 1 \in Nat
  BY <1>4
<1> DEFINE t == SubSeq(file, i, c - 1)
<1>6. /\ t \in Seq(Characters) /\ Len(t) = c - 1 - i + 1
      /\ \A j \in 1..Len(t) : t[j] = file[i + j - 1]
  BY <1>5, SubSeqIs
<1> HIDE DEF t
<1>7. ASSUME NEW j \in 1..Len(t) PROVE t[j] \in Plain
  <2>1. i + j - 1 \in i..(c - 1) /\ t[j] \in Characters
    BY <1>4, <1>5, <1>6
  <2> QED BY <1>4, <1>6, <2>1 DEF Characters, Plain, Ends
<1> QED BY <1>3, <1>6, <1>7 DEF t

LEMMA AccountChars ==
  ASSUME NEW u \in Seq(Plain), NEW p \in Seq(Plain)
  PROVE  /\ Account(u, p) \in Seq(Plain) /\ Len(Account(u, p)) = Len(u) + 1 + Len(p)
         /\ \A j \in 1..Len(u) : Account(u, p)[j] = u[j]
         /\ Account(u, p)[Len(u) + 1] = ":"
         /\ \A j \in 1..Len(p) : Account(u, p)[Len(u) + 1 + j] = p[j]
  BY DEF Account, Plain

LEMMA WellFormedIs ==
  ASSUME NEW text \in Seq(Plain), WellFormed(text)
  PROVE  /\ User(text) \in Names(UsernameMax) /\ Pass(text) \in Names(PasswordMax)
         /\ text = Account(User(text), Pass(text))
<1> DEFINE k == Colon(text) u == User(text) p == Pass(text)
<1>1. /\ k \in 1..Len(text) /\ text[k] = ":" /\ Len(text) \in Nat
      /\ \A j \in 1..(k - 1) : text[j] # ":"
  BY FirstOfIs DEF WellFormed, Colon
<1>2. /\ u \in Seq(Plain) /\ Len(u) = k - 1
      /\ \A j \in 1..(k - 1) : u[j] = text[j]
  BY <1>1, SubSeqIs DEF User
<1>3. /\ p \in Seq(Plain) /\ Len(p) = Len(text) - k
      /\ \A j \in 1..(Len(text) - k) : p[j] = text[k + j]
  BY <1>1, SubSeqIs DEF Pass
<1> HIDE DEF u, p, k
<1>4. Len(u) \in 1..UsernameMax /\ Len(p) \in 1..PasswordMax /\ FirstOf(p, {":"}) = 0
  BY DEF WellFormed, u, p
<1>5. \A j \in 1..Len(p) : p[j] # ":"
  BY <1>3, <1>4, FirstOfIs
<1>6. u \in [1..Len(u) -> Letters \cup {"#"}] /\ p \in [1..Len(p) -> Letters \cup {"#"}]
  BY <1>1, <1>2, <1>3, <1>5 DEF Plain
<1>7. u \in Names(UsernameMax) /\ p \in Names(PasswordMax)
  BY <1>4, <1>6 DEF Names
<1>8. text = Account(u, p)
  <2> DEFINE a == Account(u, p)
  <2>1. /\ a \in Seq(Plain) /\ Len(a) = k - 1 + 1 + (Len(text) - k)
        /\ \A j \in 1..(k - 1) : a[j] = u[j]
        /\ a[k - 1 + 1] = ":"
        /\ \A j \in 1..(Len(text) - k) : a[k - 1 + 1 + j] = p[j]
    <3>1. /\ a \in Seq(Plain) /\ Len(a) = Len(u) + 1 + Len(p)
          /\ \A j \in 1..Len(u) : a[j] = u[j]
          /\ a[Len(u) + 1] = ":"
          /\ \A j \in 1..Len(p) : a[Len(u) + 1 + j] = p[j]
      BY <1>2, <1>3, AccountChars, Zenon
    <3> HIDE DEF a
    <3> QED BY <1>2, <1>3, <3>1
  <2> HIDE DEF a
  <2>2. Len(a) = Len(text)
    BY <1>1, <2>1
  <2>3. ASSUME NEW j \in 1..Len(text) PROVE text[j] = a[j]
    <3>1. CASE j < k
      BY <1>1, <1>2, <2>1, <3>1
    <3>2. CASE j = k
      BY <1>1, <2>1, <3>2
    <3>3. CASE j > k
      <4>1. j - k \in 1..(Len(text) - k) /\ k + (j - k) = j /\ k - 1 + 1 + (j - k) = j
        BY <1>1, <3>3
      <4> QED BY <1>3, <2>1, <4>1
    <3> QED BY <1>1, <3>1, <3>2, <3>3
  <2>4. text = a
    BY <2>1, <2>2, <2>3, SeqEqual
  <2> QED BY <2>4 DEF a
<1> QED BY <1>7, <1>8 DEF u, p

LEMMA AccountIsWellFormed ==
  ASSUME NEW u \in Names(UsernameMax), NEW p \in Names(PasswordMax)
  PROVE  WellFormed(Account(u, p))
<1> DEFINE text == Account(u, p)
<1>1. PICK m \in 1..UsernameMax : u \in [1..m -> Letters \cup {"#"}]
  BY DEF Names
<1>2. PICK n \in 1..PasswordMax : p \in [1..n -> Letters \cup {"#"}]
  BY DEF Names
<1>3. /\ m \in Nat /\ n \in Nat /\ u \in Seq(Plain) /\ p \in Seq(Plain) /\ Len(u) = m /\ Len(p) = n
      /\ \A j \in 1..m : u[j] # ":"
      /\ \A j \in 1..n : p[j] # ":"
  BY <1>1, <1>2, LimitsAssumption, FileAssumption DEF Plain
<1>4. /\ text \in Seq(Plain) /\ Len(text) = m + 1 + n
      /\ \A j \in 1..m : text[j] = u[j]
      /\ text[m + 1] = ":"
      /\ \A j \in 1..n : text[m + 1 + j] = p[j]
  BY <1>3, AccountChars
<1> HIDE DEF text
<1>5. Colon(text) = m + 1
  <2> DEFINE f == Colon(text)
  <2>1. /\ f \in 0..(m + 1 + n)
        /\ f = 0 => \A j \in 1..(m + 1 + n) : text[j] \notin {":"}
        /\ f # 0 => text[f] \in {":"} /\ \A j \in 1..(f - 1) : text[j] \notin {":"}
    <3>1. Len(text) = m + 1 + n /\ Len(text) \in Nat
      BY <1>3, <1>4
    <3> QED BY <3>1, FirstOfIs DEF Colon
  <2> HIDE DEF f
  <2>2. f # 0
    BY <1>3, <1>4, <2>1
  <2>3. ~(f < m + 1) /\ ~(m + 1 < f)
    BY <1>3, <1>4, <2>1, <2>2
  <2> QED BY <1>3, <2>1, <2>3 DEF f
<1>6. User(text) = u /\ Pass(text) = p
  BY <1>3, <1>4, <1>5, SubSeqIs DEF User, Pass
<1>7. FirstOf(p, {":"}) = 0
  BY <1>3, FirstOfIs
<1> QED BY <1>1, <1>2, <1>3, <1>5, <1>6, <1>7 DEF WellFormed, text

\* Behind a line comes the start of the next one, or the end of the file.
LEMMA NextStart ==
  ASSUME file \in Seq(Characters), NEW i \in LineStarts, NEW e, LineEnd(i, e)
  PROVE  /\ e = Len(file) \/ e + 1 \in LineStarts
         /\ \A j \in LineStarts : j < e + 1 <=> j <= i
<1>1. /\ i \in 1..Len(file) /\ e \in i..Len(file)
      /\ \A k \in i..(e - 1) : file[k] # "LF"
      /\ file[e] = "LF" \/ e = Len(file)
  BY DEF LineStarts, LineEnd
<1>2. e = Len(file) \/ e + 1 \in LineStarts
  BY <1>1 DEF LineStarts
<1>3. ASSUME NEW j \in LineStarts, j < e + 1 PROVE j <= i
  <2>1. j \in 1..Len(file) /\ (j = 1 \/ file[j - 1] = "LF")
    BY DEF LineStarts
  <2>2. ~(j > i)
    BY <1>1, <1>3, <2>1
  <2> QED BY <1>1, <2>1, <2>2
<1>4. ASSUME NEW j \in LineStarts, j <= i PROVE j < e + 1
  BY <1>1, <1>4 DEF LineStarts
<1> QED BY <1>2, <1>3, <1>4

LEMMA StartsFinite ==
  ASSUME file \in Seq(Characters)
  PROVE  IsFiniteSet({i \in LineStarts : ~Ignored(TextAt(i))})
<1>1. IsFiniteSet(1..Len(file))
  BY FS_Interval
<1>2. {i \in LineStarts : ~Ignored(TextAt(i))} \in SUBSET (1..Len(file))
  BY DEF LineStarts
<1> QED BY <1>1, <1>2, FS_Subset

Clear == \A i \in LineStarts : NoLongCR(i)

\* What a loaded credential stands for, when the lines before pos have been read.
AccountBefore(pos) ==
  \E i \in LineStarts :
    /\ i < pos /\ ~Ignored(TextAt(i))
    /\ TextAt(i) = Account(credential.username, credential.password)
    /\ credential.username \in Names(UsernameMax) /\ credential.password \in Names(PasswordMax)
    /\ \A j \in LineStarts : j < pos /\ ~Ignored(TextAt(j)) => j = i

ReadTo(pos) ==
  /\ pos \in LineStarts \/ pos = Len(file) + 1
  /\ rest = SubSeq(file, pos, Len(file))
  /\ \A i \in LineStarts : i < pos => LineOK(i)
  /\ ~found => \A i \in LineStarts : i < pos => Ignored(TextAt(i))
  /\ found => AccountBefore(pos)

FileInv ==
  /\ file \in Seq(Characters) /\ found \in BOOLEAN
  /\ Clear /\ load_result = "reading" => \E pos \in 1..(Len(file) + 1) : ReadTo(pos)
  /\ AccountOrNothing

\* A file that describes an account has one line that is not ignored.
LEMMA OneLineMatters ==
  ASSUME file \in Seq(Characters), NEW u, NEW p, Describes(u, p)
  PROVE  /\ \E i \in LineStarts : ~Ignored(TextAt(i)) /\ WellFormed(TextAt(i))
         /\ \A i, j \in LineStarts : ~Ignored(TextAt(i)) /\ ~Ignored(TextAt(j)) => i = j
         /\ \A i \in LineStarts : LineOK(i)
<1> DEFINE S == {i \in LineStarts : ~Ignored(TextAt(i))}
<1>1. Cardinality(S) = 1 /\ IsFiniteSet(S)
  BY StartsFinite DEF Describes
<1>2. PICK x : S = {x}
  <2> HIDE DEF S
  <2> QED BY <1>1, FS_Singleton
<1>3. \A i, j \in LineStarts : ~Ignored(TextAt(i)) /\ ~Ignored(TextAt(j)) => i = j
  <2>1. \A i \in LineStarts : ~Ignored(TextAt(i)) => i \in S
    BY Zenon
  <2> HIDE DEF S
  <2> QED BY <1>2, <2>1
<1>4. \E i \in LineStarts : ~Ignored(TextAt(i)) /\ WellFormed(TextAt(i))
  <2>1. PICK i \in LineStarts : TextAt(i) = Account(u, p) /\ ~Ignored(TextAt(i))
    BY DEF Describes
  <2>2. u \in Names(UsernameMax) /\ p \in Names(PasswordMax)
    BY DEF Describes
  <2> QED BY <2>1, <2>2, AccountIsWellFormed
<1> QED BY <1>3, <1>4 DEF Describes, LineOK

\* The next line, once the lines before it have been read.
LEMMA LineRead ==
  ASSUME file \in Seq(Characters), Clear, NEW pos \in 1..(Len(file) + 1), ReadTo(pos), rest # <<>>
  PROVE  /\ pos \in LineStarts /\ pos \in 1..Len(file)
         /\ Unended(Chunk) <=> ~LineOK(pos)
         /\ ~Unended(Chunk) =>
              /\ Text(Chunk) = TextAt(pos)
              /\ \E next \in 1..(Len(file) + 1) :
                   /\ next \in LineStarts \/ next = Len(file) + 1
                   /\ SubSeq(rest, Len(Chunk) + 1, Len(rest)) = SubSeq(file, next, Len(file))
                   /\ \A j \in LineStarts : j < next <=> j <= pos
<1>1. pos \in LineStarts /\ pos \in 1..Len(file)
  <2>1. pos # Len(file) + 1
    <3>1. SubSeq(file, Len(file) + 1, Len(file)) = <<>>
      OBVIOUS
    <3> QED BY <3>1 DEF ReadTo
  <2> QED BY <2>1 DEF ReadTo
<1>2. PICK e : LineEnd(pos, e)
  BY <1>1, LineHasEnd
<1>3. rest = SubSeq(file, pos, Len(file)) /\ NoLongCR(pos)
  BY <1>1 DEF ReadTo, Clear
<1>4. /\ Unended(Chunk) <=> ~LineOK(pos)
      /\ ~Unended(Chunk) => LastRead(pos, e) = e /\ Text(Chunk) = TextAt(pos)
  BY <1>1, <1>2, <1>3, LineJudged
<1>5. Len(Chunk) = LastRead(pos, e) - pos + 1
  BY <1>1, <1>2, <1>3, ChunkIs
<1>6. ASSUME ~Unended(Chunk)
      PROVE  SubSeq(rest, Len(Chunk) + 1, Len(rest)) = SubSeq(file, e + 1, Len(file))
  <2>1. /\ e \in pos..Len(file) /\ Len(file) \in Nat
    BY <1>2 DEF LineEnd
  <2>2. Len(rest) = Len(file) - pos + 1
    BY <1>1, <1>3, SubSeqIs
  <2>3. Len(Chunk) = e - pos + 1
    BY <1>4, <1>5, <1>6
  <2>4. e - pos + 1 \in 0..(Len(file) - pos + 1) /\ pos + (e - pos + 1) = e + 1
    BY <1>1, <2>1
  <2>5. SubSeq(SubSeq(file, pos, Len(file)), (e - pos + 1) + 1, Len(file) - pos + 1)
          = SubSeq(file, pos + (e - pos + 1), Len(file))
    BY <2>4, Suffix
  <2>6. SubSeq(rest, (e - pos + 1) + 1, Len(file) - pos + 1) = SubSeq(file, e + 1, Len(file))
    BY <1>3, <2>4, <2>5, Zenon
  <2> QED BY <2>2, <2>3, <2>6, Zenon
<1>7. /\ e = Len(file) \/ e + 1 \in LineStarts
      /\ \A j \in LineStarts : j < e + 1 <=> j <= pos
  BY <1>1, <1>2, NextStart
<1>8. e + 1 \in 1..(Len(file) + 1)
  BY <1>1, <1>2 DEF LineEnd
<1> QED BY <1>1, <1>4, <1>6, <1>7, <1>8

\* The reference looks at nothing but the file.
LEMMA FileStays ==
  ASSUME file' = file
  PROVE  /\ LineStarts' = LineStarts /\ Clear' = Clear
         /\ \A i : TextAt(i)' = TextAt(i) /\ LineOK(i)' = LineOK(i)
         /\ \A u, p : Describes(u, p)' = Describes(u, p)
<1>1. LineStarts' = LineStarts /\ \A i : Extent(i)' = Extent(i)
  BY DEF LineStarts, Extent
<1>2. \A i : /\ TextAt(i)' = TextAt(i) /\ NoLongCR(i)' = NoLongCR(i)
             /\ Fits(i)' = Fits(i) /\ NulIsLast(i)' = NulIsLast(i) /\ KnownToEnd(i)' = KnownToEnd(i)
  BY <1>1, Zenon DEF TextAt, NoLongCR, Fits, NulIsLast, KnownToEnd
<1>3. \A i : LineOK(i)' = LineOK(i)
  BY <1>2, Zenon DEF LineOK
<1>4. Clear' = Clear
  BY <1>1, <1>2, Zenon DEF Clear
<1>5. \A u, p : Describes(u, p)' = Describes(u, p)
  BY <1>1, <1>2, Zenon DEF Describes
<1> QED BY <1>1, <1>2, <1>3, <1>4, <1>5

LEMMA LineAdvances ==
  ASSUME FileInv, SkipLine \/ TakeLine
  PROVE  FileInv'
<1>1. /\ file' = file /\ load_result = "reading" /\ load_result' = "reading" /\ rest # <<>>
      /\ file \in Seq(Characters) /\ found' \in BOOLEAN /\ ~Unended(Chunk)
      /\ rest' = SubSeq(rest, Len(Chunk) + 1, Len(rest))
  BY DEF FileInv, SkipLine, TakeLine, Advance
<1>2. AccountOrNothing'
  BY <1>1 DEF AccountOrNothing, LoadsWhatIsDescribed, RefusedLeavesNothing
<1>3. ASSUME Clear
      PROVE  \E pos \in 1..(Len(file) + 1) : ReadTo(pos)'
  <2>1. PICK pos \in 1..(Len(file) + 1) : ReadTo(pos)
    BY <1>1, <1>3 DEF FileInv
  <2>2. /\ pos \in LineStarts /\ pos \in 1..Len(file) /\ LineOK(pos) /\ Text(Chunk) = TextAt(pos)
        /\ \E next \in 1..(Len(file) + 1) :
                   /\ next \in LineStarts \/ next = Len(file) + 1
                   /\ SubSeq(rest, Len(Chunk) + 1, Len(rest)) = SubSeq(file, next, Len(file))
                   /\ \A j \in LineStarts : j < next <=> j <= pos
    BY <1>1, <1>3, <2>1, LineRead
  <2>3. PICK next \in 1..(Len(file) + 1) :
          /\ next \in LineStarts \/ next = Len(file) + 1
          /\ rest' = SubSeq(file, next, Len(file))
          /\ \A j \in LineStarts : j < next <=> j <= pos
    BY <1>1, <2>2
  <2>4. \A j \in LineStarts : j < next <=> j < pos \/ j = pos
    BY <2>2, <2>3 DEF LineStarts
  <2>5. LineStarts' = LineStarts /\ \A i : TextAt(i)' = TextAt(i) /\ LineOK(i)' = LineOK(i)
    BY <1>1, FileStays
  <2>6. \A i \in LineStarts : i < next => LineOK(i)
    BY <2>1, <2>2, <2>4 DEF ReadTo
  <2>7. CASE SkipLine
    <3>1. Ignored(TextAt(pos)) /\ credential' = credential /\ found' = found
      BY <2>2, <2>7 DEF SkipLine
    <3>2. ~found => \A i \in LineStarts : i < next => Ignored(TextAt(i))
      BY <2>1, <2>4, <3>1 DEF ReadTo
    <3>3. found => AccountBefore(next)
      BY <2>1, <2>4, <3>1 DEF ReadTo, AccountBefore
    <3>4. found => AccountBefore(next)'
      BY <2>5, <3>1, <3>3, Zenon DEF AccountBefore, Ignored
    <3> QED BY <1>1, <2>3, <2>5, <2>6, <3>1, <3>2, <3>4 DEF ReadTo, Ignored
  <2>8. CASE TakeLine
    <3>1. /\ ~Ignored(TextAt(pos)) /\ ~found /\ found' /\ WellFormed(TextAt(pos))
          /\ credential' = [username |-> User(TextAt(pos)), password |-> Pass(TextAt(pos))]
      BY <2>2, <2>8 DEF TakeLine
    <3>2. TextAt(pos) \in Seq(Plain)
      BY <1>1, <2>2, TextChars
    <3>3. /\ credential'.username \in Names(UsernameMax) /\ credential'.password \in Names(PasswordMax)
          /\ TextAt(pos) = Account(credential'.username, credential'.password)
      BY <3>1, <3>2, WellFormedIs
    <3>4. \A j \in LineStarts : j < next /\ ~Ignored(TextAt(j)) => j = pos
      BY <2>1, <2>4, <3>1 DEF ReadTo
    <3>5. AccountBefore(next)'
      BY <2>2, <2>4, <2>5, <3>1, <3>3, <3>4 DEF AccountBefore, Ignored
    <3> QED BY <1>1, <2>3, <2>5, <2>6, <3>1, <3>5 DEF ReadTo, Ignored
  <2> QED BY <2>7, <2>8
<1>4. Clear' = Clear
  BY <1>1, FileStays
<1> QED BY <1>1, <1>2, <1>3, <1>4 DEF FileInv

LEMMA RejectIsRight ==
  ASSUME FileInv, RejectLine, Clear, NEW u, NEW p, Describes(u, p)
  PROVE  FALSE
<1>1. /\ load_result = "reading" /\ rest # <<>> /\ file \in Seq(Characters)
      /\ Unended(Chunk) \/ (~Ignored(Text(Chunk)) /\ (found \/ ~WellFormed(Text(Chunk))))
  BY DEF FileInv, RejectLine
<1>2. PICK pos \in 1..(Len(file) + 1) : ReadTo(pos)
  BY <1>1 DEF FileInv
<1>3. /\ pos \in LineStarts /\ (Unended(Chunk) <=> ~LineOK(pos))
      /\ ~Unended(Chunk) => Text(Chunk) = TextAt(pos)
  BY <1>1, <1>2, LineRead
<1>4. /\ \E i \in LineStarts : ~Ignored(TextAt(i)) /\ WellFormed(TextAt(i))
      /\ \A i, j \in LineStarts : ~Ignored(TextAt(i)) /\ ~Ignored(TextAt(j)) => i = j
      /\ \A i \in LineStarts : LineOK(i)
  BY <1>1, OneLineMatters
<1>5. ~Ignored(TextAt(pos)) /\ (found \/ ~WellFormed(TextAt(pos)))
  BY <1>1, <1>3, <1>4
<1>6. CASE found
  <2>1. PICK i \in LineStarts : i < pos /\ ~Ignored(TextAt(i))
    BY <1>2, <1>6 DEF ReadTo, AccountBefore
  <2> QED BY <1>3, <1>4, <1>5, <2>1 DEF LineStarts
<1>7. CASE ~WellFormed(TextAt(pos))
  BY <1>3, <1>4, <1>5, <1>7
<1> QED BY <1>5, <1>6, <1>7

\* At the end of the file everything has been read.
LEMMA EndIsRight ==
  ASSUME FileInv, load_result = "reading", rest = <<>>, Clear
  PROVE  /\ found => Describes(credential.username, credential.password)
         /\ ~found => \A u, p : ~Describes(u, p)
<1>1. file \in Seq(Characters) /\ Len(file) \in Nat
  BY DEF FileInv
<1>2. PICK pos \in 1..(Len(file) + 1) : ReadTo(pos)
  BY DEF FileInv
<1>3. pos = Len(file) + 1
  <2>1. Len(SubSeq(file, pos, Len(file))) = Len(file) - pos + 1
    BY <1>1, SubSeqIs
  <2>2. SubSeq(file, pos, Len(file)) = <<>>
    BY <1>2 DEF ReadTo
  <2>3. Len(<<>>) = 0
    OBVIOUS
  <2>4. Len(file) - pos + 1 = 0
    BY <2>1, <2>2, <2>3, Zenon
  <2> QED BY <1>1, <2>4
<1>4. \A i \in LineStarts : i < pos
  BY <1>1, <1>3 DEF LineStarts
<1>5. ASSUME found PROVE Describes(credential.username, credential.password)
  <2>1. PICK i \in LineStarts :
          /\ ~Ignored(TextAt(i))
          /\ TextAt(i) = Account(credential.username, credential.password)
          /\ credential.username \in Names(UsernameMax) /\ credential.password \in Names(PasswordMax)
          /\ \A j \in LineStarts : ~Ignored(TextAt(j)) => j = i
    BY <1>2, <1>4, <1>5 DEF ReadTo, AccountBefore
  <2>2. {j \in LineStarts : ~Ignored(TextAt(j))} = {i}
    BY <2>1
  <2>3. Cardinality({j \in LineStarts : ~Ignored(TextAt(j))}) = 1
    BY <2>2, FS_Singleton
  <2>4. \A j \in LineStarts : LineOK(j)
    BY <1>2, <1>4 DEF ReadTo
  <2> QED BY <2>1, <2>3, <2>4 DEF Describes, LineOK
<1>6. ASSUME ~found, NEW u, NEW p, Describes(u, p) PROVE FALSE
  BY <1>1, <1>2, <1>4, <1>6, OneLineMatters DEF ReadTo
<1> QED BY <1>5, <1>6

LEMMA FileStartInv ==
  ASSUME file \in Seq(Characters), FileStart
  PROVE  FileInv
<1>1. 1 \in 1..(Len(file) + 1) /\ (1 \in LineStarts \/ 1 = Len(file) + 1)
  BY DEF LineStarts
<1>2. SubSeq(file, 1, Len(file)) = file
  OBVIOUS
<1>3. \A i \in LineStarts : ~(i < 1)
  BY DEF LineStarts
<1>4. ReadTo(1)
  BY <1>1, <1>2, <1>3 DEF ReadTo, FileStart
<1>5. AccountOrNothing
  BY DEF FileStart, AccountOrNothing, LoadsWhatIsDescribed, RefusedLeavesNothing
<1> QED BY <1>1, <1>4, <1>5 DEF FileInv, FileStart

LEMMA FileInitInv == FileInit => FileInv
<1> SUFFICES ASSUME FileInit PROVE FileInv
  OBVIOUS
<1>1. PICK T \in {[1..n -> Characters] : n \in 0..MaxFile} : file \in T
  BY DEF FileInit
<1>2. PICK n \in 0..MaxFile : file \in [1..n -> Characters]
  BY <1>1
<1>3. file \in Seq(Characters)
  BY <1>2, FileAssumption
<1> QED BY <1>3, FileStartInv DEF FileInit

LEMMA FileNextInv == FileInv /\ [FileNext]_file_vars => FileInv'
<1> SUFFICES ASSUME FileInv, [FileNext]_file_vars PROVE FileInv'
  OBVIOUS
<1>1. CASE SkipLine \/ TakeLine
  BY <1>1, LineAdvances
<1>2. ASSUME NEW why \in {"refused", "unreadable"}, Reject(why),
             Clear /\ why = "refused" => \A u, p : ~Describes(u, p)
      PROVE  FileInv'
  <2>1. /\ file' = file /\ found' = found /\ load_result' = why /\ credential' = Cleared
    BY <1>2 DEF Reject
  <2>2. Clear' = Clear /\ \A u, p : Describes(u, p)' = Describes(u, p)
    BY <2>1, FileStays
  <2>3. (Clear' /\ load_result' = "refused") =>
          \A u \in Names(UsernameMax), p \in Names(PasswordMax) : ~Describes(u, p)'
    BY <1>2, <2>1, <2>2, Zenon
  <2>4. load_result' # "loaded" /\ load_result' # "reading"
    BY <1>2, <2>1
  <2>5. AccountOrNothing'
    BY <2>1, <2>3, <2>4 DEF AccountOrNothing, LoadsWhatIsDescribed, RefusedLeavesNothing, Clear, NoLongCR
  <2> QED BY <2>1, <2>4, <2>5 DEF FileInv
<1>3. CASE RejectLine
  BY <1>2, <1>3, RejectIsRight DEF RejectLine
<1>4. CASE ReadFails
  BY <1>2, <1>4 DEF ReadFails
<1>5. CASE EndOfFile /\ ~found
  BY <1>2, <1>5, EndIsRight DEF EndOfFile
<1>6. CASE EndOfFile /\ found
  <2>1. /\ UNCHANGED <<file, rest, credential, found>> /\ load_result = "reading" /\ rest = <<>>
        /\ load_result' = "loaded"
    BY <1>6 DEF EndOfFile
  <2>2. Clear' = Clear /\ \A u, p : Describes(u, p)' = Describes(u, p)
    BY <2>1, FileStays
  <2>3. Clear' => Describes(credential.username, credential.password)'
    BY <1>6, <2>1, <2>2, EndIsRight
  <2>4. AccountOrNothing'
    BY <2>1, <2>3 DEF AccountOrNothing, LoadsWhatIsDescribed, RefusedLeavesNothing, Clear, NoLongCR
  <2> QED BY <2>1, <2>4 DEF FileInv
<1>7. CASE UNCHANGED file_vars
  <2>1. UNCHANGED <<file, rest, credential, found, load_result>>
    BY <1>7 DEF file_vars
  <2>2. /\ Clear' = Clear /\ LineStarts' = LineStarts
        /\ \A i : TextAt(i)' = TextAt(i) /\ LineOK(i)' = LineOK(i)
        /\ \A u, p : Describes(u, p)' = Describes(u, p)
    BY <2>1, FileStays
  <2>3. \A pos : ReadTo(pos)' = ReadTo(pos)
    BY <2>1, <2>2, Zenon DEF ReadTo, AccountBefore
  <2>4. AccountOrNothing' = AccountOrNothing
    BY <2>1, <2>2, Zenon DEF AccountOrNothing, LoadsWhatIsDescribed, RefusedLeavesNothing, Clear, NoLongCR
  <2> QED BY <2>1, <2>2, <2>3, <2>4 DEF FileInv
<1> QED BY <1>1, <1>3, <1>4, <1>5, <1>6, <1>7 DEF FileNext, EndOfFile, FileDone

\* For files of any length and lines of any size, whatever bytes they hold:
\* load_demo_credential() yields the one account the file describes, or none
\* and leaves nothing in memory.
THEOREM AccountStaysRight == FileSpec => []AccountOrNothing
<1>1. FileInv => AccountOrNothing
  BY DEF FileInv
<1> QED BY <1>1, FileInitInv, FileNextInv, PTL DEF FileSpec

-----------------------------------------------------------------------------
(* The procedures together, as the module Procedures composes them.        *)

ProceduresInv ==
  /\ CheckInv /\ FileInv /\ DropInv /\ ParseInv /\ SetupInv /\ RulesInv
  /\ FilterInv /\ ClockInv /\ TotalsInv

\* A procedure that is not called is in one of the states it can be called in.
LEMMA IdleInv ==
  /\ CheckIdle => CheckInv
  /\ DropIdle => DropInv
  /\ ParseIdle => ParseInv
  /\ SetupIdle => SetupInv
  /\ RulesIdle => RulesInv
  /\ ClockIdle => ClockInv
  /\ FileIdle => FileInv
  /\ TotalsIdle => TotalsInv
<1>1. ASSUME CheckIdle
      PROVE  CheckInv
  <2>1. AnyByte \in Bytes
    BY AlphabetAssumption DEF AnyByte
  <2>2. <<AnyByte>> \in [1..1 -> Bytes]
    BY <2>1
  <2>3. <<AnyByte>> \in Texts(UsernameMax) /\ <<AnyByte>> \in Texts(PasswordMax)
    BY <2>2, LimitsAssumption DEF Texts
  <2>4. Packed(<<>>, UsernameMax) \in Array(UsernameMax)
    BY LimitsAssumption DEF Packed, Array
  <2>5. Packed(<<>>, PasswordMax) \in Array(PasswordMax)
    BY LimitsAssumption DEF Packed, Array
  <2>6. /\ request.username = Packed(<<>>, UsernameMax)
        /\ request.password = Packed(<<>>, PasswordMax)
        /\ stored.username = Packed(<<AnyByte>>, UsernameMax)
        /\ stored.password = Packed(<<AnyByte>>, PasswordMax)
        /\ response.result = "none"
    BY <1>1 DEF CheckIdle, CheckStart, Response
  <2> QED BY <2>3, <2>4, <2>5, <2>6 DEF CheckInv
<1>2. ASSUME DropIdle
      PROVE  DropInv
  BY <1>2, IdsAssumption
     DEF DropIdle, DropStart, DropInv, DropType, CapsInv, ProgressInv, BeforeUids,
         Triples, AllThree, IdsOf, NothingLeftToRegain, PermanentlyDropped, GroupsDropped
<1>3. ASSUME ParseIdle
      PROVE  ParseInv
  <2>1. Len(argv) = 0
    BY <1>3 DEF ParseIdle
  <2>2. ParsedPairs(0) /\ Settings(0)
    BY <1>3, <2>1 DEF ParseIdle, ParseStart, ParsedPairs, Settings, ParsedValue
  <2>3. ReadSoFar(0)
    BY <1>3, <2>2 DEF ReadSoFar, ParseIdle, ParseStart
  <2> QED BY <2>1, <2>3 DEF ParseInv
<1>4. ASSUME SetupIdle
      PROVE  SetupInv
  <2>1. SetupType
    BY <1>4, SetupAssumption, UnlimitedType DEF SetupIdle, SetupStart, SetupType
  <2>2. OwnerInv /\ GroupIsOwn
    BY <1>4 DEF SetupIdle, SetupStart, OwnerInv, GroupIsOwn, LimitInForce, NoGroupLeftBehind
  <2> QED BY <2>1, <2>2 DEF SetupInv
<1>5. ASSUME RulesIdle
      PROVE  RulesInv
  <2>1. RulesetInv
    BY <1>5, TenRules DEF RulesIdle, RulesStart, RulesetInv
  <2>2. RulesPlaceInv
    BY <1>5 DEF RulesIdle, RulesStart, RulesPlaceInv, Paths, Directories
  <2> QED BY <1>5, <2>1, <2>2 DEF RulesInv, RulesIdle
<1>6. ASSUME ClockIdle
      PROVE  ClockInv
  BY <1>6 DEF ClockIdle, ClockStart, ClockInv, ReadingsInv, DelayInv
<1>7. ASSUME FileIdle
      PROVE  FileInv
  <2>1. file \in Seq(Characters)
    BY <1>7 DEF FileIdle
  <2> QED BY <1>7, <2>1, FileStartInv DEF FileIdle
<1>8. ASSUME TotalsIdle
      PROVE  TotalsInv
  <2>1. processes = <<>> /\ <<>> \in [1..0 -> Process]
    BY <1>8 DEF TotalsIdle
  <2>2. processes \in [1..0 -> Process]
    BY <2>1, Zenon
  <2> QED BY <1>8, <2>2, TotalsStartInv DEF TotalsIdle
<1> QED BY <1>1, <1>2, <1>3, <1>4, <1>5, <1>6, <1>7, <1>8

LEMMA ProceduresInitInv == Init => ProceduresInv
<1> SUFFICES ASSUME Init
             PROVE  ProceduresInv
  OBVIOUS
<1>1. /\ CheckInit \/ CheckIdle
      /\ DropInit \/ DropIdle
      /\ ParseInit \/ ParseIdle
      /\ SetupInit \/ SetupIdle
      /\ RulesInit \/ RulesIdle
      /\ ClockInit \/ ClockIdle
      /\ FileInit \/ FileIdle
      /\ TotalsInit \/ TotalsIdle
      /\ FilterInit
  BY Zenon DEF Init
<1> QED BY <1>1, IdleInv, CheckInitInv, DropInitInv, ParseInitInv, SetupInitInv,
           RulesInitInv, FilterInitInv, ClockInitInv, FileInitInv, TotalsInitInv
           DEF ProceduresInv

\* A step is a step of the called procedure and leaves the others alone.
LEMMA OneProcedureSteps ==
  [Next]_vars =>
    /\ [CheckNext]_check_vars /\ [DropNext]_drop_vars /\ [ParseNext]_parse_vars
    /\ [SetupNext]_setup_vars /\ [RulesNext]_rules_vars /\ [FilterNext]_filter_vars
    /\ [ClockNext]_clock_vars /\ [FileNext]_file_vars /\ [TotalsNext]_totals_vars
<1> SUFFICES ASSUME [Next]_vars
             PROVE  /\ CheckNext \/ UNCHANGED check_vars
                    /\ DropNext \/ UNCHANGED drop_vars
                    /\ ParseNext \/ UNCHANGED parse_vars
                    /\ SetupNext \/ UNCHANGED setup_vars
                    /\ RulesNext \/ UNCHANGED rules_vars
                    /\ FilterNext \/ UNCHANGED filter_vars
                    /\ ClockNext \/ UNCHANGED clock_vars
                    /\ FileNext \/ UNCHANGED file_vars
                    /\ TotalsNext \/ UNCHANGED totals_vars
  OBVIOUS
<1>1. CASE UNCHANGED vars
  BY <1>1, Zenon DEF vars
<1>2. CASE Next
  BY <1>2, Zenon DEF Next, Idle
<1> QED BY <1>1, <1>2

\* Whichever procedure the programs call, and from whichever of its states,
\* all of the promises above are kept: the composition of the runs, for every
\* value of every constant.
THEOREM ProceduresKeepTheirPromises ==
  Spec => [](/\ AnswerIsDeserved /\ NothingLeftToRegain /\ OptionsMeanWhatTheySay
             /\ GroupIsOwn /\ HostOutOfReach /\ TargetCanStart /\ VerdictFollowsPolicy
             /\ TimeoutIsKept /\ SleepIsWhole /\ AccountOrNothing /\ LimitIsNotMissed)
<1>1. ProceduresInv /\ [Next]_vars => ProceduresInv'
  BY OneProcedureSteps, CheckNextInv, DropNextInv, ParseNextInv, SetupNextInv, RulesNextInv,
     FilterNextInv, ClockNextInv, FileNextInv, TotalsNextInv DEF ProceduresInv
<1>2. ProceduresInv =>
        /\ AnswerIsDeserved /\ NothingLeftToRegain /\ OptionsMeanWhatTheySay
        /\ GroupIsOwn /\ HostOutOfReach /\ TargetCanStart /\ VerdictFollowsPolicy
        /\ TimeoutIsKept /\ SleepIsWhole /\ AccountOrNothing /\ LimitIsNotMissed
  BY AnswerDeserved, ParseSuffices, WritesDenied, ReadsListed, RulesSuffice, FilterSuffices,
     ReadingsSuffice, DelaySuffices, SumsSuffice
     DEF ProceduresInv, FileInv, DropInv, SetupInv, ClockInv, HostOutOfReach
<1> QED BY <1>1, <1>2, ProceduresInitInv, PTL DEF Spec
=============================================================================
