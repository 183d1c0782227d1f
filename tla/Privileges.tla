----------------------------- MODULE Privileges -----------------------------
(***************************************************************************)
(* drop_privileges_permanently() (Backend.c) against the kernel's rules    *)
(* for user and group identifiers.  A backend may have been installed      *)
(* set-user-ID, set-group-ID or with file capabilities, or run by root:    *)
(* every combination of identifiers is a starting point.                   *)
(***************************************************************************)
EXTENDS Naturals

CONSTANTS
  Ids,       \* user and group identifiers, 0 among them
  DropFaults     \* the system calls that may fail although permitted

ASSUME IdsAssumption == Ids \subseteq Nat /\ 0 \in Ids

VARIABLES
  drop_pc,
  uid, gid,                \* real, effective and saved identifiers
  groups,                  \* has the process supplementary groups
  permitted, effective,    \* the capabilities of Caps in these two sets
  started_as_root,         \* was the effective user root at start-up
  drop_result

drop_vars == <<drop_pc, uid, gid, groups, permitted, effective, started_as_root, drop_result>>

caps == <<permitted, effective>>

\* CAP_SETUID and CAP_SETGID, with which identifiers can be changed at will.
Caps == {"setuid", "setgid"}

AllThree(id) == [real |-> id, effective |-> id, saved |-> id]
IdsOf(triple) == {triple.real, triple.effective, triple.saved}

\* execve() makes the saved identifier equal to the effective one.
AfterExec == {[real |-> r, effective |-> e, saved |-> e] : r \in Ids, e \in Ids}

\* A process with a root identifier has the capabilities, in effect while the
\* effective user is root.  Any other has those its file was given, either of
\* them alone too, in effect if the file has the effective bit.
CapsAfterExec(triple, granted, bit) ==
  /\ permitted = IF 0 \in IdsOf(triple) THEN Caps ELSE granted
  /\ effective = CASE triple.effective = 0 -> Caps
                   [] triple.effective # 0 /\ 0 \in IdsOf(triple) -> {}
                   [] OTHER -> IF bit THEN granted ELSE {}

DropStart ==
  /\ drop_pc = "refuse_root"
  /\ started_as_root = (uid.effective = 0)
  /\ drop_result = "none"

DropInit ==
  /\ uid \in AfterExec /\ gid \in AfterExec
  /\ groups \in BOOLEAN
  /\ \E granted \in SUBSET Caps, bit \in BOOLEAN : CapsAfterExec(uid, granted, bit)
  /\ DropStart

\* The arguments main() passes: getuid() and getgid() at start-up.  No call
\* below changes a real identifier.
target_uid == uid.real
target_gid == gid.real

DropReturns(r) == drop_pc' = "returned" /\ drop_result' = r
DropContinues(place) == drop_pc' = place /\ UNCHANGED drop_result

\* What the kernel does to the capabilities when the identifiers change: they
\* go when the last root identifier goes, and follow the effective user.
SetUids(triple) ==
  LET lost == 0 \in IdsOf(uid) /\ 0 \notin IdsOf(triple) IN
  /\ uid' = triple
  /\ permitted' = IF lost THEN {} ELSE permitted
  /\ effective' = CASE lost \/ (uid.effective = 0 /\ triple.effective # 0) -> {}
                    [] uid.effective # 0 /\ triple.effective = 0 -> permitted
                    [] OTHER -> effective

-----------------------------------------------------------------------------
RefuseRoot ==
  /\ drop_pc = "refuse_root"
  /\ IF target_uid = 0 THEN DropReturns("failure") ELSE DropContinues("setgroups")
  /\ UNCHANGED <<uid, gid, groups, caps, started_as_root>>

\* geteuid() == 0 && setgroups(0, NULL) != 0
ClearGroups ==
  /\ drop_pc = "setgroups"
  /\ \/ uid.effective = 0 /\ groups' = FALSE /\ DropContinues("setresgid")
     \/ uid.effective # 0 /\ UNCHANGED groups /\ DropContinues("setresgid")
     \/ uid.effective = 0 /\ "setgroups" \in DropFaults /\ UNCHANGED groups /\ DropReturns("failure")
  /\ UNCHANGED <<uid, gid, caps, started_as_root>>

\* The target is the real identifier, which needs no capability.
SetGids ==
  /\ drop_pc = "setresgid"
  /\ \/ gid' = AllThree(target_gid) /\ DropContinues("setresuid")
     \/ "setresgid" \in DropFaults /\ UNCHANGED gid /\ DropReturns("failure")
  /\ UNCHANGED <<uid, groups, caps, started_as_root>>

DropUids ==
  /\ drop_pc = "setresuid"
  /\ \/ SetUids(AllThree(target_uid)) /\ DropContinues("check")
     \/ "setresuid" \in DropFaults /\ UNCHANGED <<uid, caps>> /\ DropReturns("failure")
  /\ UNCHANGED <<gid, groups, started_as_root>>

\* getresuid() and the comparison of all three.
CheckUids ==
  /\ drop_pc = "check"
  /\ \/ uid = AllThree(target_uid) /\ DropContinues("regain")
     \/ (uid # AllThree(target_uid) \/ "getresuid" \in DropFaults) /\ DropReturns("failure")
  /\ UNCHANGED <<uid, gid, groups, caps, started_as_root>>

\* Mutant: the attempt to become root again is not made.
TrustTheDrop ==
  /\ drop_pc = "regain"
  /\ DropReturns("success")
  /\ UNCHANGED <<uid, gid, groups, caps, started_as_root>>

\* seteuid(0) has to be refused with EPERM; another error is not trusted.  It
\* asks for CAP_SETUID only: nothing tries CAP_SETGID.
TryToRegain ==
  /\ drop_pc = "regain"
  /\ \/ /\ "setuid" \in effective \/ 0 \in IdsOf(uid)
        /\ SetUids([uid EXCEPT !.effective = 0])
        /\ DropContinues("give_back")
     \/ /\ "setuid" \notin effective /\ 0 \notin IdsOf(uid)
        /\ DropReturns("success") /\ UNCHANGED <<uid, caps>>
     \/ "seteuid" \in DropFaults /\ DropReturns("failure") /\ UNCHANGED <<uid, caps>>
  /\ UNCHANGED <<gid, groups, started_as_root>>

\* (void)seteuid(uid) before the failure is returned.
GiveBack ==
  /\ drop_pc = "give_back"
  /\ SetUids([uid EXCEPT !.effective = target_uid])
  /\ DropReturns("failure")
  /\ UNCHANGED <<gid, groups, started_as_root>>

DropDone == drop_pc = "returned" /\ UNCHANGED drop_vars

DropNext ==
  \/ RefuseRoot \/ ClearGroups \/ SetGids \/ DropUids \/ CheckUids
  \/ TryToRegain \/ GiveBack \/ DropDone

DropSpec == DropInit /\ [][DropNext]_drop_vars

-----------------------------------------------------------------------------
\* After a successful return the process is the invoking user: all three user
\* identifiers, not root, and CAP_SETUID is not in effect, so that no call of the
\* setuid family changes them again.  If root was what it dropped, neither
\* capability is left in any set.  What a file capability leaves behind is not
\* looked at (Backend.c 303-314): CAP_SETGID that came without CAP_SETUID, and a
\* capability that was never in effect, stay.
PermanentlyDropped ==
  drop_result = "success" =>
    /\ uid = AllThree(target_uid) /\ target_uid # 0
    /\ "setuid" \notin effective
    /\ started_as_root => permitted = {}

\* Nor is the process in a group that the invoking user had no right to: no
\* effective or saved group, and none of root's supplementary groups, which can
\* only be given up while the process is still root (Backend.c 275-283).
GroupsDropped ==
  drop_result = "success" => gid = AllThree(target_gid) /\ ~(started_as_root /\ groups)

\* A successful drop_privileges_permanently() (Backend.c 261-319) leaves no way
\* back to root, and one from root no way to any other identifier: the two parts
\* above.
NothingLeftToRegain == PermanentlyDropped /\ GroupsDropped
=============================================================================
