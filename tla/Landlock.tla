------------------------------ MODULE Landlock ------------------------------
(***************************************************************************)
(* sandbox_child_restrict_filesystem() (security.c): a ruleset is made of  *)
(* an allowlist of paths, some of which need not exist, and the process    *)
(* restricts itself to it.  The kernel offers versions of the interface    *)
(* that know more or fewer kinds of access.                                *)
(*                                                                         *)
(* The file system is a small tree: the paths of the list, the target in a *)
(* directory of its own, below /usr or directly below the root, and files  *)
(* that have nothing to do with the target.                                *)
(***************************************************************************)
EXTENDS Naturals, Sequences

CONSTANTS
  Abis,          \* the versions the kernel may report, 0 when it has none
  HeaderAbis     \* the versions of the headers a build may have been made with

ASSUME AbiAssumption == Abis \subseteq Nat /\ HeaderAbis \subseteq Nat

VARIABLES
  rules_pc, next_rule,
  existing,          \* the paths that exist
  home,              \* where the target lives: "opt", "usr" or "root"
  abi, header_abi,   \* the kernel's version and that of the headers
  handled, rules,    \* the ruleset: the kinds of access it governs, its rules
  restricted, rules_result

rules_vars == <<rules_pc, next_rule, existing, home, abi, header_abi, handled, rules,
                restricted, rules_result>>

fixed == <<existing, home, abi, header_abi>>

-----------------------------------------------------------------------------
(* The file system and the kernel's decision. *)

Directories == {"root", "usr", "lib", "lib64", "etc", "dev", "opt"}
Optional == {"lib", "lib64", "ld_cache", "ld_preload", "null", "urandom", "random"}
Others == {"passwd", "tmp_file", "usr_file", "opt_file", "lib_file"}
Paths == Directories \cup Optional \cup Others \cup {"target"}

Parent(p) ==
  CASE p \in {"ld_cache", "ld_preload", "passwd"} -> "etc"
    [] p \in {"null", "urandom", "random"} -> "dev"
    [] p = "usr_file" -> "usr"
    [] p = "opt_file" -> "opt"
    [] p = "lib_file" -> "lib"
    [] p = "target" -> home
    [] OTHER -> "root"

Above(p) == {p, Parent(p), "root"}

Reading == {"execute", "read_file", "read_dir"}

\* Removing and making stand for the two and the seven kinds the code lists.
Modifying == {"write_file", "remove", "make"}

Granted(p, access) == \E r \in rules : access \in r.access /\ r.path \in Above(p)

\* Moving a file to another directory is refused unless a rule grants it, even
\* by versions that do not know it by name.
Allowed(p, access) ==
  restricted /\ access \in handled \cup {"refer"} => Granted(p, access)

-----------------------------------------------------------------------------
RuntimeDirectory == Reading
RuntimeFile == {"execute", "read_file"}

Rule(path, access, required) == [path |-> path, access |-> access, required |-> required]

\* The calls of add_landlock_path_rule() in their order.
RuleList ==
  << Rule("target", RuntimeFile, TRUE),
     Rule(home, RuntimeDirectory, TRUE),
     Rule("usr", RuntimeDirectory, TRUE),
     Rule("lib", RuntimeDirectory, FALSE),
     Rule("lib64", RuntimeDirectory, FALSE),
     Rule("ld_cache", {"read_file"}, FALSE),
     Rule("ld_preload", {"read_file"}, FALSE),
     Rule("null", {"read_file", "write_file"}, FALSE),
     Rule("urandom", {"read_file"}, FALSE),
     Rule("random", {"read_file"}, FALSE) >>

RulesStart ==
  /\ rules_pc = "resolve" /\ next_rule = 1
  /\ handled = {} /\ rules = {} /\ restricted = FALSE /\ rules_result = "none"

RulesInit ==
  /\ \E absent \in SUBSET (Optional \cup {"usr", "target"}) : existing = Paths \ absent
  /\ home \in {"opt", "usr", "root"} \cap existing
  /\ abi \in Abis /\ header_abi \in HeaderAbis
  /\ RulesStart

RulesReturn(r) == rules_pc' = "returned" /\ rules_result' = r
RulesContinue(place) == rules_pc' = place /\ UNCHANGED rules_result

\* A system call fails by itself: also a failure, told apart to say below why
\* the function failed.
SystemFails == RulesReturn("fault")

\* realpath() of the target; its directory may be the root itself.
ResolveTargetDirectory ==
  /\ rules_pc = "resolve"
  /\ \/ "target" \in existing /\ RulesContinue("abi")
     \/ "target" \notin existing /\ RulesReturn("failure")
  /\ UNCHANGED <<next_rule, fixed, handled, rules, restricted>>

QueryAbi ==
  /\ rules_pc = "abi"
  /\ IF abi < 1 THEN RulesReturn("failure") ELSE RulesContinue("create")
  /\ UNCHANGED <<next_rule, fixed, handled, rules, restricted>>

\* Mutant: what only newer versions know is the only thing governed by them.
HandleByVersion == IF abi >= 2 THEN Reading \cup {"refer"} ELSE Reading \cup Modifying

\* The two newer kinds are asked for when the kernel knows them; headers that
\* do not define them make the macro 0, which asks for nothing.
Known(version) == abi >= version /\ header_abi >= version

HandledAccess ==
  Reading \cup Modifying
    \cup (IF Known(2) THEN {"refer"} ELSE {})
    \cup (IF Known(3) THEN {"truncate"} ELSE {})

CreateRuleset ==
  /\ rules_pc = "create"
  /\ \/ handled' = HandledAccess /\ RulesContinue("rules")
     \/ UNCHANGED handled /\ SystemFails
  /\ UNCHANGED <<next_rule, fixed, rules, restricted>>

\* Mutant: a path that is required and missing is passed over like the others.
SkipMissing ==
  /\ rules_pc = "rules" /\ next_rule <= Len(RuleList)
  /\ LET r == RuleList[next_rule] IN
     \/ r.path \in existing /\ rules' = rules \cup {r}
     \/ r.path \notin existing /\ UNCHANGED rules
  /\ next_rule' = next_rule + 1
  /\ UNCHANGED <<rules_pc, rules_result, fixed, handled, restricted>>

\* add_landlock_path_rule(): a path that cannot be opened is an error only
\* when it is required, a rule that cannot be added always is one.
AddPathRule ==
  /\ rules_pc = "rules" /\ next_rule <= Len(RuleList)
  /\ LET r == RuleList[next_rule] IN
     \/ /\ r.path \in existing
        /\ rules' = rules \cup {r} /\ next_rule' = next_rule + 1
        /\ RulesContinue("rules")
     \/ /\ r.path \notin existing /\ ~r.required
        /\ next_rule' = next_rule + 1
        /\ UNCHANGED rules /\ RulesContinue("rules")
     \/ /\ r.path \notin existing /\ r.required
        /\ UNCHANGED <<rules, next_rule>> /\ RulesReturn("failure")
     \/ /\ r.path \in existing
        /\ UNCHANGED <<rules, next_rule>> /\ SystemFails
  /\ UNCHANGED <<fixed, handled, restricted>>

\* PR_SET_NO_NEW_PRIVS and landlock_restrict_self().
RestrictSelf ==
  /\ rules_pc = "rules" /\ next_rule > Len(RuleList)
  /\ \/ restricted' = TRUE /\ RulesContinue("close")
     \/ UNCHANGED restricted /\ SystemFails
  /\ UNCHANGED <<next_rule, fixed, handled, rules>>

CloseRuleset ==
  /\ rules_pc = "close"
  /\ RulesReturn("success") \/ SystemFails
  /\ UNCHANGED <<next_rule, fixed, handled, rules, restricted>>

RulesDone == rules_pc = "returned" /\ UNCHANGED rules_vars

RulesNext ==
  \/ ResolveTargetDirectory \/ QueryAbi \/ CreateRuleset \/ AddPathRule
  \/ RestrictSelf \/ CloseRuleset \/ RulesDone

RulesSpec == RulesInit /\ [][RulesNext]_rules_vars

-----------------------------------------------------------------------------
\* When the function succeeds, the target can change nothing on the host but
\* write to /dev/null, under every version of the interface: no file is
\* written, made, removed or moved (security.c 394-485).  Truncating by path
\* is governed from version 3 of the kernel and of the headers on.
HostWritesDenied ==
  rules_result = "success" =>
    \A p \in Paths, access \in Modifying \cup {"refer"} \cup
                      (IF abi >= 3 /\ header_abi >= 3 THEN {"truncate"} ELSE {}) :
      Allowed(p, access) => p = "null" /\ access = "write_file"

\* What it can read is the target's own directory, /usr, the libraries and the
\* listed files: when the target does not live in the root itself, nothing
\* else, and no directory that is not on the list is opened by a rule for a
\* file below it.
HostReadsListed ==
  rules_result = "success" =>
    \A p \in Paths, access \in Reading :
      Allowed(p, access) =>
        \/ home = "root"
        \/ Above(p) \cap {"usr", "lib", "lib64", home} # {}
        \/ access = "read_file" /\ p \in Optional
        \/ access \in RuntimeFile /\ p = "target"

\* A successful sandbox_child_restrict_filesystem() (security.c 394-485) keeps
\* the host from being written and from being read beyond the list: the two
\* parts above.
HostOutOfReach == HostWritesDenied /\ HostReadsListed

\* The allowlist is wide enough to start the target: it and what it is linked
\* with can be read and executed, whichever optional paths are missing; and
\* unless a system call fails, only a required path can make it fail.
TargetCanStart ==
  /\ rules_result = "success" =>
       /\ \A p \in {"target", "usr_file"} : \A access \in RuntimeFile : Allowed(p, access)
       /\ "lib" \in existing => Allowed("lib_file", "execute")
  /\ rules_result = "failure" => abi < 1 \/ ~({"target", "usr"} \subseteq existing)
=============================================================================
