----------------------------- MODULE CgroupSetup ----------------------------
(***************************************************************************)
(* The control group of one controller (security.c): made with its limits  *)
(* by sandbox_cgroup_prepare(), or given up in favour of the process-tree  *)
(* fallback, and removed by sandbox_cgroup_destroy().  A controller may be *)
(* killed at any moment; the next one to get its PID uses the same name.   *)
(***************************************************************************)
EXTENDS Naturals

CONSTANTS
  CgroupLimits,        \* the values of memory_limit_kilobytes, 0 for none
  Generations    \* how many controllers get the PID

ASSUME SetupAssumption == CgroupLimits \subseteq Nat /\ Generations \in Nat \ {0}

VARIABLES
  generation, setup_pc,
  limit,
  delegated,    \* may this user make a group, and does it have memory files
  directory,    \* the generation that made it, 0 for none
  files,        \* memory.max in kB, memory.oom.group and memory.swap.max
  populated,    \* the workload is in the group
  active,       \* cgroup->active
  kept          \* an rmdir() failed

setup_vars == <<generation, setup_pc, limit, delegated, directory, files, populated, active, kept>>

Unlimited == [max |-> 0, oom_group |-> FALSE, no_swap |-> FALSE]

Delegations == [group : BOOLEAN, memory : BOOLEAN, swap : BOOLEAN]

SetupStart ==
  /\ generation = 1 /\ setup_pc = "directory"
  /\ directory = 0 /\ files = Unlimited /\ populated = FALSE
  /\ active = FALSE /\ kept = FALSE

SetupInit == limit \in CgroupLimits /\ delegated \in Delegations /\ SetupStart

given == <<generation, limit, delegated>>

-----------------------------------------------------------------------------
\* current_cgroup_directory() and the name made from the PID.
FindParent ==
  /\ setup_pc = "directory"
  /\ setup_pc' \in {"mkdir", "running"}
  /\ UNCHANGED <<given, directory, files, populated, active, kept>>

\* mkdir() fails on a name that is there already, whoever left it.
MakeDirectory ==
  /\ setup_pc = "mkdir"
  /\ \/ /\ directory = 0 /\ delegated.group
        /\ directory' = generation /\ files' = Unlimited
        /\ setup_pc' = IF limit > 0 THEN "memory_max" ELSE "activate"
     \/ /\ directory # 0 \/ ~delegated.group
        /\ setup_pc' = "running" /\ UNCHANGED <<directory, files>>
  /\ UNCHANGED <<given, populated, active, kept>>

\* write_text_file(): the file may be missing; a write that is interrupted is
\* repeated; a failed close() is a failure although the value was taken.
WriteFile(present, value, done, failed) ==
  \/ present /\ files' = value /\ setup_pc' = done
  \/ present /\ files' = value /\ setup_pc' = failed
  \/ UNCHANGED files /\ setup_pc' = failed

\* Mutant: the group is used although its limit could not be set.
LimitOptional ==
  /\ setup_pc = "memory_max"
  /\ WriteFile(delegated.memory, [files EXCEPT !.max = limit], "oom_group", "oom_group")
  /\ UNCHANGED <<given, directory, populated, active, kept>>

SetMemoryMax ==
  /\ setup_pc = "memory_max"
  /\ WriteFile(delegated.memory, [files EXCEPT !.max = limit], "oom_group", "undo")
  /\ UNCHANGED <<given, directory, populated, active, kept>>

UndoDirectory ==
  /\ setup_pc = "undo"
  /\ setup_pc' = "running"
  /\ \/ directory' = 0 /\ UNCHANGED kept
     \/ UNCHANGED directory /\ kept' = TRUE
  /\ UNCHANGED <<given, files, populated, active>>

\* The two settings that are only warned about.
SetOomGroup ==
  /\ setup_pc = "oom_group"
  /\ WriteFile(delegated.memory, [files EXCEPT !.oom_group = TRUE], "swap_max", "swap_max")
  /\ UNCHANGED <<given, directory, populated, active, kept>>

SetSwapMax ==
  /\ setup_pc = "swap_max"
  /\ WriteFile(delegated.swap, [files EXCEPT !.no_swap = TRUE], "activate", "activate")
  /\ UNCHANGED <<given, directory, populated, active, kept>>

Activate ==
  /\ setup_pc = "activate"
  /\ active' = TRUE /\ setup_pc' = "running"
  /\ UNCHANGED <<given, directory, files, populated, kept>>

\* sandbox_cgroup_attach(), which may fail, and the end of the workload; a
\* controller that gives up may leave it behind.
Attach ==
  /\ setup_pc = "running" /\ active
  /\ populated' \in BOOLEAN
  /\ setup_pc' = "attached"
  /\ UNCHANGED <<given, directory, files, active, kept>>

WorkloadEnds ==
  /\ populated
  /\ populated' = FALSE
  /\ UNCHANGED <<given, setup_pc, directory, files, active, kept>>

\* The cleanup of main(): sandbox_cgroup_destroy() if the group is active.
Destroy ==
  /\ setup_pc \in {"running", "attached"}
  /\ setup_pc' = "returned"
  /\ \/ active /\ ~populated /\ directory' = 0 /\ active' = FALSE /\ UNCHANGED kept
     \/ active /\ kept' = TRUE /\ UNCHANGED <<directory, active>>
     \/ ~active /\ UNCHANGED <<directory, active, kept>>
  /\ UNCHANGED <<given, files, populated>>

Killed ==
  /\ setup_pc \notin {"returned", "killed"}
  /\ setup_pc' = "killed" /\ active' = FALSE
  /\ UNCHANGED <<given, directory, files, populated, kept>>

\* Another controller with this PID, of the same user or of another.
NextController ==
  /\ setup_pc \in {"returned", "killed"} /\ generation < Generations
  /\ generation' = generation + 1 /\ setup_pc' = "directory"
  /\ limit' \in CgroupLimits /\ delegated' \in Delegations
  /\ active' = FALSE /\ kept' = FALSE
  /\ UNCHANGED <<directory, files, populated>>

SetupDone == setup_pc \in {"returned", "killed"} /\ generation = Generations /\ UNCHANGED setup_vars

SetupNext ==
  \/ FindParent \/ MakeDirectory \/ SetMemoryMax \/ UndoDirectory \/ SetOomGroup
  \/ SetSwapMax \/ Activate \/ Attach \/ WorkloadEnds \/ Destroy \/ Killed
  \/ NextController \/ SetupDone

SetupSpec == SetupInit /\ [][SetupNext]_setup_vars

-----------------------------------------------------------------------------
\* A group that is used belongs to this controller and enforces this
\* controller's limit, never none and never that of a controller that had the
\* PID before (security.c 165-217).
LimitInForce == active => directory = generation /\ files.max = limit

\* A controller that returns leaves no group of its own, whichever step of the
\* preparation failed, unless the kernel refused to remove it (security.c
\* 197-203 and 288-301).
NoGroupLeftBehind == setup_pc = "returned" /\ ~kept => directory # generation

\* A controller uses no group but its own and leaves none of its own (security.c
\* 165-301): the two parts above.
GroupIsOwn == LimitInForce /\ NoGroupLeftBehind
=============================================================================
