---------------------------- MODULE MCSupervisor ----------------------------
(***************************************************************************)
(* Instances of Supervisor for TLC.                                        *)
(***************************************************************************)
EXTENDS Supervisor

\* Every call that may fail does.
EveryFault == AllFaults

\* Failures that leave part of the machinery missing: the leader outside its
\* cgroup, the launch cancelled, a monitor that does not exist.
StartFaults == {"attach", "release", "thread"}

\* Failures that leave the controller able to see the workload.
KillFaults == {"setpgid", "release", "cgroup_kill", "rmdir"}

\* Nothing fails.
NoFault == {}

\* Only writing the leader's PID to cgroup.procs fails.
AttachFault == {"attach"}
=============================================================================
