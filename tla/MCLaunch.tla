------------------------------ MODULE MCLaunch ------------------------------
(***************************************************************************)
(* Instance of Launch for TLC.                                             *)
(***************************************************************************)
EXTENDS Launch

\* Every system call of the launch sequence that the code checks may fail.
AnyStep == {"reset", "setpgid", "prctl", "rlimit", "landlock", "seccomp",
            "close_fds", "exec", "setpgid_child", "attach", "release"}
=============================================================================
