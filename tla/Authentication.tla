--------------------------- MODULE Authentication ---------------------------
(***************************************************************************)
(* The two programs of src/Authentication together: any number of backend  *)
(* and frontend processes on one socket path, stopped, interrupted and     *)
(* killed at any point of their run.                                       *)
(***************************************************************************)
EXTENDS Frontend

CONSTANTS
  Signalled,   \* the processes that may be sent SIGINT or SIGTERM
  Crashes      \* the processes that may be killed

ASSUME SignalAssumption ==
  Signalled \subseteq Backends \cup Frontends /\ Crashes \subseteq Backends \cup Frontends

vars == <<backend, frontend, path, queue, conn>>

Init == ChannelInit /\ BackendInit /\ FrontendInit

\* Nothing runs, except perhaps backends that wait for a client.
Quiet ==
  /\ \A b \in Backends : Ended(b) \/ backend[b].pc = "accept_wait"
  /\ \A f \in Frontends : frontend[f].pc = "exited"
  /\ UNCHANGED vars

Next ==
  \/ \E b \in Backends :
       /\ \/ StartBackend(b) \/ BackendStep(b)
          \/ b \in Signalled /\ StopBackend(b)
          \/ b \in Crashes /\ KillBackend(b)
       /\ UNCHANGED frontend
  \/ \E f \in Frontends :
       \/ StartFrontend(f) \/ FrontendStep(f) \/ UserAnswers(f)
       \/ f \in Signalled /\ InterruptFrontend(f)
       \/ f \in Crashes /\ KillFrontend(f)
  \/ /\ \E f \in Frontends : StrangerAnswers(f) \/ StrangerHangsUp(f)
     /\ UNCHANGED <<backend, frontend>>
  \/ Quiet

Spec == Init /\ [][Next]_vars

\* A process that can run is scheduled, and a user answers a prompt in the end.
\* Nobody has to start a process, no signal has to come and no stranger has to
\* answer.
Fairness ==
  /\ \A b \in Backends : WF_vars(BackendStep(b) /\ UNCHANGED frontend)
  /\ \A f \in Frontends : WF_vars(FrontendStep(f)) /\ WF_vars(UserAnswers(f))

FairSpec == Spec /\ Fairness

-----------------------------------------------------------------------------
BackendPlaces ==
  {"off", "start", "load", "drop", "inspect", "unlink_stale", "bind", "chmod",
   "listen", "undo_bind", "accept_check", "accept", "accept_wait", "verify",
   "read_check", "read", "read_wait", "write_check", "write", "clear_request",
   "close_client", "close_server", "unlink", "clear", "exited"}

FrontendPlaces ==
  {"off", "start", "username_check", "username", "username_wait",
   "password_check", "echo_off", "echo_check", "password", "password_wait",
   "echo_on", "judge", "exchange", "connect", "send", "receive", "receive_wait", "close",
   "cleanup", "exited"}

\* The variables have their types (the structures and descriptors of both mains).
TypeOK ==
  /\ path \in Backends \cup {"absent", "foreign"}
  /\ \A b \in Backends :
       /\ backend[b].pc \in BackendPlaces
       /\ backend[b].alone \in BOOLEAN
       /\ backend[b].server_fd \in {"none", "open", "closed"}
       /\ backend[b].client \in Frontends \cup {"none"}
       /\ backend[b].received \in 0..RequestParts
       /\ backend[b].sent \in 0..ResponseParts
       /\ backend[b].code \in {"none", "success", "failure", "killed"}
       /\ queue[b] \in Seq(Frontends)
  /\ \A f \in Frontends :
       /\ frontend[f].pc \in FrontendPlaces
       /\ frontend[f].received \in 0..ResponseParts
       /\ frontend[f].code \in {"none", "success", "failure", "killed"}
       /\ conn[f].server \in Backends \cup {"none", "foreign"}
       /\ conn[f].open \subseteq {"frontend", "backend"}
       /\ conn[f].sent \in 0..RequestParts
       /\ conn[f].answered \in 0..ResponseParts

Returned(process) == process.pc = "exited" /\ process.code # "killed"

\* What the user typed is the account: the lines themselves, not what became
\* of them in the request.
TypedTheAccount(f) ==
  /\ frontend[f].username.newline /\ frontend[f].password.newline
  /\ Credential = [username |-> Packed(frontend[f].username.text, UsernameMax),
                   password |-> Packed(frontend[f].password.text, PasswordMax)]

\* A frontend exits with EXIT_SUCCESS (Frontend.c 452-457) only if its user
\* typed exactly the account, its process belongs to the invoking user and a
\* backend accepted this very connection and granted it, whatever was cut
\* short, interrupted or killed around it; or if it never spoke to a backend,
\* because a stranger listened at the path and wrote a success of its own, which
\* the frontend believes as it does not ask who is at the other end.
SuccessIsEarned ==
  \A f \in Frontends : frontend[f].code = "success" =>
    \/ /\ conn[f].server = "foreign" /\ \A b \in Backends : backend[b].client # f
       /\ conn[f].response.result = "success" /\ conn[f].answered = ResponseParts
    \/ /\ TypedTheAccount(f)
       /\ f \in TrustedPeers
       /\ \E b \in Backends : /\ conn[f].server = b /\ backend[b].client = f
                              /\ backend[b].response.result = "success"

\* A backend that returns EXIT_SUCCESS has delivered its answer (handle_client(),
\* Backend.c 723-750): a client that was neither interrupted nor killed reports
\* exactly that answer, although the response was cut into pieces and the
\* sockets were closed behind it.
AnswerDelivered ==
  \A b \in Backends : backend[b].code = "success" =>
    LET f == backend[b].client IN
    ( /\ Returned(frontend[f]) /\ ~frontend[f].interrupted
      /\ "close" \notin Faults )
      => frontend[f].report = backend[b].response

\* No password outlives its use: not in read_password()'s buffer once it
\* returned by one of its seven exits behind fgets() (Frontend.c 228-276), not in
\* the request while the frontend waits for the answer (Frontend.c 396-400), and
\* in no buffer of a program that has returned, on whichever of its failure paths.
NoSecretLeftBehind ==
  /\ \A f \in Frontends :
       /\ frontend[f].input =>
            frontend[f].pc \in {"echo_on", "judge"} \/ frontend[f].code = "killed"
       /\ frontend[f].pc \in {"receive", "receive_wait", "close"} => ~frontend[f].request
  /\ \A p \in {backend[b] : b \in Backends} :
       Returned(p) => ~p.request /\ ~p.credential
  /\ \A p \in {frontend[f] : f \in Frontends} : Returned(p) => ~p.request

\* A frontend that returns leaves its terminal with the echo on, wherever it was
\* interrupted (read_password(), Frontend.c 198-231), unless tcsetattr() itself
\* refused.
EchoRestored ==
  \A f \in Frontends :
    frontend[f].echo \/ frontend[f].restore_failed
      \/ frontend[f].code = "killed"
      \/ frontend[f].pc \in {"echo_check", "password", "password_wait", "echo_on"}

-----------------------------------------------------------------------------
(* The socket path. *)

Alive(b) == ~Ended(b)

\* A name in the file system is accounted for: it belongs to a backend that is
\* still going to remove it or that was killed (create_server_socket() and the
\* cleanup of main(), Backend.c 371-423 and 809-816).  When every backend has
\* returned, no socket is left behind.
NameIsAccountedFor ==
  path \in Backends =>
    \/ backend[path].code = "killed"
    \/ backend[path].pc \in BackendPlaces
         \ {"off", "start", "load", "drop", "inspect", "unlink_stale", "bind",
            "clear", "exited"}

\* A backend no other runs beside: while it listens, the name leads to it,
\* until it closes its socket (the order of the cleanup in main()), whatever
\* the backends before it left behind.
ListenerIsReachable ==
  \A b \in Backends : backend[b].alone /\ Listening(b) => path = b

\* A backend no other runs beside: whatever the ones before it left when they
\* were stopped or killed, the name is no reason for its unlink(), bind() or
\* chmod() to fail (remove_stale_socket_path() and create_server_socket(),
\* Backend.c 336-423).
RestartSucceeds ==
  \A b \in Backends : backend[b].alone =>
    /\ backend[b].pc = "unlink_stale" => path \in Backends
    /\ backend[b].pc = "bind" => path = "absent"
    /\ backend[b].pc \in {"chmod", "listen"} => path = b

\* The name serves the backend that is alone with it, from lstat() to the
\* cleanup: the two parts above.
NameIsUsable == ListenerIsReachable /\ RestartSucceeds

-----------------------------------------------------------------------------
(* The promise of the service. *)

Implementation ==
  INSTANCE OneAnswer WITH
    Servers <- Backends,
    Users <- Frontends,
    Trusted <- TrustedPeers,
    claim <- [f \in Frontends |->
                CASE conn[f].server \notin Backends -> "none"
                  [] conn[f].server \in Backends /\ TypedTheAccount(f) -> "right"
                  [] OTHER -> "wrong"],
    taken <- [b \in Backends |-> backend[b].client],
    decision <- [b \in Backends |->
                   CASE backend[b].response = NoResponse -> "none"
                     [] backend[b].response.result = "success" -> "granted"
                     [] OTHER -> "denied"],
    outcome <- [f \in Frontends |->
                  CASE frontend[f].pc # "exited" \/ conn[f].server = "foreign" -> "none"
                    [] /\ frontend[f].pc = "exited" /\ conn[f].server # "foreign"
                       /\ frontend[f].code = "success" -> "success"
                    [] OTHER -> "failure"]

\* The programs implement OneAnswer: a backend takes one client and decides it
\* once, grants only a trusted one that sent the account, and a frontend
\* succeeds only on such a grant, decided before it reported.  A frontend that
\* reached a stranger is not part of the service and stays without a claim.
OneAnswerEach == Implementation!AbstractSpec

-----------------------------------------------------------------------------
(* What eventually happens. *)

\* A frontend that was started ends, if its user answers: the backend it waits
\* for answers, gives up on a request that stays incomplete, or goes away
\* (read_all() of both programs, Backend.c 526-560 and Frontend.c 312-342).  Only
\* a stranger, which owes it nothing, may keep it waiting for ever.
FrontendsEnd ==
  \A f \in Frontends :
    frontend[f].pc = "start" ~> frontend[f].pc = "exited" \/ conn[f].server = "foreign"

\* A backend that has taken a client ends, and so frees the path for the next.
ServiceEnds == \A b \in Backends : backend[b].client # "none" ~> Ended(b)

\* A backend that was told to stop ends (request_stop(), Backend.c 32-36).
StopIsHonoured == \A b \in Backends : backend[b].stop ~> Ended(b)
=============================================================================
