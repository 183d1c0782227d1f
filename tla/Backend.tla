------------------------------ MODULE Backend -------------------------------
(***************************************************************************)
(* Backend.c: one process that loads the account, gives up its privileges, *)
(* binds the socket, serves one client and leaves.  pc names the next      *)
(* system call or check of main().  A blocking call has three places: the  *)
(* check of stop_requested before it, the call itself and, when there is   *)
(* nothing to take, the sleep from which a signal wakes it with EINTR; a   *)
(* signal that arrives between the check and the sleep only sets the flag. *)
(***************************************************************************)
EXTENDS LocalSocket

CONSTANTS
  TrustedPeers,  \* the frontends with the invoking user's uid and gid
  Credential,    \* the account of credentials.demo, as stored
  Faults         \* the system calls that may fail by themselves

ASSUME BackendAssumption == TrustedPeers \subseteq Frontends

\* A string in its array, as load_demo_credential() leaves it: not empty, no
\* longer than the limit, and NUL from its end on.
Stored(maximum_length) ==
  {value \in [1..(maximum_length + 1) -> Nat] :
     \E n \in 1..maximum_length :
       \A i \in 1..(maximum_length + 1) : value[i] = NUL <=> i > n}

ASSUME CredentialAssumption ==
  Credential \in [username : Stored(UsernameMax), password : Stored(PasswordMax)]

VARIABLE backend

\* alone is history: no other backend has run beside this one.
BackendStart ==
  [pc |-> "off", alone |-> TRUE, stop |-> FALSE, server_fd |-> "none", client |-> "none",
   received |-> 0, response |-> NoResponse, sent |-> 0, verified |-> FALSE,
   request |-> FALSE, credential |-> FALSE, code |-> "none"]

BackendInit == backend = [b \in Backends |-> BackendStart]

Goto(b, place) == backend' = [backend EXCEPT ![b].pc = place]

\* Every "goto cleanup" of main().
Fail(b) == Goto(b, "close_client")

Ended(b) == backend[b].pc \in {"off", "exited"}

Listening(b) == backend[b].server_fd = "open"

-----------------------------------------------------------------------------
(* Start-up: handlers, the account, the privileges, the socket. *)

StartBackend(b) ==
  /\ backend[b].pc = "off"
  /\ LET running == {other \in Backends : ~Ended(other)} IN
     backend' = [other \in Backends |->
       [backend[other] EXCEPT !.pc = IF other = b THEN "start" ELSE @,
                              !.alone = @ /\ (IF other = b THEN running = {}
                                              ELSE other \notin running)]]
  /\ UNCHANGED channel

InstallHandlers(b) ==
  /\ backend[b].pc = "start"
  /\ \/ Goto(b, "load")
     \/ "sigaction" \in Faults /\ Fail(b)
  /\ UNCHANGED channel

\* On a failure load_demo_credential() has cleared what it had read.
LoadCredential(b) ==
  /\ backend[b].pc = "load"
  /\ \/ backend' = [backend EXCEPT ![b].pc = "drop", ![b].credential = TRUE]
     \/ "load" \in Faults /\ Fail(b)
  /\ UNCHANGED channel

\* Module Privileges has the steps of drop_privileges_permanently().
DropPrivileges(b) ==
  /\ backend[b].pc = "drop"
  /\ \/ Goto(b, "inspect")
     \/ "drop" \in Faults /\ Fail(b)
  /\ UNCHANGED channel

\* socket(), then lstat() in remove_stale_socket_path(): only a socket of this
\* user is removed.
InspectPath(b) ==
  /\ backend[b].pc = "inspect"
  /\ \/ "socket" \in Faults /\ Fail(b)
     \/ path = "absent" /\ Goto(b, "bind")
     \/ path = "foreign" /\ Fail(b)
     \/ path \in Backends /\ Goto(b, "unlink_stale")
  /\ UNCHANGED channel

\* The unlink() after the lstat(): here ENOENT is a failure.
RemoveStale(b) ==
  /\ backend[b].pc = "unlink_stale"
  /\ \/ path = "absent" /\ Fail(b) /\ UNCHANGED path
     \/ path # "absent" /\ Unlinked /\ Goto(b, "bind")
  /\ UNCHANGED <<queue, conn>>

\* EADDRINUSE when the name is taken again; the name is then not removed.
Bind(b) ==
  /\ backend[b].pc = "bind"
  /\ \/ path # "absent" /\ Fail(b) /\ UNCHANGED path
     \/ path = "absent" /\ path' = b /\ Goto(b, "chmod")
  /\ UNCHANGED <<queue, conn>>

Chmod(b) ==
  /\ backend[b].pc = "chmod"
  /\ \/ path # "absent" /\ Goto(b, "listen")
     \/ (path = "absent" \/ "chmod" \in Faults) /\ Goto(b, "undo_bind")
  /\ UNCHANGED channel

Listen(b) ==
  /\ backend[b].pc = "listen"
  /\ \/ backend' = [backend EXCEPT ![b].pc = "accept_check", ![b].server_fd = "open"]
     \/ "listen" \in Faults /\ Goto(b, "undo_bind")
  /\ UNCHANGED channel

\* Mutant: create_server_socket() returns without removing the name.
LeaveTheName(b) ==
  /\ backend[b].pc = "undo_bind"
  /\ Fail(b)
  /\ UNCHANGED channel

\* create_server_socket() after a failed chmod() or listen().
UndoBind(b) ==
  /\ backend[b].pc = "undo_bind"
  /\ Unlinked
  /\ Fail(b)
  /\ UNCHANGED <<queue, conn>>

-----------------------------------------------------------------------------
(* One client: accept_one_client(), verify_peer_credentials() and           *)
(* handle_client().                                                         *)

\* Where a failed write_all() leads: out of handle_client(), or of main() when
\* it was the rejection of a peer.
AfterClient(b) == IF backend[b].verified THEN "clear_request" ELSE "close_client"

\* The test of stop_requested at the head of each of the three loops.
StopCheck(b, check, call, leave) ==
  /\ backend[b].pc = check
  /\ Goto(b, IF backend[b].stop THEN leave ELSE call)
  /\ UNCHANGED channel

AcceptCheck(b) == StopCheck(b, "accept_check", "accept", "close_client")
ReadCheck(b) == StopCheck(b, "read_check", "read", "clear_request")
WriteCheck(b) == StopCheck(b, "write_check", "write", AfterClient(b))

Accept(b) ==
  /\ backend[b].pc \in {"accept", "accept_wait"}
  /\ queue[b] # <<>>
  /\ backend' = [backend EXCEPT ![b].pc = "verify", ![b].client = Head(queue[b])]
  /\ Accepted(b)

AcceptSleeps(b) ==
  /\ backend[b].pc = "accept"
  /\ queue[b] = <<>>
  /\ Goto(b, "accept_wait")
  /\ UNCHANGED channel

Rejection == Response("rejected", "bad_request")

\* Mutant: the peer is logged and not compared.
TrustAnyPeer(b) ==
  /\ backend[b].pc = "verify"
  /\ backend' = [backend EXCEPT ![b].pc = "read_check", ![b].verified = TRUE]
  /\ UNCHANGED channel

\* SO_PEERCRED has the identity the client had when it connected.
VerifyPeer(b) ==
  /\ backend[b].pc = "verify"
  /\ \/ /\ backend[b].client \in TrustedPeers
        /\ backend' = [backend EXCEPT ![b].pc = "read_check", ![b].verified = TRUE]
     \/ /\ backend[b].client \notin TrustedPeers \/ "getsockopt" \in Faults
        /\ backend' = [backend EXCEPT ![b].pc = "write_check",
                                      ![b].response = Rejection]
  /\ UNCHANGED channel

Available(b) == conn[backend[b].client].sent - backend[b].received

\* read_all(): with the last part the request is complete and process_request()
\* decides; the parts are held in handle_client()'s buffer.
Read(b) ==
  /\ backend[b].pc \in {"read", "read_wait"}
  /\ \E n \in 1..Available(b) :
       LET total == backend[b].received + n IN
       backend' = [backend EXCEPT
         ![b].received = total,
         ![b].request = TRUE,
         ![b].pc = IF total = RequestParts THEN "write_check" ELSE "read_check",
         ![b].response = IF total = RequestParts
                         THEN process_request(conn[backend[b].client].request, Credential)
                         ELSE @]
  /\ UNCHANGED channel

PeerGone(b) == "frontend" \notin conn[backend[b].client].open

\* Mutant: zero bytes are taken for "try again".
ReadAgainAtEnd(b) ==
  /\ backend[b].pc \in {"read", "read_wait"}
  /\ Available(b) = 0
  /\ PeerGone(b)
  /\ Goto(b, "read_check")
  /\ UNCHANGED channel

\* read() returns zero, or an error, only when nothing is left to take.
ReadEnds(b) ==
  /\ backend[b].pc \in {"read", "read_wait"}
  /\ Available(b) = 0
  /\ PeerGone(b)
  /\ Goto(b, "clear_request")
  /\ UNCHANGED channel

ReadSleeps(b) ==
  /\ backend[b].pc = "read"
  /\ Available(b) = 0
  /\ ~PeerGone(b)
  /\ Goto(b, "read_wait")
  /\ UNCHANGED channel

\* Mutant: a short write() counts as the whole response.
WriteOnce(b) ==
  /\ backend[b].pc = "write"
  /\ ~PeerGone(b)
  /\ \E n \in 1..(ResponseParts - backend[b].sent) :
       /\ backend' = [backend EXCEPT ![b].sent = @ + n, ![b].pc = AfterClient(b),
                                     ![b].code = IF backend[b].verified THEN "success" ELSE @]
       /\ conn' = [conn EXCEPT ![backend[b].client].answered = @ + n,
                               ![backend[b].client].response = backend[b].response]
  /\ UNCHANGED <<path, queue>>

\* Mutant: length is not reduced by what was written.
WriteTooMuch(b) ==
  /\ backend[b].pc = "write"
  /\ ~PeerGone(b)
  /\ \E n \in 1..ResponseParts :
       /\ backend' = [backend EXCEPT ![b].sent = @ + n,
            ![b].pc = IF n = ResponseParts THEN AfterClient(b) ELSE "write_check"]
       /\ conn' = [conn EXCEPT ![backend[b].client].answered = @ + n]
  /\ UNCHANGED <<path, queue>>

\* write_all(); exit_code is EXIT_SUCCESS once handle_client() has sent it all.
Write(b) ==
  /\ backend[b].pc = "write"
  /\ ~PeerGone(b)
  /\ \E n \in 1..(ResponseParts - backend[b].sent) :
       LET total == backend[b].sent + n
           all == total = ResponseParts
       IN /\ backend' = [backend EXCEPT
               ![b].sent = total,
               ![b].pc = IF all THEN AfterClient(b) ELSE "write_check",
               ![b].code = IF all /\ backend[b].verified THEN "success" ELSE @]
          /\ conn' = [conn EXCEPT ![backend[b].client].answered = total,
                                  ![backend[b].client].response = backend[b].response]
  /\ UNCHANGED <<path, queue>>

\* Mutant: every failed write() is tried again.
WriteRetried(b) ==
  /\ backend[b].pc = "write"
  /\ PeerGone(b)
  /\ Goto(b, "write_check")
  /\ UNCHANGED channel

\* EPIPE: SIGPIPE is ignored.
WriteFails(b) ==
  /\ backend[b].pc = "write"
  /\ PeerGone(b)
  /\ Goto(b, AfterClient(b))
  /\ UNCHANGED channel

\* The cleanup label of handle_client().
ClearRequest(b) ==
  /\ backend[b].pc = "clear_request"
  /\ backend' = [backend EXCEPT ![b].request = FALSE, ![b].pc = "close_client"]
  /\ UNCHANGED channel

-----------------------------------------------------------------------------
(* The cleanup label of main(). *)

CloseClient(b) ==
  /\ backend[b].pc = "close_client"
  /\ Goto(b, "close_server")
  /\ IF backend[b].client = "none"
     THEN UNCHANGED conn ELSE Closed(backend[b].client, "backend")
  /\ UNCHANGED <<path, queue>>

\* Mutant: the name is removed while the socket still listens.
UnlinkFirst(b) ==
  /\ backend[b].pc = "close_server"
  /\ \/ Listening(b) /\ Unlinked /\ Goto(b, "unlink")
     \/ ~Listening(b) /\ Goto(b, "clear") /\ UNCHANGED path
  /\ UNCHANGED <<queue, conn>>

\* The clients that were never accepted are reset with the listening socket.
CloseServer(b) ==
  /\ backend[b].pc = "close_server"
  /\ \/ /\ Listening(b)
        /\ backend' = [backend EXCEPT ![b].pc = "unlink", ![b].server_fd = "closed"]
        /\ Reset(Waiting(b)) /\ Drained(b)
     \/ ~Listening(b) /\ Goto(b, "clear") /\ UNCHANGED <<queue, conn>>
  /\ UNCHANGED path

\* Only after create_server_socket() succeeded; ENOENT is ignored.
UnlinkPath(b) ==
  /\ backend[b].pc = "unlink"
  /\ Unlinked
  /\ Goto(b, "clear")
  /\ UNCHANGED <<queue, conn>>

ReturnBackend(b) ==
  /\ backend[b].pc = "clear"
  /\ backend' = [backend EXCEPT ![b].pc = "exited", ![b].credential = FALSE,
                                ![b].code = IF @ = "none" THEN "failure" ELSE @]
  /\ UNCHANGED channel

-----------------------------------------------------------------------------
(* What happens to the process. *)

\* The kernel closes the descriptors; the name in the file system stays.
Gone(b) ==
  /\ backend' = [backend EXCEPT ![b].pc = "exited", ![b].code = "killed",
                                ![b].server_fd = "none"]
  /\ Reset(Waiting(b) \cup {backend[b].client})
  /\ Drained(b)
  /\ UNCHANGED path

\* SIGINT or SIGTERM: request_stop(), once the handlers are installed.  A
\* sleeping accept() or read() returns EINTR and finds the flag.
StopBackend(b) ==
  \/ backend[b].pc = "start" /\ Gone(b)
  \/ /\ ~Ended(b) /\ backend[b].pc # "start" /\ ~backend[b].stop
     /\ backend' = [backend EXCEPT
          ![b].stop = TRUE,
          ![b].pc = CASE @ = "accept_wait" -> "close_client"
                      [] @ = "read_wait" -> "clear_request"
                      [] OTHER -> @]
     /\ UNCHANGED channel

KillBackend(b) == ~Ended(b) /\ Gone(b)

BackendStep(b) ==
  \/ InstallHandlers(b) \/ LoadCredential(b) \/ DropPrivileges(b)
  \/ InspectPath(b) \/ RemoveStale(b) \/ Bind(b) \/ Chmod(b) \/ Listen(b)
  \/ UndoBind(b) \/ AcceptCheck(b) \/ Accept(b) \/ AcceptSleeps(b)
  \/ VerifyPeer(b) \/ ReadCheck(b) \/ Read(b) \/ ReadEnds(b) \/ ReadSleeps(b)
  \/ WriteCheck(b) \/ Write(b) \/ WriteFails(b) \/ ClearRequest(b)
  \/ CloseClient(b) \/ CloseServer(b) \/ UnlinkPath(b) \/ ReturnBackend(b)
=============================================================================
