---------------------------- MODULE LocalSocket -----------------------------
(***************************************************************************)
(* The stream socket at AUTH_SOCKET_PATH, as Backend.c and Frontend.c use  *)
(* it: one name in the file system, a queue of connections per listening   *)
(* socket, and per connection the parts written and not yet taken in each  *)
(* direction.  A read takes any positive number of the parts that are      *)
(* there; what was written before a close is still read after it.          *)
(*                                                                         *)
(* Each frontend connects at most once, so that a connection is named by   *)
(* its frontend.  Requests and responses are far smaller than the socket's *)
(* buffers: a write never blocks, but it may be short.                     *)
(***************************************************************************)
EXTENDS AuthProtocol, FiniteSets

CONSTANTS
  Backends,       \* the backend processes
  Frontends,      \* the frontend processes
  RequestParts,   \* the pieces in which an AuthRequest may arrive
  ResponseParts   \* the same for an AuthResponse

ASSUME SocketAssumption ==
  /\ RequestParts \in Nat \ {0} /\ ResponseParts \in Nat \ {0}
  /\ {"absent", "foreign"} \cap Backends = {}
  /\ "none" \notin Backends \cup Frontends

VARIABLES
  path,   \* the backend whose socket has the name, or "absent", or "foreign":
          \* something the backend refuses to remove, perhaps a stranger's socket
  queue,  \* per backend, the connections it has not accepted
  conn    \* per frontend, its connection

channel == <<path, queue, conn>>

NoRequest == [version |-> 0]
NoResponse == Response("none", "none")

\* A message without a NUL, or a version of the protocol the frontend does not
\* know: no backend writes one.
Malformed == Response("malformed", "none")

NoConnection ==
  [server |-> "none", open |-> {}, request |-> NoRequest, sent |-> 0,
   response |-> NoResponse, answered |-> 0]

ChannelInit ==
  /\ path \in {"absent", "foreign"}
  /\ queue = [b \in Backends |-> <<>>]
  /\ conn = [f \in Frontends |-> NoConnection]

\* connect(), once it found a listening socket: the connection exists and can
\* be written to before it is accepted.
NewConnection(server, f, request) ==
  conn' = [conn EXCEPT ![f] =
             [NoConnection EXCEPT !.server = server, !.request = request,
                                  !.open = {"frontend", "backend"}]]

Connect(b, f, request) ==
  queue' = [queue EXCEPT ![b] = Append(@, f)] /\ NewConnection(b, f, request)

Accepted(b) == queue' = [queue EXCEPT ![b] = Tail(@)] /\ UNCHANGED <<path, conn>>

\* A listener at the path that is no backend of this project: it may answer
\* what it likes, whole, in part or not at all, and hang up at any time.
ConnectStranger(f, request) == NewConnection("foreign", f, request) /\ UNCHANGED queue

StrangerAnswers(f) ==
  /\ conn[f].server = "foreign" /\ "backend" \in conn[f].open
  /\ \E n \in 1..(ResponseParts - conn[f].answered),
        r \in {Response("success", "none"), Response("invalid_credentials", "none"),
               Malformed} :
       /\ conn[f].answered > 0 => r = conn[f].response
       /\ conn' = [conn EXCEPT ![f].answered = @ + n, ![f].response = r]
  /\ UNCHANGED <<path, queue>>

StrangerHangsUp(f) ==
  /\ conn[f].server = "foreign" /\ "backend" \in conn[f].open
  /\ conn' = [conn EXCEPT ![f].open = @ \ {"backend"}]
  /\ UNCHANGED <<path, queue>>

\* close() of one end of f's connection.
Closed(f, end) == conn' = [conn EXCEPT ![f].open = @ \ {end}]

\* The connections that end when b closes the given descriptors: the accepted
\* one with the client socket, the waiting ones with the server socket.
Waiting(b) == {queue[b][i] : i \in DOMAIN queue[b]}

Reset(fs) ==
  conn' = [f \in Frontends |->
             IF f \in fs THEN [conn[f] EXCEPT !.open = @ \ {"backend"}] ELSE conn[f]]

Drained(b) == queue' = [queue EXCEPT ![b] = <<>>]

\* unlink() removes the name whoever owns the socket behind it.
Unlinked == path' = "absent"
=============================================================================
