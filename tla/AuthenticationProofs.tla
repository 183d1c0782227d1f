------------------------ MODULE AuthenticationProofs ------------------------
(***************************************************************************)
(* Authentication, for any number of backends and frontends, with stops,   *)
(* kills and failing system calls anywhere: the socket path, the terminal, *)
(* what an answer means and that it arrives, the promise of OneAnswer, the *)
(* passwords left in memory, and the types.                                *)
(***************************************************************************)
EXTENDS Authentication, ProtocolProofs

\* The places between listen() and the cleanup of main().
Serving == {"accept_check", "accept", "accept_wait", "verify", "read_check", "read",
            "read_wait", "write_check", "write", "clear_request"}

Shape ==
  /\ DOMAIN backend = Backends
  /\ \A b \in Backends : {"pc", "alone", "server_fd", "code"} \subseteq DOMAIN backend[b]

\* A backend that was killed does nothing more; the server socket is open from
\* listen() until the cleanup closes it.
ServerInv(b) ==
  /\ backend[b].code = "killed" => backend[b].pc = "exited"
  /\ backend[b].pc \in Serving => Listening(b)
  /\ Listening(b) => backend[b].pc \in Serving \cup {"close_client", "close_server"}

\* The name leads to a backend only while that one is going to remove it: in
\* the cleanup it still has the server socket, which is what main() asks.
NameInv(b) ==
  path = b =>
    \/ backend[b].code = "killed"
    \/ backend[b].pc \in Serving \cup {"chmod", "listen", "undo_bind", "unlink"}
    \/ backend[b].pc \in {"close_client", "close_server"} /\ Listening(b)

AloneInv(b) ==
  backend[b].alone /\ ~Ended(b) => \A other \in Backends \ {b} : Ended(other)

UsableInv(b) ==
  backend[b].alone =>
    /\ Listening(b) => path = b
    /\ backend[b].pc = "unlink_stale" => path \in Backends
    /\ backend[b].pc = "bind" => path = "absent"
    /\ backend[b].pc \in {"chmod", "listen"} => path = b

PathInv ==
  /\ Shape
  /\ \A b \in Backends : ServerInv(b) /\ NameInv(b) /\ AloneInv(b) /\ UsableInv(b)

-----------------------------------------------------------------------------
(* What a step of a backend does to the name, its place and its socket.    *)

\* The places change and nothing else that matters here.
Passes(b, from, to) ==
  /\ backend[b].pc \in from /\ backend'[b].pc \in to
  /\ backend'[b].server_fd = backend[b].server_fd
  /\ backend'[b].code = backend[b].code

NameStep(b) ==
  \/ Passes(b, {"start", "load", "drop"}, {"load", "drop", "inspect", "close_client"})
       /\ path' = path
  \/ /\ path' = path
     /\ \/ Passes(b, {"inspect"}, {"close_client"})
        \/ Passes(b, {"inspect"}, {"bind"}) /\ path = "absent"
        \/ Passes(b, {"inspect"}, {"unlink_stale"}) /\ path \in Backends
  \/ Passes(b, {"unlink_stale"}, {"close_client"}) /\ path = "absent" /\ path' = path
  \/ Passes(b, {"unlink_stale"}, {"bind"}) /\ path' = "absent"
  \/ Passes(b, {"bind"}, {"close_client"}) /\ path # "absent" /\ path' = path
  \/ Passes(b, {"bind"}, {"chmod"}) /\ path = "absent" /\ path' = b
  \/ Passes(b, {"chmod"}, {"listen", "undo_bind"}) /\ path' = path
  \/ /\ backend[b].pc = "listen" /\ backend'[b].pc = "accept_check"
     /\ backend'[b].server_fd = "open" /\ backend'[b].code = backend[b].code /\ path' = path
  \/ Passes(b, {"listen"}, {"undo_bind"}) /\ path' = path
  \/ Passes(b, {"undo_bind"}, {"close_client"}) /\ path' = "absent"
  \/ /\ backend[b].pc \in Serving /\ backend'[b].pc \in Serving \cup {"close_client"}
     /\ backend'[b].server_fd = backend[b].server_fd /\ path' = path
     /\ backend'[b].code \in {backend[b].code, "success"}
  \/ Passes(b, {"close_client"}, {"close_server"}) /\ path' = path
  \/ /\ backend[b].pc = "close_server" /\ Listening(b) /\ backend'[b].pc = "unlink"
     /\ backend'[b].server_fd = "closed" /\ backend'[b].code = backend[b].code /\ path' = path
  \/ Passes(b, {"close_server"}, {"clear"}) /\ ~Listening(b) /\ path' = path
  \/ Passes(b, {"unlink"}, {"clear"}) /\ path' = "absent"
  \/ /\ backend[b].pc = "clear" /\ backend'[b].pc = "exited" /\ path' = path
     /\ backend'[b].server_fd = backend[b].server_fd
     /\ backend'[b].code = IF backend[b].code = "none" THEN "failure" ELSE backend[b].code
  \/ /\ backend'[b].pc = "exited" /\ backend'[b].code = "killed"
     /\ backend'[b].server_fd = "none" /\ path' = path
  \/ /\ backend'[b].pc = backend[b].pc /\ backend'[b].code = backend[b].code
     /\ backend'[b].server_fd = backend[b].server_fd /\ path' = path

Acts(b) ==
  /\ ~Ended(b)
  /\ Shape'
  /\ \A other \in Backends \ {b} : backend'[other] = backend[other]
  /\ backend'[b].alone = backend[b].alone
  /\ NameStep(b)

LEMMA StartUpActs ==
  ASSUME NEW b \in Backends, Shape,
         InstallHandlers(b) \/ LoadCredential(b) \/ DropPrivileges(b) \/ InspectPath(b)
  PROVE  Acts(b)
BY DEF InstallHandlers, LoadCredential, DropPrivileges, InspectPath, Fail, Goto, channel,
       Shape, Acts, NameStep, Passes, Ended

LEMMA SocketActs ==
  ASSUME NEW b \in Backends, Shape,
         RemoveStale(b) \/ Bind(b) \/ Chmod(b) \/ Listen(b) \/ UndoBind(b)
  PROVE  Acts(b)
BY DEF RemoveStale, Bind, Chmod, Listen, UndoBind, Unlinked, Fail, Goto, channel,
       Shape, Acts, NameStep, Passes, Ended

LEMMA ServingActs ==
  ASSUME NEW b \in Backends, Shape,
         \/ AcceptCheck(b) \/ Accept(b) \/ AcceptSleeps(b) \/ VerifyPeer(b) \/ ReadCheck(b)
         \/ Read(b) \/ ReadEnds(b) \/ ReadSleeps(b) \/ WriteCheck(b) \/ Write(b)
         \/ WriteFails(b) \/ ClearRequest(b)
  PROVE  Acts(b)
<1> DEFINE ServingStep ==
      /\ backend[b].pc \in Serving /\ backend'[b].pc \in Serving \cup {"close_client"}
      /\ backend'[b].server_fd = backend[b].server_fd /\ path' = path
      /\ backend'[b].code \in {backend[b].code, "success"}
      /\ Shape' /\ backend'[b].alone = backend[b].alone
      /\ \A other \in Backends \ {b} : backend'[other] = backend[other]
<1> USE DEF Serving, Shape, channel, Goto, AfterClient
<1>1. CASE AcceptCheck(b) \/ ReadCheck(b) \/ WriteCheck(b)
  <2> ServingStep
    BY <1>1 DEF AcceptCheck, ReadCheck, WriteCheck, StopCheck
  <2> QED
    BY DEF Acts, NameStep, Ended
<1>2. CASE Accept(b) \/ AcceptSleeps(b) \/ VerifyPeer(b)
  <2> ServingStep
    BY <1>2 DEF Accept, Accepted, AcceptSleeps, VerifyPeer
  <2> QED
    BY DEF Acts, NameStep, Ended
<1>3. CASE ReadEnds(b) \/ ReadSleeps(b) \/ WriteFails(b) \/ ClearRequest(b)
  <2> ServingStep
    BY <1>3 DEF ReadEnds, ReadSleeps, WriteFails, ClearRequest
  <2> QED
    BY DEF Acts, NameStep, Ended
<1>4. CASE Read(b)
  <2>0. PICK n \in 1..Available(b) :
          backend' = [backend EXCEPT
            ![b].received = backend[b].received + n,
            ![b].request = TRUE,
            ![b].pc = IF backend[b].received + n = RequestParts THEN "write_check" ELSE "read_check",
            ![b].response = IF backend[b].received + n = RequestParts
                            THEN process_request(conn[backend[b].client].request, Credential)
                            ELSE @]
    BY <1>4 DEF Read
  <2>1. /\ backend[b].pc \in {"read", "read_wait"} /\ path' = path
        /\ backend'[b].pc \in {"write_check", "read_check"}
        /\ backend'[b].server_fd = backend[b].server_fd /\ backend'[b].code = backend[b].code
        /\ backend'[b].alone = backend[b].alone
    BY <1>4, <2>0 DEF Read
  <2>2. Shape' /\ \A other \in Backends \ {b} : backend'[other] = backend[other]
    BY <2>0
  <2> ServingStep
    BY <2>1, <2>2
  <2> QED
    BY DEF Acts, NameStep, Ended
<1>5. CASE Write(b)
  <2>0. PICK n \in 1..(ResponseParts - backend[b].sent) :
          backend' = [backend EXCEPT
            ![b].sent = backend[b].sent + n,
            ![b].pc = IF backend[b].sent + n = ResponseParts THEN AfterClient(b) ELSE "write_check",
            ![b].code = IF backend[b].sent + n = ResponseParts /\ backend[b].verified
                        THEN "success" ELSE @]
    BY <1>5 DEF Write
  <2>1. /\ backend[b].pc = "write" /\ path' = path
        /\ backend'[b].pc \in {"write_check", AfterClient(b)}
        /\ backend'[b].server_fd = backend[b].server_fd
        /\ backend'[b].code \in {backend[b].code, "success"}
        /\ backend'[b].alone = backend[b].alone
    BY <1>5, <2>0 DEF Write
  <2>2. Shape' /\ \A other \in Backends \ {b} : backend'[other] = backend[other]
    BY <2>0
  <2> ServingStep
    BY <2>1, <2>2
  <2> QED
    BY DEF Acts, NameStep, Ended
<1> QED
  BY <1>1, <1>2, <1>3, <1>4, <1>5

LEMMA CleanupActs ==
  ASSUME NEW b \in Backends, Shape,
         CloseClient(b) \/ CloseServer(b) \/ UnlinkPath(b) \/ ReturnBackend(b)
  PROVE  Acts(b)
BY DEF CloseClient, CloseServer, UnlinkPath, ReturnBackend, Unlinked, Goto, channel,
       Listening, Shape, Acts, NameStep, Passes, Ended

LEMMA SignalActs ==
  ASSUME NEW b \in Backends, Shape, StopBackend(b) \/ KillBackend(b)
  PROVE  Acts(b)
BY DEF StopBackend, KillBackend, Gone, channel, Shape, Acts, NameStep, Passes, Ended, Serving

-----------------------------------------------------------------------------
(* The invariant.                                                          *)

LEMMA PathInitInv == Init => PathInv
<1> SUFFICES ASSUME Init
             PROVE  PathInv
  OBVIOUS
<1>1. backend = [b \in Backends |-> BackendStart] /\ path \in {"absent", "foreign"}
  BY DEF Init, ChannelInit, BackendInit
<1>2. Shape
  BY <1>1 DEF Shape, BackendStart
<1>3. ASSUME NEW b \in Backends
      PROVE  ServerInv(b) /\ NameInv(b) /\ AloneInv(b) /\ UsableInv(b)
  <2>1. backend[b].pc = "off" /\ backend[b].server_fd = "none" /\ backend[b].code = "none"
    BY <1>1 DEF BackendStart
  <2>2. path # b
    BY <1>1, SocketAssumption
  <2> QED
    BY <2>1, <2>2 DEF ServerInv, NameInv, AloneInv, UsableInv, Listening, Serving, Ended
<1> QED
  BY <1>2, <1>3 DEF PathInv

\* The backend that acts keeps its own part ...
LEMMA OwnPart ==
  ASSUME NEW b \in Backends, PathInv, Acts(b)
  PROVE  ServerInv(b)' /\ NameInv(b)' /\ AloneInv(b)' /\ UsableInv(b)'
<1> USE DEF PathInv, Acts, Listening
<1>1. ServerInv(b)'
  BY DEF ServerInv, NameStep, Passes, Serving, Ended
<1>2. NameInv(b)'
  <2>1. CASE path' = path /\ path = b
    <3>1. backend[b].code # "killed"
      BY DEF ServerInv, Ended
    <3>2. \/ backend[b].pc \in Serving \cup {"chmod", "listen", "undo_bind", "unlink"}
          \/ backend[b].pc \in {"close_client", "close_server"} /\ Listening(b)
      BY <2>1, <3>1 DEF NameInv
    <3>3. b # "absent"
      BY SocketAssumption
    <3>4. \/ backend'[b].code = "killed"
          \/ backend'[b].pc \in Serving \cup {"chmod", "listen", "undo_bind", "unlink"}
          \/ backend'[b].pc \in {"close_client", "close_server"} /\ backend'[b].server_fd = "open"
      BY <2>1, <3>2, <3>3 DEF NameStep, Passes, Serving, ServerInv
    <3> QED
      BY <3>4 DEF NameInv
  <2>2. CASE path' # path
    BY <2>2, SocketAssumption DEF NameInv, NameStep, Passes
  <2> QED
    BY <2>1, <2>2 DEF NameInv
<1>3. AloneInv(b)'
  BY DEF AloneInv, Ended
<1>4. UsableInv(b)'
  BY DEF UsableInv, ServerInv, NameStep, Passes, Serving, Ended
<1> QED
  BY <1>1, <1>2, <1>3, <1>4

\* ... and that of the others, which are not alone while it runs.
LEMMA OthersPart ==
  ASSUME NEW b \in Backends, PathInv, Acts(b), NEW other \in Backends \ {b}
  PROVE  ServerInv(other)' /\ NameInv(other)' /\ AloneInv(other)' /\ UsableInv(other)'
<1> USE DEF PathInv
<1>1. backend'[other] = backend[other]
  BY DEF Acts
<1>2. path' \in {path, "absent", b}
  BY DEF Acts, NameStep
<1>3. ServerInv(other)'
  BY <1>1 DEF ServerInv, Listening
<1>4. NameInv(other)'
  BY <1>1, <1>2, SocketAssumption DEF NameInv, Listening
<1>5. backend[other].alone => Ended(other)
  BY DEF Acts, AloneInv
<1>6. AloneInv(other)' /\ UsableInv(other)'
  BY <1>1, <1>5 DEF AloneInv, UsableInv, Ended, ServerInv, Listening, Serving
<1> QED
  BY <1>3, <1>4, <1>6

LEMMA StartKeepsPath ==
  ASSUME NEW b \in Backends, PathInv, StartBackend(b)
  PROVE  PathInv'
<1> DEFINE running == {other \in Backends : ~Ended(other)}
<1> USE DEF PathInv
<1>1. /\ \A other \in Backends :
           /\ backend'[other].pc = IF other = b THEN "start" ELSE backend[other].pc
           /\ backend'[other].server_fd = backend[other].server_fd
           /\ backend'[other].code = backend[other].code
           /\ backend'[other].alone =>
                backend[other].alone /\ (IF other = b THEN running = {} ELSE Ended(other))
      /\ backend[b].pc = "off" /\ path' = path
      /\ Shape'
  BY DEF StartBackend, Shape, channel
<1>2. ASSUME NEW other \in Backends
      PROVE  ServerInv(other)' /\ NameInv(other)' /\ AloneInv(other)' /\ UsableInv(other)'
  <2>1. CASE other = b
    <3>1. ~Listening(b) /\ backend[b].code # "killed" /\ path # b
      BY <1>1 DEF ServerInv, NameInv, Serving
    <3>2. backend'[b].pc = "start" /\ ~Listening(b)' /\ backend'[b].code # "killed" /\ path' # b
      BY <1>1, <3>1 DEF Listening
    <3>3. AloneInv(b)'
      BY <1>1 DEF AloneInv, Ended
    <3> QED
      BY <2>1, <3>2, <3>3 DEF ServerInv, NameInv, UsableInv, Serving
  <2>2. CASE other # b
    <3> USE DEF Listening
    <3>1. /\ backend'[other].pc = backend[other].pc
          /\ backend'[other].server_fd = backend[other].server_fd
          /\ backend'[other].code = backend[other].code
      BY <1>1, <2>2
    <3>2. ServerInv(other)' /\ NameInv(other)'
      BY <1>1, <3>1 DEF ServerInv, NameInv
    <3>3. backend'[other].alone => Ended(other)
      BY <1>1, <2>2
    <3>4. AloneInv(other)' /\ UsableInv(other)'
      BY <1>1, <3>1, <3>3 DEF AloneInv, UsableInv, ServerInv, Ended, Serving
    <3> QED
      BY <3>2, <3>4
  <2> QED
    BY <2>1, <2>2
<1> QED
  BY <1>1, <1>2

LEMMA PathNextInv == PathInv /\ [Next]_vars => PathInv'
<1> SUFFICES ASSUME PathInv, [Next]_vars
             PROVE  PathInv'
  OBVIOUS
<1>1. ASSUME NEW b \in Backends, Acts(b)
      PROVE  PathInv'
  <2>1. Shape'
    BY <1>1 DEF Acts
  <2> QED
    BY <1>1, <2>1, OwnPart, OthersPart DEF PathInv
<1>2. CASE UNCHANGED <<backend, path>>
  BY <1>2 DEF PathInv, Shape, ServerInv, NameInv, AloneInv, UsableInv, Listening, Ended
<1>3. ASSUME NEW b \in Backends, BackendStep(b) \/ StopBackend(b) \/ KillBackend(b)
      PROVE  PathInv'
  <2>1. Acts(b)
    BY <1>3, StartUpActs, SocketActs, ServingActs, CleanupActs, SignalActs
       DEF BackendStep, PathInv
  <2> QED
    BY <1>1, <2>1
<1>4. ASSUME NEW f \in Frontends,
             StartFrontend(f) \/ FrontendStep(f) \/ UserAnswers(f) \/ InterruptFrontend(f) \/ KillFrontend(f)
      PROVE  UNCHANGED <<backend, path>>
  BY <1>4 DEF StartFrontend, FrontendStep, UserAnswers, InterruptFrontend, KillFrontend,
     InstallFrontendHandlers, InterruptCheck, PromptSleeps, EnterUsername, DisableEcho,
     EchoCheck, EnterPassword, RestoreEcho, JudgePassword, PasswordInterrupted, PasswordNotRead,
     PasswordTooLong, PasswordEmpty, PasswordTaken, ConnectToBackend, Send, SendFails, Receive,
     ReceiveEnds, ReceiveSleeps, CloseAndReport, ReturnFrontend, FrontendGone, channel
<1>5. ASSUME NEW f \in Frontends, StrangerAnswers(f) \/ StrangerHangsUp(f), UNCHANGED backend
      PROVE  UNCHANGED <<backend, path>>
  BY <1>5 DEF StrangerAnswers, StrangerHangsUp
<1> QED
  BY <1>2, <1>3, <1>4, <1>5, StartKeepsPath DEF Next, Quiet, vars

-----------------------------------------------------------------------------
\* However many backends are started, together or one after another, and
\* however each of them ends, a name in the file system belongs to one that will
\* remove it or was killed.
THEOREM NameStaysAccountedFor == Spec => []NameIsAccountedFor
<1>1. PathInv => NameIsAccountedFor
  BY DEF PathInv, NameInv, NameIsAccountedFor, BackendPlaces, Serving
<1> QED
  BY <1>1, PathInitInv, PathNextInv, PTL DEF Spec

\* A backend that no other runs beside finds the name free, or a stale socket it
\* can remove, and is reached by it while it listens, whatever its predecessors
\* left behind.
THEOREM NameStaysUsable == Spec => []NameIsUsable
<1>1. PathInv => NameIsUsable
  BY DEF PathInv, UsableInv, NameIsUsable, ListenerIsReachable, RestartSucceeds
<1> QED
  BY <1>1, PathInitInv, PathNextInv, PTL DEF Spec

-----------------------------------------------------------------------------
(* The echo of the terminal.                                               *)

Reading == {"echo_check", "password", "password_wait", "echo_on"}

FrontendShape ==
  /\ DOMAIN frontend = Frontends
  /\ \A f \in Frontends :
       {"pc", "echo", "restore_required", "restore_failed", "code", "interrupted"} \subseteq DOMAIN frontend[f]

\* While the echo is off, read_password() knows that it has to restore it.
EchoInv(f) ==
  /\ frontend[f].code = "killed" => frontend[f].pc = "exited"
  /\ \/ frontend[f].echo \/ frontend[f].restore_failed \/ frontend[f].code = "killed"
     \/ frontend[f].pc \in Reading /\ frontend[f].restore_required

TerminalInv == FrontendShape /\ \A f \in Frontends : EchoInv(f)

\* What a step of a frontend leaves as it is: the other frontends.
OthersKept(f) ==
  FrontendShape' /\ \A other \in Frontends \ {f} : frontend'[other] = frontend[other]

\* Outside read_password() the terminal is not touched.
Elsewhere(f) ==
  /\ frontend[f].pc \notin Reading \cup {"exited"}
  /\ frontend'[f].echo = frontend[f].echo
  /\ frontend'[f].restore_failed = frontend[f].restore_failed
  /\ frontend'[f].code \in {"none", "success", "failure", frontend[f].code}

LEMMA ElsewhereKeepsEcho ==
  ASSUME NEW f \in Frontends, TerminalInv, Elsewhere(f), OthersKept(f)
  PROVE  TerminalInv'
<1>1. frontend[f].code # "killed"
  BY DEF TerminalInv, EchoInv, Elsewhere
<1>2. EchoInv(f)'
  BY <1>1 DEF TerminalInv, EchoInv, Elsewhere
<1> QED
  BY <1>2 DEF TerminalInv, EchoInv, OthersKept

LEMMA PromptElsewhere ==
  ASSUME NEW f \in Frontends, FrontendShape,
         \/ StartFrontend(f) \/ InstallFrontendHandlers(f) \/ InterruptCheck(f)
         \/ EnterUsername(f) \/ (PromptSleeps(f) /\ frontend[f].pc = "username")
         \/ JudgePassword(f)
  PROVE  Elsewhere(f) /\ OthersKept(f)
<1> USE DEF Move, FrontendShape, Elsewhere, OthersKept, Reading
<1>1. CASE StartFrontend(f) \/ InstallFrontendHandlers(f)
  BY <1>1 DEF StartFrontend, InstallFrontendHandlers
<1>2. CASE InterruptCheck(f)
  <2>1. PICK step \in {<<"username_check", "username">>,
                       <<"password_check", "echo_off">>, <<"exchange", "connect">>} :
          /\ frontend[f].pc = step[1]
          /\ frontend' = [frontend EXCEPT
               ![f].pc = IF frontend[f].interrupted THEN "cleanup" ELSE step[2],
               ![f].request = @ /\ ~frontend[f].interrupted]
    BY <1>2 DEF InterruptCheck
  <2>2. step[1] \in {"username_check", "password_check", "exchange"}
    OBVIOUS
  <2> QED
    BY <2>1, <2>2
<1>3. CASE EnterUsername(f)
  <2>1. PICK line, place : frontend' = [frontend EXCEPT ![f].username = line, ![f].pc = place]
    BY <1>3 DEF EnterUsername
  <2> QED
    BY <1>3, <2>1 DEF EnterUsername
<1>4. CASE PromptSleeps(f) /\ frontend[f].pc = "username"
  BY <1>4 DEF PromptSleeps
<1>5. CASE JudgePassword(f)
  BY <1>5 DEF JudgePassword, PasswordInterrupted, PasswordNotRead, PasswordTooLong,
     PasswordEmpty, PasswordTaken
<1> QED
  BY <1>1, <1>2, <1>3, <1>4, <1>5

LEMMA ExchangeElsewhere ==
  ASSUME NEW f \in Frontends, FrontendShape,
         \/ ConnectToBackend(f) \/ Send(f) \/ SendFails(f) \/ Receive(f) \/ ReceiveEnds(f)
         \/ ReceiveSleeps(f) \/ CloseAndReport(f) \/ ReturnFrontend(f)
  PROVE  Elsewhere(f) /\ OthersKept(f)
<1> USE DEF Move, FrontendShape, Elsewhere, OthersKept, Reading
<1>1. CASE ConnectToBackend(f) \/ SendFails(f) \/ ReceiveEnds(f) \/ ReceiveSleeps(f)
  BY <1>1 DEF ConnectToBackend, SendFails, ReceiveEnds, ReceiveSleeps
<1>2. CASE Send(f)
  <2>1. PICK n \in 1..(RequestParts - conn[f].sent) :
          frontend' = [frontend EXCEPT
            ![f].pc = IF conn[f].sent + n = RequestParts THEN "receive" ELSE @,
            ![f].request = @ /\ ~(conn[f].sent + n = RequestParts)]
    BY <1>2 DEF Send
  <2> QED
    BY <1>2, <2>1 DEF Send
<1>3. CASE Receive(f)
  <2>1. PICK received, place :
          frontend' = [frontend EXCEPT ![f].received = received, ![f].pc = place]
    BY <1>3 DEF Receive
  <2>2. frontend[f].pc \in {"receive", "receive_wait"}
    BY <1>3 DEF Receive
  <2> QED
    BY <2>1, <2>2
<1>4. CASE CloseAndReport(f)
  <2>1. PICK judged \in BOOLEAN :
          frontend' = [frontend EXCEPT
            ![f].pc = "cleanup",
            ![f].report = IF judged THEN conn[f].response ELSE @,
            ![f].code = IF judged /\ conn[f].response.result = "success" THEN "success" ELSE @]
    BY <1>4 DEF CloseAndReport
  <2> QED
    BY <1>4, <2>1 DEF CloseAndReport
<1>5. CASE ReturnFrontend(f)
  BY <1>5 DEF ReturnFrontend
<1> QED
  BY <1>1, <1>2, <1>3, <1>4, <1>5

LEMMA ReadPasswordKeepsEcho ==
  ASSUME NEW f \in Frontends, TerminalInv,
         \/ DisableEcho(f) \/ EchoCheck(f) \/ EnterPassword(f) \/ RestoreEcho(f)
         \/ (PromptSleeps(f) /\ frontend[f].pc = "password")
  PROVE  OthersKept(f) /\ EchoInv(f)'
<1> USE DEF TerminalInv, FrontendShape, EchoInv, OthersKept, Move, Reading
<1>1. CASE DisableEcho(f)
  BY <1>1 DEF DisableEcho
<1>2. CASE EchoCheck(f)
  BY <1>2 DEF EchoCheck, RestoreFails
<1>3. CASE EnterPassword(f)
  <2>1. PICK line \in PasswordLines :
          frontend' = [frontend EXCEPT ![f].password = line, ![f].pc = "echo_on",
                                       ![f].input = line # EndOfInput]
    BY <1>3 DEF EnterPassword
  <2> QED
    BY <1>3, <2>1 DEF EnterPassword
<1>4. CASE RestoreEcho(f)
  BY <1>4 DEF RestoreEcho, RestoreFails
<1>5. CASE PromptSleeps(f) /\ frontend[f].pc = "password"
  BY <1>5 DEF PromptSleeps
<1> QED
  BY <1>1, <1>2, <1>3, <1>4, <1>5

LEMMA SignalKeepsEcho ==
  ASSUME NEW f \in Frontends, TerminalInv, InterruptFrontend(f) \/ KillFrontend(f)
  PROVE  OthersKept(f) /\ EchoInv(f)'
<1> USE DEF TerminalInv, FrontendShape, EchoInv, OthersKept, Reading
<1>1. CASE FrontendGone(f)
  BY <1>1 DEF FrontendGone
<1>2. CASE InterruptFrontend(f) /\ ~FrontendGone(f)
  BY <1>2 DEF InterruptFrontend, Finished
<1> QED
  BY <1>1, <1>2 DEF KillFrontend

LEMMA TerminalNextInv == TerminalInv /\ [Next]_vars => TerminalInv'
<1> SUFFICES ASSUME TerminalInv, [Next]_vars
             PROVE  TerminalInv'
  OBVIOUS
<1>1. CASE UNCHANGED frontend
  BY <1>1 DEF TerminalInv, FrontendShape, EchoInv
<1>2. ASSUME NEW f \in Frontends, OthersKept(f), EchoInv(f)'
      PROVE  TerminalInv'
  BY <1>2 DEF TerminalInv, OthersKept, EchoInv
<1>3. ASSUME NEW f \in Frontends,
             StartFrontend(f) \/ FrontendStep(f) \/ UserAnswers(f) \/ InterruptFrontend(f) \/ KillFrontend(f)
      PROVE  TerminalInv'
  <2>1. PromptSleeps(f) => frontend[f].pc \in {"username", "password"}
    BY DEF PromptSleeps
  <2>2. FrontendShape
    BY DEF TerminalInv
  <2> QED
    BY <1>2, <1>3, <2>1, <2>2, PromptElsewhere, ExchangeElsewhere, ElsewhereKeepsEcho,
       ReadPasswordKeepsEcho, SignalKeepsEcho DEF FrontendStep, UserAnswers
<1> QED
  BY <1>1, <1>3 DEF Next, Quiet, vars

\* Wherever a frontend is interrupted, at either prompt or during the exchange,
\* it returns with the echo of its terminal on, unless tcsetattr() refused.
THEOREM EchoIsRestored == Spec => []EchoRestored
<1>1. Init => TerminalInv
  BY DEF Init, FrontendInit, FrontendStart, TerminalInv, FrontendShape, EchoInv
<1>2. TerminalInv => EchoRestored
  BY DEF TerminalInv, EchoInv, EchoRestored, Reading
<1> QED
  BY <1>1, <1>2, TerminalNextInv, PTL DEF Spec

-----------------------------------------------------------------------------
(* The exchange: what a backend and a frontend know of their connection.   *)

\* The places of main() before a client is accepted, while its request is read,
\* while it is answered, and after that.
Early == {"off", "start", "load", "drop", "inspect", "unlink_stale", "bind", "chmod",
          "listen", "undo_bind", "accept_check", "accept", "accept_wait"}
Reads == {"read_check", "read", "read_wait"}
Writes == {"write_check", "write"}
Late == {"clear_request", "close_client", "close_server", "unlink", "clear", "exited"}

\* The places of the frontend before it has a connection, among them those where
\* the name and the password are known to be acceptable, and those behind it.
Named == {"password_check", "echo_off", "echo_check", "password", "password_wait",
          "echo_on", "judge", "exchange", "connect"}
Asking == Named \cup {"off", "start", "username_check", "username", "username_wait"}
Connected == {"send", "receive", "receive_wait", "close"}

ExchangeShape ==
  /\ DOMAIN backend = Backends /\ DOMAIN frontend = Frontends
  /\ DOMAIN conn = Frontends /\ DOMAIN queue = Backends
  /\ \A b \in Backends :
       {"pc", "client", "verified", "received", "response", "sent", "code"}
         \subseteq DOMAIN backend[b]
  /\ \A f \in Frontends :
       /\ {"pc", "username", "password", "interrupted", "received", "report", "code"}
            \subseteq DOMAIN frontend[f]
       /\ DOMAIN conn[f] = {"server", "open", "request", "sent", "response", "answered"}

QueueInv(b) ==
  /\ queue[b] \in Seq(Frontends)
  /\ \A f \in Waiting(b) :
       conn[f].server = b /\ (backend[b].pc \in Early => "backend" \in conn[f].open)

\* What main() has, place by place: who was accepted, whether the peer was
\* verified, what was read of the request and sent of the response.
ServiceInv(b) ==
  /\ backend[b].pc \in Early \cup {"verify"} \cup Reads \cup Writes \cup Late
  /\ backend[b].client \in Frontends \cup {"none"}
  /\ backend[b].received \in 0..RequestParts /\ backend[b].sent \in 0..ResponseParts
  /\ backend[b].pc \in Early => backend[b].client = "none"
  /\ backend[b].pc \in {"verify"} \cup Reads \cup Writes => backend[b].client # "none"
  /\ backend[b].client = "none" \/ backend[b].pc = "verify" =>
       ~backend[b].verified /\ backend[b].received = 0 /\ backend[b].response = NoResponse
  /\ backend[b].pc \in Reads =>
       /\ backend[b].verified /\ backend[b].response = NoResponse
       /\ backend[b].received < RequestParts
  /\ backend[b].pc \in Writes =>
       backend[b].response # NoResponse /\ backend[b].sent < ResponseParts
  /\ backend[b].response = NoResponse => backend[b].sent = 0
  /\ backend[b].verified =>
       /\ backend[b].client \in TrustedPeers
       /\ backend[b].response # NoResponse => backend[b].received = RequestParts
  /\ backend[b].code = "success" =>
       backend[b].verified /\ backend[b].sent = ResponseParts /\ backend[b].pc \in Late
  /\ backend[b].response.result = "success" =>
       backend[b].verified /\ TypedTheAccount(backend[b].client)
  /\ backend[b].response # Malformed

\* The two ends of an accepted connection agree on it.
ClientInv(b) ==
  backend[b].client # "none" =>
    LET c == conn[backend[b].client] IN
    /\ c.server = b
    /\ c.answered = backend[b].sent
    /\ c.answered # 0 => c.response = backend[b].response
    /\ backend[b].received <= c.sent
    /\ backend[b].pc \in {"verify"} \cup Reads \cup Writes => "backend" \in c.open

\* What a connection carries comes from its frontend and from the backend that
\* accepted it, or from a stranger.
ConnectionInv(f) ==
  /\ conn[f].server \in Backends \cup {"none", "foreign"}
  /\ conn[f].sent \in 0..RequestParts /\ conn[f].answered \in 0..ResponseParts
  /\ conn[f].open \subseteq {"frontend", "backend"}
  /\ conn[f].server = "none" => conn[f].answered = 0 /\ conn[f].open = {}
  /\ conn[f].answered = 0 => conn[f].response = NoResponse
  /\ conn[f].answered # 0 =>
       conn[f].server = "foreign" \/ backend[conn[f].server].client = f
  /\ conn[f].server # "none" => frontend[f].pc \notin Asking /\ conn[f].request = Request(f)

NameRead(f) ==
  frontend[f].username \in UsernameLines /\ Accepts(frontend[f].username, UsernameMax)
PasswordRead(f) ==
  frontend[f].password \in PasswordLines /\ Accepts(frontend[f].password, PasswordMax)

SessionInv(f) ==
  /\ frontend[f].pc \in Asking \cup Connected \cup {"cleanup", "exited"}
  /\ frontend[f].password \in PasswordLines \cup {EndOfInput}
  /\ frontend[f].pc \in Named \/ conn[f].server # "none" => NameRead(f)
  /\ frontend[f].pc \in {"exchange", "connect"} \/ conn[f].server # "none" => PasswordRead(f)
  /\ frontend[f].pc \in Connected => conn[f].server # "none"
  /\ frontend[f].pc = "send" => conn[f].sent < RequestParts
  /\ frontend[f].received \in 0..ResponseParts /\ frontend[f].received <= conn[f].answered
  /\ frontend[f].pc \in {"send", "receive", "receive_wait"} =>
       frontend[f].received < ResponseParts
  /\ frontend[f].code = "success" =>
       conn[f].response.result = "success" /\ frontend[f].received = ResponseParts

\* A frontend that is done with a backend and was not disturbed has the whole
\* answer, or will never be sent it: it has closed its end, or the backend
\* has, or the request is not complete.
DeliveryInv(f) ==
  /\ frontend[f].pc \in {"cleanup", "exited"} => "frontend" \notin conn[f].open
  /\ frontend[f].pc = "close" /\ ~frontend[f].interrupted
       /\ frontend[f].received # ResponseParts =>
       "backend" \notin conn[f].open \/ conn[f].sent # RequestParts
  /\ ( /\ frontend[f].pc \in {"close", "cleanup", "exited"} /\ frontend[f].code # "killed"
       /\ ~frontend[f].interrupted /\ conn[f].sent = RequestParts
       /\ conn[f].server \in Backends
       /\ conn[f].answered = ResponseParts /\ "close" \notin Faults ) =>
       IF frontend[f].pc = "close" THEN frontend[f].received = ResponseParts
       ELSE frontend[f].report = conn[f].response

ExchangeInv ==
  /\ ExchangeShape
  /\ \A b \in Backends : QueueInv(b) /\ ServiceInv(b) /\ ClientInv(b)
  /\ \A f \in Frontends : ConnectionInv(f) /\ SessionInv(f) /\ DeliveryInv(f)

-----------------------------------------------------------------------------
(* What a step of a backend means to its client.                           *)

Untouched(b) ==
  /\ backend'[b].pc = backend[b].pc /\ backend'[b].client = backend[b].client
  /\ backend'[b].verified = backend[b].verified /\ backend'[b].received = backend[b].received
  /\ backend'[b].response = backend[b].response /\ backend'[b].sent = backend[b].sent
  /\ backend'[b].code = backend[b].code

\* Only b, its queue and its connections change.
Within(b) ==
  /\ ExchangeShape' /\ frontend' = frontend
  /\ \A c \in Backends \ {b} : Untouched(c) /\ queue'[c] = queue[c]
  /\ \A f \in Frontends : conn'[f] = conn[f] \/ conn[f].server = b

SameAnswer(b) ==
  /\ backend'[b].client = backend[b].client /\ backend'[b].verified = backend[b].verified
  /\ backend'[b].received = backend[b].received
  /\ backend'[b].response = backend[b].response /\ backend'[b].sent = backend[b].sent

\* From one call to the next in the same part of main(), or out of it; on the
\* way out the connections are closed.
Passing(b) ==
  /\ SameAnswer(b)
  /\ \/ backend'[b].pc = backend[b].pc
     \/ \E part \in {Early, Reads, Writes} : {backend[b].pc, backend'[b].pc} \subseteq part
     \/ backend'[b].pc \in Late
  /\ backend'[b].code = "success" => backend[b].code = "success"
  /\ \A f \in Frontends :
       \/ conn'[f] = conn[f]
       \/ conn'[f] = [conn[f] EXCEPT !.open = @ \ {"backend"}] /\ backend'[b].pc \in Late
  /\ queue'[b] \in {queue[b], <<>>}

Taking(b) ==
  /\ backend[b].pc \in Early /\ backend'[b].pc = "verify" /\ queue[b] # <<>>
  /\ backend'[b].client = Head(queue[b]) /\ queue'[b] = Tail(queue[b])
  /\ backend'[b].verified = backend[b].verified /\ backend'[b].received = backend[b].received
  /\ backend'[b].response = backend[b].response /\ backend'[b].sent = backend[b].sent
  /\ backend'[b].code = backend[b].code /\ conn' = conn

Judging(b) ==
  /\ backend[b].pc = "verify" /\ queue' = queue /\ conn' = conn
  /\ \/ /\ backend[b].client \in TrustedPeers /\ backend'[b].pc = "read_check"
        /\ backend'[b].verified = TRUE /\ backend'[b].response = backend[b].response
     \/ /\ backend'[b].pc = "write_check"
        /\ backend'[b].verified = backend[b].verified /\ backend'[b].response = Rejection
  /\ backend'[b].client = backend[b].client /\ backend'[b].received = backend[b].received
  /\ backend'[b].sent = backend[b].sent /\ backend'[b].code = backend[b].code

Hearing(b) ==
  /\ backend[b].pc \in Reads /\ queue' = queue /\ conn' = conn
  /\ \E n \in 1..Available(b) :
       /\ backend'[b].received = backend[b].received + n
       /\ IF backend[b].received + n = RequestParts
          THEN /\ backend'[b].pc = "write_check"
               /\ backend'[b].response = process_request(conn[backend[b].client].request, Credential)
          ELSE backend'[b].pc = "read_check" /\ backend'[b].response = backend[b].response
  /\ backend'[b].client = backend[b].client /\ backend'[b].verified = backend[b].verified
  /\ backend'[b].sent = backend[b].sent /\ backend'[b].code = backend[b].code

Telling(b) ==
  /\ backend[b].pc = "write" /\ queue' = queue /\ ~PeerGone(b)
  /\ \E n \in 1..(ResponseParts - backend[b].sent) :
       /\ backend'[b].sent = backend[b].sent + n
       /\ IF backend[b].sent + n = ResponseParts
          THEN /\ backend'[b].pc \in Late
               /\ backend'[b].code = IF backend[b].verified THEN "success" ELSE backend[b].code
          ELSE backend'[b].pc = "write_check" /\ backend'[b].code = backend[b].code
       /\ conn' = [conn EXCEPT ![backend[b].client].answered = backend[b].sent + n,
                               ![backend[b].client].response = backend[b].response]
  /\ backend'[b].client = backend[b].client /\ backend'[b].verified = backend[b].verified
  /\ backend'[b].received = backend[b].received /\ backend'[b].response = backend[b].response

LEMMA SetUpPasses ==
  ASSUME NEW b \in Backends, ExchangeInv, UNCHANGED frontend,
         \/ InstallHandlers(b) \/ LoadCredential(b) \/ DropPrivileges(b) \/ InspectPath(b)
         \/ RemoveStale(b) \/ Bind(b) \/ Chmod(b) \/ Listen(b) \/ UndoBind(b)
  PROVE  Within(b) /\ Passing(b)
<1>1. queue' = queue /\ conn' = conn /\ ExchangeShape
  BY DEF ExchangeInv, InstallHandlers, LoadCredential, DropPrivileges, InspectPath, RemoveStale,
         Bind, Chmod, Listen, UndoBind, channel
<1>2. PICK place : /\ place \in Early \cup Late /\ backend[b].pc \in Early
                   /\ \/ Goto(b, place)
                      \/ backend' = [backend EXCEPT ![b].pc = place, ![b].credential = TRUE]
                      \/ backend' = [backend EXCEPT ![b].pc = place, ![b].server_fd = "open"]
  BY DEF InstallHandlers, LoadCredential, DropPrivileges, InspectPath, RemoveStale,
         Bind, Chmod, Listen, UndoBind, Fail, Goto, Early, Late
<1>3. /\ ExchangeShape' /\ SameAnswer(b) /\ backend'[b].pc = place
      /\ backend'[b].code = backend[b].code
      /\ \A c \in Backends \ {b} : backend'[c] = backend[c]
  BY <1>1, <1>2 DEF ExchangeShape, Goto, SameAnswer
<1> QED
  BY <1>1, <1>2, <1>3 DEF Within, Passing, Untouched

LEMMA ServingPasses ==
  ASSUME NEW b \in Backends, ExchangeInv, UNCHANGED frontend,
         \/ AcceptCheck(b) \/ AcceptSleeps(b) \/ ReadCheck(b) \/ ReadEnds(b) \/ ReadSleeps(b)
         \/ WriteCheck(b) \/ WriteFails(b) \/ ClearRequest(b)
  PROVE  Within(b) /\ Passing(b)
<1>1. queue' = queue /\ conn' = conn /\ ExchangeShape
  BY DEF ExchangeInv, AcceptCheck, AcceptSleeps, ReadCheck, ReadEnds, ReadSleeps, WriteCheck,
         WriteFails, ClearRequest, StopCheck, channel
<1>2. PICK place : /\ \/ place \in Late
                      \/ \E part \in {Early, Reads, Writes} : {backend[b].pc, place} \subseteq part
                   /\ \/ Goto(b, place)
                      \/ backend' = [backend EXCEPT ![b].request = FALSE, ![b].pc = place]
  <2> USE DEF Early, Reads, Writes, Late
  <2>1. CASE AcceptCheck(b) \/ ReadCheck(b) \/ WriteCheck(b)
    BY <2>1 DEF AcceptCheck, ReadCheck, WriteCheck, StopCheck, AfterClient
  <2>2. CASE AcceptSleeps(b) \/ ReadEnds(b) \/ ReadSleeps(b) \/ WriteFails(b) \/ ClearRequest(b)
    BY <2>2 DEF AcceptSleeps, ReadEnds, ReadSleeps, WriteFails, ClearRequest, AfterClient
  <2> QED
    BY <2>1, <2>2
<1>3. /\ ExchangeShape' /\ SameAnswer(b) /\ backend'[b].pc = place
      /\ backend'[b].code = backend[b].code
      /\ \A c \in Backends \ {b} : backend'[c] = backend[c]
  BY <1>1, <1>2 DEF ExchangeShape, Goto, SameAnswer
<1> QED
  BY <1>1, <1>2, <1>3 DEF Within, Passing, Untouched

\* Who waits in b's queue, or was accepted by b, has connected to b.
LEMMA OwnConnections ==
  ASSUME NEW b \in Backends, ExchangeInv
  PROVE  \A f \in Frontends : f \in Waiting(b) \/ f = backend[b].client => conn[f].server = b
<1>1. "none" \notin Frontends
  BY SocketAssumption
<1> QED
  BY <1>1 DEF ExchangeInv, QueueInv, ClientInv

LEMMA EndPasses ==
  ASSUME NEW b \in Backends, ExchangeInv, UNCHANGED frontend,
         \/ CloseClient(b) \/ CloseServer(b) \/ UnlinkPath(b) \/ ReturnBackend(b)
         \/ StopBackend(b) \/ KillBackend(b)
  PROVE  Within(b) /\ Passing(b)
<1>1. ExchangeShape /\ ServiceInv(b)
  BY DEF ExchangeInv
<1> USE DEF Goto, ExchangeShape, SameAnswer, channel
<1> DEFINE Kept == /\ SameAnswer(b) /\ frontend' = frontend
                   /\ \A c \in Backends \ {b} : backend'[c] = backend[c] /\ queue'[c] = queue[c]
                   /\ DOMAIN backend' = Backends /\ DOMAIN queue' = Backends
                   /\ \A c \in Backends : DOMAIN backend'[c] = DOMAIN backend[c]
           Let(fs) == /\ DOMAIN conn' = Frontends
                      /\ \A f \in Frontends :
                           conn'[f] = IF f \in fs THEN [conn[f] EXCEPT !.open = @ \ {"backend"}]
                                      ELSE conn[f]
<1>2. ASSUME Kept, backend'[b].pc \in Late, backend'[b].code \in {backend[b].code, "failure", "killed"},
             queue'[b] \in {queue[b], <<>>},
             conn' = conn \/ \E fs \in SUBSET Frontends : Let(fs) /\ \A f \in fs : conn[f].server = b
      PROVE  Within(b) /\ Passing(b)
  <2>1. /\ DOMAIN conn' = Frontends
        /\ \A f \in Frontends :
             \/ conn'[f] = conn[f]
             \/ conn'[f] = [conn[f] EXCEPT !.open = @ \ {"backend"}] /\ conn[f].server = b
    BY <1>1, <1>2
  <2>2. \A f \in Frontends : DOMAIN conn'[f] = DOMAIN conn[f]
    BY <2>1
  <2>3. ExchangeShape'
    BY <1>1, <1>2, <2>1, <2>2
  <2> QED
    BY <1>2, <2>1, <2>3 DEF Within, Passing, Untouched
<1> HIDE DEF Let
<1>3. CASE CloseClient(b)
  <2>1. Kept /\ backend'[b].pc \in Late /\ queue' = queue /\ backend'[b].code = backend[b].code
    BY <1>1, <1>3 DEF CloseClient, Late
  <2>2. conn' = conn \/ Let({backend[b].client})
    BY <1>1, <1>3 DEF CloseClient, Closed, Let
  <2>3. conn' = conn \/ backend[b].client \in Frontends
    BY <1>1, <1>3 DEF CloseClient, ServiceInv
  <2>4. conn' = conn \/ \E fs \in SUBSET Frontends : Let(fs) /\ \A f \in fs : conn[f].server = b
    BY <2>2, <2>3, OwnConnections
  <2> QED
    BY <1>2, <2>1, <2>4
<1>4. CASE CloseServer(b)
  <2>1. Kept /\ backend'[b].pc \in Late /\ queue'[b] \in {queue[b], <<>>} /\ backend'[b].code = backend[b].code
    BY <1>1, <1>4 DEF CloseServer, Drained, Late
  <2>2. conn' = conn \/ Let(Waiting(b) \cap Frontends)
    BY <1>1, <1>4 DEF CloseServer, Reset, Let
  <2>3. conn' = conn \/ \E fs \in SUBSET Frontends : Let(fs) /\ \A f \in fs : conn[f].server = b
    BY <2>2, OwnConnections
  <2> QED
    BY <1>2, <2>1, <2>3
<1>5. CASE UnlinkPath(b) \/ ReturnBackend(b)
  <2>1. /\ Kept /\ backend'[b].pc \in Late /\ queue' = queue /\ conn' = conn
        /\ backend'[b].code \in {backend[b].code, "failure"}
    BY <1>1, <1>5 DEF UnlinkPath, ReturnBackend, Late
  <2> QED
    BY <1>2, <2>1
<1>6. CASE Gone(b)
  <2>1. /\ Kept /\ backend'[b].pc \in Late /\ queue'[b] = <<>> /\ backend'[b].code = "killed"
    BY <1>1, <1>6 DEF Gone, Drained, Late
  <2>2. Let((Waiting(b) \cup {backend[b].client}) \cap Frontends)
    BY <1>1, <1>6 DEF Gone, Reset, Let
  <2>3. \E fs \in SUBSET Frontends : Let(fs) /\ \A f \in fs : conn[f].server = b
    BY <2>2, OwnConnections
  <2> QED
    BY <1>2, <2>1, <2>3
<1>7. CASE StopBackend(b) /\ ~Gone(b)
  <2>1. /\ Kept /\ queue' = queue /\ conn' = conn /\ backend'[b].code = backend[b].code
        /\ backend'[b].pc = backend[b].pc \/ backend'[b].pc \in Late
    BY <1>1, <1>7 DEF StopBackend, Late
  <2>2. ExchangeShape'
    BY <1>1, <2>1
  <2> QED
    BY <2>1, <2>2 DEF Within, Passing, Untouched
<1> QED
  BY <1>3, <1>4, <1>5, <1>6, <1>7 DEF StopBackend, KillBackend

LEMMA AcceptTakes ==
  ASSUME NEW b \in Backends, ExchangeInv, UNCHANGED frontend, Accept(b)
  PROVE  Within(b) /\ Taking(b)
<1>1. /\ backend' = [backend EXCEPT ![b].pc = "verify", ![b].client = Head(queue[b])]
      /\ queue' = [queue EXCEPT ![b] = Tail(@)] /\ conn' = conn
      /\ backend[b].pc \in Early /\ queue[b] # <<>> /\ ExchangeShape
  BY DEF Accept, Accepted, Early, ExchangeInv
<1>2. ExchangeShape' /\ \A c \in Backends \ {b} : backend'[c] = backend[c] /\ queue'[c] = queue[c]
  BY <1>1 DEF ExchangeShape
<1> QED
  BY <1>1, <1>2 DEF ExchangeShape, Within, Taking, Untouched

LEMMA VerifyJudges ==
  ASSUME NEW b \in Backends, ExchangeInv, UNCHANGED frontend, VerifyPeer(b)
  PROVE  Within(b) /\ Judging(b)
<1>1. ExchangeShape /\ conn' = conn /\ queue' = queue
  BY DEF VerifyPeer, ExchangeInv, channel
<1>2. ExchangeShape' /\ \A c \in Backends \ {b} : backend'[c] = backend[c]
  BY <1>1 DEF ExchangeShape, VerifyPeer
<1>3. Judging(b)
  BY <1>1 DEF ExchangeShape, VerifyPeer, Judging
<1> QED
  BY <1>1, <1>2, <1>3 DEF Within, Untouched

LEMMA ReadHears ==
  ASSUME NEW b \in Backends, ExchangeInv, UNCHANGED frontend, Read(b)
  PROVE  Within(b) /\ Hearing(b)
<1>1. ExchangeShape /\ conn' = conn /\ queue' = queue /\ backend[b].pc \in Reads
  BY DEF Read, ExchangeInv, channel, Reads
<1>2. PICK n \in 1..Available(b) :
        backend' = [backend EXCEPT
          ![b].received = backend[b].received + n,
          ![b].request = TRUE,
          ![b].pc = IF backend[b].received + n = RequestParts THEN "write_check" ELSE "read_check",
          ![b].response = IF backend[b].received + n = RequestParts
                          THEN process_request(conn[backend[b].client].request, Credential)
                          ELSE @]
  BY DEF Read
<1>3. ExchangeShape' /\ \A c \in Backends \ {b} : backend'[c] = backend[c]
  BY <1>1, <1>2 DEF ExchangeShape
<1>4. /\ backend'[b].received = backend[b].received + n
      /\ IF backend[b].received + n = RequestParts
         THEN /\ backend'[b].pc = "write_check"
              /\ backend'[b].response = process_request(conn[backend[b].client].request, Credential)
         ELSE backend'[b].pc = "read_check" /\ backend'[b].response = backend[b].response
      /\ backend'[b].client = backend[b].client /\ backend'[b].verified = backend[b].verified
      /\ backend'[b].sent = backend[b].sent /\ backend'[b].code = backend[b].code
  BY <1>1, <1>2 DEF ExchangeShape
<1> QED
  BY <1>1, <1>3, <1>4 DEF Within, Untouched, Hearing

LEMMA WriteTells ==
  ASSUME NEW b \in Backends, ExchangeInv, UNCHANGED frontend, Write(b)
  PROVE  Within(b) /\ Telling(b)
<1>1. ExchangeShape /\ queue' = queue /\ backend[b].pc = "write" /\ ~PeerGone(b)
  BY DEF Write, ExchangeInv
<1>2. PICK n \in 1..(ResponseParts - backend[b].sent) :
        /\ backend' = [backend EXCEPT
             ![b].sent = backend[b].sent + n,
             ![b].pc = IF backend[b].sent + n = ResponseParts THEN AfterClient(b) ELSE "write_check",
             ![b].code = IF backend[b].sent + n = ResponseParts /\ backend[b].verified
                         THEN "success" ELSE @]
        /\ conn' = [conn EXCEPT ![backend[b].client].answered = backend[b].sent + n,
                                ![backend[b].client].response = backend[b].response]
  BY DEF Write
<1>3. /\ DOMAIN backend' = Backends /\ \A c \in Backends \ {b} : backend'[c] = backend[c]
      /\ DOMAIN backend'[b] = DOMAIN backend[b]
      /\ DOMAIN conn' = Frontends
      /\ \A f \in Frontends : /\ DOMAIN conn'[f] = DOMAIN conn[f]
                              /\ f # backend[b].client => conn'[f] = conn[f]
  BY <1>1, <1>2 DEF ExchangeShape
<1>4. /\ backend'[b].sent = backend[b].sent + n
      /\ backend'[b].pc = IF backend[b].sent + n = ResponseParts THEN AfterClient(b) ELSE "write_check"
      /\ backend'[b].code = IF backend[b].sent + n = ResponseParts /\ backend[b].verified
                            THEN "success" ELSE backend[b].code
      /\ backend'[b].client = backend[b].client /\ backend'[b].verified = backend[b].verified
      /\ backend'[b].received = backend[b].received /\ backend'[b].response = backend[b].response
  BY <1>1, <1>2 DEF ExchangeShape
<1>5. AfterClient(b) \in Late
  BY DEF AfterClient, Late
<1>6. Within(b)
  BY <1>1, <1>3, OwnConnections DEF ExchangeShape, Within, Untouched
<1> QED
  BY <1>1, <1>2, <1>4, <1>5, <1>6 DEF Telling

-----------------------------------------------------------------------------
(* A backend's step keeps the invariant.                                    *)

\* A backend that b's step does not concern.
LEMMA BystanderBackend ==
  ASSUME ExchangeInv, NEW b \in Backends, Within(b), NEW c \in Backends \ {b}
  PROVE  QueueInv(c)' /\ ServiceInv(c)' /\ ClientInv(c)'
<1>1. Untouched(c) /\ queue'[c] = queue[c] /\ frontend' = frontend
  BY DEF Within
<1>2. \A f \in Frontends : f \in Waiting(c) \/ f = backend[c].client => conn'[f] = conn[f]
  BY OwnConnections DEF Within
<1>3. QueueInv(c)'
  <2>1. QueueInv(c) /\ Waiting(c)' = Waiting(c)
    BY <1>1 DEF ExchangeInv, Waiting
  <2>2. \A f \in Waiting(c) : f \in Frontends
    BY <2>1 DEF QueueInv, Waiting
  <2> QED
    BY <1>1, <1>2, <2>1, <2>2 DEF QueueInv, Untouched
<1>4. ServiceInv(c)'
  <2>1. ServiceInv(c)
    BY DEF ExchangeInv
  <2>2. TypedTheAccount(backend[c].client)' <=> TypedTheAccount(backend[c].client)
    BY <1>1 DEF TypedTheAccount, Untouched
  <2> QED
    BY <1>1, <2>1, <2>2 DEF ServiceInv, Untouched
<1>5. ClientInv(c)'
  BY <1>1, <1>2 DEF ExchangeInv, ClientInv, ServiceInv, Untouched
<1> QED
  BY <1>3, <1>4, <1>5

\* A frontend whose connection does not change, if it has one the backend of
\* which does not take another client.
LEMMA BystanderFrontend ==
  ASSUME ExchangeInv, NEW b \in Backends, Within(b), NEW f \in Frontends, conn'[f] = conn[f],
         backend'[b].client = backend[b].client \/ backend[b].client = "none"
  PROVE  ConnectionInv(f)' /\ SessionInv(f)' /\ DeliveryInv(f)'
<1>1. frontend' = frontend /\ \A c \in Backends \ {b} : backend'[c].client = backend[c].client
  BY DEF Within, Untouched
<1>2. ConnectionInv(f)'
  BY <1>1, SocketAssumption DEF ExchangeInv, ConnectionInv, Request
<1>3. SessionInv(f)'
  BY <1>1 DEF ExchangeInv, SessionInv, NameRead, PasswordRead
<1>4. DeliveryInv(f)'
  BY <1>1 DEF ExchangeInv, DeliveryInv
<1> QED
  BY <1>2, <1>3, <1>4

\* Closing the backend's end takes nothing back of what was sent.
LEMMA ClosedFrontend ==
  ASSUME ExchangeInv, NEW b \in Backends, Within(b), NEW f \in Frontends,
         conn'[f] = [conn[f] EXCEPT !.open = @ \ {"backend"}],
         backend'[b].client = backend[b].client
  PROVE  ConnectionInv(f)' /\ SessionInv(f)' /\ DeliveryInv(f)'
<1>1. frontend' = frontend /\ \A c \in Backends \ {b} : backend'[c].client = backend[c].client
  BY DEF Within, Untouched
<1>2. /\ conn'[f].server = conn[f].server /\ conn'[f].request = conn[f].request
      /\ conn'[f].sent = conn[f].sent /\ conn'[f].answered = conn[f].answered
      /\ conn'[f].response = conn[f].response /\ conn'[f].open = conn[f].open \ {"backend"}
  BY DEF ExchangeInv, ExchangeShape
<1>3. ConnectionInv(f)'
  BY <1>1, <1>2, SocketAssumption DEF ExchangeInv, ConnectionInv, Request
<1>4. SessionInv(f)'
  BY <1>1, <1>2 DEF ExchangeInv, SessionInv, NameRead, PasswordRead
<1>5. DeliveryInv(f)'
  BY <1>1, <1>2 DEF ExchangeInv, DeliveryInv
<1> QED
  BY <1>3, <1>4, <1>5

LEMMA PassingKeeps ==
  ASSUME ExchangeInv, NEW b \in Backends, Within(b), Passing(b)
  PROVE  ExchangeInv'
<1>1. /\ \A c \in Backends \ {b} : QueueInv(c)' /\ ServiceInv(c)' /\ ClientInv(c)'
      /\ \A f \in Frontends : ConnectionInv(f)' /\ SessionInv(f)' /\ DeliveryInv(f)'
      /\ ExchangeShape'
  BY BystanderBackend, BystanderFrontend, ClosedFrontend DEF Passing, SameAnswer, Within
<1>2. QueueInv(b) /\ ServiceInv(b) /\ ClientInv(b) /\ frontend' = frontend
  BY DEF ExchangeInv, Within
<1>3. /\ backend'[b].pc = backend[b].pc \/ backend'[b].pc \in Late
           \/ {backend[b].pc, backend'[b].pc} \subseteq Early
           \/ {backend[b].pc, backend'[b].pc} \subseteq Reads
           \/ {backend[b].pc, backend'[b].pc} \subseteq Writes
      /\ SameAnswer(b) /\ (backend'[b].code = "success" => backend[b].code = "success")
  BY DEF Passing
<1>4. \A f \in Frontends :
        /\ conn'[f].server = conn[f].server /\ conn'[f].sent = conn[f].sent
        /\ conn'[f].answered = conn[f].answered /\ conn'[f].response = conn[f].response
        /\ backend'[b].pc \notin Late => conn'[f] = conn[f]
  BY DEF Passing, ExchangeInv, ExchangeShape
<1>5. QueueInv(b)'
  <2>1. queue'[b] \in Seq(Frontends) /\ Waiting(b)' \subseteq Waiting(b)
    <3>1. CASE queue'[b] = queue[b]
      BY <1>2, <3>1 DEF QueueInv, Waiting
    <3>2. CASE queue'[b] = <<>>
      <4>1. Waiting(b)' = {}
        BY <3>2 DEF Waiting
      <4> QED
        BY <3>2, <4>1
    <3> QED
      BY <3>1, <3>2 DEF Passing
  <2>2. \A f \in Waiting(b) : f \in Frontends
    BY <1>2 DEF QueueInv, Waiting
  <2> QED
    BY <1>2, <1>3, <1>4, <2>1, <2>2 DEF QueueInv, Early, Late, Reads, Writes
<1>6. ServiceInv(b)'
  <2>1. TypedTheAccount(backend[b].client)' <=> TypedTheAccount(backend[b].client)
    BY <1>2, <1>3 DEF TypedTheAccount, SameAnswer
  <2> QED
    BY <1>2, <1>3, <2>1 DEF ServiceInv, SameAnswer, Early, Late, Reads, Writes
<1>7. ClientInv(b)'
  BY <1>2, <1>3, <1>4 DEF ClientInv, ServiceInv, SameAnswer, Early, Late, Reads, Writes
<1> QED
  BY <1>1, <1>5, <1>6, <1>7 DEF ExchangeInv

LEMMA TakingKeeps ==
  ASSUME ExchangeInv, NEW b \in Backends, Within(b), Taking(b)
  PROVE  ExchangeInv'
<1>1. QueueInv(b) /\ ServiceInv(b) /\ frontend' = frontend /\ conn' = conn /\ ExchangeShape'
  BY DEF ExchangeInv, Within, Taking
<1>2. backend[b].client = "none" /\ ~backend[b].verified /\ backend[b].response = NoResponse
  BY <1>1 DEF Taking, ServiceInv
<1>3. /\ \A c \in Backends \ {b} : QueueInv(c)' /\ ServiceInv(c)' /\ ClientInv(c)'
      /\ \A f \in Frontends : ConnectionInv(f)' /\ SessionInv(f)' /\ DeliveryInv(f)'
  BY <1>1, <1>2, BystanderBackend, BystanderFrontend
<1>4. QueueInv(b)' /\ Head(queue[b]) \in Waiting(b) \cap Frontends
  <2>1. queue[b] \in Seq(Frontends) /\ queue[b] # <<>> /\ queue'[b] = Tail(queue[b])
    BY <1>1 DEF QueueInv, Taking
  <2>2. /\ Head(queue[b]) \in Frontends /\ Head(queue[b]) = queue[b][1] /\ 1 \in DOMAIN queue[b]
        /\ queue'[b] \in Seq(Frontends)
        /\ \A i \in DOMAIN queue'[b] : i + 1 \in DOMAIN queue[b] /\ queue'[b][i] = queue[b][i + 1]
    BY <2>1
  <2>3. Waiting(b)' \subseteq Waiting(b) /\ Head(queue[b]) \in Waiting(b)
    BY <2>2 DEF Waiting
  <2> QED
    BY <1>1, <2>2, <2>3 DEF QueueInv, Taking, Early
<1>5. ServiceInv(b)'
  <2>1. NoResponse.result # "success" /\ NoResponse # Malformed
    BY DEF NoResponse, Malformed, Response
  <2>2. /\ backend'[b].pc = "verify" /\ backend'[b].client \in Frontends \ {"none"}
        /\ ~backend'[b].verified /\ backend'[b].received = 0 /\ backend'[b].sent = 0
        /\ backend'[b].response = NoResponse /\ backend'[b].code # "success"
    <3>1. backend[b].pc \notin Late
      BY DEF Taking, Early, Late
    <3> QED
      BY <1>1, <1>2, <1>4, <3>1, SocketAssumption DEF ServiceInv, Taking
  <2> QED
    BY <2>1, <2>2, SocketAssumption DEF ServiceInv, Early, Late, Reads, Writes
<1>6. ClientInv(b)'
  <2> DEFINE f == Head(queue[b])
  <2>1. f \in Frontends /\ f \in Waiting(b) /\ backend'[b].client = f /\ ConnectionInv(f)
    BY <1>4 DEF Taking, ExchangeInv
  <2>2. conn[f].server = b /\ "backend" \in conn[f].open
    BY <1>1, <2>1 DEF QueueInv, Taking
  <2>3. f # "none" /\ conn[f].answered = 0 /\ conn[f].sent \in Nat
    BY <1>2, <2>1, <2>2, SocketAssumption DEF ConnectionInv
  <2>4. backend'[b].sent = 0 /\ backend'[b].received = 0
    BY <1>1, <1>2 DEF ServiceInv, Taking
  <2> HIDE DEF f
  <2> QED
    BY <1>1, <2>1, <2>2, <2>3, <2>4 DEF ClientInv
<1> QED
  BY <1>1, <1>3, <1>4, <1>5, <1>6 DEF ExchangeInv

\* The comparison tells a stored string from every other one a user can type.
LEMMA EqualMeansStored ==
  ASSUME NEW maximum \in Nat, NEW value \in Stored(maximum),
         NEW text \in Seq(Nat \ {NUL}), Len(text) \in 1..maximum,
         secure_string_equal(Packed(text, maximum), Length(Packed(text, maximum)),
                             value, Length(value), maximum)
  PROVE  value = Packed(text, maximum)
<1> DEFINE packed == Packed(text, maximum)
<1>1. PICK n \in 1..maximum :
        /\ value \in [1..(maximum + 1) -> Nat]
        /\ \A i \in 1..(maximum + 1) : value[i] = NUL <=> i > n
  BY DEF Stored
<1>2. Length(value) = n
  <2>1. /\ DOMAIN value \subseteq Nat \ {0} /\ 1..(n + 1) \subseteq DOMAIN value
        /\ \A i \in 1..n : value[i] # NUL
        /\ value[n + 1] = NUL
    BY <1>1
  <2> QED
    BY <2>1, LengthOfString
<1>3. \A i \in 1..Len(text) : text[i] # NUL
  OBVIOUS
<1>4. Length(packed) = Len(text) /\ Len(text) \in 0..maximum
  BY <1>3, LengthOfPacked
<1>5. packed = [i \in 1..(maximum + 1) |-> IF i <= Len(text) THEN text[i] ELSE NUL]
  BY DEF Packed
<1> HIDE DEF packed
<1>6. secure_string_equal(packed, Len(text), value, n, maximum)
  BY <1>2, <1>4 DEF packed
<1>7. Len(text) = n /\ \A i \in 1..n : packed[i] = value[i]
  <2>1. PICK m \in 0..maximum : m = Len(text)
    BY <1>4
  <2>2. n \in 0..maximum /\ secure_string_equal(packed, m, value, n, maximum)
    BY <1>6, <2>1
  <2>3. m = n /\ \A i \in 1..m : packed[i] = value[i]
    <3>1. /\ m = n
          /\ {i \in 1..maximum : (IF i <= m THEN packed[i] ELSE NUL) # (IF i <= n THEN value[i] ELSE NUL)} = {}
      BY <2>2 DEF secure_string_equal
    <3>2. \A i \in 1..maximum : i <= m => packed[i] = value[i]
      BY <3>1
    <3> QED
      BY <3>1, <3>2
  <2> QED
    BY <2>1, <2>3
<1>8. ASSUME NEW i \in 1..(maximum + 1)
      PROVE  packed[i] = value[i]
  <2>1. CASE i <= n
    BY <1>7, <2>1
  <2>2. CASE i > n
    <3>1. value[i] = NUL
      BY <1>1, <2>2
    <3>2. packed[i] = NUL
      BY <1>5, <1>7, <2>2
    <3> QED
      BY <3>1, <3>2
  <2> QED
    BY <2>1, <2>2
<1>9. value = packed
  BY <1>1, <1>5, <1>8
<1> QED
  BY <1>9 DEF packed

\* process_request() always decides, and grants nothing but the account.
LEMMA GrantedIsTheAccount ==
  ASSUME NEW f \in Frontends, NameRead(f), PasswordRead(f),
         process_request(Request(f), Credential).result = "success"
  PROVE  TypedTheAccount(f)
<1> DEFINE u == frontend[f].username.text
           p == frontend[f].password.text
<1>1. /\ Request(f).username = Packed(u, UsernameMax) /\ Request(f).password = Packed(p, PasswordMax)
  BY DEF Request
<1>2. Matches(Request(f), Credential)
  BY DEF process_request, Response
<1>3. /\ u \in Seq(Nat \ {NUL}) /\ Len(u) \in 1..UsernameMax /\ frontend[f].username.newline
      /\ p \in Seq(Nat \ {NUL}) /\ Len(p) \in 1..PasswordMax /\ frontend[f].password.newline
  BY LinesAssumption DEF NameRead, PasswordRead, Accepts
<1>4. /\ Credential = [username |-> Credential.username, password |-> Credential.password]
      /\ Credential.username \in Stored(UsernameMax) /\ Credential.password \in Stored(PasswordMax)
  BY CredentialAssumption
<1> HIDE DEF u, p
<1>5. Credential.username = Packed(u, UsernameMax)
  BY <1>1, <1>2, <1>3, <1>4, EqualMeansStored, LimitsAssumption DEF Matches
<1>6. Credential.password = Packed(p, PasswordMax)
  BY <1>1, <1>2, <1>3, <1>4, EqualMeansStored, LimitsAssumption DEF Matches
<1> QED
  BY <1>3, <1>4, <1>5, <1>6 DEF TypedTheAccount, u, p

LEMMA RequestIsDecided ==
  ASSUME NEW request, NEW credential
  PROVE  process_request(request, credential) \notin {NoResponse, Malformed}
<1>1. process_request(request, credential).result \in {"rejected", "success", "invalid_credentials"}
  BY DEF process_request, Response
<1> QED
  BY <1>1 DEF NoResponse, Malformed, Response

LEMMA JudgingKeeps ==
  ASSUME ExchangeInv, NEW b \in Backends, Within(b), Judging(b)
  PROVE  ExchangeInv'
<1>1. QueueInv(b) /\ ServiceInv(b) /\ ClientInv(b) /\ frontend' = frontend /\ conn' = conn /\ ExchangeShape'
  BY DEF ExchangeInv, Within, Judging
<1>2. /\ \A c \in Backends \ {b} : QueueInv(c)' /\ ServiceInv(c)' /\ ClientInv(c)'
      /\ \A f \in Frontends : ConnectionInv(f)' /\ SessionInv(f)' /\ DeliveryInv(f)'
  BY <1>1, BystanderBackend, BystanderFrontend DEF Judging
<1>3. /\ backend[b].client \in Frontends \ {"none"} /\ backend[b].received = 0
      /\ backend[b].response = NoResponse /\ backend[b].sent = 0 /\ ~backend[b].verified
      /\ backend[b].code # "success"
  BY <1>1 DEF ServiceInv, Judging, Late
<1>4. /\ NoResponse.result # "success" /\ Rejection.result # "success" /\ Rejection # NoResponse
      /\ Malformed \notin {NoResponse, Rejection}
  BY DEF NoResponse, Malformed, Response, Rejection
<1>5. QueueInv(b)'
  BY <1>1 DEF QueueInv, Waiting, Judging, Early
<1>6. ServiceInv(b)'
  <2>1. CASE backend'[b].pc = "read_check"
    BY <1>3, <1>4, <2>1, SocketAssumption DEF ServiceInv, Judging, Early, Late, Reads, Writes
  <2>2. CASE backend'[b].pc = "write_check"
    BY <1>3, <1>4, <2>2, SocketAssumption DEF ServiceInv, Judging, Early, Late, Reads, Writes
  <2> QED
    BY <2>1, <2>2 DEF Judging
<1>7. ClientInv(b)'
  BY <1>1, <1>3 DEF ClientInv, Judging
<1> QED
  BY <1>1, <1>2, <1>5, <1>6, <1>7 DEF ExchangeInv

LEMMA HearingKeeps ==
  ASSUME ExchangeInv, NEW b \in Backends, Within(b), Hearing(b)
  PROVE  ExchangeInv'
<1>1. QueueInv(b) /\ ServiceInv(b) /\ ClientInv(b) /\ frontend' = frontend /\ conn' = conn /\ ExchangeShape'
  BY DEF ExchangeInv, Within, Hearing
<1>2. /\ \A c \in Backends \ {b} : QueueInv(c)' /\ ServiceInv(c)' /\ ClientInv(c)'
      /\ \A f \in Frontends : ConnectionInv(f)' /\ SessionInv(f)' /\ DeliveryInv(f)'
  BY <1>1, BystanderBackend, BystanderFrontend DEF Hearing
<1> DEFINE f == backend[b].client
           answer == process_request(conn[f].request, Credential)
<1>3. /\ f \in Frontends \ {"none"} /\ backend[b].received \in Nat
      /\ backend[b].response = NoResponse /\ backend[b].sent = 0 /\ backend[b].verified
      /\ backend[b].code # "success" /\ f \in TrustedPeers
  BY <1>1 DEF ServiceInv, Hearing, Reads, Late
<1>4. /\ conn[f].server = b /\ conn[f].answered = 0 /\ "backend" \in conn[f].open
      /\ conn[f].sent \in 0..RequestParts /\ conn[f].request = Request(f)
      /\ NameRead(f) /\ PasswordRead(f)
  <2>1. ConnectionInv(f) /\ SessionInv(f)
    BY <1>3 DEF ExchangeInv
  <2>2. conn[f].server = b /\ conn[f].answered = 0 /\ "backend" \in conn[f].open
    BY <1>1, <1>3 DEF ClientInv, Hearing
  <2> QED
    BY <2>1, <2>2, SocketAssumption DEF ConnectionInv, SessionInv
<1>5. /\ answer \notin {NoResponse, Malformed} /\ NoResponse.result # "success"
      /\ NoResponse # Malformed
  BY RequestIsDecided DEF NoResponse, Malformed, Response
<1>6. answer.result = "success" => TypedTheAccount(f)
  BY <1>3, <1>4, GrantedIsTheAccount
<1> HIDE DEF answer
<1>7. PICK n \in 1..Available(b) :
        /\ backend'[b].received = backend[b].received + n
        /\ IF backend[b].received + n = RequestParts
           THEN backend'[b].pc = "write_check" /\ backend'[b].response = answer
           ELSE backend'[b].pc = "read_check" /\ backend'[b].response = NoResponse
  BY <1>3 DEF Hearing, answer
<1>8. /\ backend'[b].received \in 0..RequestParts /\ backend'[b].received <= conn[f].sent
      /\ backend'[b].pc = "read_check" => backend'[b].received < RequestParts
  BY <1>3, <1>4, <1>7, SocketAssumption DEF Available
<1>9. /\ backend'[b].client = f /\ backend'[b].verified /\ backend'[b].sent = 0
      /\ backend'[b].code # "success"
  BY <1>3 DEF Hearing
<1>10. TypedTheAccount(f)' <=> TypedTheAccount(f)
  BY <1>1, <1>9 DEF TypedTheAccount, Hearing
<1> HIDE DEF f
<1>11. QueueInv(b)'
  BY <1>1, <1>7 DEF QueueInv, Waiting, Hearing, Early
<1>12. ServiceInv(b)'
  <2>1. CASE backend'[b].pc = "read_check"
    BY <1>3, <1>5, <1>7, <1>8, <1>9, <2>1, SocketAssumption DEF ServiceInv, Early, Late, Reads, Writes
  <2>2. CASE backend'[b].pc = "write_check"
    <3>1. TypedTheAccount(backend[b].client)' <=> TypedTheAccount(f)
      BY <1>9, <1>10 DEF f, Hearing
    <3> QED
      BY <1>3, <1>5, <1>6, <1>7, <1>8, <1>9, <2>2, <3>1, SocketAssumption
         DEF ServiceInv, Early, Late, Reads, Writes
  <2> QED
    BY <1>7, <2>1, <2>2
<1>13. ClientInv(b)'
  BY <1>1, <1>4, <1>8, <1>9 DEF ClientInv
<1> QED
  BY <1>1, <1>2, <1>11, <1>12, <1>13 DEF ExchangeInv

LEMMA TellingKeeps ==
  ASSUME ExchangeInv, NEW b \in Backends, Within(b), Telling(b)
  PROVE  ExchangeInv'
<1>1. QueueInv(b) /\ ServiceInv(b) /\ ClientInv(b) /\ frontend' = frontend /\ ExchangeShape /\ ExchangeShape'
  BY DEF ExchangeInv, Within
<1>0. PICK f \in Frontends : f = backend[b].client /\ f # "none"
  BY <1>1 DEF ServiceInv, Telling, Writes
<1>2. /\ backend[b].sent \in 0..ResponseParts
      /\ backend[b].sent < ResponseParts /\ backend[b].response # NoResponse
      /\ backend[b].code # "success"
  BY <1>1 DEF ServiceInv, Telling, Writes, Late
<1>3. /\ conn[f].server = b /\ conn[f].answered = backend[b].sent
      /\ conn[f].answered # 0 => conn[f].response = backend[b].response
      /\ backend[b].received <= conn[f].sent
      /\ "backend" \in conn[f].open /\ "frontend" \in conn[f].open
  BY <1>0, <1>1, <1>2 DEF ClientInv, Telling, Writes, PeerGone
<1>4. ConnectionInv(f) /\ SessionInv(f) /\ DeliveryInv(f)
  BY DEF ExchangeInv
<1>5. PICK n \in 1..(ResponseParts - backend[b].sent) :
        /\ backend'[b].sent = backend[b].sent + n
        /\ IF backend[b].sent + n = ResponseParts
           THEN /\ backend'[b].pc \in Late
                /\ backend'[b].code = IF backend[b].verified THEN "success" ELSE backend[b].code
           ELSE backend'[b].pc = "write_check" /\ backend'[b].code = backend[b].code
        /\ conn' = [conn EXCEPT ![f].answered = backend[b].sent + n,
                                ![f].response = backend[b].response]
  BY <1>0 DEF Telling
<1>6. /\ \A g \in Frontends \ {f} : conn'[g] = conn[g]
      /\ conn'[f].server = conn[f].server /\ conn'[f].request = conn[f].request
      /\ conn'[f].sent = conn[f].sent /\ conn'[f].open = conn[f].open
      /\ conn'[f].answered = backend[b].sent + n /\ conn'[f].response = backend[b].response
  BY <1>1, <1>5 DEF ExchangeShape
<1>7. /\ backend[b].sent + n \in 1..ResponseParts
      /\ backend'[b].sent = backend[b].sent + n
      /\ backend'[b].client = f /\ backend'[b].verified = backend[b].verified
      /\ backend'[b].received = backend[b].received /\ backend'[b].response = backend[b].response
  BY <1>0, <1>2, <1>5, SocketAssumption DEF Telling
<1>8. \A c \in Backends \ {b} : QueueInv(c)' /\ ServiceInv(c)' /\ ClientInv(c)'
  BY BystanderBackend
<1>9. \A g \in Frontends \ {f} : ConnectionInv(g)' /\ SessionInv(g)' /\ DeliveryInv(g)'
  BY <1>0, <1>6, <1>7, BystanderFrontend
<1>10. QueueInv(b)'
  <2>1. Waiting(b)' = Waiting(b) /\ queue' = queue /\ backend'[b].pc \notin Early
    BY <1>5 DEF Waiting, Telling, Early, Late
  <2>2. \A g \in Waiting(b) : g \in Frontends
    BY <1>1 DEF QueueInv, Waiting
  <2> QED
    BY <1>1, <1>6, <2>1, <2>2 DEF QueueInv
<1>11. ServiceInv(b)'
  <2>1. TypedTheAccount(backend[b].client)' <=> TypedTheAccount(backend[b].client)
    BY <1>0, <1>1, <1>7 DEF TypedTheAccount
  <2>2. backend[b].verified => f \in TrustedPeers /\ backend[b].received = RequestParts
    BY <1>0, <1>1, <1>2 DEF ServiceInv
  <2>3. /\ backend[b].received \in 0..RequestParts /\ backend[b].response # Malformed
        /\ backend[b].response.result = "success" =>
             backend[b].verified /\ TypedTheAccount(backend[b].client)
    BY <1>1 DEF ServiceInv
  <2>4. CASE backend[b].sent + n = ResponseParts
    <3>1. /\ backend'[b].pc \in Late /\ backend'[b].sent = ResponseParts
          /\ backend'[b].code = "success" => backend[b].verified
      BY <1>2, <1>5, <1>7, <2>4
    <3> QED
      BY <1>0, <1>2, <1>7, <2>1, <2>2, <2>3, <3>1, SocketAssumption DEF ServiceInv, Early, Late, Reads, Writes
  <2>5. CASE backend[b].sent + n # ResponseParts
    <3>1. /\ backend'[b].pc = "write_check" /\ backend'[b].code # "success"
          /\ backend'[b].sent \in 1..ResponseParts /\ backend'[b].sent < ResponseParts
      BY <1>2, <1>5, <1>7, <2>5, SocketAssumption
    <3> QED
      BY <1>0, <1>2, <1>7, <2>1, <2>2, <2>3, <3>1, SocketAssumption DEF ServiceInv, Early, Late, Reads, Writes
  <2> QED
    BY <2>4, <2>5
<1>12. ClientInv(b)'
  BY <1>0, <1>2, <1>3, <1>6, <1>7 DEF ClientInv
<1>13. ConnectionInv(f)'
  BY <1>1, <1>3, <1>4, <1>6, <1>7, SocketAssumption DEF ConnectionInv, Request
<1>14. SessionInv(f)'
  <2>1. frontend[f].received <= conn'[f].answered
    BY <1>2, <1>3, <1>4, <1>6, <1>7 DEF SessionInv
  <2>2. NoResponse.result # "success"
    BY DEF NoResponse, Response
  <2>3. frontend[f].code = "success" => conn'[f].response.result = "success"
    BY <1>3, <1>4, <1>6, <2>2 DEF SessionInv, ConnectionInv
  <2> QED
    BY <1>1, <1>4, <1>6, <2>1, <2>3 DEF SessionInv, NameRead, PasswordRead
<1>15. DeliveryInv(f)'
  BY <1>1, <1>3, <1>4, <1>6 DEF DeliveryInv
<1> QED
  BY <1>1, <1>8, <1>9, <1>10, <1>11, <1>12, <1>13, <1>14, <1>15 DEF ExchangeInv

-----------------------------------------------------------------------------
(* What a step of a frontend means to its connection.                      *)

Apart(f) ==
  /\ ExchangeShape' /\ backend' = backend
  /\ \A g \in Frontends \ {f} : frontend'[g] = frontend[g] /\ conn'[g] = conn[g]

SameLines(f) ==
  frontend'[f].username = frontend[f].username /\ frontend'[f].password = frontend[f].password

SameReport(f) ==
  /\ frontend'[f].received = frontend[f].received /\ frontend'[f].report = frontend[f].report
  /\ frontend'[f].code = frontend[f].code

\* The prompts, and an attempt to connect that is refused.
Prompting(f) ==
  /\ frontend[f].pc \in Asking /\ frontend'[f].pc \in Asking \cup {"cleanup"}
  /\ frontend'[f].password \in PasswordLines \cup {EndOfInput}
  /\ frontend'[f].pc \in Named => NameRead(f)'
  /\ frontend'[f].pc \in {"exchange", "connect"} => PasswordRead(f)'
  /\ SameReport(f) /\ queue' = queue /\ conn' = conn

Connecting(f) ==
  /\ frontend[f].pc = "connect" /\ frontend'[f].pc = "send"
  /\ SameLines(f) /\ SameReport(f) /\ frontend'[f].interrupted = frontend[f].interrupted
  /\ \E server \in Backends \cup {"foreign"} :
       /\ NewConnection(server, f, Request(f))
       /\ \A b \in Backends :
            queue'[b] = IF b = server THEN Append(queue[b], f) ELSE queue[b]

Sending(f) ==
  /\ frontend[f].pc = "send" /\ queue' = queue
  /\ SameLines(f) /\ SameReport(f) /\ frontend'[f].interrupted = frontend[f].interrupted
  /\ \E n \in 1..(RequestParts - conn[f].sent) :
       /\ conn' = [conn EXCEPT ![f].sent = @ + n]
       /\ frontend'[f].pc = IF conn[f].sent + n = RequestParts THEN "receive" ELSE "send"

Receiving(f) ==
  /\ frontend[f].pc \in {"receive", "receive_wait"} /\ queue' = queue /\ conn' = conn
  /\ SameLines(f) /\ frontend'[f].interrupted = frontend[f].interrupted
  /\ frontend'[f].report = frontend[f].report /\ frontend'[f].code = frontend[f].code
  /\ \E n \in 1..Answered(f) :
       /\ frontend'[f].received = frontend[f].received + n
       /\ frontend'[f].pc = IF frontend[f].received + n = ResponseParts THEN "close" ELSE "receive"

\* The exchange goes on, or ends, with what there is.
Settling(f) ==
  /\ frontend[f].pc \in Connected \cup {"cleanup"} /\ queue' = queue /\ conn' = conn
  /\ SameLines(f)
  /\ frontend'[f].received = frontend[f].received /\ frontend'[f].report = frontend[f].report
  /\ \/ /\ frontend[f].pc \in {"send", "receive", "receive_wait"} /\ frontend'[f].pc = "close"
        /\ ServerGone(f) /\ (frontend[f].pc = "send" \/ Answered(f) = 0)
        /\ frontend'[f].interrupted = frontend[f].interrupted /\ frontend'[f].code = frontend[f].code
     \/ /\ frontend[f].pc = "receive" /\ frontend'[f].pc = "receive_wait"
        /\ frontend'[f].interrupted = frontend[f].interrupted /\ frontend'[f].code = frontend[f].code
     \/ /\ frontend[f].pc = "cleanup" /\ frontend'[f].pc = "exited"
        /\ frontend'[f].interrupted = frontend[f].interrupted
        /\ frontend'[f].code = IF frontend[f].code = "none" THEN "failure" ELSE frontend[f].code
     \/ /\ frontend'[f].interrupted /\ frontend'[f].code = frontend[f].code
        /\ frontend'[f].pc = IF frontend[f].pc = "receive_wait" THEN "close" ELSE frontend[f].pc

Closing(f) ==
  /\ frontend[f].pc = "close" /\ frontend'[f].pc = "cleanup" /\ queue' = queue
  /\ conn' = [conn EXCEPT ![f].open = @ \ {"frontend"}]
  /\ SameLines(f) /\ frontend'[f].received = frontend[f].received
  /\ frontend'[f].interrupted = frontend[f].interrupted
  /\ \E judged \in BOOLEAN :
       /\ judged => frontend[f].received = ResponseParts
       /\ frontend[f].received = ResponseParts /\ conn[f].response # Malformed
            /\ "close" \notin Faults => judged
       /\ frontend'[f].report = IF judged THEN conn[f].response ELSE frontend[f].report
       /\ frontend'[f].code = IF judged /\ conn[f].response.result = "success"
                              THEN "success" ELSE frontend[f].code

Vanishing(f) ==
  /\ frontend[f].pc # "exited" /\ frontend'[f].pc = "exited" /\ frontend'[f].code = "killed" /\ queue' = queue
  /\ conn' = [conn EXCEPT ![f].open = @ \ {"frontend"}]
  /\ SameLines(f) /\ frontend'[f].received = frontend[f].received

\* What was read at the prompts, if the lines and the place stay the same.
LEMMA LinesStay ==
  ASSUME NEW f \in Frontends, SameLines(f)
  PROVE  /\ NameRead(f)' <=> NameRead(f)
         /\ PasswordRead(f)' <=> PasswordRead(f)
         /\ Request(f)' = Request(f)
         /\ TypedTheAccount(f)' <=> TypedTheAccount(f)
BY DEF SameLines, NameRead, PasswordRead, Request, TypedTheAccount

LEMMA PromptsPrompt ==
  ASSUME NEW f \in Frontends, ExchangeInv,
         \/ StartFrontend(f) \/ InstallFrontendHandlers(f) \/ InterruptCheck(f) \/ PromptSleeps(f)
         \/ EnterUsername(f) \/ DisableEcho(f) \/ EnterPassword(f)
         \/ (ConnectToBackend(f) /\ conn' = conn)
  PROVE  Apart(f) /\ Prompting(f)
<1>1. ExchangeShape /\ SessionInv(f)
  BY DEF ExchangeInv
<1> USE DEF Move, channel
<1> DEFINE Rest == /\ ExchangeShape' /\ backend' = backend /\ queue' = queue /\ conn' = conn
                   /\ \A g \in Frontends \ {f} : frontend'[g] = frontend[g]
                   /\ SameReport(f)
<1>2. ASSUME Rest, SameLines(f), frontend[f].pc \in Asking, frontend'[f].pc \in Asking \cup {"cleanup"},
             frontend'[f].pc \in Named => frontend[f].pc \in Named,
             frontend'[f].pc \in {"exchange", "connect"} => frontend[f].pc \in {"exchange", "connect"}
      PROVE  Apart(f) /\ Prompting(f)
  BY <1>1, <1>2, LinesStay DEF Apart, Prompting, SessionInv, SameLines
<1>3. CASE StartFrontend(f) \/ InstallFrontendHandlers(f) \/ PromptSleeps(f) \/ DisableEcho(f)
  <2>1. PICK place : /\ frontend[f].pc \in Asking /\ place \in Asking \cup {"cleanup"}
                     /\ place \in Named => frontend[f].pc \in Named
                     /\ place \notin {"exchange", "connect"}
                     /\ \/ frontend' = [frontend EXCEPT ![f].pc = place]
                        \/ frontend' = [frontend EXCEPT ![f].pc = place, ![f].input = FALSE]
                        \/ frontend' = [frontend EXCEPT ![f].pc = place, ![f].echo = FALSE,
                                                        ![f].restore_required = TRUE]
    BY <1>3 DEF StartFrontend, InstallFrontendHandlers, PromptSleeps, DisableEcho, Asking, Named
  <2>2. backend' = backend /\ queue' = queue /\ conn' = conn
    BY <1>3 DEF StartFrontend, InstallFrontendHandlers, PromptSleeps, DisableEcho
  <2>3. Rest /\ SameLines(f) /\ frontend'[f].pc = place
    BY <1>1, <2>1, <2>2 DEF ExchangeShape, SameReport, SameLines
  <2> QED
    BY <1>2, <2>1, <2>3
<1>4. CASE InterruptCheck(f)
  <2>1. PICK step \in {<<"username_check", "username">>,
                       <<"password_check", "echo_off">>, <<"exchange", "connect">>} :
          /\ frontend[f].pc = step[1]
          /\ frontend' = [frontend EXCEPT
               ![f].pc = IF frontend[f].interrupted THEN "cleanup" ELSE step[2],
               ![f].request = @ /\ ~frontend[f].interrupted]
    BY <1>4 DEF InterruptCheck
  <2>2. PICK place : /\ frontend[f].pc \in Asking /\ place \in Asking \cup {"cleanup"}
                     /\ place \in Named => frontend[f].pc \in Named
                     /\ place \in {"exchange", "connect"} => frontend[f].pc = "exchange"
                     /\ place = IF frontend[f].interrupted THEN "cleanup" ELSE step[2]
    BY <2>1 DEF Asking, Named
  <2>3. backend' = backend /\ queue' = queue /\ conn' = conn
    BY <1>4 DEF InterruptCheck
  <2>4. Rest /\ SameLines(f) /\ frontend'[f].pc = place
    BY <1>1, <2>1, <2>2, <2>3 DEF ExchangeShape, SameReport, SameLines
  <2> QED
    BY <1>2, <2>2, <2>4
<1>5. CASE EnterUsername(f)
  <2>1. PICK line \in UsernameLines :
          frontend' = [frontend EXCEPT
            ![f].username = line,
            ![f].pc = IF Accepts(line, UsernameMax) THEN "password_check" ELSE "cleanup"]
    BY <1>5 DEF EnterUsername
  <2>2. backend' = backend /\ queue' = queue /\ conn' = conn /\ frontend[f].pc \in Asking
    BY <1>5 DEF EnterUsername, Asking
  <2>3. /\ Rest /\ frontend'[f].username = line /\ frontend'[f].password = frontend[f].password
        /\ frontend'[f].pc = IF Accepts(line, UsernameMax) THEN "password_check" ELSE "cleanup"
    BY <1>1, <2>1, <2>2 DEF ExchangeShape, SameReport
  <2> QED
    BY <1>1, <2>2, <2>3 DEF Apart, Prompting, SessionInv, NameRead, Named, Asking
<1>6. CASE EnterPassword(f)
  <2>1. PICK line \in PasswordLines :
          frontend' = [frontend EXCEPT ![f].password = line, ![f].pc = "echo_on",
                                       ![f].input = line # EndOfInput]
    BY <1>6 DEF EnterPassword
  <2>2. /\ backend' = backend /\ queue' = queue /\ conn' = conn
        /\ frontend[f].pc \in Asking \cap Named
    BY <1>6 DEF EnterPassword, Asking, Named
  <2>3. /\ Rest /\ frontend'[f].username = frontend[f].username /\ frontend'[f].password = line
        /\ frontend'[f].pc = "echo_on"
    BY <1>1, <2>1, <2>2 DEF ExchangeShape, SameReport
  <2> QED
    BY <1>1, <2>2, <2>3 DEF Apart, Prompting, SessionInv, NameRead, Named, Asking
<1>7. CASE ConnectToBackend(f) /\ conn' = conn
  <2>1. CASE frontend' = [frontend EXCEPT ![f].request = FALSE, ![f].pc = "cleanup"] /\ queue' = queue
    <3>1. frontend[f].pc \in Asking /\ backend' = backend
      BY <1>7 DEF ConnectToBackend, Asking, Named
    <3>2. Rest /\ SameLines(f) /\ frontend'[f].pc = "cleanup"
      BY <1>1, <1>7, <2>1, <3>1 DEF ExchangeShape, SameReport, SameLines
    <3> QED
      BY <1>2, <3>1, <3>2 DEF Named
  <2>2. CASE \E server \in Backends \cup {"foreign"} : NewConnection(server, f, Request(f))
    <3>1. PICK server \in Backends \cup {"foreign"} : conn'[f].server = server
      BY <1>1, <2>2 DEF NewConnection, NoConnection, ExchangeShape
    <3>2. conn[f].server = "none"
      BY <1>7 DEF ConnectToBackend, ExchangeInv, ConnectionInv, Asking, Named
    <3> QED
      BY <1>7, <3>1, <3>2, SocketAssumption
  <2> QED
    BY <1>7, <2>1, <2>2 DEF ConnectToBackend, Connect, ConnectStranger
<1> QED
  BY <1>3, <1>4, <1>5, <1>6, <1>7

\* read_password() lets only an acceptable line through.
LEMMA PasswordPrompts ==
  ASSUME NEW f \in Frontends, ExchangeInv, EchoCheck(f) \/ RestoreEcho(f) \/ JudgePassword(f)
  PROVE  Apart(f) /\ Prompting(f)
<1> USE DEF JudgePassword, PasswordInterrupted, PasswordNotRead, PasswordTooLong, PasswordEmpty,
        PasswordTaken
<1>1. ExchangeShape /\ SessionInv(f) /\ backend' = backend /\ queue' = queue /\ conn' = conn
  BY DEF ExchangeInv, EchoCheck, RestoreEcho, channel
<1>2. frontend[f].pc \in {"echo_check", "echo_on", "judge"}
  BY DEF EchoCheck, RestoreEcho
<1>3. PICK place :
        /\ place \in {"password", "judge", "cleanup", "exchange"}
        /\ place = "exchange" => Accepts(frontend[f].password, PasswordMax)
        /\ \/ frontend' = [frontend EXCEPT ![f].pc = place]
           \/ frontend' = [frontend EXCEPT ![f].input = FALSE, ![f].pc = place]
           \/ frontend' = [frontend EXCEPT ![f].echo = @ \/ frontend[f].restore_required,
                                           ![f].pc = place]
           \/ frontend' = [frontend EXCEPT ![f].echo = @ \/ frontend[f].restore_required,
                                           ![f].input = FALSE, ![f].pc = place]
           \/ frontend' = [frontend EXCEPT ![f].request = TRUE, ![f].input = FALSE,
                                           ![f].pc = place]
           \/ frontend' = [frontend EXCEPT ![f].restore_failed = TRUE,
                                           ![f].input = FALSE, ![f].pc = place]
  <2>1. CASE EchoCheck(f)
    BY <2>1 DEF EchoCheck, RestoreFails, Move
  <2>2. CASE RestoreEcho(f)
    BY <2>2 DEF RestoreEcho, RestoreFails
  <2>3. CASE JudgePassword(f)
    BY <2>3
  <2> QED
    BY <2>1, <2>2, <2>3
<1>4. /\ ExchangeShape' /\ SameLines(f) /\ SameReport(f) /\ frontend'[f].pc = place
      /\ \A g \in Frontends \ {f} : frontend'[g] = frontend[g]
  BY <1>1, <1>3 DEF ExchangeShape, SameLines, SameReport
<1>5. NameRead(f)
  BY <1>1, <1>2 DEF SessionInv, Named
<1>6. place = "exchange" => PasswordRead(f)
  <2>1. EndOfInput.newline = FALSE
    BY DEF EndOfInput, Line
  <2>2. Accepts(frontend[f].password, PasswordMax) => frontend[f].password # EndOfInput
    BY <2>1 DEF Accepts
  <2> QED
    BY <1>1, <1>3, <2>2 DEF SessionInv, PasswordRead
<1>7. NameRead(f)' /\ (place = "exchange" => PasswordRead(f)')
  BY <1>4, <1>5, <1>6, LinesStay
<1>8. frontend[f].pc \in Asking /\ place \in Asking \cup {"cleanup"} /\ place # "connect"
  BY <1>2, <1>3 DEF Asking, Named
<1>9. frontend'[f].password \in PasswordLines \cup {EndOfInput}
  BY <1>1, <1>4 DEF SessionInv, SameLines
<1> QED
  BY <1>1, <1>4, <1>7, <1>8, <1>9 DEF Apart, Prompting

LEMMA ConnectConnects ==
  ASSUME NEW f \in Frontends, ExchangeInv, ConnectToBackend(f), conn' # conn
  PROVE  Apart(f) /\ Connecting(f)
<1>1. ExchangeShape /\ backend' = backend /\ frontend[f].pc = "connect"
  BY DEF ExchangeInv, ConnectToBackend
<1>2. frontend' = [frontend EXCEPT ![f].pc = "send"]
  BY DEF ConnectToBackend, Move
<1>3. PICK server \in Backends \cup {"foreign"} :
        /\ NewConnection(server, f, Request(f))
        /\ \/ queue' = [queue EXCEPT ![server] = Append(@, f)] /\ server \in Backends
           \/ queue' = queue /\ server = "foreign"
  BY DEF ConnectToBackend, Connect, ConnectStranger
<1>4. /\ DOMAIN queue' = Backends /\ DOMAIN conn' = Frontends
      /\ \A b \in Backends : queue'[b] = IF b = server THEN Append(queue[b], f) ELSE queue[b]
      /\ \A g \in Frontends \ {f} : conn'[g] = conn[g]
      /\ DOMAIN conn'[f] = {"server", "open", "request", "sent", "response", "answered"}
  BY <1>1, <1>3, SocketAssumption DEF NewConnection, NoConnection, ExchangeShape
<1>5. /\ DOMAIN frontend' = Frontends /\ DOMAIN frontend'[f] = DOMAIN frontend[f]
      /\ \A g \in Frontends \ {f} : frontend'[g] = frontend[g]
      /\ SameLines(f) /\ SameReport(f) /\ frontend'[f].pc = "send"
      /\ frontend'[f].interrupted = frontend[f].interrupted
  BY <1>1, <1>2 DEF ExchangeShape, SameLines, SameReport
<1>6. ExchangeShape'
  BY <1>1, <1>4, <1>5 DEF ExchangeShape
<1> QED
  BY <1>1, <1>3, <1>4, <1>5, <1>6 DEF Apart, Connecting

LEMMA SendSends ==
  ASSUME NEW f \in Frontends, ExchangeInv, Send(f)
  PROVE  Apart(f) /\ Sending(f)
<1>1. ExchangeShape /\ backend' = backend /\ queue' = queue /\ frontend[f].pc = "send"
  BY DEF ExchangeInv, Send
<1>2. PICK n \in 1..(RequestParts - conn[f].sent) :
        /\ conn' = [conn EXCEPT ![f].sent = @ + n]
        /\ frontend' = [frontend EXCEPT
             ![f].pc = IF conn[f].sent + n = RequestParts THEN "receive" ELSE @,
             ![f].request = @ /\ ~(conn[f].sent + n = RequestParts)]
  BY DEF Send
<1>3. /\ DOMAIN frontend' = Frontends /\ DOMAIN frontend'[f] = DOMAIN frontend[f]
      /\ \A g \in Frontends \ {f} : frontend'[g] = frontend[g]
      /\ SameLines(f) /\ SameReport(f) /\ frontend'[f].interrupted = frontend[f].interrupted
      /\ frontend'[f].pc = IF conn[f].sent + n = RequestParts THEN "receive" ELSE "send"
  BY <1>1, <1>2 DEF ExchangeShape, SameLines, SameReport
<1>4. /\ DOMAIN conn' = Frontends /\ DOMAIN conn'[f] = DOMAIN conn[f]
      /\ \A g \in Frontends \ {f} : conn'[g] = conn[g]
  BY <1>1, <1>2 DEF ExchangeShape
<1>5. ExchangeShape'
  BY <1>1, <1>3, <1>4 DEF ExchangeShape
<1> QED
  BY <1>1, <1>2, <1>3, <1>4, <1>5 DEF Apart, Sending

LEMMA ReceiveReceives ==
  ASSUME NEW f \in Frontends, ExchangeInv, Receive(f)
  PROVE  Apart(f) /\ Receiving(f)
<1>1. /\ ExchangeShape /\ backend' = backend /\ queue' = queue /\ conn' = conn
      /\ frontend[f].pc \in {"receive", "receive_wait"}
  BY DEF ExchangeInv, Receive, channel
<1>2. PICK n \in 1..Answered(f) :
        frontend' = [frontend EXCEPT
          ![f].received = @ + n,
          ![f].pc = IF frontend[f].received + n = ResponseParts THEN "close" ELSE "receive"]
  BY DEF Receive
<1>3. /\ ExchangeShape' /\ \A g \in Frontends \ {f} : frontend'[g] = frontend[g]
      /\ SameLines(f) /\ frontend'[f].interrupted = frontend[f].interrupted
      /\ frontend'[f].report = frontend[f].report /\ frontend'[f].code = frontend[f].code
      /\ frontend'[f].received = frontend[f].received + n
      /\ frontend'[f].pc = IF frontend[f].received + n = ResponseParts THEN "close" ELSE "receive"
  BY <1>1, <1>2 DEF ExchangeShape, SameLines
<1> QED
  BY <1>1, <1>3 DEF Apart, Receiving

LEMMA EndSettles ==
  ASSUME NEW f \in Frontends, ExchangeInv,
         SendFails(f) \/ ReceiveEnds(f) \/ ReceiveSleeps(f) \/ ReturnFrontend(f)
  PROVE  Apart(f) /\ Settling(f)
<1>1. ExchangeShape /\ backend' = backend /\ queue' = queue /\ conn' = conn
  BY DEF ExchangeInv, SendFails, ReceiveEnds, ReceiveSleeps, ReturnFrontend, channel
<1>2. /\ ExchangeShape' /\ \A g \in Frontends \ {f} : frontend'[g] = frontend[g]
      /\ SameLines(f) /\ frontend'[f].interrupted = frontend[f].interrupted
      /\ frontend'[f].report = frontend[f].report /\ frontend'[f].received = frontend[f].received
  BY <1>1 DEF ExchangeShape, SameLines, SendFails, ReceiveEnds, ReceiveSleeps, ReturnFrontend, Move
<1>3. \/ /\ frontend[f].pc \in {"send", "receive", "receive_wait"} /\ frontend'[f].pc = "close"
         /\ ServerGone(f) /\ (frontend[f].pc = "send" \/ Answered(f) = 0)
         /\ frontend'[f].code = frontend[f].code
      \/ /\ frontend[f].pc = "receive" /\ frontend'[f].pc = "receive_wait"
         /\ frontend'[f].code = frontend[f].code
      \/ /\ frontend[f].pc = "cleanup" /\ frontend'[f].pc = "exited"
         /\ frontend'[f].code = IF frontend[f].code = "none" THEN "failure" ELSE frontend[f].code
  BY <1>1 DEF ExchangeShape, SendFails, ReceiveEnds, ReceiveSleeps, ReturnFrontend, Move
<1> QED
  BY <1>1, <1>2, <1>3 DEF Apart, Settling, Connected

LEMMA CloseCloses ==
  ASSUME NEW f \in Frontends, ExchangeInv, CloseAndReport(f)
  PROVE  Apart(f) /\ Closing(f)
<1>1. /\ ExchangeShape /\ backend' = backend /\ queue' = queue /\ frontend[f].pc = "close"
      /\ conn' = [conn EXCEPT ![f].open = @ \ {"frontend"}]
  BY DEF ExchangeInv, CloseAndReport, Closed
<1>2. PICK judged \in BOOLEAN :
        /\ judged => frontend[f].received = ResponseParts
        /\ frontend[f].received = ResponseParts /\ conn[f].response # Malformed
             /\ "close" \notin Faults => judged
        /\ frontend' = [frontend EXCEPT
             ![f].pc = "cleanup",
             ![f].report = IF judged THEN conn[f].response ELSE @,
             ![f].code = IF judged /\ conn[f].response.result = "success" THEN "success" ELSE @]
  BY DEF CloseAndReport
<1>3. /\ DOMAIN frontend' = Frontends /\ DOMAIN frontend'[f] = DOMAIN frontend[f]
      /\ \A g \in Frontends \ {f} : frontend'[g] = frontend[g]
      /\ SameLines(f) /\ frontend'[f].interrupted = frontend[f].interrupted
      /\ frontend'[f].received = frontend[f].received /\ frontend'[f].pc = "cleanup"
      /\ frontend'[f].report = IF judged THEN conn[f].response ELSE frontend[f].report
      /\ frontend'[f].code = IF judged /\ conn[f].response.result = "success"
                             THEN "success" ELSE frontend[f].code
  BY <1>1, <1>2 DEF ExchangeShape, SameLines
<1>4. /\ DOMAIN conn' = Frontends /\ DOMAIN conn'[f] = DOMAIN conn[f]
      /\ \A g \in Frontends \ {f} : conn'[g] = conn[g]
  BY <1>1 DEF ExchangeShape
<1>5. ExchangeShape'
  BY <1>1, <1>3, <1>4 DEF ExchangeShape
<1> QED
  BY <1>1, <1>2, <1>3, <1>4, <1>5 DEF Apart, Closing

LEMMA KillVanishes ==
  ASSUME NEW f \in Frontends, ExchangeInv, FrontendGone(f), frontend[f].pc # "exited"
  PROVE  Apart(f) /\ Vanishing(f)
<1>1. /\ ExchangeShape /\ backend' = backend /\ queue' = queue
      /\ conn' = [conn EXCEPT ![f].open = @ \ {"frontend"}]
      /\ frontend' = [frontend EXCEPT ![f].pc = "exited", ![f].code = "killed"]
  BY DEF ExchangeInv, FrontendGone, Closed
<1>2. /\ DOMAIN conn' = Frontends /\ DOMAIN conn'[f] = DOMAIN conn[f]
      /\ \A g \in Frontends \ {f} : conn'[g] = conn[g]
  BY <1>1 DEF ExchangeShape
<1>3. /\ DOMAIN frontend' = Frontends /\ DOMAIN frontend'[f] = DOMAIN frontend[f]
      /\ \A g \in Frontends \ {f} : frontend'[g] = frontend[g]
      /\ SameLines(f) /\ frontend'[f].received = frontend[f].received
      /\ frontend'[f].pc = "exited" /\ frontend'[f].code = "killed"
  BY <1>1 DEF ExchangeShape, SameLines
<1>4. ExchangeShape'
  BY <1>1, <1>2, <1>3 DEF ExchangeShape
<1> QED
  BY <1>1, <1>2, <1>3, <1>4 DEF Apart, Vanishing

LEMMA InterruptPromptsOrSettles ==
  ASSUME NEW f \in Frontends, ExchangeInv, InterruptFrontend(f), ~FrontendGone(f)
  PROVE  Apart(f) /\ (Prompting(f) \/ Settling(f))
<1>1. /\ ExchangeShape /\ backend' = backend /\ queue' = queue /\ conn' = conn /\ SessionInv(f)
      /\ frontend[f].pc \notin {"off", "exited"}
      /\ frontend' = [frontend EXCEPT
           ![f].interrupted = TRUE,
           ![f].pc = CASE @ = "username_wait" -> "cleanup"
                       [] @ = "password_wait" -> "echo_on"
                       [] @ = "receive_wait" -> "close"
                       [] OTHER -> @]
  BY DEF ExchangeInv, InterruptFrontend, Finished, channel
<1>2. /\ ExchangeShape' /\ \A g \in Frontends \ {f} : frontend'[g] = frontend[g]
      /\ SameLines(f) /\ SameReport(f) /\ frontend'[f].interrupted
      /\ frontend'[f].pc = CASE frontend[f].pc = "username_wait" -> "cleanup"
                             [] frontend[f].pc = "password_wait" -> "echo_on"
                             [] frontend[f].pc = "receive_wait" -> "close"
                             [] OTHER -> frontend[f].pc
  BY <1>1 DEF ExchangeShape, SameLines, SameReport
<1>3. CASE frontend[f].pc \in Asking
  <2>1. /\ frontend'[f].pc \in Asking \cup {"cleanup"}
        /\ frontend'[f].pc \in Named => frontend[f].pc \in Named
        /\ frontend'[f].pc \in {"exchange", "connect"} => frontend[f].pc \in {"exchange", "connect"}
    BY <1>2, <1>3 DEF Asking, Named
  <2> QED
    BY <1>1, <1>2, <1>3, <2>1, LinesStay DEF Apart, Prompting, SessionInv, SameLines
<1>4. CASE frontend[f].pc \in Connected \cup {"cleanup"}
  <2>1. frontend'[f].pc = IF frontend[f].pc = "receive_wait" THEN "close" ELSE frontend[f].pc
    BY <1>2, <1>4 DEF Connected
  <2> QED
    BY <1>1, <1>2, <1>4, <2>1 DEF Apart, Settling, SameReport
<1> QED
  BY <1>1, <1>3, <1>4 DEF SessionInv

-----------------------------------------------------------------------------
(* A frontend's step keeps the invariant.                                   *)

LEMMA OtherFrontends ==
  ASSUME ExchangeInv, NEW f \in Frontends, Apart(f), NEW g \in Frontends \ {f}
  PROVE  ConnectionInv(g)' /\ SessionInv(g)' /\ DeliveryInv(g)'
<1>1. frontend'[g] = frontend[g] /\ conn'[g] = conn[g] /\ backend' = backend
  BY DEF Apart
<1>2. ConnectionInv(g)'
  BY <1>1 DEF ExchangeInv, ConnectionInv, Request
<1>3. SessionInv(g)'
  BY <1>1 DEF ExchangeInv, SessionInv, NameRead, PasswordRead
<1>4. DeliveryInv(g)'
  BY <1>1 DEF ExchangeInv, DeliveryInv
<1> QED
  BY <1>2, <1>3, <1>4

\* To the backends the connection is what it was, with more of the request.
Conserved(f) ==
  /\ queue' = queue
  /\ conn'[f].server = conn[f].server /\ conn'[f].request = conn[f].request
  /\ conn'[f].answered = conn[f].answered /\ conn'[f].response = conn[f].response
  /\ conn'[f].sent \in 0..RequestParts /\ conn[f].sent <= conn'[f].sent
  /\ conn'[f].open \in {conn[f].open, conn[f].open \ {"frontend"}}

LEMMA BackendsKeep ==
  ASSUME ExchangeInv, NEW f \in Frontends, Apart(f), Conserved(f),
         SameLines(f) \/ conn[f].server = "none", NEW b \in Backends
  PROVE  QueueInv(b)' /\ ServiceInv(b)' /\ ClientInv(b)'
<1>1. QueueInv(b) /\ ServiceInv(b) /\ ClientInv(b) /\ backend' = backend /\ b # "none"
  BY SocketAssumption DEF ExchangeInv, Apart
<1>2. QueueInv(b)'
  <2>1. Waiting(b)' = Waiting(b) /\ queue' = queue
    BY DEF Waiting, Conserved
  <2>2. \A g \in Waiting(b) : g \in Frontends
    BY <1>1 DEF QueueInv, Waiting
  <2> QED
    BY <1>1, <2>1, <2>2 DEF QueueInv, Apart, Conserved
<1>3. ServiceInv(b)'
  <2>1. ASSUME backend[b].client \in Frontends
        PROVE  TypedTheAccount(backend[b].client)' <=> TypedTheAccount(backend[b].client)
    <3>1. CASE backend[b].client = f
      <4>1. conn[f].server = b
        BY <3>1, OwnConnections
      <4>2. TypedTheAccount(f)' <=> TypedTheAccount(f)
        BY <1>1, <4>1, LinesStay
      <4> QED
        BY <1>1, <3>1, <4>2
    <3>2. CASE backend[b].client # f
      <4>1. frontend'[backend[b].client] = frontend[backend[b].client]
        BY <2>1, <3>2 DEF Apart
      <4> QED
        BY <1>1, <4>1 DEF TypedTheAccount
    <3> QED
      BY <3>1, <3>2
  <2>2. backend[b].client = "none" => backend[b].response.result # "success"
    BY <1>1 DEF ServiceInv, NoResponse, Response
  <2> QED
    BY <1>1, <2>1, <2>2 DEF ServiceInv
<1>4. ClientInv(b)'
  <2>1. CASE backend[b].client = "none"
    BY <1>1, <2>1 DEF ClientInv
  <2>2. CASE backend[b].client = f
    <3>1. conn[f].sent \in Nat /\ backend[b].received \in Nat
      BY <1>1 DEF ExchangeInv, ConnectionInv, ServiceInv
    <3> QED
      BY <1>1, <2>2, <3>1 DEF ClientInv, Conserved
  <2>3. CASE backend[b].client \in Frontends \ {f}
    BY <1>1, <2>3 DEF ClientInv, Apart
  <2> QED
    BY <1>1, <2>1, <2>2, <2>3 DEF ServiceInv
<1> QED
  BY <1>2, <1>3, <1>4

LEMMA FrontendKeeps ==
  ASSUME ExchangeInv, NEW f \in Frontends, Apart(f), Conserved(f),
         SameLines(f) \/ conn[f].server = "none",
         ConnectionInv(f)' /\ SessionInv(f)' /\ DeliveryInv(f)'
  PROVE  ExchangeInv'
<1>1. ExchangeShape'
  BY DEF Apart
<1>2. \A g \in Frontends : ConnectionInv(g)' /\ SessionInv(g)' /\ DeliveryInv(g)'
  BY OtherFrontends
<1>3. \A b \in Backends : QueueInv(b)' /\ ServiceInv(b)' /\ ClientInv(b)'
  BY BackendsKeep
<1> QED
  BY <1>1, <1>2, <1>3 DEF ExchangeInv

LEMMA PromptingKeeps ==
  ASSUME ExchangeInv, NEW f \in Frontends, Apart(f), Prompting(f)
  PROVE  ExchangeInv'
<1>1. /\ ConnectionInv(f) /\ SessionInv(f) /\ DeliveryInv(f) /\ backend' = backend /\ conn' = conn
  BY DEF ExchangeInv, Apart, Prompting
<1>2. conn[f].server = "none" /\ conn[f].answered = 0 /\ conn[f].open = {}
  BY <1>1 DEF ConnectionInv, Prompting
<1>3. Conserved(f)
  BY <1>1 DEF Conserved, Prompting, ConnectionInv
<1>4. ConnectionInv(f)'
  BY <1>1, <1>2 DEF ConnectionInv
<1>5. SessionInv(f)'
  <2>1. frontend'[f].pc \notin Connected
    BY DEF Prompting, Connected, Asking, Named
  <2>2. frontend'[f].pc \in Asking \cup Connected \cup {"cleanup", "exited"}
    BY DEF Prompting
  <2>3. frontend'[f].pc \notin {"send", "receive", "receive_wait"}
    BY <2>1 DEF Connected
  <2>4. frontend'[f].received = frontend[f].received /\ frontend'[f].code = frontend[f].code
    BY DEF Prompting, SameReport
  <2>5. /\ frontend'[f].password \in PasswordLines \cup {EndOfInput}
        /\ frontend'[f].pc \in Named => NameRead(f)'
        /\ frontend'[f].pc \in {"exchange", "connect"} => PasswordRead(f)'
    BY DEF Prompting
  <2> QED
    BY <1>1, <1>2, <2>1, <2>2, <2>3, <2>4, <2>5 DEF SessionInv
<1>6. DeliveryInv(f)'
  <2>1. frontend'[f].pc # "close"
    BY DEF Prompting, Asking, Named
  <2> QED
    BY <1>1, <1>2, <2>1, SocketAssumption DEF DeliveryInv
<1> QED
  BY <1>2, <1>3, <1>4, <1>5, <1>6, FrontendKeeps

LEMMA SendingKeeps ==
  ASSUME ExchangeInv, NEW f \in Frontends, Apart(f), Sending(f)
  PROVE  ExchangeInv'
<1>1. /\ ConnectionInv(f) /\ SessionInv(f) /\ DeliveryInv(f) /\ backend' = backend /\ ExchangeShape
      /\ SameLines(f) /\ frontend[f].pc = "send"
  BY DEF ExchangeInv, Apart, Sending
<1>2. PICK n \in 1..(RequestParts - conn[f].sent) :
       /\ conn' = [conn EXCEPT ![f].sent = @ + n]
       /\ frontend'[f].pc = IF conn[f].sent + n = RequestParts THEN "receive" ELSE "send"
  BY DEF Sending
<1>3. /\ conn'[f].server = conn[f].server /\ conn'[f].request = conn[f].request
      /\ conn'[f].answered = conn[f].answered /\ conn'[f].response = conn[f].response
      /\ conn'[f].sent = conn[f].sent + n /\ conn'[f].open = conn[f].open
  BY <1>1, <1>2 DEF ExchangeShape
<1>4. conn[f].sent \in 0..RequestParts /\ conn[f].sent + n \in 0..RequestParts
  BY <1>1, SocketAssumption DEF ConnectionInv
<1>5. Conserved(f)
  BY <1>3, <1>4 DEF Conserved, Sending
<1>6. ConnectionInv(f)'
  BY <1>1, <1>2, <1>3, <1>4, LinesStay DEF ConnectionInv, Asking, Named
<1>7. SessionInv(f)'
  <2>1. conn[f].server # "none" /\ NameRead(f)' /\ PasswordRead(f)'
    BY <1>1, LinesStay DEF SessionInv, Connected
  <2>2. frontend[f].received < ResponseParts
    BY <1>1 DEF SessionInv
  <2> QED
    BY <1>1, <1>2, <1>3, <1>4, <2>1, <2>2, SocketAssumption
       DEF SessionInv, Sending, SameReport, Connected, SameLines
<1>8. DeliveryInv(f)'
  BY <1>2 DEF DeliveryInv
<1> QED
  BY <1>1, <1>5, <1>6, <1>7, <1>8, FrontendKeeps

LEMMA ReceivingKeeps ==
  ASSUME ExchangeInv, NEW f \in Frontends, Apart(f), Receiving(f)
  PROVE  ExchangeInv'
<1>1. /\ ConnectionInv(f) /\ SessionInv(f) /\ DeliveryInv(f) /\ backend' = backend /\ conn' = conn
      /\ SameLines(f) /\ frontend[f].pc \in {"receive", "receive_wait"}
  BY DEF ExchangeInv, Apart, Receiving
<1>2. PICK n \in 1..(conn[f].answered - frontend[f].received) :
       /\ frontend'[f].received = frontend[f].received + n
       /\ frontend'[f].pc = IF frontend[f].received + n = ResponseParts THEN "close" ELSE "receive"
  BY DEF Receiving, Answered
<1>3. Conserved(f)
  BY <1>1 DEF Conserved, Receiving, ConnectionInv
<1>4. /\ conn[f].answered \in 0..ResponseParts /\ frontend[f].received \in Nat
      /\ frontend'[f].received \in 0..ResponseParts /\ frontend'[f].received <= conn[f].answered
  BY <1>1, <1>2, SocketAssumption DEF ConnectionInv, SessionInv
<1>5. ConnectionInv(f)'
  BY <1>1, <1>2, LinesStay DEF ConnectionInv, Asking, Named
<1>6. SessionInv(f)'
  <2>1. conn[f].server # "none" /\ NameRead(f)' /\ PasswordRead(f)'
    BY <1>1, LinesStay DEF SessionInv, Connected
  <2>2. frontend'[f].pc # "close" => frontend'[f].received < ResponseParts
    BY <1>2, <1>4, SocketAssumption
  <2> QED
    BY <1>1, <1>2, <1>4, <2>1, <2>2 DEF SessionInv, Receiving, Connected, SameLines
<1>7. DeliveryInv(f)'
  BY <1>2, SocketAssumption DEF DeliveryInv
<1> QED
  BY <1>1, <1>3, <1>5, <1>6, <1>7, FrontendKeeps

LEMMA SettlingKeeps ==
  ASSUME ExchangeInv, NEW f \in Frontends, Apart(f), Settling(f)
  PROVE  ExchangeInv'
<1>1. /\ ConnectionInv(f) /\ SessionInv(f) /\ DeliveryInv(f) /\ backend' = backend /\ conn' = conn
      /\ SameLines(f) /\ frontend'[f].received = frontend[f].received
      /\ frontend'[f].report = frontend[f].report
      /\ frontend[f].pc \in Connected \cup {"cleanup"}
  BY DEF ExchangeInv, Apart, Settling
<1>2. Conserved(f)
  BY <1>1 DEF Conserved, Settling, ConnectionInv
<1>3. /\ frontend'[f].pc \in Connected \cup {"cleanup", "exited"}
      /\ frontend'[f].pc \in Connected => frontend[f].pc \in Connected
      /\ frontend'[f].pc = "send" => frontend[f].pc = "send"
      /\ frontend'[f].pc \in {"receive", "receive_wait"} => frontend[f].pc \in {"receive", "receive_wait"}
      /\ frontend'[f].pc \in {"cleanup", "exited"} => frontend[f].pc = "cleanup"
      /\ frontend'[f].code = "success" => frontend[f].code = "success"
  BY <1>1 DEF Settling, Connected
<1>4. ConnectionInv(f)'
  BY <1>1, <1>3, LinesStay DEF ConnectionInv, Asking, Named, Connected
<1>5. SessionInv(f)'
  <2>1. /\ conn[f].server # "none" => NameRead(f)' /\ PasswordRead(f)'
        /\ frontend'[f].pc \notin Named
    BY <1>1, <1>3, LinesStay DEF SessionInv, Connected, Named
  <2> QED
    BY <1>1, <1>3, <2>1 DEF SessionInv, Connected, SameLines, Named
<1>6. DeliveryInv(f)'
  <2>1. /\ conn[f].sent \in 0..RequestParts /\ conn[f].answered \in 0..ResponseParts
        /\ frontend[f].received \in 0..ResponseParts
        /\ frontend[f].pc = "send" => conn[f].sent # RequestParts
        /\ frontend[f].pc \in {"receive", "receive_wait"} => frontend[f].received # ResponseParts
    BY <1>1, SocketAssumption DEF ConnectionInv, SessionInv
  <2>2. CASE /\ frontend[f].pc \in {"send", "receive", "receive_wait"} /\ frontend'[f].pc = "close"
             /\ ServerGone(f) /\ (frontend[f].pc = "send" \/ Answered(f) = 0)
    <3>1. frontend[f].pc # "send" => conn[f].answered # ResponseParts
      BY <2>1, <2>2 DEF Answered
    <3> QED
      BY <1>1, <2>1, <2>2, <3>1 DEF DeliveryInv, ServerGone
  <2>3. CASE frontend'[f].pc = "receive_wait"
    BY <2>3 DEF DeliveryInv
  <2>4. CASE /\ frontend[f].pc = "cleanup" /\ frontend'[f].pc = "exited"
             /\ frontend'[f].interrupted = frontend[f].interrupted
             /\ frontend'[f].code = IF frontend[f].code = "none" THEN "failure" ELSE frontend[f].code
    BY <1>1, <2>4 DEF DeliveryInv
  <2>5. CASE frontend'[f].interrupted
    BY <1>1, <1>3, <2>5 DEF DeliveryInv
  <2> QED
    BY <2>2, <2>3, <2>4, <2>5 DEF Settling
<1> QED
  BY <1>1, <1>2, <1>4, <1>5, <1>6, FrontendKeeps

\* A backend's answer is never malformed.
LEMMA AnswersAreWhole ==
  ASSUME ExchangeInv, NEW f \in Frontends, conn[f].server \in Backends, conn[f].answered # 0
  PROVE  conn[f].response # Malformed
<1> DEFINE b == conn[f].server
<1>1. backend[b].client = f /\ f # "none"
  BY SocketAssumption DEF ExchangeInv, ConnectionInv
<1>2. conn[f].response = backend[b].response /\ backend[b].response # Malformed
  BY <1>1 DEF ExchangeInv, ClientInv, ServiceInv
<1> QED
  BY <1>2

LEMMA ClosingKeeps ==
  ASSUME ExchangeInv, NEW f \in Frontends, Apart(f), Closing(f) \/ Vanishing(f)
  PROVE  ExchangeInv'
<1>1. /\ ConnectionInv(f) /\ SessionInv(f) /\ DeliveryInv(f) /\ backend' = backend /\ ExchangeShape
      /\ SameLines(f) /\ frontend'[f].received = frontend[f].received
      /\ conn' = [conn EXCEPT ![f].open = @ \ {"frontend"}]
      /\ frontend'[f].pc \in {"cleanup", "exited"}
  BY DEF ExchangeInv, Apart, Closing, Vanishing
<1>2. /\ conn'[f].server = conn[f].server /\ conn'[f].request = conn[f].request
      /\ conn'[f].answered = conn[f].answered /\ conn'[f].response = conn[f].response
      /\ conn'[f].sent = conn[f].sent /\ conn'[f].open = conn[f].open \ {"frontend"}
  BY <1>1 DEF ExchangeShape
<1>3. Conserved(f)
  BY <1>1, <1>2 DEF Conserved, Closing, Vanishing, ConnectionInv
<1>4. ConnectionInv(f)'
  BY <1>1, <1>2, LinesStay DEF ConnectionInv, Asking, Named
<1>5. frontend'[f].code = "success" =>
        conn[f].response.result = "success" /\ frontend[f].received = ResponseParts
  BY <1>1 DEF Closing, Vanishing, SessionInv
<1>6. SessionInv(f)'
  <2>1. /\ conn[f].server # "none" => NameRead(f)' /\ PasswordRead(f)'
        /\ frontend'[f].pc \notin Named \cup Connected
    BY <1>1, LinesStay DEF SessionInv, Connected, Named
  <2> QED
    BY <1>1, <1>2, <1>5, <2>1 DEF SessionInv, Connected, SameLines, Named
<1>7. DeliveryInv(f)'
  <2>1. CASE Vanishing(f)
    BY <1>1, <1>2, <2>1 DEF Vanishing, DeliveryInv
  <2>2. CASE Closing(f)
    <3>1. PICK judged \in BOOLEAN :
            /\ frontend[f].received = ResponseParts /\ conn[f].response # Malformed
                 /\ "close" \notin Faults => judged
            /\ frontend'[f].report = IF judged THEN conn[f].response ELSE frontend[f].report
            /\ frontend'[f].code = IF judged /\ conn[f].response.result = "success"
                                   THEN "success" ELSE frontend[f].code
      BY <2>2 DEF Closing
    <3>2. /\ frontend[f].pc = "close" /\ frontend'[f].pc = "cleanup"
          /\ frontend'[f].interrupted = frontend[f].interrupted
      BY <2>2 DEF Closing
    <3>3. ( /\ frontend'[f].code # "killed" /\ ~frontend[f].interrupted
            /\ conn[f].sent = RequestParts /\ conn[f].answered = ResponseParts
            /\ conn[f].server \in Backends
            /\ "close" \notin Faults ) => frontend'[f].report = conn[f].response
      <4>1. CASE judged
        BY <3>1, <4>1
      <4>2. CASE ~judged
        <5>1. conn[f].server \in Backends /\ conn[f].answered = ResponseParts =>
                conn[f].response # Malformed
          BY AnswersAreWhole, SocketAssumption
        <5> QED
          BY <1>1, <3>1, <3>2, <4>2, <5>1 DEF DeliveryInv
      <4> QED
        BY <4>1, <4>2
    <3> QED
      BY <1>1, <1>2, <3>2, <3>3 DEF DeliveryInv
  <2> QED
    BY <2>1, <2>2
<1> QED
  BY <1>1, <1>3, <1>4, <1>6, <1>7, FrontendKeeps

LEMMA ConnectingKeeps ==
  ASSUME ExchangeInv, NEW f \in Frontends, Apart(f), Connecting(f)
  PROVE  ExchangeInv'
<1>1. /\ ConnectionInv(f) /\ SessionInv(f) /\ DeliveryInv(f) /\ backend' = backend /\ ExchangeShape
      /\ SameLines(f) /\ frontend[f].pc = "connect" /\ frontend'[f].pc = "send" /\ ExchangeShape'
      /\ frontend'[f].received = frontend[f].received /\ frontend'[f].code = frontend[f].code
  BY DEF ExchangeInv, Apart, Connecting, SameReport
<1>2. PICK server \in Backends \cup {"foreign"} :
        /\ NewConnection(server, f, Request(f))
        /\ \A c \in Backends : queue'[c] = IF c = server THEN Append(queue[c], f) ELSE queue[c]
  BY DEF Connecting
<1>3. /\ conn'[f].server = server /\ conn'[f].request = Request(f) /\ conn'[f].sent = 0
      /\ conn'[f].answered = 0 /\ conn'[f].response = NoResponse
      /\ conn'[f].open = {"frontend", "backend"}
  BY <1>1, <1>2 DEF NewConnection, NoConnection, ExchangeShape
<1>4. /\ conn[f].server = "none" /\ conn[f].answered = 0 /\ conn[f].response = NoResponse
      /\ server # "none"
  BY <1>1, SocketAssumption DEF ConnectionInv, Asking, Named
<1>5. /\ frontend[f].received = 0 /\ frontend[f].code # "success"
      /\ NameRead(f)' /\ PasswordRead(f)' /\ Request(f)' = Request(f)
  BY <1>1, <1>4, LinesStay DEF SessionInv, NoResponse, Response, Named
<1>6. ConnectionInv(f)'
  BY <1>1, <1>3, <1>4, <1>5, SocketAssumption DEF ConnectionInv, Asking, Named
<1>7. SessionInv(f)'
  BY <1>1, <1>3, <1>4, <1>5, SocketAssumption DEF SessionInv, Connected, Named, SameLines
<1>8. DeliveryInv(f)'
  BY <1>1 DEF DeliveryInv
<1>9. ASSUME NEW c \in Backends
      PROVE  QueueInv(c)' /\ ServiceInv(c)' /\ ClientInv(c)'
  <2>1. QueueInv(c) /\ ServiceInv(c) /\ ClientInv(c) /\ c # "none"
    BY SocketAssumption DEF ExchangeInv
  <2>2. f \notin Waiting(c) /\ backend[c].client # f
    BY <1>4, <2>1, OwnConnections
  <2>3. QueueInv(c)'
    <3>1. queue[c] \in Seq(Frontends)
      BY <2>1 DEF QueueInv
    <3>2. queue'[c] = IF c = server THEN Append(queue[c], f) ELSE queue[c]
      BY <1>2
    <3>3. queue'[c] \in Seq(Frontends)
      BY <3>1, <3>2
    <3>4. \A i \in DOMAIN queue'[c] :
            \/ i \in DOMAIN queue[c] /\ queue'[c][i] = queue[c][i]
            \/ c = server /\ queue'[c][i] = f
      BY <3>1, <3>2
    <3>5. \A g \in Waiting(c)' : g \in Waiting(c) \/ (c = server /\ g = f)
      BY <3>4 DEF Waiting
    <3>6. \A g \in Waiting(c) : g \in Frontends \ {f}
      BY <2>2, <3>1 DEF Waiting
    <3> QED
      BY <1>1, <1>3, <2>1, <3>3, <3>5, <3>6 DEF QueueInv, Apart
  <2>4. backend[c].client \in Frontends =>
          /\ conn'[backend[c].client] = conn[backend[c].client]
          /\ frontend'[backend[c].client] = frontend[backend[c].client]
    BY <2>2 DEF Apart
  <2>5. ServiceInv(c)'
    <3>1. backend[c].client = "none" => backend[c].response.result # "success"
      BY <2>1 DEF ServiceInv, NoResponse, Response
    <3>2. backend[c].client \in Frontends =>
            (TypedTheAccount(backend[c].client)' <=> TypedTheAccount(backend[c].client))
      BY <1>1, <2>4 DEF TypedTheAccount
    <3> QED
      BY <1>1, <2>1, <3>1, <3>2 DEF ServiceInv
  <2>6. ClientInv(c)'
    BY <1>1, <2>1, <2>4 DEF ClientInv, ServiceInv
  <2> QED
    BY <2>3, <2>5, <2>6
<1>10. \A g \in Frontends : ConnectionInv(g)' /\ SessionInv(g)' /\ DeliveryInv(g)'
  BY <1>6, <1>7, <1>8, OtherFrontends
<1> QED
  BY <1>1, <1>9, <1>10 DEF ExchangeInv

\* A stranger's step is about a connection no backend has anything to do with.
LEMMA StrangerKeeps ==
  ASSUME ExchangeInv, NEW f \in Frontends, StrangerAnswers(f) \/ StrangerHangsUp(f),
         UNCHANGED <<backend, frontend>>
  PROVE  ExchangeInv'
<1>1. /\ ConnectionInv(f) /\ SessionInv(f) /\ DeliveryInv(f) /\ ExchangeShape
      /\ backend' = backend /\ frontend' = frontend /\ queue' = queue
      /\ conn[f].server = "foreign" /\ "foreign" \notin Backends \cup {"none"}
  BY SocketAssumption DEF ExchangeInv, StrangerAnswers, StrangerHangsUp
<1>2. /\ ExchangeShape' /\ \A g \in Frontends \ {f} : conn'[g] = conn[g]
      /\ conn'[f].server = conn[f].server /\ conn'[f].request = conn[f].request
      /\ conn'[f].sent = conn[f].sent
      /\ conn'[f].open \in {conn[f].open, conn[f].open \ {"backend"}}
      /\ conn'[f].answered \in conn[f].answered..ResponseParts
      /\ conn'[f].answered = 0 => conn'[f].response = conn[f].response
      /\ conn[f].answered # 0 => conn'[f].response = conn[f].response
  <2>1. CASE StrangerHangsUp(f)
    BY <1>1, <2>1, SocketAssumption DEF StrangerHangsUp, ExchangeShape, ConnectionInv
  <2>2. CASE StrangerAnswers(f)
    <3>1. PICK n \in 1..(ResponseParts - conn[f].answered),
               answer \in {Response("success", "none"), Response("invalid_credentials", "none"),
                          Malformed} :
            /\ conn[f].answered > 0 => answer = conn[f].response
            /\ conn' = [conn EXCEPT ![f].answered = @ + n, ![f].response = answer]
      BY <2>2 DEF StrangerAnswers
    <3>2. conn[f].answered \in 0..ResponseParts
      BY <1>1 DEF ConnectionInv
    <3> QED
      BY <1>1, <3>1, <3>2, SocketAssumption DEF ExchangeShape
  <2> QED
    BY <2>1, <2>2
<1>3. conn[f].answered \in 0..ResponseParts /\ conn'[f].answered \in 0..ResponseParts
  BY <1>1, <1>2, SocketAssumption DEF ConnectionInv
<1>4. ConnectionInv(f)'
  BY <1>1, <1>2, <1>3 DEF ConnectionInv, Request
<1>5. SessionInv(f)'
  <2>1. frontend[f].code = "success" => conn[f].answered # 0
    BY <1>1 DEF SessionInv, ConnectionInv, NoResponse, Response
  <2> QED
    BY <1>1, <1>2, <1>3, <2>1 DEF SessionInv, NameRead, PasswordRead
<1>6. DeliveryInv(f)'
  BY <1>1, <1>2 DEF DeliveryInv
<1>7. ASSUME NEW b \in Backends
      PROVE  QueueInv(b)' /\ ServiceInv(b)' /\ ClientInv(b)'
  <2>1. QueueInv(b) /\ ServiceInv(b) /\ ClientInv(b)
    BY DEF ExchangeInv
  <2>2. f \notin Waiting(b) /\ backend[b].client # f
    BY <1>1, <2>1, OwnConnections
  <2>3. \A g \in Waiting(b) : g \in Frontends
    BY <2>1 DEF QueueInv, Waiting
  <2>4. QueueInv(b)'
    BY <1>1, <1>2, <2>1, <2>2, <2>3 DEF QueueInv, Waiting
  <2>5. ServiceInv(b)'
    BY <1>1, <2>1 DEF ServiceInv, TypedTheAccount
  <2>6. ClientInv(b)'
    BY <1>1, <1>2, <2>1, <2>2 DEF ClientInv, ServiceInv
  <2> QED
    BY <2>4, <2>5, <2>6
<1>8. ASSUME NEW g \in Frontends \ {f}
      PROVE  ConnectionInv(g)' /\ SessionInv(g)' /\ DeliveryInv(g)'
  BY <1>1, <1>2 DEF ExchangeInv, ConnectionInv, SessionInv, DeliveryInv, Request, NameRead,
     PasswordRead
<1> QED
  BY <1>2, <1>4, <1>5, <1>6, <1>7, <1>8 DEF ExchangeInv

-----------------------------------------------------------------------------
(* The invariant of the exchange, and what follows from it.                *)

LEMMA StartPasses ==
  ASSUME NEW b \in Backends, ExchangeInv, UNCHANGED frontend, StartBackend(b)
  PROVE  Within(b) /\ Passing(b)
<1>1. ExchangeShape /\ queue' = queue /\ conn' = conn /\ backend[b].pc = "off"
  BY DEF ExchangeInv, StartBackend, channel
<1>2. /\ ExchangeShape'
      /\ \A c \in Backends : SameAnswer(c) /\ backend'[c].code = backend[c].code
      /\ backend'[b].pc = "start" /\ \A c \in Backends \ {b} : backend'[c].pc = backend[c].pc
  BY <1>1 DEF StartBackend, ExchangeShape, SameAnswer
<1> QED
  BY <1>1, <1>2 DEF Within, Passing, Untouched, SameAnswer, Early

LEMMA BackendEffects ==
  ASSUME NEW b \in Backends, ExchangeInv, UNCHANGED frontend,
         StartBackend(b) \/ BackendStep(b) \/ StopBackend(b) \/ KillBackend(b)
  PROVE  Within(b) /\ (Passing(b) \/ Taking(b) \/ Judging(b) \/ Hearing(b) \/ Telling(b))
BY StartPasses, SetUpPasses, ServingPasses, EndPasses, AcceptTakes, VerifyJudges, ReadHears,
   WriteTells DEF BackendStep

LEMMA FrontendEffects ==
  ASSUME NEW f \in Frontends, ExchangeInv,
         \/ StartFrontend(f) \/ FrontendStep(f) \/ UserAnswers(f)
         \/ InterruptFrontend(f) \/ KillFrontend(f)
  PROVE  /\ Apart(f)
         /\ \/ Prompting(f) \/ Connecting(f) \/ Sending(f) \/ Receiving(f) \/ Settling(f)
            \/ Closing(f) \/ Vanishing(f)
<1>1. CASE StartFrontend(f) \/ FrontendStep(f) \/ UserAnswers(f)
  BY <1>1, PromptsPrompt, PasswordPrompts, ConnectConnects, SendSends, ReceiveReceives, EndSettles,
     CloseCloses DEF FrontendStep, UserAnswers
<1>2. CASE InterruptFrontend(f) \/ KillFrontend(f)
  <2>1. frontend[f].pc # "exited"
    BY <1>2 DEF InterruptFrontend, KillFrontend, Finished
  <2> QED
    BY <1>2, <2>1, KillVanishes, InterruptPromptsOrSettles DEF KillFrontend
<1> QED
  BY <1>1, <1>2

LEMMA ExchangeNextInv == ExchangeInv /\ [Next]_vars => ExchangeInv'
<1> SUFFICES ASSUME ExchangeInv, [Next]_vars
             PROVE  ExchangeInv'
  OBVIOUS
<1>1. CASE UNCHANGED vars
  BY <1>1 DEF vars, ExchangeInv, ExchangeShape, QueueInv, Waiting, ServiceInv, ClientInv,
     ConnectionInv, SessionInv, DeliveryInv, NameRead, PasswordRead, Request, TypedTheAccount
<1>2. ASSUME NEW b \in Backends, UNCHANGED frontend,
             StartBackend(b) \/ BackendStep(b) \/ StopBackend(b) \/ KillBackend(b)
      PROVE  ExchangeInv'
  BY <1>2, BackendEffects, PassingKeeps, TakingKeeps, JudgingKeeps, HearingKeeps, TellingKeeps
<1>3. ASSUME NEW f \in Frontends,
             \/ StartFrontend(f) \/ FrontendStep(f) \/ UserAnswers(f)
             \/ InterruptFrontend(f) \/ KillFrontend(f)
      PROVE  ExchangeInv'
  BY <1>3, FrontendEffects, PromptingKeeps, ConnectingKeeps, SendingKeeps, ReceivingKeeps,
     SettlingKeeps, ClosingKeeps
<1> QED
  BY <1>1, <1>2, <1>3, StrangerKeeps DEF Next, Quiet

LEMMA ExchangeInitInv == Init => ExchangeInv
<1> SUFFICES ASSUME Init
             PROVE  ExchangeInv
  OBVIOUS
<1>1. /\ backend = [b \in Backends |-> BackendStart] /\ frontend = [f \in Frontends |-> FrontendStart]
      /\ queue = [b \in Backends |-> <<>>] /\ conn = [f \in Frontends |-> NoConnection]
  BY DEF Init, ChannelInit, BackendInit, FrontendInit
<1>2. ExchangeShape
  BY <1>1 DEF ExchangeShape, BackendStart, FrontendStart, NoConnection
<1>3. NoResponse.result # "success" /\ NoResponse # Malformed
  BY DEF NoResponse, Malformed, Response
<1>4. ASSUME NEW b \in Backends
      PROVE  QueueInv(b) /\ ServiceInv(b) /\ ClientInv(b)
  <2>1. /\ backend[b].pc = "off" /\ backend[b].client = "none" /\ ~backend[b].verified
        /\ backend[b].received = 0 /\ backend[b].sent = 0 /\ backend[b].response = NoResponse
        /\ backend[b].code = "none" /\ queue[b] = <<>>
    BY <1>1 DEF BackendStart
  <2>2. Waiting(b) = {}
    BY <2>1 DEF Waiting
  <2> QED
    BY <1>3, <2>1, <2>2, SocketAssumption
       DEF QueueInv, ServiceInv, ClientInv, Early, Reads, Writes, Late
<1>5. ASSUME NEW f \in Frontends
      PROVE  ConnectionInv(f) /\ SessionInv(f) /\ DeliveryInv(f)
  <2>1. /\ frontend[f].pc = "off" /\ frontend[f].password = EndOfInput /\ frontend[f].received = 0
        /\ frontend[f].code = "none"
    BY <1>1 DEF FrontendStart
  <2>2. /\ conn[f].server = "none" /\ conn[f].open = {} /\ conn[f].sent = 0
        /\ conn[f].answered = 0 /\ conn[f].response = NoResponse
    BY <1>1 DEF NoConnection
  <2> QED
    BY <2>1, <2>2, SocketAssumption DEF ConnectionInv, SessionInv, DeliveryInv, Asking, Named, Connected
<1> QED
  BY <1>2, <1>4, <1>5 DEF ExchangeInv

\* What a frontend was told, a backend has decided for it, unless it was a
\* stranger who told it.
LEMMA GrantHasASource ==
  ASSUME ExchangeInv, NEW f \in Frontends, frontend[f].code = "success",
         conn[f].server # "foreign"
  PROVE  /\ conn[f].server \in Backends /\ backend[conn[f].server].client = f
         /\ backend[conn[f].server].response.result = "success"
         /\ f \in TrustedPeers /\ TypedTheAccount(f)
<1>1. ConnectionInv(f) /\ conn[f].response.result = "success"
  BY DEF ExchangeInv, SessionInv
<1>2. conn[f].answered # 0
  BY <1>1 DEF ConnectionInv, NoResponse, Response
<1>3. conn[f].server \in Backends /\ backend[conn[f].server].client = f
  BY <1>1, <1>2 DEF ConnectionInv
<1>4. backend[conn[f].server].response = conn[f].response
  BY <1>2, <1>3, SocketAssumption DEF ExchangeInv, ClientInv
<1>5. ServiceInv(conn[f].server)
  BY <1>3 DEF ExchangeInv
<1> QED
  BY <1>1, <1>3, <1>4, <1>5 DEF ServiceInv

\* For any number of backends and frontends, whatever is cut short, interrupted
\* or killed: among those who reached a backend only the user who typed the
\* account, in a process of the invoking user, is told of success, and by the
\* backend that took this connection.  Who is told so without that was answered,
\* and in full, by a stranger, and no backend ever took it for a client.
THEOREM SuccessStaysEarned == Spec => []SuccessIsEarned
<1>1. ExchangeInv => SuccessIsEarned
  <2> SUFFICES ASSUME ExchangeInv, NEW f \in Frontends, frontend[f].code = "success"
               PROVE  \/ /\ conn[f].server = "foreign" /\ \A b \in Backends : backend[b].client # f
                         /\ conn[f].response.result = "success" /\ conn[f].answered = ResponseParts
                      \/ /\ TypedTheAccount(f) /\ f \in TrustedPeers
                         /\ \E b \in Backends : /\ conn[f].server = b /\ backend[b].client = f
                                                /\ backend[b].response.result = "success"
    BY DEF SuccessIsEarned
  <2>1. CASE conn[f].server = "foreign"
    <3>1. \A b \in Backends : backend[b].client # f
      BY <2>1, OwnConnections, SocketAssumption
    <3>2. /\ conn[f].response.result = "success" /\ frontend[f].received = ResponseParts
          /\ frontend[f].received <= conn[f].answered /\ conn[f].answered \in 0..ResponseParts
      BY DEF ExchangeInv, SessionInv, ConnectionInv
    <3> QED
      BY <2>1, <3>1, <3>2, SocketAssumption
  <2>2. CASE conn[f].server # "foreign"
    BY <2>2, GrantHasASource
  <2> QED
    BY <2>1, <2>2
<1> QED
  BY <1>1, ExchangeInitInv, ExchangeNextInv, PTL DEF Spec

\* A backend that returns EXIT_SUCCESS has been heard: no cutting of the two
\* messages into pieces and no order of the closes loses or changes the answer of
\* a client that went undisturbed to its end.
THEOREM AnswerIsDelivered == Spec => []AnswerDelivered
<1>1. ExchangeInv => AnswerDelivered
  <2> SUFFICES ASSUME ExchangeInv, NEW b \in Backends, backend[b].code = "success",
                      NEW f, f = backend[b].client, Returned(frontend[f]),
                      ~frontend[f].interrupted, "close" \notin Faults
               PROVE  frontend[f].report = backend[b].response
    BY DEF AnswerDelivered
  <2>1. /\ backend[b].verified /\ backend[b].sent = ResponseParts /\ f \in Frontends /\ f # "none"
        /\ backend[b].response # NoResponse
    BY BackendAssumption, SocketAssumption DEF ExchangeInv, ServiceInv
  <2>2. backend[b].received = RequestParts
    BY <2>1 DEF ExchangeInv, ServiceInv
  <2>3. /\ conn[f].answered = ResponseParts /\ conn[f].response = backend[b].response
        /\ RequestParts <= conn[f].sent /\ conn[f].server \in Backends
    BY <2>1, <2>2, SocketAssumption DEF ExchangeInv, ClientInv
  <2>4. conn[f].sent = RequestParts
    BY <2>1, <2>3, SocketAssumption DEF ExchangeInv, ConnectionInv
  <2>5. frontend[f].report = conn[f].response
    BY <2>1, <2>3, <2>4 DEF ExchangeInv, DeliveryInv, Returned
  <2> QED
    BY <2>3, <2>5
<1> QED
  BY <1>1, ExchangeInitInv, ExchangeNextInv, PTL DEF Spec

-----------------------------------------------------------------------------
(* The refinement of OneAnswer.                                             *)

\* The abstract state, one process at a time.
ClaimOf(f) ==
  CASE conn[f].server \notin Backends -> "none"
    [] conn[f].server \in Backends /\ TypedTheAccount(f) -> "right"
    [] OTHER -> "wrong"

DecisionOf(b) ==
  CASE backend[b].response = NoResponse -> "none"
    [] backend[b].response.result = "success" -> "granted"
    [] OTHER -> "denied"

OutcomeOf(f) ==
  CASE frontend[f].pc # "exited" \/ conn[f].server = "foreign" -> "none"
    [] /\ frontend[f].pc = "exited" /\ conn[f].server # "foreign"
       /\ frontend[f].code = "success" -> "success"
    [] OTHER -> "failure"

SameClaims == \A f \in Frontends : ClaimOf(f)' = ClaimOf(f)
SameTaken == \A b \in Backends : backend'[b].client = backend[b].client
SameDecisions == \A b \in Backends : DecisionOf(b)' = DecisionOf(b)
SameOutcomes == \A f \in Frontends : OutcomeOf(f)' = OutcomeOf(f)

LEMMA MapsToStutter ==
  ASSUME SameClaims, SameTaken, SameDecisions, SameOutcomes
  PROVE  UNCHANGED Implementation!avars
BY DEF SameClaims, SameTaken, SameDecisions, SameOutcomes, ClaimOf, DecisionOf, OutcomeOf,
       Implementation!avars

LEMMA MapsToClaim ==
  ASSUME NEW f \in Frontends, NEW c \in {"right", "wrong"},
         ClaimOf(f) = "none", OutcomeOf(f) = "none", ClaimOf(f)' = c,
         \A g \in Frontends \ {f} : ClaimOf(g)' = ClaimOf(g),
         SameTaken, SameDecisions, SameOutcomes
  PROVE  Implementation!AbstractNext
<1>1. /\ [g \in Frontends |-> ClaimOf(g)]' = [[g \in Frontends |-> ClaimOf(g)] EXCEPT ![f] = c]
      /\ [g \in Frontends |-> ClaimOf(g)][f] = "none"
      /\ [g \in Frontends |-> OutcomeOf(g)][f] = "none"
  OBVIOUS
<1>2. /\ [b \in Backends |-> backend[b].client]' = [b \in Backends |-> backend[b].client]
      /\ [b \in Backends |-> DecisionOf(b)]' = [b \in Backends |-> DecisionOf(b)]
      /\ [g \in Frontends |-> OutcomeOf(g)]' = [g \in Frontends |-> OutcomeOf(g)]
  BY DEF SameTaken, SameDecisions, SameOutcomes
<1>3. Implementation!Claim(f, c)
  BY ONLY <1>1, <1>2, Zenon DEF ClaimOf, DecisionOf, OutcomeOf, Implementation!Claim
<1> QED
  BY <1>3 DEF Implementation!AbstractNext

LEMMA MapsToTake ==
  ASSUME NEW b \in Backends, NEW f \in Frontends, backend[b].client = "none", ClaimOf(f) # "none",
         \A c \in Backends : backend[c].client # f,
         backend'[b].client = f, \A c \in Backends \ {b} : backend'[c].client = backend[c].client,
         SameClaims, SameDecisions, SameOutcomes
  PROVE  Implementation!AbstractNext
<1>1. Implementation!Take(b, f)
  BY DEF SameClaims, SameDecisions, SameOutcomes, ClaimOf, DecisionOf, OutcomeOf, Implementation!Take
<1> QED
  BY <1>1 DEF Implementation!AbstractNext

LEMMA MapsToDecide ==
  ASSUME NEW b \in Backends, NEW f \in Frontends, f = backend[b].client, f # "none",
         DecisionOf(b) = "none", NEW d \in {"granted", "denied"}, DecisionOf(b)' = d,
         d = "granted" => f \in TrustedPeers /\ ClaimOf(f) = "right",
         \A c \in Backends \ {b} : DecisionOf(c)' = DecisionOf(c),
         SameClaims, SameTaken, SameOutcomes
  PROVE  Implementation!AbstractNext
<1>1. /\ [c \in Backends |-> DecisionOf(c)]' = [[c \in Backends |-> DecisionOf(c)] EXCEPT ![b] = d]
      /\ [c \in Backends |-> DecisionOf(c)][b] = "none"
      /\ [c \in Backends |-> backend[c].client][b] # "none"
      /\ d = "granted" =>
           /\ [c \in Backends |-> backend[c].client][b] \in TrustedPeers
           /\ [g \in Frontends |-> ClaimOf(g)][[c \in Backends |-> backend[c].client][b]] = "right"
  OBVIOUS
<1>2. /\ [g \in Frontends |-> ClaimOf(g)]' = [g \in Frontends |-> ClaimOf(g)]
      /\ [c \in Backends |-> backend[c].client]' = [c \in Backends |-> backend[c].client]
      /\ [g \in Frontends |-> OutcomeOf(g)]' = [g \in Frontends |-> OutcomeOf(g)]
  BY DEF SameClaims, SameTaken, SameOutcomes
<1>3. Implementation!Decide(b, d)
  BY ONLY <1>1, <1>2, Zenon DEF ClaimOf, DecisionOf, OutcomeOf, Implementation!Decide
<1> QED
  BY <1>3 DEF Implementation!AbstractNext

LEMMA MapsToReport ==
  ASSUME NEW f \in Frontends, OutcomeOf(f) = "none",
         NEW o \in {"success", "failure"}, OutcomeOf(f)' = o,
         o = "success" => \E b \in Backends : backend[b].client = f /\ DecisionOf(b) = "granted",
         \A g \in Frontends \ {f} : OutcomeOf(g)' = OutcomeOf(g),
         SameClaims, SameTaken, SameDecisions
  PROVE  Implementation!AbstractNext
<1>1. /\ [g \in Frontends |-> OutcomeOf(g)]' = [[g \in Frontends |-> OutcomeOf(g)] EXCEPT ![f] = o]
      /\ [g \in Frontends |-> OutcomeOf(g)][f] = "none"
      /\ o = "success" => \E b \in Backends : /\ [c \in Backends |-> backend[c].client][b] = f
                                              /\ [c \in Backends |-> DecisionOf(c)][b] = "granted"
  OBVIOUS
<1>2. /\ [g \in Frontends |-> ClaimOf(g)]' = [g \in Frontends |-> ClaimOf(g)]
      /\ [c \in Backends |-> backend[c].client]' = [c \in Backends |-> backend[c].client]
      /\ [c \in Backends |-> DecisionOf(c)]' = [c \in Backends |-> DecisionOf(c)]
  BY DEF SameClaims, SameTaken, SameDecisions
<1>3. Implementation!Report(f, o)
  BY ONLY <1>1, <1>2, Zenon DEF ClaimOf, DecisionOf, OutcomeOf, Implementation!Report
<1> QED
  BY <1>3 DEF Implementation!AbstractNext

Answers == [Implementation!AbstractNext]_(Implementation!avars)

\* A backend takes a waiting client, decides it once, or does nothing the users
\* could tell.
LEMMA BackendAnswers ==
  ASSUME ExchangeInv, ExchangeInv', NEW b \in Backends, Within(b),
         Passing(b) \/ Taking(b) \/ Judging(b) \/ Hearing(b) \/ Telling(b)
  PROVE  Answers
<1>1. frontend' = frontend /\ ServiceInv(b) /\ ClientInv(b) /\ ServiceInv(b)'
  BY DEF Within, ExchangeInv
<1>2. \A f \in Frontends : conn'[f].server = conn[f].server
  <2>1. ExchangeShape
    BY DEF ExchangeInv
  <2>2. CASE Passing(b)
    BY <2>1, <2>2 DEF Passing, ExchangeShape
  <2>3. CASE Taking(b) \/ Judging(b) \/ Hearing(b)
    BY <2>3 DEF Taking, Judging, Hearing
  <2>4. CASE Telling(b)
    BY <2>1, <2>4 DEF Telling, ExchangeShape
  <2> QED
    BY <2>2, <2>3, <2>4
<1>3. SameClaims /\ SameOutcomes
  BY <1>1, <1>2 DEF SameClaims, SameOutcomes, ClaimOf, OutcomeOf, TypedTheAccount
<1>4. \A c \in Backends \ {b} : /\ backend'[c].client = backend[c].client
                                /\ DecisionOf(c)' = DecisionOf(c)
  BY DEF Within, Untouched, DecisionOf
<1>5. ASSUME backend'[b].client = backend[b].client, backend'[b].response = backend[b].response
      PROVE  Answers
  <2>1. SameTaken /\ SameDecisions
    BY <1>4, <1>5 DEF SameTaken, SameDecisions, DecisionOf
  <2> QED
    BY <1>3, <2>1, MapsToStutter DEF Answers
<1>6. CASE Taking(b)
  <2>1. PICK f \in Frontends : f = Head(queue[b]) /\ f \in Waiting(b)
    <3>1. queue[b] \in Seq(Frontends) /\ queue[b] # <<>>
      BY <1>6 DEF Taking, ExchangeInv, QueueInv
    <3>2. Head(queue[b]) \in Frontends /\ Head(queue[b]) = queue[b][1] /\ 1 \in DOMAIN queue[b]
      BY <3>1
    <3> QED
      BY <3>2 DEF Waiting
  <2>2. conn[f].server = b /\ b # "none" /\ f # "none"
    BY <2>1, OwnConnections, SocketAssumption
  <2>3. backend[b].client = "none" /\ backend'[b].client = f
    BY <1>1, <1>6, <2>1 DEF ServiceInv, Taking
  <2>4. \A c \in Backends : backend[c].client # f
    BY <2>2, <2>3, OwnConnections
  <2>5. ClaimOf(f) # "none"
    BY <2>2 DEF ClaimOf
  <2>6. SameDecisions
    BY <1>4, <1>6 DEF SameDecisions, DecisionOf, Taking
  <2> QED
    BY <1>3, <1>4, <2>2, <2>3, <2>4, <2>5, <2>6, MapsToTake DEF Answers
<1>7. CASE /\ backend'[b].client = backend[b].client /\ backend[b].client \in Frontends
           /\ backend[b].response = NoResponse /\ backend'[b].response # NoResponse
  <2>1. PICK f \in Frontends : f = backend[b].client /\ f # "none"
    BY <1>7, SocketAssumption
  <2>2. DecisionOf(b) = "none" /\ SameTaken
    <3>1. NoResponse.result # "success"
      BY DEF NoResponse, Response
    <3> QED
      BY <1>4, <1>7, <3>1 DEF DecisionOf, SameTaken
  <2>3. PICK d \in {"granted", "denied"} :
          DecisionOf(b)' = d /\ (d = "granted" => backend'[b].response.result = "success")
    BY <1>7 DEF DecisionOf
  <2>4. d = "granted" => f \in TrustedPeers /\ TypedTheAccount(f)'
    BY <1>1, <1>7, <2>1, <2>3 DEF ServiceInv
  <2>5. TypedTheAccount(f)' <=> TypedTheAccount(f)
    BY <1>1 DEF TypedTheAccount
  <2>6. conn[f].server \in Backends
    BY <2>1, OwnConnections
  <2>7. d = "granted" => f \in TrustedPeers /\ ClaimOf(f) = "right"
    BY <2>4, <2>5, <2>6 DEF ClaimOf
  <2> QED
    BY <1>3, <1>4, <2>1, <2>2, <2>3, <2>7, MapsToDecide DEF Answers
<1>8. CASE Passing(b) \/ Telling(b)
  BY <1>5, <1>8 DEF Passing, Telling, SameAnswer
<1>9. CASE Judging(b)
  <2>1. Rejection # NoResponse
    BY DEF Rejection, NoResponse, Response
  <2>2. /\ backend[b].response = NoResponse /\ backend[b].client \in Frontends
        /\ backend'[b].client = backend[b].client
    BY <1>1, <1>9 DEF ServiceInv, Judging
  <2> QED
    BY <1>5, <1>7, <1>9, <2>1, <2>2 DEF Judging
<1>10. CASE Hearing(b)
  <2>1. /\ backend[b].response = NoResponse /\ backend[b].client \in Frontends
        /\ backend'[b].client = backend[b].client
    BY <1>1, <1>10 DEF ServiceInv, Hearing, Reads
  <2> QED
    BY <1>5, <1>7, <2>1
<1> QED
  BY <1>6, <1>8, <1>9, <1>10

\* A frontend makes its claim with the connection and reports at its end.
LEMMA FrontendAnswers ==
  ASSUME ExchangeInv, ExchangeInv', NEW f \in Frontends, Apart(f),
         \/ Prompting(f) \/ Connecting(f) \/ Sending(f) \/ Receiving(f) \/ Settling(f)
         \/ Closing(f) \/ Vanishing(f)
  PROVE  Answers
<1>1. SameTaken /\ SameDecisions
  BY DEF Apart, SameTaken, SameDecisions, DecisionOf
<1>2. \A g \in Frontends \ {f} : ClaimOf(g)' = ClaimOf(g) /\ OutcomeOf(g)' = OutcomeOf(g)
  BY DEF Apart, ClaimOf, OutcomeOf, TypedTheAccount
<1>3. CASE Connecting(f)
  <2>1. PICK server \in Backends \cup {"foreign"} : NewConnection(server, f, Request(f))
    BY <1>3 DEF Connecting
  <2>2. conn'[f].server = server /\ "foreign" \notin Backends /\ "none" \notin Backends
    BY <2>1, SocketAssumption DEF NewConnection, NoConnection, ExchangeInv, ExchangeShape
  <2>3. conn[f].server = "none"
    BY <1>3 DEF ExchangeInv, ConnectionInv, Connecting, Asking, Named
  <2>4. OutcomeOf(f) = "none" /\ OutcomeOf(f)' = "none"
    BY <1>3 DEF OutcomeOf, Connecting
  <2>5. SameOutcomes
    BY <1>2, <2>4 DEF SameOutcomes
  <2>6. CASE server \in Backends
    <3>1. ClaimOf(f) = "none" /\ ClaimOf(f)' \in {"right", "wrong"}
      BY <2>2, <2>3, <2>6 DEF ClaimOf
    <3> QED
      BY <1>1, <1>2, <2>4, <2>5, <3>1, MapsToClaim DEF Answers
  <2>7. CASE server = "foreign"
    <3>1. ClaimOf(f) = "none" /\ ClaimOf(f)' = "none"
      BY <2>2, <2>3, <2>7 DEF ClaimOf
    <3>2. SameClaims
      BY <1>2, <3>1 DEF SameClaims
    <3> QED
      BY <1>1, <2>5, <3>2, MapsToStutter DEF Answers
  <2> QED
    BY <2>6, <2>7
<1>4. CASE ~Connecting(f)
  <2>1. conn'[f].server = conn[f].server /\ (SameLines(f) \/ conn[f].server = "none")
    BY <1>4 DEF Prompting, Sending, Receiving, Settling, Closing, Vanishing, ExchangeInv,
       ExchangeShape, ConnectionInv
  <2>2. ClaimOf(f)' = ClaimOf(f)
    BY <2>1, LinesStay, SocketAssumption DEF ClaimOf
  <2>3. SameClaims
    BY <1>2, <2>2 DEF SameClaims
  <2>0. CASE conn[f].server = "foreign"
    <3>1. OutcomeOf(f) = "none" /\ OutcomeOf(f)' = "none"
      BY <2>0, <2>1 DEF OutcomeOf
    <3>2. SameOutcomes
      BY <1>2, <3>1 DEF SameOutcomes
    <3> QED
      BY <1>1, <2>3, <3>2, MapsToStutter DEF Answers
  <2>4. CASE /\ frontend'[f].pc = "exited" /\ frontend[f].pc # "exited"
             /\ conn[f].server # "foreign"
    <3>1. OutcomeOf(f) = "none"
      BY <2>4 DEF OutcomeOf
    <3>2. PICK o \in {"success", "failure"} :
            OutcomeOf(f)' = o /\ (o = "success" => frontend'[f].code = "success")
      BY <2>1, <2>4 DEF OutcomeOf
    <3>3. frontend'[f].code = "success" => frontend[f].code = "success"
      BY <1>4, <2>4 DEF Prompting, Sending, Receiving, Settling, Closing, Vanishing, Asking, Named,
         Connected
    <3>4. o = "success" => \E b \in Backends : backend[b].client = f /\ DecisionOf(b) = "granted"
      <4>1. NoResponse.result # "success"
        BY DEF NoResponse, Response
      <4> QED
        BY <2>4, <3>2, <3>3, <4>1, GrantHasASource DEF DecisionOf
    <3> QED
      BY <1>1, <1>2, <2>3, <3>1, <3>2, <3>4, MapsToReport DEF Answers
  <2>5. CASE frontend'[f].pc # "exited" \/ frontend[f].pc = "exited"
    <3>1. frontend'[f].pc # "exited" /\ frontend[f].pc # "exited"
      BY <1>4, <2>5 DEF Prompting, Sending, Receiving, Settling, Closing, Vanishing, Asking, Named,
         Connected
    <3>2. OutcomeOf(f)' = OutcomeOf(f)
      BY <3>1 DEF OutcomeOf
    <3>3. SameOutcomes
      BY <1>2, <3>2 DEF SameOutcomes
    <3> QED
      BY <1>1, <2>3, <3>3, MapsToStutter DEF Answers
  <2> QED
    BY <2>0, <2>4, <2>5
<1> QED
  BY <1>3, <1>4

\* Whom a stranger answers is none of the service's users.
LEMMA StrangerAnswersNobody ==
  ASSUME ExchangeInv, NEW f \in Frontends, StrangerAnswers(f) \/ StrangerHangsUp(f),
         UNCHANGED <<backend, frontend>>
  PROVE  Answers
<1>1. ExchangeShape
  BY DEF ExchangeInv
<1>2. \A g \in Frontends : conn'[g].server = conn[g].server
  <2>1. CASE StrangerHangsUp(f)
    BY <1>1, <2>1 DEF StrangerHangsUp, ExchangeShape
  <2>2. CASE StrangerAnswers(f)
    <3>1. PICK answered, answer :
            conn' = [conn EXCEPT ![f].answered = answered, ![f].response = answer]
      BY <2>2 DEF StrangerAnswers
    <3> QED
      BY <1>1, <3>1 DEF ExchangeShape
  <2> QED
    BY <2>1, <2>2
<1>3. SameClaims /\ SameTaken /\ SameDecisions /\ SameOutcomes
  BY <1>2 DEF SameClaims, SameTaken, SameDecisions, SameOutcomes, ClaimOf, DecisionOf,
     OutcomeOf, TypedTheAccount
<1> QED
  BY <1>3, MapsToStutter DEF Answers

\* The programs implement the promise of OneAnswer, whatever the numbers of
\* processes and parts, the account and the faults: one client per backend, one
\* decision, success only for a trusted user with the account, and only after
\* that decision.  A stranger at the path takes no part in it.
THEOREM ServiceKeepsItsPromise == Spec => OneAnswerEach
<1>1. Init => Implementation!AbstractInit
  <2> SUFFICES ASSUME Init
               PROVE  Implementation!AbstractInit
    OBVIOUS
  <2>1. /\ \A b \in Backends : backend[b].client = "none" /\ backend[b].response = NoResponse
        /\ \A f \in Frontends : frontend[f].pc = "off" /\ conn[f].server = "none"
    BY DEF Init, BackendInit, FrontendInit, ChannelInit, BackendStart, FrontendStart, NoConnection
  <2>2. NoResponse.result # "success"
    BY DEF NoResponse, Response
  <2>3. /\ \A b \in Backends : backend[b].client = "none" /\ DecisionOf(b) = "none"
        /\ \A f \in Frontends : ClaimOf(f) = "none" /\ OutcomeOf(f) = "none"
    BY <2>1, <2>2, SocketAssumption DEF ClaimOf, DecisionOf, OutcomeOf
  <2>4. /\ [f \in Frontends |-> ClaimOf(f)] = [f \in Frontends |-> "none"]
        /\ [b \in Backends |-> backend[b].client] = [b \in Backends |-> "none"]
        /\ [b \in Backends |-> DecisionOf(b)] = [b \in Backends |-> "none"]
        /\ [f \in Frontends |-> OutcomeOf(f)] = [f \in Frontends |-> "none"]
    BY <2>3
  <2> QED
    BY ONLY <2>4, Zenon DEF ClaimOf, DecisionOf, OutcomeOf, Implementation!AbstractInit
<1>2. ExchangeInv /\ ExchangeInv' /\ [Next]_vars => Answers
  <2> SUFFICES ASSUME ExchangeInv, ExchangeInv', [Next]_vars
               PROVE  Answers
    OBVIOUS
  <2>1. CASE UNCHANGED vars
    <3>1. SameClaims /\ SameTaken /\ SameDecisions /\ SameOutcomes
      BY <2>1 DEF vars, SameClaims, SameTaken, SameDecisions, SameOutcomes, ClaimOf, DecisionOf,
         OutcomeOf, TypedTheAccount
    <3> QED
      BY <3>1, MapsToStutter DEF Answers
  <2>2. ASSUME NEW b \in Backends, UNCHANGED frontend,
               StartBackend(b) \/ BackendStep(b) \/ StopBackend(b) \/ KillBackend(b)
        PROVE  Answers
    BY <2>2, BackendEffects, BackendAnswers
  <2>3. ASSUME NEW f \in Frontends,
               \/ StartFrontend(f) \/ FrontendStep(f) \/ UserAnswers(f)
               \/ InterruptFrontend(f) \/ KillFrontend(f)
        PROVE  Answers
    BY <2>3, FrontendEffects, FrontendAnswers
  <2> QED
    BY <2>1, <2>2, <2>3, StrangerAnswersNobody DEF Next, Quiet
<1> QED
  BY <1>1, <1>2, ExchangeInitInv, ExchangeNextInv, PTL
     DEF Spec, OneAnswerEach, Answers, Implementation!AbstractSpec

-----------------------------------------------------------------------------
(* Passwords left behind.                                                  *)

SecretShape ==
  /\ DOMAIN backend = Backends /\ DOMAIN frontend = Frontends
  /\ \A b \in Backends : {"pc", "verified", "request", "credential", "code"} \subseteq DOMAIN backend[b]
  /\ \A f \in Frontends : {"pc", "input", "request", "code"} \subseteq DOMAIN frontend[f]

\* The request is held inside handle_client() only, the way out of which clears
\* it: that the rejection of a peer leaves by another way does no harm, because
\* nothing was read from that one.
HeldByBackend(b) ==
  /\ backend[b].code = "killed" => backend[b].pc = "exited"
  /\ backend[b].pc \in Reads => backend[b].verified = TRUE
  /\ backend[b].request = TRUE =>
       /\ backend[b].verified = TRUE
       /\ backend[b].pc \in Reads \cup Writes \cup {"clear_request"} \/ backend[b].code = "killed"
  /\ backend[b].credential = TRUE => backend[b].pc # "exited" \/ backend[b].code = "killed"
  /\ {backend[b].verified, backend[b].request, backend[b].credential} \subseteq BOOLEAN

HeldByFrontend(f) ==
  /\ frontend[f].code = "killed" => frontend[f].pc = "exited"
  /\ frontend[f].input = TRUE =>
       frontend[f].pc \in {"echo_on", "judge"} \/ frontend[f].code = "killed"
  /\ frontend[f].request = TRUE =>
       /\ frontend[f].pc \notin {"receive", "receive_wait", "close"}
       /\ frontend[f].pc # "exited" \/ frontend[f].code = "killed"
  /\ {frontend[f].input, frontend[f].request} \subseteq BOOLEAN

SecretInv ==
  /\ SecretShape
  /\ \A b \in Backends : HeldByBackend(b)
  /\ \A f \in Frontends : HeldByFrontend(f)

BackendHolds(b) ==
  /\ SecretShape' /\ HeldByBackend(b)'
  /\ \A c \in Backends \ {b} : backend'[c] = backend[c]

LEMMA SetUpHolds ==
  ASSUME NEW b \in Backends, SecretInv, UNCHANGED frontend,
         \/ InstallHandlers(b) \/ LoadCredential(b) \/ DropPrivileges(b) \/ InspectPath(b)
         \/ RemoveStale(b) \/ Bind(b) \/ Chmod(b) \/ Listen(b) \/ UndoBind(b)
  PROVE  BackendHolds(b)
<1>1. PICK place : /\ place \in (Early \cup Late) \ {"clear_request", "exited"}
                   /\ backend[b].pc \in Early
                   /\ \/ backend' = [backend EXCEPT ![b].pc = place]
                      \/ backend' = [backend EXCEPT ![b].pc = place, ![b].credential = TRUE]
                      \/ backend' = [backend EXCEPT ![b].pc = place, ![b].server_fd = "open"]
  BY DEF InstallHandlers, LoadCredential, DropPrivileges, InspectPath, RemoveStale,
         Bind, Chmod, Listen, UndoBind, Fail, Goto, Early, Late
<1>2. /\ SecretShape' /\ \A c \in Backends \ {b} : backend'[c] = backend[c]
      /\ backend'[b].pc = place /\ backend'[b].code = backend[b].code
      /\ backend'[b].verified = backend[b].verified /\ backend'[b].request = backend[b].request
      /\ backend'[b].credential \in {backend[b].credential, TRUE}
  BY <1>1 DEF SecretInv, SecretShape
<1>3. HeldByBackend(b)
  BY DEF SecretInv
<1> QED
  BY <1>1, <1>2, <1>3 DEF BackendHolds, HeldByBackend, Early, Reads, Writes, Late

LEMMA ServingHolds ==
  ASSUME NEW b \in Backends, SecretInv, UNCHANGED frontend,
         \/ AcceptCheck(b) \/ Accept(b) \/ AcceptSleeps(b) \/ VerifyPeer(b) \/ ReadCheck(b)
         \/ Read(b) \/ ReadEnds(b) \/ ReadSleeps(b) \/ WriteCheck(b) \/ Write(b)
         \/ WriteFails(b) \/ ClearRequest(b)
  PROVE  BackendHolds(b)
<1>1. SecretShape /\ HeldByBackend(b)
  BY DEF SecretInv
<1> DEFINE Kept == SecretShape' /\ \A c \in Backends \ {b} : backend'[c] = backend[c]
<1> USE DEF SecretShape, Goto, Early, Reads, Writes, AfterClient
<1>2. CASE AcceptCheck(b) \/ Accept(b) \/ AcceptSleeps(b)
  <2>1. /\ Kept /\ backend[b].pc \in {"accept_check", "accept", "accept_wait"}
        /\ backend'[b].pc \in {"accept", "accept_wait", "verify", "close_client"}
        /\ backend'[b].verified = backend[b].verified /\ backend'[b].request = backend[b].request
        /\ backend'[b].credential = backend[b].credential /\ backend'[b].code = backend[b].code
    BY <1>1, <1>2 DEF AcceptCheck, StopCheck, Accept, AcceptSleeps
  <2> QED
    BY <1>1, <2>1 DEF BackendHolds, HeldByBackend
<1>3. CASE VerifyPeer(b)
  <2>1. /\ Kept /\ backend[b].pc = "verify"
        /\ \/ backend'[b].pc = "read_check" /\ backend'[b].verified = TRUE
           \/ backend'[b].pc = "write_check" /\ backend'[b].verified = backend[b].verified
        /\ backend'[b].request = backend[b].request
        /\ backend'[b].credential = backend[b].credential /\ backend'[b].code = backend[b].code
    BY <1>1, <1>3 DEF VerifyPeer
  <2> QED
    BY <1>1, <2>1 DEF BackendHolds, HeldByBackend
<1>4. CASE ReadCheck(b) \/ ReadEnds(b) \/ ReadSleeps(b)
  <2>1. /\ Kept /\ backend[b].pc \in Reads /\ backend'[b].pc \in Reads \cup {"clear_request"}
        /\ backend'[b].verified = backend[b].verified /\ backend'[b].request = backend[b].request
        /\ backend'[b].credential = backend[b].credential /\ backend'[b].code = backend[b].code
    BY <1>1, <1>4 DEF ReadCheck, StopCheck, ReadEnds, ReadSleeps
  <2> QED
    BY <1>1, <2>1 DEF BackendHolds, HeldByBackend
<1>5. CASE Read(b)
  <2>1. PICK n \in 1..Available(b) :
          backend' = [backend EXCEPT
            ![b].received = backend[b].received + n,
            ![b].request = TRUE,
            ![b].pc = IF backend[b].received + n = RequestParts THEN "write_check" ELSE "read_check",
            ![b].response = IF backend[b].received + n = RequestParts
                            THEN process_request(conn[backend[b].client].request, Credential)
                            ELSE @]
    BY <1>5 DEF Read
  <2>2. /\ Kept /\ backend[b].pc \in Reads /\ backend'[b].pc \in {"write_check", "read_check"}
        /\ backend'[b].verified = backend[b].verified /\ backend'[b].request = TRUE
        /\ backend'[b].credential = backend[b].credential /\ backend'[b].code = backend[b].code
    BY <1>1, <1>5, <2>1 DEF Read
  <2> QED
    BY <1>1, <2>2 DEF BackendHolds, HeldByBackend
<1>6. CASE WriteCheck(b) \/ WriteFails(b)
  <2>1. /\ Kept /\ backend[b].pc \in Writes
        /\ backend'[b].pc \in Writes \cup {IF backend[b].verified THEN "clear_request" ELSE "close_client"}
        /\ backend'[b].verified = backend[b].verified /\ backend'[b].request = backend[b].request
        /\ backend'[b].credential = backend[b].credential /\ backend'[b].code = backend[b].code
    BY <1>1, <1>6 DEF WriteCheck, StopCheck, WriteFails
  <2> QED
    BY <1>1, <2>1 DEF BackendHolds, HeldByBackend
<1>7. CASE Write(b)
  <2>1. PICK n \in 1..(ResponseParts - backend[b].sent) :
          backend' = [backend EXCEPT
            ![b].sent = backend[b].sent + n,
            ![b].pc = IF backend[b].sent + n = ResponseParts THEN AfterClient(b) ELSE "write_check",
            ![b].code = IF backend[b].sent + n = ResponseParts /\ backend[b].verified
                        THEN "success" ELSE @]
    BY <1>7 DEF Write
  <2>2. /\ Kept /\ backend[b].pc \in Writes
        /\ backend'[b].pc \in Writes \cup {IF backend[b].verified THEN "clear_request" ELSE "close_client"}
        /\ backend'[b].verified = backend[b].verified /\ backend'[b].request = backend[b].request
        /\ backend'[b].credential = backend[b].credential
        /\ backend'[b].code \in {backend[b].code, "success"}
    BY <1>1, <1>7, <2>1 DEF Write
  <2> QED
    BY <1>1, <2>2 DEF BackendHolds, HeldByBackend
<1>8. CASE ClearRequest(b)
  <2>1. /\ Kept /\ backend[b].pc = "clear_request" /\ backend'[b].pc = "close_client"
        /\ backend'[b].verified = backend[b].verified /\ backend'[b].request = FALSE
        /\ backend'[b].credential = backend[b].credential /\ backend'[b].code = backend[b].code
    BY <1>1, <1>8 DEF ClearRequest
  <2> QED
    BY <1>1, <2>1 DEF BackendHolds, HeldByBackend
<1> QED
  BY <1>2, <1>3, <1>4, <1>5, <1>6, <1>7, <1>8

LEMMA EndHolds ==
  ASSUME NEW b \in Backends, SecretInv, UNCHANGED frontend,
         \/ CloseClient(b) \/ CloseServer(b) \/ UnlinkPath(b) \/ ReturnBackend(b)
         \/ StopBackend(b) \/ KillBackend(b)
  PROVE  BackendHolds(b)
<1>1. SecretShape /\ HeldByBackend(b)
  BY DEF SecretInv
<1> DEFINE Kept == /\ SecretShape' /\ \A c \in Backends \ {b} : backend'[c] = backend[c]
                   /\ backend'[b].verified = backend[b].verified
                   /\ backend'[b].request = backend[b].request
<1> USE DEF SecretShape, Goto
<1>2. CASE CloseClient(b) \/ CloseServer(b) \/ UnlinkPath(b)
  <2>1. /\ Kept /\ backend[b].pc \in {"close_client", "close_server", "unlink"}
        /\ backend'[b].pc \in {"close_server", "unlink", "clear"}
        /\ backend'[b].credential = backend[b].credential /\ backend'[b].code = backend[b].code
    BY <1>1, <1>2 DEF CloseClient, CloseServer, UnlinkPath
  <2> QED
    BY <1>1, <2>1 DEF BackendHolds, HeldByBackend, Reads, Writes
<1>3. CASE ReturnBackend(b)
  <2>1. /\ Kept /\ backend[b].pc = "clear" /\ backend'[b].pc = "exited"
        /\ backend'[b].credential = FALSE
        /\ backend'[b].code = IF backend[b].code = "none" THEN "failure" ELSE backend[b].code
    BY <1>1, <1>3 DEF ReturnBackend
  <2> QED
    BY <1>1, <2>1 DEF BackendHolds, HeldByBackend, Reads, Writes
<1>4. CASE Gone(b)
  <2>1. /\ Kept /\ backend'[b].pc = "exited" /\ backend'[b].code = "killed"
        /\ backend'[b].credential = backend[b].credential
    BY <1>1, <1>4 DEF Gone
  <2> QED
    BY <1>1, <2>1 DEF BackendHolds, HeldByBackend, Reads, Writes
<1>5. CASE StopBackend(b) /\ ~Gone(b)
  <2>1. /\ Kept /\ backend[b].pc # "exited"
        /\ \/ backend'[b].pc = backend[b].pc
           \/ backend[b].pc = "accept_wait" /\ backend'[b].pc = "close_client"
           \/ backend[b].pc = "read_wait" /\ backend'[b].pc = "clear_request"
        /\ backend'[b].credential = backend[b].credential /\ backend'[b].code = backend[b].code
    BY <1>1, <1>5 DEF StopBackend, Ended
  <2> QED
    BY <1>1, <2>1 DEF BackendHolds, HeldByBackend, Reads, Writes
<1> QED
  BY <1>2, <1>3, <1>4, <1>5 DEF StopBackend, KillBackend

FrontendHolds(f) ==
  /\ SecretShape' /\ backend' = backend /\ HeldByFrontend(f)'
  /\ \A g \in Frontends \ {f} : frontend'[g] = frontend[g]

LEMMA PromptHolds ==
  ASSUME NEW f \in Frontends, SecretInv,
         \/ StartFrontend(f) \/ InstallFrontendHandlers(f) \/ InterruptCheck(f) \/ PromptSleeps(f)
         \/ EnterUsername(f) \/ DisableEcho(f) \/ EnterPassword(f) \/ EchoCheck(f) \/ RestoreEcho(f)
         \/ JudgePassword(f)
  PROVE  FrontendHolds(f)
<1>1. SecretShape /\ HeldByFrontend(f) /\ backend' = backend
  BY DEF SecretInv, StartFrontend, InstallFrontendHandlers, InterruptCheck, PromptSleeps,
         EnterUsername, DisableEcho, EnterPassword, EchoCheck, RestoreEcho, JudgePassword,
         PasswordInterrupted, PasswordNotRead, PasswordTooLong, PasswordEmpty, PasswordTaken
<1> DEFINE Kept == /\ SecretShape' /\ \A g \in Frontends \ {f} : frontend'[g] = frontend[g]
                   /\ frontend'[f].code = frontend[f].code
           Here == Asking \cup {"cleanup"}
<1>2. ASSUME Kept, frontend[f].pc \in Asking, frontend'[f].pc \in Here,
             frontend'[f].input = TRUE => frontend'[f].pc \in {"echo_on", "judge"},
             {frontend'[f].input, frontend'[f].request} \subseteq BOOLEAN
      PROVE  FrontendHolds(f)
  BY <1>1, <1>2 DEF FrontendHolds, HeldByFrontend, Asking, Named
<1> USE DEF SecretShape, Move, Asking, Named
<1>3. frontend[f].pc \in Asking =>
        (frontend[f].input = TRUE => frontend[f].pc \in {"echo_on", "judge"})
  BY <1>1 DEF HeldByFrontend
<1>4. {frontend[f].input, frontend[f].request} \subseteq BOOLEAN
  BY <1>1 DEF HeldByFrontend
<1>5. CASE StartFrontend(f) \/ InstallFrontendHandlers(f) \/ PromptSleeps(f) \/ DisableEcho(f)
  <2>1. /\ Kept /\ frontend[f].pc \in Asking \ {"echo_on", "judge"} /\ frontend'[f].pc \in Here
        /\ frontend'[f].input \in {frontend[f].input, FALSE} /\ frontend'[f].request = frontend[f].request
    <3>1. CASE StartFrontend(f) \/ InstallFrontendHandlers(f) \/ PromptSleeps(f)
      BY <1>1, <3>1 DEF StartFrontend, InstallFrontendHandlers, PromptSleeps
    <3>2. CASE DisableEcho(f)
      <4>1. CASE frontend' = [frontend EXCEPT ![f].pc = "cleanup", ![f].input = FALSE]
        <5>1. frontend'[f].input = FALSE
          BY <1>1, <4>1
        <5> QED
          BY <1>1, <3>2, <4>1, <5>1 DEF DisableEcho
      <4>2. CASE \/ frontend' = [frontend EXCEPT ![f].pc = "echo_check"]
                 \/ frontend' = [frontend EXCEPT ![f].pc = "echo_check", ![f].echo = FALSE,
                                                 ![f].restore_required = TRUE]
        <5>1. frontend'[f].input = frontend[f].input
          BY <1>1, <4>2
        <5> QED
          BY <1>1, <3>2, <4>2, <5>1 DEF DisableEcho
      <4> QED
        BY <3>2, <4>1, <4>2 DEF DisableEcho
    <3> QED
      BY <1>5, <3>1, <3>2
  <2> QED
    BY <1>2, <1>3, <1>4, <2>1
<1>6. CASE InterruptCheck(f)
  <2>1. PICK step \in {<<"username_check", "username">>,
                       <<"password_check", "echo_off">>, <<"exchange", "connect">>} :
          /\ frontend[f].pc = step[1]
          /\ frontend' = [frontend EXCEPT
               ![f].pc = IF frontend[f].interrupted THEN "cleanup" ELSE step[2],
               ![f].request = @ /\ ~frontend[f].interrupted]
    BY <1>6 DEF InterruptCheck
  <2>2. step[1] \in Asking \ {"echo_on", "judge"} /\ step[2] \in Here
    OBVIOUS
  <2>3. /\ Kept /\ frontend'[f].pc \in {"cleanup", step[2]}
        /\ frontend'[f].input = frontend[f].input /\ frontend'[f].request \in BOOLEAN
    BY <1>1, <2>1
  <2> QED
    BY <1>2, <1>3, <1>4, <2>1, <2>2, <2>3
<1>7. CASE EnterUsername(f)
  <2>1. PICK line, place : /\ frontend' = [frontend EXCEPT ![f].username = line, ![f].pc = place]
                           /\ place \in {"password_check", "cleanup"}
    BY <1>7 DEF EnterUsername
  <2>2. /\ Kept /\ frontend[f].pc \in {"username", "username_wait"} /\ frontend'[f].pc = place
        /\ frontend'[f].input = frontend[f].input /\ frontend'[f].request = frontend[f].request
    BY <1>1, <1>7, <2>1 DEF EnterUsername
  <2> QED
    BY <1>2, <1>3, <1>4, <2>1, <2>2
<1>8. CASE EnterPassword(f)
  <2>1. PICK line \in PasswordLines, heard \in BOOLEAN :
          frontend' = [frontend EXCEPT ![f].password = line, ![f].pc = "echo_on", ![f].input = heard]
    BY <1>8 DEF EnterPassword
  <2>2. frontend[f].pc \in {"password", "password_wait"}
    BY <1>8 DEF EnterPassword
  <2>3. /\ Kept /\ frontend'[f].pc = "echo_on" /\ frontend'[f].input = heard
        /\ frontend'[f].request = frontend[f].request
    BY <1>1, <2>1
  <2> QED
    BY <1>2, <1>4, <2>1, <2>2, <2>3
<1>9. CASE RestoreFails(f) /\ frontend[f].pc \in {"echo_check", "echo_on"}
  <2>1. /\ Kept /\ frontend'[f].pc = "cleanup" /\ frontend'[f].input = FALSE
        /\ frontend'[f].request = frontend[f].request
    BY <1>1, <1>9 DEF RestoreFails
  <2> QED
    BY <1>2, <1>4, <1>9, <2>1
<1>10. CASE (EchoCheck(f) \/ RestoreEcho(f)) /\ ~RestoreFails(f)
  <2>1. /\ Kept /\ frontend'[f].request = frontend[f].request
        /\ \/ /\ frontend[f].pc = "echo_check" /\ frontend'[f].pc = "cleanup"
              /\ frontend'[f].input = FALSE
           \/ /\ frontend[f].pc = "echo_check" /\ frontend'[f].pc = "password"
              /\ frontend'[f].input = frontend[f].input
           \/ /\ frontend[f].pc = "echo_on" /\ frontend'[f].pc = "judge"
              /\ frontend'[f].input = frontend[f].input
    BY <1>1, <1>10 DEF EchoCheck, RestoreEcho
  <2> QED
    BY <1>2, <1>3, <1>4, <2>1
\* Each of the remaining exits of read_password() clears the buffer.
<1>11. CASE JudgePassword(f)
  <2>1. /\ Kept /\ frontend[f].pc = "judge" /\ frontend'[f].pc \in {"cleanup", "exchange"}
        /\ frontend'[f].input = FALSE /\ frontend'[f].request \in {frontend[f].request, TRUE}
    BY <1>1, <1>11 DEF JudgePassword, PasswordInterrupted, PasswordNotRead, PasswordTooLong,
       PasswordEmpty, PasswordTaken
  <2> QED
    BY <1>2, <1>4, <2>1
<1>12. EchoCheck(f) \/ RestoreEcho(f) => frontend[f].pc \in {"echo_check", "echo_on"}
  BY DEF EchoCheck, RestoreEcho
<1> QED
  BY <1>5, <1>6, <1>7, <1>8, <1>9, <1>10, <1>11, <1>12

LEMMA SessionHolds ==
  ASSUME NEW f \in Frontends, SecretInv,
         \/ ConnectToBackend(f) \/ Send(f) \/ SendFails(f) \/ Receive(f) \/ ReceiveEnds(f)
         \/ ReceiveSleeps(f) \/ CloseAndReport(f) \/ ReturnFrontend(f)
         \/ InterruptFrontend(f) \/ KillFrontend(f)
  PROVE  FrontendHolds(f)
<1>1. SecretShape /\ HeldByFrontend(f) /\ backend' = backend
  BY DEF SecretInv, ConnectToBackend, Send, SendFails, Receive, ReceiveEnds, ReceiveSleeps,
         CloseAndReport, ReturnFrontend, InterruptFrontend, KillFrontend, FrontendGone
<1> DEFINE Kept == /\ SecretShape' /\ \A g \in Frontends \ {f} : frontend'[g] = frontend[g]
                   /\ frontend'[f].input = frontend[f].input
<1> USE DEF SecretShape, Move
<1>2. CASE ConnectToBackend(f)
  <2>1. /\ Kept /\ frontend[f].pc = "connect" /\ frontend'[f].pc \in {"send", "cleanup"}
        /\ frontend'[f].code = frontend[f].code
        /\ frontend'[f].request \in {frontend[f].request, FALSE}
    BY <1>1, <1>2 DEF ConnectToBackend
  <2> QED
    BY <1>1, <2>1 DEF FrontendHolds, HeldByFrontend
<1>3. CASE Send(f)
  <2>1. PICK place \in {"receive", "send"}, held \in BOOLEAN :
          /\ frontend' = [frontend EXCEPT ![f].pc = place, ![f].request = held]
          /\ place = "receive" => held = FALSE
    <3>1. PICK n \in 1..(RequestParts - conn[f].sent) :
            frontend' = [frontend EXCEPT
              ![f].pc = IF conn[f].sent + n = RequestParts THEN "receive" ELSE @,
              ![f].request = @ /\ ~(conn[f].sent + n = RequestParts)]
      BY <1>3 DEF Send
    <3>2. CASE conn[f].sent + n = RequestParts
      <4>1. frontend' = [frontend EXCEPT ![f].pc = "receive", ![f].request = FALSE]
        BY <3>1, <3>2
      <4> QED
        BY <4>1
    <3>3. CASE conn[f].sent + n # RequestParts
      <4>1. frontend[f].pc = "send" /\ frontend[f].request \in BOOLEAN
        BY <1>1, <1>3 DEF Send, HeldByFrontend
      <4>2. frontend' = [frontend EXCEPT ![f].pc = "send", ![f].request = frontend[f].request]
        BY <1>1, <3>1, <3>3, <4>1
      <4> QED
        BY <4>1, <4>2
    <3> QED
      BY <3>2, <3>3
  <2>2. frontend[f].pc = "send"
    BY <1>3 DEF Send
  <2>3. /\ Kept /\ frontend'[f].code = frontend[f].code
        /\ frontend'[f].pc = place /\ frontend'[f].request = held
    BY <1>1, <2>1
  <2> QED
    BY <1>1, <2>1, <2>2, <2>3 DEF FrontendHolds, HeldByFrontend
<1>4. CASE SendFails(f)
  <2>1. /\ Kept /\ frontend[f].pc = "send" /\ frontend'[f].pc = "close"
        /\ frontend'[f].code = frontend[f].code /\ frontend'[f].request = FALSE
    BY <1>1, <1>4 DEF SendFails
  <2> QED
    BY <1>1, <2>1 DEF FrontendHolds, HeldByFrontend
<1>5. CASE Receive(f) \/ ReceiveEnds(f) \/ ReceiveSleeps(f)
  <2>1. /\ Kept /\ frontend[f].pc \in {"receive", "receive_wait"}
        /\ frontend'[f].pc \in {"receive", "receive_wait", "close"}
        /\ frontend'[f].code = frontend[f].code /\ frontend'[f].request = frontend[f].request
    <3>1. CASE Receive(f)
      <4>1. PICK n \in 1..Answered(f), place \in {"close", "receive"} :
              frontend' = [frontend EXCEPT ![f].received = @ + n, ![f].pc = place]
        BY <3>1 DEF Receive
      <4>2. frontend[f].pc \in {"receive", "receive_wait"}
        BY <3>1 DEF Receive
      <4> QED
        BY <1>1, <4>1, <4>2
    <3>2. CASE ReceiveEnds(f) \/ ReceiveSleeps(f)
      BY <1>1, <3>2 DEF ReceiveEnds, ReceiveSleeps
    <3> QED
      BY <1>5, <3>1, <3>2
  <2> QED
    BY <1>1, <2>1 DEF FrontendHolds, HeldByFrontend
<1>6. CASE CloseAndReport(f)
  <2>1. PICK judged \in BOOLEAN :
          frontend' = [frontend EXCEPT
            ![f].pc = "cleanup",
            ![f].report = IF judged THEN conn[f].response ELSE @,
            ![f].code = IF judged /\ conn[f].response.result = "success" THEN "success" ELSE @]
    BY <1>6 DEF CloseAndReport
  <2>2. frontend[f].pc = "close"
    BY <1>6 DEF CloseAndReport
  <2>3. /\ Kept /\ frontend'[f].pc = "cleanup" /\ frontend'[f].request = frontend[f].request
        /\ frontend'[f].code \in {frontend[f].code, "success"}
    BY <1>1, <2>1
  <2> QED
    BY <1>1, <2>2, <2>3 DEF FrontendHolds, HeldByFrontend
<1>7. CASE ReturnFrontend(f)
  <2>1. /\ Kept /\ frontend[f].pc = "cleanup" /\ frontend'[f].pc = "exited"
        /\ frontend'[f].code = IF frontend[f].code = "none" THEN "failure" ELSE frontend[f].code
        /\ frontend'[f].request = FALSE
    BY <1>1, <1>7 DEF ReturnFrontend
  <2> QED
    BY <1>1, <2>1 DEF FrontendHolds, HeldByFrontend
<1>8. CASE FrontendGone(f)
  <2>1. /\ Kept /\ frontend'[f].pc = "exited" /\ frontend'[f].code = "killed"
        /\ frontend'[f].request = frontend[f].request
    BY <1>1, <1>8 DEF FrontendGone
  <2> QED
    BY <1>1, <2>1 DEF FrontendHolds, HeldByFrontend
<1>9. CASE InterruptFrontend(f) /\ ~FrontendGone(f)
  <2>1. /\ Kept /\ frontend[f].pc # "exited"
        /\ \/ frontend'[f].pc = frontend[f].pc
           \/ frontend[f].pc = "username_wait" /\ frontend'[f].pc = "cleanup"
           \/ frontend[f].pc = "password_wait" /\ frontend'[f].pc = "echo_on"
           \/ frontend[f].pc = "receive_wait" /\ frontend'[f].pc = "close"
        /\ frontend'[f].code = frontend[f].code /\ frontend'[f].request = frontend[f].request
    BY <1>1, <1>9 DEF InterruptFrontend, Finished
  <2> QED
    BY <1>1, <2>1 DEF FrontendHolds, HeldByFrontend
<1> QED
  BY <1>2, <1>3, <1>4, <1>5, <1>6, <1>7, <1>8, <1>9 DEF KillFrontend

LEMMA SecretNextInv == SecretInv /\ [Next]_vars => SecretInv'
<1> SUFFICES ASSUME SecretInv, [Next]_vars
             PROVE  SecretInv'
  OBVIOUS
<1>1. CASE UNCHANGED <<backend, frontend>>
  BY <1>1 DEF SecretInv, SecretShape, HeldByBackend, HeldByFrontend
<1>2. ASSUME NEW b \in Backends, UNCHANGED frontend, BackendHolds(b)
      PROVE  SecretInv'
  BY <1>2 DEF SecretInv, BackendHolds, HeldByBackend, HeldByFrontend
<1>3. ASSUME NEW b \in Backends, UNCHANGED frontend,
             BackendStep(b) \/ StopBackend(b) \/ KillBackend(b)
      PROVE  SecretInv'
  BY <1>2, <1>3, SetUpHolds, ServingHolds, EndHolds DEF BackendStep
<1>4. ASSUME NEW b \in Backends, UNCHANGED frontend, StartBackend(b)
      PROVE  SecretInv'
  <2>1. /\ SecretShape' /\ backend[b].pc = "off"
        /\ \A c \in Backends :
             /\ backend'[c].pc = IF c = b THEN "start" ELSE backend[c].pc
             /\ backend'[c].verified = backend[c].verified /\ backend'[c].request = backend[c].request
             /\ backend'[c].credential = backend[c].credential /\ backend'[c].code = backend[c].code
    BY <1>4 DEF SecretInv, SecretShape, StartBackend
  <2>2. \A c \in Backends : HeldByBackend(c)'
    BY <2>1 DEF SecretInv, HeldByBackend, Reads, Writes
  <2> QED
    BY <1>4, <2>1, <2>2 DEF SecretInv, HeldByFrontend
<1>5. ASSUME NEW f \in Frontends,
             \/ StartFrontend(f) \/ FrontendStep(f) \/ UserAnswers(f)
             \/ InterruptFrontend(f) \/ KillFrontend(f)
      PROVE  SecretInv'
  <2>1. FrontendHolds(f)
    BY <1>5, PromptHolds, SessionHolds DEF FrontendStep, UserAnswers
  <2> QED
    BY <2>1 DEF SecretInv, FrontendHolds, HeldByBackend, HeldByFrontend
<1> QED
  BY <1>1, <1>3, <1>4, <1>5 DEF Next, Quiet, vars

\* On every path of both programs, the failures and interruptions included, the
\* buffers that held a password are cleared before the program returns, and the
\* frontend's before it waits for the answer; the buffer of read_password() on
\* each of its exits.
THEOREM NoSecretStays == Spec => []NoSecretLeftBehind
<1>1. Init => SecretInv
  <2> SUFFICES ASSUME Init
               PROVE  SecretInv
    OBVIOUS
  <2>1. /\ backend = [b \in Backends |-> BackendStart] /\ frontend = [f \in Frontends |-> FrontendStart]
    BY DEF Init, BackendInit, FrontendInit
  <2>2. SecretShape
    BY <2>1 DEF SecretShape, BackendStart, FrontendStart
  <2>3. /\ \A b \in Backends : /\ backend[b].pc = "off" /\ backend[b].verified = FALSE
                              /\ backend[b].request = FALSE /\ backend[b].credential = FALSE
                              /\ backend[b].code = "none"
        /\ \A f \in Frontends : /\ frontend[f].pc = "off" /\ frontend[f].input = FALSE
                               /\ frontend[f].request = FALSE /\ frontend[f].code = "none"
    BY <2>1 DEF BackendStart, FrontendStart
  <2> QED
    BY <2>2, <2>3 DEF SecretInv, HeldByBackend, HeldByFrontend, Reads, Writes
<1>2. SecretInv => NoSecretLeftBehind
  BY DEF SecretInv, HeldByBackend, HeldByFrontend, NoSecretLeftBehind, Returned, Reads, Writes
<1> QED
  BY <1>1, <1>2, SecretNextInv, PTL DEF Spec

-----------------------------------------------------------------------------
(* Types.                                                                  *)

BackendTypes ==
  /\ path \in Backends \cup {"absent", "foreign"}
  /\ \A b \in Backends : /\ backend[b].alone \in BOOLEAN
                         /\ backend[b].server_fd \in {"none", "open", "closed"}
                         /\ backend[b].code \in {"none", "success", "failure", "killed"}

FrontendTypes == \A f \in Frontends : frontend[f].code \in {"none", "success", "failure", "killed"}

TypeInv == PathInv /\ ExchangeInv /\ BackendTypes /\ FrontendTypes

LEMMA TypeNextInv == TypeInv /\ [Next]_vars => TypeInv'
<1> SUFFICES ASSUME TypeInv, [Next]_vars
             PROVE  BackendTypes' /\ FrontendTypes'
  BY PathNextInv, ExchangeNextInv DEF TypeInv
<1> USE DEF TypeInv
<1>1. CASE UNCHANGED <<backend, frontend, path>>
  BY <1>1 DEF BackendTypes, FrontendTypes
<1>2. ASSUME NEW b \in Backends, Acts(b), UNCHANGED frontend
      PROVE  BackendTypes' /\ FrontendTypes'
  <2>1. /\ path' \in {path, "absent", b}
        /\ backend'[b].server_fd \in {backend[b].server_fd, "none", "open", "closed"}
        /\ backend'[b].code \in {backend[b].code, "success", "failure", "killed"}
        /\ backend'[b].alone = backend[b].alone
    BY <1>2 DEF Acts, NameStep, Passes
  <2> QED
    BY <1>2, <2>1 DEF Acts, BackendTypes, FrontendTypes
<1>3. ASSUME NEW b \in Backends, UNCHANGED frontend,
             BackendStep(b) \/ StopBackend(b) \/ KillBackend(b)
      PROVE  BackendTypes' /\ FrontendTypes'
  BY <1>2, <1>3, StartUpActs, SocketActs, ServingActs, CleanupActs, SignalActs
     DEF BackendStep, PathInv
<1>4. ASSUME NEW b \in Backends, UNCHANGED frontend, StartBackend(b)
      PROVE  BackendTypes' /\ FrontendTypes'
  <2>1. /\ path' = path
        /\ \A c \in Backends :
             /\ backend'[c].server_fd = backend[c].server_fd /\ backend'[c].code = backend[c].code
             /\ backend'[c].alone \in BOOLEAN
    BY <1>4 DEF StartBackend, channel, PathInv, Shape
  <2> QED
    BY <1>4, <2>1 DEF BackendTypes, FrontendTypes
<1>5. ASSUME NEW f \in Frontends,
             \/ StartFrontend(f) \/ FrontendStep(f) \/ UserAnswers(f)
             \/ InterruptFrontend(f) \/ KillFrontend(f)
      PROVE  BackendTypes' /\ FrontendTypes'
  <2>1. /\ Apart(f)
        /\ \/ Prompting(f) \/ Connecting(f) \/ Sending(f) \/ Receiving(f) \/ Settling(f)
           \/ Closing(f) \/ Vanishing(f)
    BY <1>5, FrontendEffects
  <2>2. frontend'[f].code \in {frontend[f].code, "success", "failure", "killed"}
    BY <2>1 DEF Prompting, Connecting, Sending, Receiving, Settling, Closing, Vanishing, SameReport
  <2>3. path' = path
    BY <1>5 DEF StartFrontend, FrontendStep, UserAnswers, InterruptFrontend, KillFrontend,
       InstallFrontendHandlers, InterruptCheck, PromptSleeps, EnterUsername, DisableEcho,
       EchoCheck, EnterPassword, RestoreEcho, JudgePassword, PasswordInterrupted, PasswordNotRead,
       PasswordTooLong, PasswordEmpty, PasswordTaken, ConnectToBackend, Send, SendFails, Receive,
       ReceiveEnds, ReceiveSleeps, CloseAndReport, ReturnFrontend, FrontendGone, channel
  <2> QED
    BY <2>1, <2>2, <2>3 DEF Apart, BackendTypes, FrontendTypes
<1>6. ASSUME NEW f \in Frontends, StrangerAnswers(f) \/ StrangerHangsUp(f)
      PROVE  path' = path
  BY <1>6 DEF StrangerAnswers, StrangerHangsUp
<1> QED
  BY <1>1, <1>3, <1>4, <1>5, <1>6 DEF Next, Quiet, vars

\* The descriptors, the places of both mains and the counts of what was sent and
\* received stay in their ranges: no part is sent or taken that is not there.
THEOREM TypesStay == Spec => []TypeOK
<1>1. Init => BackendTypes /\ FrontendTypes
  <2> SUFFICES ASSUME Init
               PROVE  BackendTypes /\ FrontendTypes
    OBVIOUS
  <2>1. /\ path \in {"absent", "foreign"}
        /\ \A b \in Backends : /\ backend[b].alone = TRUE /\ backend[b].server_fd = "none"
                              /\ backend[b].code = "none"
        /\ \A f \in Frontends : frontend[f].code = "none"
    BY DEF Init, ChannelInit, BackendInit, FrontendInit, BackendStart, FrontendStart
  <2> QED
    BY <2>1 DEF BackendTypes, FrontendTypes
<1>2. TypeInv => TypeOK
  <2> SUFFICES ASSUME TypeInv
               PROVE  TypeOK
    OBVIOUS
  <2>1. ASSUME NEW b \in Backends
        PROVE  /\ backend[b].pc \in BackendPlaces
               /\ backend[b].client \in Frontends \cup {"none"}
               /\ backend[b].received \in 0..RequestParts
               /\ backend[b].sent \in 0..ResponseParts
               /\ queue[b] \in Seq(Frontends)
    <3>1. ServiceInv(b) /\ QueueInv(b)
      BY DEF TypeInv, ExchangeInv
    <3>2. Early \cup {"verify"} \cup Reads \cup Writes \cup Late \subseteq BackendPlaces
      BY DEF Early, Reads, Writes, Late, BackendPlaces
    <3> QED
      BY <3>1, <3>2 DEF ServiceInv, QueueInv
  <2>2. ASSUME NEW f \in Frontends
        PROVE  /\ frontend[f].pc \in FrontendPlaces
               /\ frontend[f].received \in 0..ResponseParts
               /\ conn[f].server \in Backends \cup {"none", "foreign"}
               /\ conn[f].open \subseteq {"frontend", "backend"}
               /\ conn[f].sent \in 0..RequestParts
               /\ conn[f].answered \in 0..ResponseParts
    <3>1. ConnectionInv(f) /\ SessionInv(f)
      BY DEF TypeInv, ExchangeInv
    <3>2. Asking \cup Connected \cup {"cleanup", "exited"} \subseteq FrontendPlaces
      BY DEF Asking, Named, Connected, FrontendPlaces
    <3> QED
      BY <3>1, <3>2 DEF ConnectionInv, SessionInv
  <2> QED
    BY <2>1, <2>2 DEF TypeInv, BackendTypes, FrontendTypes, TypeOK
<1>3. Init => TypeInv
  BY <1>1, PathInitInv, ExchangeInitInv DEF TypeInv
<1> QED
  BY <1>2, <1>3, TypeNextInv, PTL DEF Spec
=============================================================================
