------------------------------ MODULE Frontend ------------------------------
(***************************************************************************)
(* Frontend.c: one process that asks its user for a name and a password,   *)
(* the password with the terminal's echo off, sends them to the backend    *)
(* and reports the answer.  As in module Backend a blocking call is left   *)
(* with EINTR only from its sleep.                                         *)
(***************************************************************************)
EXTENDS Backend

CONSTANTS
  Terminals,       \* the frontends whose standard input is a terminal
  UsernameLines,   \* what a user may answer to the first prompt
  PasswordLines,   \* what a user may answer to the second one
  Strayed          \* the frontends a stranger at the path may accept

ASSUME FrontendAssumption == Terminals \subseteq Frontends /\ Strayed \subseteq Frontends

\* A line of text has no NUL in it.
ASSUME LinesAssumption ==
  UsernameLines \cup PasswordLines \subseteq [text : Seq(Nat \ {NUL}), newline : BOOLEAN]

VARIABLE frontend

\* A line of input: its characters and whether a newline ends it.  At the end
\* of the input there is an empty line without one, on which fgets() gives NULL.
Line(text, newline) == [text |-> text, newline |-> newline]
EndOfInput == Line(<<>>, FALSE)

FrontendStart ==
  [pc |-> "off", interrupted |-> FALSE, username |-> EndOfInput,
   password |-> EndOfInput, echo |-> TRUE, restore_required |-> FALSE,
   restore_failed |-> FALSE, input |-> FALSE, request |-> FALSE,
   received |-> 0, report |-> NoResponse, code |-> "none"]

FrontendInit == frontend = [f \in Frontends |-> FrontendStart]

Move(f, place) == frontend' = [frontend EXCEPT ![f].pc = place]

Finished(f) == frontend[f].pc \in {"off", "exited"}

\* fgets() into a buffer of maximum_length + 2 bytes and the checks after it:
\* without a newline in the buffer the line is too long, or the input ended.
Accepts(line, maximum_length) ==
  line.newline /\ Len(line.text) \in 1..maximum_length

-----------------------------------------------------------------------------
(* read_username() and read_password(). *)

StartFrontend(f) ==
  /\ frontend[f].pc = "off"
  /\ Move(f, "start")
  /\ UNCHANGED <<backend, channel>>

InstallFrontendHandlers(f) ==
  /\ frontend[f].pc = "start"
  /\ \/ Move(f, "username_check")
     \/ "sigaction" \in Faults /\ Move(f, "cleanup")
  /\ UNCHANGED <<backend, channel>>

\* The tests of frontend_interrupted before the first prompt, before the second
\* one and before the exchange.
InterruptCheck(f) ==
  /\ \E step \in {<<"username_check", "username">>,
                  <<"password_check", "echo_off">>, <<"exchange", "connect">>} :
       /\ frontend[f].pc = step[1]
       /\ frontend' = [frontend EXCEPT
            ![f].pc = IF frontend[f].interrupted THEN "cleanup" ELSE step[2],
            ![f].request = @ /\ ~frontend[f].interrupted]
  /\ UNCHANGED <<backend, channel>>

\* The user has not answered yet.
PromptSleeps(f) ==
  /\ \/ frontend[f].pc = "username" /\ Move(f, "username_wait")
     \/ frontend[f].pc = "password" /\ Move(f, "password_wait")
  /\ UNCHANGED <<backend, channel>>

EnterUsername(f) ==
  /\ frontend[f].pc \in {"username", "username_wait"}
  /\ \E line \in UsernameLines :
       frontend' = [frontend EXCEPT
         ![f].username = line,
         ![f].pc = IF Accepts(line, UsernameMax) THEN "password_check" ELSE "cleanup"]
  /\ UNCHANGED <<backend, channel>>

\* disable_terminal_echo(): nothing to do unless the input is a terminal.
DisableEcho(f) ==
  /\ frontend[f].pc = "echo_off"
  /\ \/ f \notin Terminals /\ Move(f, "echo_check")
     \/ /\ f \in Terminals
        /\ frontend' = [frontend EXCEPT ![f].pc = "echo_check", ![f].echo = FALSE,
                                        ![f].restore_required = TRUE]
     \/ /\ f \in Terminals /\ "tcsetattr" \in Faults
        /\ frontend' = [frontend EXCEPT ![f].pc = "cleanup", ![f].input = FALSE]
  /\ UNCHANGED <<backend, channel>>

\* restore_terminal_echo() failing.  tcsetattr(), interrupted or not, is not
\* tried again; the callers clear the buffer and give up.
RestoreFails(f) ==
  /\ frontend[f].restore_required /\ "tcsetattr" \in Faults
  /\ frontend' = [frontend EXCEPT ![f].restore_failed = TRUE,
                                  ![f].input = FALSE, ![f].pc = "cleanup"]

\* Mutant: the interruption is noticed and the echo is left off.
EchoCheckForgets(f) ==
  /\ frontend[f].pc = "echo_check"
  /\ Move(f, IF frontend[f].interrupted THEN "cleanup" ELSE "password")
  /\ UNCHANGED <<backend, channel>>

\* The test of frontend_interrupted between disabling the echo and fgets().
EchoCheck(f) ==
  /\ frontend[f].pc = "echo_check"
  /\ \/ /\ frontend[f].interrupted
        /\ frontend' = [frontend EXCEPT ![f].echo = @ \/ frontend[f].restore_required,
                                        ![f].input = FALSE, ![f].pc = "cleanup"]
     \/ frontend[f].interrupted /\ RestoreFails(f)
     \/ ~frontend[f].interrupted /\ Move(f, "password")
  /\ UNCHANGED <<backend, channel>>

EnterPassword(f) ==
  /\ frontend[f].pc \in {"password", "password_wait"}
  /\ \E line \in PasswordLines :
       frontend' = [frontend EXCEPT ![f].password = line, ![f].pc = "echo_on",
                                    ![f].input = line # EndOfInput]
  /\ UNCHANGED <<backend, channel>>

\* The echo is restored whatever was read.
RestoreEcho(f) ==
  /\ frontend[f].pc = "echo_on"
  /\ \/ frontend' = [frontend EXCEPT ![f].echo = @ \/ frontend[f].restore_required,
                                      ![f].pc = "judge"]
     \/ RestoreFails(f)
  /\ UNCHANGED <<backend, channel>>

-----------------------------------------------------------------------------
(* The remaining exits of read_password(), in the order of their tests, each *)
(* with a secure_clear() of its own.                                         *)

PasswordInterrupted(f) ==
  /\ frontend[f].pc = "judge" /\ frontend[f].interrupted
  /\ frontend' = [frontend EXCEPT ![f].input = FALSE, ![f].pc = "cleanup"]
  /\ UNCHANGED <<backend, channel>>

\* read_failed
PasswordNotRead(f) ==
  /\ frontend[f].pc = "judge" /\ ~frontend[f].interrupted
  /\ frontend[f].password = EndOfInput
  /\ frontend' = [frontend EXCEPT ![f].input = FALSE, ![f].pc = "cleanup"]
  /\ UNCHANGED <<backend, channel>>

\* Mutant: this exit forgets its secure_clear().
TooLongStays(f) ==
  /\ frontend[f].pc = "judge" /\ ~frontend[f].interrupted
  /\ frontend[f].password # EndOfInput
  /\ ~(frontend[f].password.newline /\ Len(frontend[f].password.text) <= PasswordMax)
  /\ Move(f, "cleanup")
  /\ UNCHANGED <<backend, channel>>

\* input_too_long: no newline within the maximum_length + 2 bytes of the buffer.
\* With one there, input_length >= password_size, the last of the tests, is
\* never true.
PasswordTooLong(f) ==
  /\ frontend[f].pc = "judge" /\ ~frontend[f].interrupted
  /\ frontend[f].password # EndOfInput
  /\ ~(frontend[f].password.newline /\ Len(frontend[f].password.text) <= PasswordMax)
  /\ frontend' = [frontend EXCEPT ![f].input = FALSE, ![f].pc = "cleanup"]
  /\ UNCHANGED <<backend, channel>>

PasswordEmpty(f) ==
  /\ frontend[f].pc = "judge" /\ ~frontend[f].interrupted
  /\ frontend[f].password.newline /\ Len(frontend[f].password.text) = 0
  /\ frontend' = [frontend EXCEPT ![f].input = FALSE, ![f].pc = "cleanup"]
  /\ UNCHANGED <<backend, channel>>

\* memcpy() into the request.
PasswordTaken(f) ==
  /\ frontend[f].pc = "judge" /\ ~frontend[f].interrupted
  /\ Accepts(frontend[f].password, PasswordMax)
  /\ frontend' = [frontend EXCEPT ![f].request = TRUE, ![f].input = FALSE,
                                  ![f].pc = "exchange"]
  /\ UNCHANGED <<backend, channel>>

JudgePassword(f) ==
  \/ PasswordInterrupted(f) \/ PasswordNotRead(f) \/ PasswordTooLong(f)
  \/ PasswordEmpty(f) \/ PasswordTaken(f)

-----------------------------------------------------------------------------
(* exchange_auth_request(). *)

Request(f) ==
  [version |-> AUTH_PROTOCOL_VERSION, type |-> AUTH_REQUEST_VALIDATE,
   username |-> Packed(frontend[f].username.text, UsernameMax),
   password |-> Packed(frontend[f].password.text, PasswordMax)]

\* A name without a listening socket behind it refuses the connection.  Behind
\* a name that is not a backend's a stranger may listen: nothing tells it from
\* the backend, and it is sent the request.
ConnectToBackend(f) ==
  /\ frontend[f].pc = "connect"
  /\ \/ /\ path \in Backends /\ Listening(path)
        /\ Connect(path, f, Request(f))
        /\ Move(f, "send")
     \/ /\ path = "foreign" /\ f \in Strayed
        /\ ConnectStranger(f, Request(f))
        /\ Move(f, "send")
     \/ /\ path \in Backends => ~Listening(path)
        /\ frontend' = [frontend EXCEPT ![f].request = FALSE, ![f].pc = "cleanup"]
        /\ UNCHANGED <<queue, conn>>
  /\ UNCHANGED <<backend, path>>

ServerGone(f) == "backend" \notin conn[f].open

\* write_all(): the request is cleared as soon as it is sent, or refused.
Send(f) ==
  /\ frontend[f].pc = "send"
  /\ ~ServerGone(f)
  /\ \E n \in 1..(RequestParts - conn[f].sent) :
       LET all == conn[f].sent + n = RequestParts IN
       /\ conn' = [conn EXCEPT ![f].sent = @ + n]
       /\ frontend' = [frontend EXCEPT ![f].pc = IF all THEN "receive" ELSE @,
                                       ![f].request = @ /\ ~all]
  /\ UNCHANGED <<backend, path, queue>>

SendFails(f) ==
  /\ frontend[f].pc = "send"
  /\ ServerGone(f)
  /\ frontend' = [frontend EXCEPT ![f].pc = "close", ![f].request = FALSE]
  /\ UNCHANGED <<backend, channel>>

Answered(f) == conn[f].answered - frontend[f].received

\* read_all() of the response.
Receive(f) ==
  /\ frontend[f].pc \in {"receive", "receive_wait"}
  /\ \E n \in 1..Answered(f) :
       frontend' = [frontend EXCEPT
         ![f].received = @ + n,
         ![f].pc = IF frontend[f].received + n = ResponseParts
                   THEN "close" ELSE "receive"]
  /\ UNCHANGED <<backend, channel>>

\* The connection ended, or was reset, and nothing is left to take.
ReceiveEnds(f) ==
  /\ frontend[f].pc \in {"receive", "receive_wait"}
  /\ Answered(f) = 0
  /\ ServerGone(f)
  /\ Move(f, "close")
  /\ UNCHANGED <<backend, channel>>

ReceiveSleeps(f) ==
  /\ frontend[f].pc = "receive"
  /\ Answered(f) = 0
  /\ ~ServerGone(f)
  /\ Move(f, "receive_wait")
  /\ UNCHANGED <<backend, channel>>

\* close() of the socket and, when all went well, the report: a response that
\* is not complete is not looked at, and a malformed one is not reported.
CloseAndReport(f) ==
  /\ frontend[f].pc = "close"
  /\ Closed(f, "frontend")
  /\ \E judged \in {frontend[f].received = ResponseParts /\ conn[f].response # Malformed}
                     \cup (IF "close" \in Faults THEN {FALSE} ELSE {}) :
       frontend' = [frontend EXCEPT
         ![f].pc = "cleanup",
         ![f].report = IF judged THEN conn[f].response ELSE @,
         ![f].code = IF judged /\ conn[f].response.result = "success"
                     THEN "success" ELSE @]
  /\ UNCHANGED <<backend, path, queue>>

\* The cleanup label of main().
ReturnFrontend(f) ==
  /\ frontend[f].pc = "cleanup"
  /\ frontend' = [frontend EXCEPT ![f].pc = "exited", ![f].request = FALSE,
                                  ![f].code = IF @ = "none" THEN "failure" ELSE @]
  /\ UNCHANGED <<backend, channel>>

-----------------------------------------------------------------------------
(* What happens to the process. *)

FrontendGone(f) ==
  /\ frontend' = [frontend EXCEPT ![f].pc = "exited", ![f].code = "killed"]
  /\ Closed(f, "frontend")
  /\ UNCHANGED <<backend, path, queue>>

\* SIGINT or SIGTERM.  An interrupted fgets() of the password still goes
\* through the restoration of the echo.
InterruptFrontend(f) ==
  \/ frontend[f].pc = "start" /\ FrontendGone(f)
  \/ /\ ~Finished(f) /\ frontend[f].pc # "start" /\ ~frontend[f].interrupted
     /\ frontend' = [frontend EXCEPT
          ![f].interrupted = TRUE,
          ![f].pc = CASE @ = "username_wait" -> "cleanup"
                      [] @ = "password_wait" -> "echo_on"
                      [] @ = "receive_wait" -> "close"
                      [] OTHER -> @]
     /\ UNCHANGED <<backend, channel>>

KillFrontend(f) == ~Finished(f) /\ FrontendGone(f)

UserAnswers(f) == EnterUsername(f) \/ EnterPassword(f)

FrontendStep(f) ==
  \/ InstallFrontendHandlers(f) \/ InterruptCheck(f) \/ PromptSleeps(f)
  \/ DisableEcho(f) \/ EchoCheck(f) \/ RestoreEcho(f) \/ JudgePassword(f)
  \/ ConnectToBackend(f)
  \/ Send(f) \/ SendFails(f) \/ Receive(f) \/ ReceiveEnds(f) \/ ReceiveSleeps(f)
  \/ CloseAndReport(f) \/ ReturnFrontend(f)
=============================================================================
