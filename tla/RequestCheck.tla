---------------------------- MODULE RequestCheck ----------------------------
(***************************************************************************)
(* Every request the wire can carry, given to process_request() with every *)
(* account the credential file can hold, and the answer compared with what *)
(* the two strings mean.  The bytes of a request come from another process *)
(* and may be anything, a missing terminator included.                     *)
(***************************************************************************)
EXTENDS AuthProtocol

CONSTANTS
  Bytes,     \* the bytes of a string, NUL not among them
  HeaderValues    \* the values of the two 32-bit header fields

ASSUME AlphabetAssumption ==
  Bytes \subseteq Nat \ {NUL} /\ Bytes # {} /\ HeaderValues \subseteq Nat

VARIABLES request, stored, response

check_vars == <<request, stored, response>>

Array(maximum_length) == [1..(maximum_length + 1) -> Bytes \cup {NUL}]

\* The non-empty strings that fit, which is what load_demo_credential() accepts.
Texts(maximum_length) == UNION {[1..n -> Bytes] : n \in 1..maximum_length}

CheckStart == response = Response("none", "none")

CheckInit ==
  /\ request \in [version : HeaderValues, type : HeaderValues,
                  username : Array(UsernameMax), password : Array(PasswordMax)]
  /\ stored \in [username : {Packed(t, UsernameMax) : t \in Texts(UsernameMax)},
                     password : {Packed(t, PasswordMax) : t \in Texts(PasswordMax)}]
  /\ CheckStart

Answer ==
  /\ response.result = "none"
  /\ response' = process_request(request, stored)
  /\ UNCHANGED <<request, stored>>

\* handle_client() answers one request and returns.
CheckDone == response.result # "none" /\ UNCHANGED check_vars

CheckNext == Answer \/ CheckDone

CheckSpec == CheckInit /\ [][CheckNext]_check_vars

-----------------------------------------------------------------------------
(* What the answer has to be, said of strings and not of arrays. *)

\* The array holds the string followed by a terminator; what lies behind the
\* terminator is not part of the string.
Holds(array, text) ==
  /\ Len(text) < Len(array)
  /\ \A i \in 1..Len(text) : array[i] = text[i]
  /\ array[Len(text) + 1] = NUL

Validated(array, maximum_length) ==
  \E text \in Texts(maximum_length) : Holds(array, text)

Denotes(array, packed, maximum_length) ==
  \E text \in Texts(maximum_length) :
    Holds(array, text) /\ packed = Packed(text, maximum_length)

\* An account is granted exactly to a well-formed request of this protocol
\* whose two strings are the stored ones, whatever the unused bytes hold
\* (process_request(), Backend.c 637-712): a missing terminator, an empty
\* string, a prefix or an extension of the stored string never match.
GrantedExactlyOnEquality ==
  response.result # "none" =>
    ( response.result = "success" <=>
        /\ request.version = AUTH_PROTOCOL_VERSION
        /\ request.type = AUTH_REQUEST_VALIDATE
        /\ Denotes(request.username, stored.username, UsernameMax)
        /\ Denotes(request.password, stored.password, PasswordMax) )

\* A refusal tells a malformed request from a wrong password and names the
\* first field that is wrong, never the second one when both are
\* (validate_request_string(), Backend.c 593-635): in particular an unknown
\* user and a wrong password get the same answer.
RefusalNamesTheFirstDefect ==
  LET user == Validated(request.username, UsernameMax)
      pass == Validated(request.password, PasswordMax)
      header == request.version = AUTH_PROTOCOL_VERSION
                  /\ request.type = AUTH_REQUEST_VALIDATE
  IN response.result \notin {"none", "success"} =>
       /\ response.result = "invalid_credentials" <=> header /\ user /\ pass
       /\ response.error_code \in {"username_required", "username_too_long"}
            <=> header /\ ~user
       /\ response.error_code \in {"password_required", "password_too_long"}
            <=> header /\ user /\ ~pass
       /\ response.error_code = "unsupported_version"
            <=> request.version # AUTH_PROTOCOL_VERSION
       /\ response.error_code \in {"username_required", "password_required"} =>
            NUL \in {request.username[1], request.password[1]}

\* process_request() gives the answer the two strings deserve (Backend.c
\* 593-712): the two parts above.
AnswerIsDeserved == GrantedExactlyOnEquality /\ RefusalNamesTheFirstDefect
=============================================================================
