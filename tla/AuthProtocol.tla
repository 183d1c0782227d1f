---------------------------- MODULE AuthProtocol ----------------------------
(***************************************************************************)
(* The request of auth_protocol.h and what the backend makes of it: the    *)
(* validation of its two strings, the comparison with the stored account   *)
(* and the answer (Backend.c).                                             *)
(*                                                                         *)
(* A C string is a sequence of non-zero bytes; in a structure it lies in   *)
(* an array of one byte more than the longest string, ended by a NUL.      *)
(***************************************************************************)
EXTENDS Naturals, Sequences

CONSTANTS
  UsernameMax,  \* AUTH_USERNAME_MAX
  PasswordMax   \* AUTH_PASSWORD_MAX

ASSUME LimitsAssumption == UsernameMax \in Nat \ {0} /\ PasswordMax \in Nat \ {0}

NUL == 0
AUTH_PROTOCOL_VERSION == 1
AUTH_REQUEST_VALIDATE == 1

Response(result, error_code) == [result |-> result, error_code |-> error_code]

\* memset() of the structure and memcpy() of a string into its array.
Packed(text, maximum_length) ==
  [i \in 1..(maximum_length + 1) |-> IF i <= Len(text) THEN text[i] ELSE NUL]

Terminators(value) == {i \in DOMAIN value : value[i] = NUL}

\* strlen() of a terminated array: the distance to the first NUL.
Length(value) ==
  (CHOOSE i \in Terminators(value) : \A j \in Terminators(value) : i <= j) - 1

\* validate_request_string(): memchr() for the terminator first.
validate_request_string(value, maximum_length) ==
  CASE Terminators(value) = {} -> "too_long"
    [] Terminators(value) # {} /\ Length(value) = 0 -> "required"
    [] Terminators(value) # {} /\ Length(value) > maximum_length -> "too_long"
    [] OTHER -> "valid"

\* Mutant: only the bytes both strings have are compared.
CommonPrefixEqual(left, left_length, right, right_length, maximum_length) ==
  \A i \in 1..maximum_length :
    i <= left_length /\ i <= right_length => left[i] = right[i]

\* secure_string_equal(): every difference, of the lengths or of two bytes, is
\* or-ed into one word which is compared with zero at the end.
secure_string_equal(left, left_length, right, right_length, maximum_length) ==
  LET byte(s, n, i) == IF i <= n THEN s[i] ELSE NUL
      differences == {i \in 1..maximum_length :
                        byte(left, left_length, i) # byte(right, right_length, i)}
  IN left_length = right_length /\ differences = {}

\* Mutant: the password is read, validated and not compared.
AnyPassword(request, credential) ==
  IF request.username = credential.username
  THEN Response("success", "none")
  ELSE Response("invalid_credentials", "none")

\* The fields that are not valid strings, with the error each one is answered by.
ErrorCode(field, verdict) ==
  CASE field = "username" /\ verdict = "required" -> "username_required"
    [] field = "username" /\ verdict = "too_long" -> "username_too_long"
    [] field = "password" /\ verdict = "required" -> "password_required"
    [] field = "password" /\ verdict = "too_long" -> "password_too_long"

Matches(request, credential) ==
  /\ secure_string_equal(request.username, Length(request.username),
                         credential.username, Length(credential.username),
                         UsernameMax)
  /\ secure_string_equal(request.password, Length(request.password),
                         credential.password, Length(credential.password),
                         PasswordMax)

\* process_request(): its early returns in the order of the code.
process_request(request, credential) ==
  LET user == validate_request_string(request.username, UsernameMax)
      pass == validate_request_string(request.password, PasswordMax)
  IN IF request.version # AUTH_PROTOCOL_VERSION
     THEN Response("rejected", "unsupported_version")
     ELSE IF request.type # AUTH_REQUEST_VALIDATE
     THEN Response("rejected", "bad_request")
     ELSE IF user # "valid"
     THEN Response("rejected", ErrorCode("username", user))
     ELSE IF pass # "valid"
     THEN Response("rejected", ErrorCode("password", pass))
     ELSE Response(IF Matches(request, credential)
                   THEN "success" ELSE "invalid_credentials", "none")
=============================================================================
