--------------------------- MODULE MCAuthentication -------------------------
(* Small instances of Authentication. *)
EXTENDS Authentication

CONSTANTS b1, b2, f1, f2

\* One-byte names and passwords: the account is "1" with "1".
Account == [username |-> Packed(<<1>>, UsernameMax), password |-> Packed(<<1>>, PasswordMax)]

Right == {Line(<<1>>, TRUE)}
RightOrWrong == Right \cup {Line(<<2>>, TRUE)}

\* Every kind of line: right, wrong, empty, too long, cut off, none.
AnyLine ==
  RightOrWrong \cup {Line(<<>>, TRUE), Line(<<1, 1>>, TRUE), Line(<<1>>, FALSE), EndOfInput}

\* Two of them, for what the kind of the user's name does not matter to.
RightOrCut == {Line(<<1>>, TRUE), Line(<<1>>, FALSE)}
=============================================================================
