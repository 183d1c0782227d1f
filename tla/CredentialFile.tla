--------------------------- MODULE CredentialFile ---------------------------
(***************************************************************************)
(* load_demo_credential() (Backend.c): the account is read from a small    *)
(* text file, line by line through a buffer of fixed size.  One fgets()    *)
(* and what is done with it is one step.                                   *)
(***************************************************************************)
EXTENDS AuthProtocol, FiniteSets, SequencesExt

CONSTANTS
  Letters,   \* characters without a meaning of their own
  MaxFile    \* bound on the length of the file

ASSUME FileAssumption ==
  MaxFile \in Nat /\ Letters \cap {":", "#", "LF", "CR", "NUL"} = {}

VARIABLES file, rest, credential, found, load_result

file_vars == <<file, rest, credential, found, load_result>>

Characters == Letters \cup {":", "#", "LF", "CR", "NUL"}

CREDENTIAL_LINE_MAX == UsernameMax + PasswordMax + 4

Cleared == [username |-> <<>>, password |-> <<>>]

FileStart ==
  /\ rest = file
  /\ credential = Cleared
  /\ found = FALSE
  /\ load_result = "reading"

FileInit == file \in UNION {[1..n -> Characters] : n \in 0..MaxFile} /\ FileStart

FirstOf(s, chars) == SelectInSeq(s, LAMBDA c : c \in chars)

\* The next characters fgets() stores: up to a newline, the end of the file or
\* the end of the buffer, which keeps one byte for the terminator.
Chunk ==
  LET window == SubSeq(rest, 1, IF Len(rest) < CREDENTIAL_LINE_MAX - 1
                                THEN Len(rest) ELSE CREDENTIAL_LINE_MAX - 1)
      newline == FirstOf(window, {"LF"})
  IN IF newline = 0 THEN window ELSE SubSeq(window, 1, newline)

\* feof(): fgets() met the end of the file before a newline or a full buffer.
AtEnd == Len(rest) < CREDENTIAL_LINE_MAX - 1 /\ FirstOf(rest, {"LF"}) = 0

\* strcspn(line, "\r\n"), which also stops at a NUL byte.
Cut(chunk) == FirstOf(chunk, {"LF", "CR", "NUL"})
Text(chunk) == IF Cut(chunk) = 0 THEN chunk ELSE SubSeq(chunk, 1, Cut(chunk) - 1)

\* line[line_length] == '\0' && !feof(file)
Unended(chunk) ==
  (Cut(chunk) = 0 \/ (Cut(chunk) # 0 /\ chunk[Cut(chunk)] = "NUL")) /\ ~AtEnd

Ignored(text) == text = <<>> \/ (text # <<>> /\ Head(text) = "#")

Colon(text) == FirstOf(text, {":"})
User(text) == SubSeq(text, 1, Colon(text) - 1)
Pass(text) == SubSeq(text, Colon(text) + 1, Len(text))

\* Mutant: the first colon separates, the others belong to the password.
FirstColonSeparates(text) ==
  /\ Colon(text) # 0
  /\ Len(User(text)) \in 1..UsernameMax /\ Len(Pass(text)) \in 1..PasswordMax

WellFormed(text) ==
  /\ Colon(text) # 0 /\ FirstOf(Pass(text), {":"}) = 0
  /\ Len(User(text)) \in 1..UsernameMax /\ Len(Pass(text)) \in 1..PasswordMax

\* Every "goto cleanup" with result still -1.
Reject(why) ==
  /\ load_result' = why
  /\ credential' = Cleared
  /\ UNCHANGED <<file, rest, found>>

Advance == rest' = SubSeq(rest, Len(Chunk) + 1, Len(rest)) /\ UNCHANGED <<file, load_result>>

SkipLine ==
  /\ load_result = "reading" /\ rest # <<>>
  /\ ~Unended(Chunk) /\ Ignored(Text(Chunk))
  /\ Advance
  /\ UNCHANGED <<credential, found>>

TakeLine ==
  /\ load_result = "reading" /\ rest # <<>>
  /\ ~Unended(Chunk) /\ ~Ignored(Text(Chunk)) /\ ~found /\ WellFormed(Text(Chunk))
  /\ credential' = [username |-> User(Text(Chunk)), password |-> Pass(Text(Chunk))]
  /\ found' = TRUE
  /\ Advance

RejectLine ==
  /\ load_result = "reading" /\ rest # <<>>
  /\ \/ Unended(Chunk)
     \/ ~Ignored(Text(Chunk)) /\ (found \/ ~WellFormed(Text(Chunk)))
  /\ Reject("refused")

EndOfFile ==
  /\ load_result = "reading" /\ rest = <<>>
  /\ \/ ~found /\ Reject("refused")
     \/ found /\ load_result' = "loaded" /\ UNCHANGED <<file, rest, credential, found>>

\* fopen(), fgets() or fclose() reports an error.
ReadFails == load_result = "reading" /\ Reject("unreadable")

FileDone == load_result # "reading" /\ UNCHANGED file_vars

FileNext == SkipLine \/ TakeLine \/ RejectLine \/ EndOfFile \/ ReadFails \/ FileDone

FileSpec == FileInit /\ [][FileNext]_file_vars

-----------------------------------------------------------------------------
(* The same said of the whole file. *)

LineStarts == {i \in 1..Len(file) : i = 1 \/ file[i - 1] = "LF"}

\* The characters of the line that starts at i, its newline included.
Extent(i) == {j \in i..Len(file) : \A k \in i..(j - 1) : file[k] # "LF"}

TextAt(i) ==
  LET body == {j \in Extent(i) : \A k \in i..j : file[k] \notin {"LF", "CR", "NUL"}}
  IN SubSeq(file, i, i + Cardinality(body) - 1)

Account(user, pass) == user \o <<":">> \o pass

Names(n) == UNION {[1..k -> Letters \cup {"#"}] : k \in 1..n}

Fits(i) == Cardinality(Extent(i)) < CREDENTIAL_LINE_MAX

\* A NUL byte hides the rest of its line, which only an unended last line may
\* have.
NulIsLast(i) ==
  LET ends == {j \in Extent(i) : file[j] \in {"LF", "CR", "NUL"}} IN
  \A j \in ends : (\A k \in ends : j <= k) /\ file[j] = "NUL" =>
    /\ \A k \in Extent(i) : file[k] # "LF"
    /\ Cardinality(Extent(i)) < CREDENTIAL_LINE_MAX - 1

\* An unended last line leaves a byte of the buffer unused, or is not known to
\* be the last.
KnownToEnd(i) ==
  \/ \E j \in Extent(i) : file[j] \in {"LF", "CR"}
  \/ Cardinality(Extent(i)) < CREDENTIAL_LINE_MAX - 1

\* One line alone is not empty and no comment, and this line is a name and a
\* password of legal length.
Describes(user, pass) ==
  /\ user \in Names(UsernameMax) /\ pass \in Names(PasswordMax)
  /\ \A i \in LineStarts : Fits(i) /\ NulIsLast(i) /\ KnownToEnd(i)
  /\ Cardinality({i \in LineStarts : ~Ignored(TextAt(i))}) = 1
  /\ \E i \in LineStarts : TextAt(i) = Account(user, pass) /\ ~Ignored(TextAt(i))

\* Where no long line holds a carriage return, load_demo_credential() succeeds
\* exactly on the files that describe one account, and yields that account
\* (Backend.c 171-259): neither a line cut by the buffer nor the bytes after a
\* carriage return become part of a name or a password.
LoadsWhatIsDescribed ==
  (\A i \in LineStarts : Fits(i) \/ \A j \in Extent(i) : file[j] # "CR") =>
    /\ load_result = "loaded" =>
         Describes(credential.username, credential.password)
    /\ load_result = "refused" =>
         \A u \in Names(UsernameMax), p \in Names(PasswordMax) : ~Describes(u, p)

\* A refused file leaves no account in memory, even when the error comes after
\* the account was read (the cleanup label, Backend.c 248-258).
RefusedLeavesNothing == load_result \in {"refused", "unreadable"} => credential = Cleared

\* load_demo_credential() yields the account the file describes, or nothing
\* (Backend.c 171-259): the two parts above.
AccountOrNothing == LoadsWhatIsDescribed /\ RefusedLeavesNothing
=============================================================================
