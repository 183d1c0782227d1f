--------------------------- MODULE ProtocolProofs ---------------------------
(***************************************************************************)
(* Facts about the strings of the authentication protocol: where an array  *)
(* ends, when it is a valid string, and what the comparison compares.      *)
(***************************************************************************)
EXTENDS AuthProtocol, WellFoundedInduction, TLAPS

\* A nonempty set of positions has a first one.
LEMMA FirstPosition ==
  ASSUME NEW S \in SUBSET Nat, S # {}
  PROVE  \E n \in S : \A m \in S : n <= m
<1>1. PICK n \in S : \A m \in S : ~(<<m, n>> \in OpToRel(<, Nat))
  BY NatLessThanWellFounded, WFMin
<1>2. \A m \in S : ~(m < n)
  BY <1>1 DEF OpToRel
<1> QED
  BY <1>2

\* strlen() stops at the first NUL.
LEMMA LengthIsFirst ==
  ASSUME NEW value, Terminators(value) \subseteq Nat \ {0}, Terminators(value) # {}
  PROVE  /\ Length(value) \in Nat
         /\ Length(value) + 1 \in Terminators(value)
         /\ \A j \in Terminators(value) : Length(value) + 1 <= j
<1> DEFINE first == CHOOSE i \in Terminators(value) : \A j \in Terminators(value) : i <= j
<1>1. \E n \in Terminators(value) : \A m \in Terminators(value) : n <= m
  BY FirstPosition
<1>2. first \in Terminators(value) /\ \A j \in Terminators(value) : first <= j
  BY <1>1
<1>3. Length(value) = first - 1
  BY DEF Length
<1> HIDE DEF first
<1> QED
  BY <1>2, <1>3

\* A string of n characters, none of them NUL, followed by a NUL has length n.
LEMMA LengthOfString ==
  ASSUME NEW value, DOMAIN value \subseteq Nat \ {0}, NEW n \in Nat,
         1..(n + 1) \subseteq DOMAIN value,
         \A i \in 1..n : value[i] # NUL, value[n + 1] = NUL
  PROVE  Length(value) = n /\ Terminators(value) # {} /\ Terminators(value) \subseteq Nat \ {0}
<1>1. n + 1 \in Terminators(value) /\ Terminators(value) \subseteq Nat \ {0}
  BY DEF Terminators
<1>2. \A j \in Terminators(value) : n + 1 <= j
  BY <1>1 DEF Terminators
<1> QED
  BY <1>1, <1>2, LengthIsFirst

LEMMA LengthOfPacked ==
  ASSUME NEW maximum \in Nat, NEW text, Len(text) \in 0..maximum,
         \A i \in 1..Len(text) : text[i] # NUL
  PROVE  /\ Length(Packed(text, maximum)) = Len(text)
         /\ Terminators(Packed(text, maximum)) # {}
<1> DEFINE value == Packed(text, maximum)
<1>1. /\ DOMAIN value = 1..(maximum + 1)
      /\ \A i \in 1..(maximum + 1) : value[i] = IF i <= Len(text) THEN text[i] ELSE NUL
  BY DEF Packed
<1> HIDE DEF value
<1>2. /\ DOMAIN value \subseteq Nat \ {0} /\ 1..(Len(text) + 1) \subseteq DOMAIN value
      /\ \A i \in 1..Len(text) : value[i] # NUL
      /\ value[Len(text) + 1] = NUL
  BY <1>1
<1> QED
  BY <1>2, LengthOfString DEF value

\* The comparison, which always looks at all the bytes, says whether the two
\* strings are the same.
LEMMA EqualMeansSame ==
  ASSUME NEW maximum \in Nat, NEW left, NEW m \in 0..maximum, NEW right, NEW n \in 0..maximum
  PROVE  secure_string_equal(left, m, right, n, maximum)
           <=> m = n /\ \A i \in 1..m : left[i] = right[i]
<1> DEFINE byte(s, k, i) == IF i <= k THEN s[i] ELSE NUL
           differences == {i \in 1..maximum : byte(left, m, i) # byte(right, n, i)}
<1>1. secure_string_equal(left, m, right, n, maximum) <=> m = n /\ differences = {}
  BY DEF secure_string_equal
<1>2. m = n => (differences = {} <=> \A i \in 1..m : left[i] = right[i])
  OBVIOUS
<1> QED
  BY <1>1, <1>2

\* validate_request_string() accepts exactly the arrays with a NUL behind at
\* least one character and within the limit.
LEMMA ValidMeansTerminated ==
  ASSUME NEW maximum \in Nat, NEW value, DOMAIN value = 1..(maximum + 1)
  PROVE  /\ validate_request_string(value, maximum) \in {"valid", "required", "too_long"}
         /\ validate_request_string(value, maximum) = "valid"
              <=> Terminators(value) # {} /\ Length(value) \in 1..maximum
         /\ validate_request_string(value, maximum) = "required"
              => value[1] = NUL
<1>1. Terminators(value) \subseteq 1..(maximum + 1)
  BY DEF Terminators
<1>2. CASE Terminators(value) = {}
  BY <1>2 DEF validate_request_string
<1>3. CASE Terminators(value) # {}
  <2>1. Length(value) \in Nat /\ Length(value) + 1 \in Terminators(value)
    BY <1>1, <1>3, LengthIsFirst
  <2>2. Length(value) \in 0..maximum
    BY <1>1, <2>1
  <2>3. Length(value) = 0 => value[1] = NUL
    BY <2>1 DEF Terminators
  <2> QED
    BY <1>3, <2>2, <2>3 DEF validate_request_string
<1> QED
  BY <1>2, <1>3
=============================================================================
