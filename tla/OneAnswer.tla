----------------------------- MODULE OneAnswer ------------------------------
(***************************************************************************)
(* What the authentication service promises, without processes, sockets or *)
(* messages.  A user makes a claim; a server takes at most one claim and   *)
(* decides it once; the user learns success only from a server that took   *)
(* this user's claim and granted it, and only a user entitled to it is     *)
(* ever granted it.                                                        *)
(***************************************************************************)
CONSTANTS
  Servers, Users,
  Trusted     \* the users a server may grant anything at all

VARIABLES
  claim,     \* per user "none", "right" or "wrong": do the words match the account
  taken,     \* per server the user it serves, or "none"
  decision,  \* per server "none", "granted" or "denied"
  outcome    \* per user "none", "success" or "failure"

avars == <<claim, taken, decision, outcome>>

AbstractInit ==
  /\ claim = [u \in Users |-> "none"]
  /\ taken = [s \in Servers |-> "none"]
  /\ decision = [s \in Servers |-> "none"]
  /\ outcome = [u \in Users |-> "none"]

Claim(u, c) ==
  /\ claim[u] = "none" /\ outcome[u] = "none"
  /\ claim' = [claim EXCEPT ![u] = c]
  /\ UNCHANGED <<taken, decision, outcome>>

Take(s, u) ==
  /\ taken[s] = "none" /\ claim[u] # "none"
  /\ \A other \in Servers : taken[other] # u
  /\ taken' = [taken EXCEPT ![s] = u]
  /\ UNCHANGED <<claim, decision, outcome>>

Decide(s, d) ==
  /\ taken[s] # "none" /\ decision[s] = "none"
  /\ d = "granted" => taken[s] \in Trusted /\ claim[taken[s]] = "right"
  /\ decision' = [decision EXCEPT ![s] = d]
  /\ UNCHANGED <<claim, taken, outcome>>

Report(u, o) ==
  /\ outcome[u] = "none"
  /\ o = "success" => \E s \in Servers : taken[s] = u /\ decision[s] = "granted"
  /\ outcome' = [outcome EXCEPT ![u] = o]
  /\ UNCHANGED <<claim, taken, decision>>

AbstractNext ==
  \/ \E u \in Users, c \in {"right", "wrong"} : Claim(u, c)
  \/ \E s \in Servers, u \in Users : Take(s, u)
  \/ \E s \in Servers, d \in {"granted", "denied"} : Decide(s, d)
  \/ \E u \in Users, o \in {"success", "failure"} : Report(u, o)

AbstractSpec == AbstractInit /\ [][AbstractNext]_avars
=============================================================================
