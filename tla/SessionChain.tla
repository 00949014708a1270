------------------------------ MODULE SessionChain -----------------------------
(***************************************************************************)
(* What a session is: a chain of refresh tokens of which only the tip can   *)
(* be exchanged. A login starts a chain with a token of its own, a refresh  *)
(* replaces the tip by a new token, and a chain that has ended stays so. No *)
(* token is ever given out twice.                                           *)
(*                                                                          *)
(* AuthSessions implements it with rows that are looked up, locked, rotated *)
(* and revoked by concurrent requests and deleted by the cleaner. A chain   *)
(* has the name of its first token.                                         *)
(***************************************************************************)
CONSTANT Tokens

VARIABLES
    issued,  \* the tokens that were given out
    tip      \* the token of a chain that can be exchanged, if there is one

vars == <<issued, tip>>

Init ==
    /\ issued = {}
    /\ tip = [f \in Tokens |-> {}]

Start(t) ==
    /\ t \notin issued
    /\ issued' = issued \cup {t}
    /\ tip' = [tip EXCEPT ![t] = {t}]

Rotate(f, t) ==
    /\ tip[f] # {}
    /\ t \notin issued
    /\ issued' = issued \cup {t}
    /\ tip' = [tip EXCEPT ![f] = {t}]

\* Chains end by a logout, by a token that is used twice, or because nobody came back.
End ==
    /\ UNCHANGED issued
    /\ \E F \in SUBSET Tokens : tip' = [f \in Tokens |-> IF f \in F THEN {} ELSE tip[f]]

Next ==
    \/ End
    \/ \E t \in Tokens : Start(t) \/ \E f \in Tokens : Rotate(f, t)

Spec == Init /\ [][Next]_vars
================================================================================
