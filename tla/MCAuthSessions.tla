---------------------------- MODULE MCAuthSessions -----------------------------
(* Instances of AuthSessions for TLC. *)
EXTENDS AuthSessions, TLC

Symmetry == Permutations(Tokens) \cup Permutations(AccessTokens) \cup Permutations(Handlers)
================================================================================
