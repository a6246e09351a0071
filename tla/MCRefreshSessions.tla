-------------------------- MODULE MCRefreshSessions --------------------------
(* Instances of RefreshSessions for TLC. *)
EXTENDS RefreshSessions, TLC

CONSTANT u1

\* Tokens and requests are interchangeable: no action or property names one.
Symmetry == Permutations(Tokens) \cup Permutations(Requests)
TokenSymmetry == Permutations(Tokens)
=============================================================================
