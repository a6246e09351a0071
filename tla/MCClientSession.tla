--------------------------- MODULE MCClientSession ---------------------------
(* Instances of ClientSession for TLC.                                       *)
EXTENDS ClientSession, TLC

Perms == Permutations(Tokens) \cup Permutations(Tabs) \cup Permutations(Calls)
=============================================================================
