---------------------------- MODULE MCRateLimiter ----------------------------
(* An instance of RateLimiter for TLC: three endpoints, whose windows are    *)
(* shorter than what the cleanups keep, as long, and longer; more keys than  *)
(* buckets, two ticks per second.                                            *)
EXTENDS RateLimiter, TLC

CONSTANTS login1, login2, register1, long1

MCMaxAttempts(k) == IF k = register1 THEN 1 ELSE 2
MCWindow(k) == IF k = register1 THEN 4 ELSE IF k = long1 THEN 6 ELSE 3
Symmetry == Permutations({login1, login2})
=============================================================================
