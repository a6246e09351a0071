----------------------------- MODULE MCFlatRecord -----------------------------
\* A flat that up to MaxReads cards and pages are read of, by two sessions.
EXTENDS FlatRecord, TLC

CONSTANTS r1, r2

MCSymmetry == Permutations({r1, r2})
=============================================================================
