--------------------------- MODULE MCRateLimiter ----------------------------
(* A small instance of RateLimiter.  A duration has four bits (Half = 8)    *)
(* and counts in milliseconds (Factor = 1; the proofs are for any unit).    *)
EXTENDS RateLimiter, TLC

\* The settings form takes any integer: 0 for none, one within EntryTTL, one
\* longer than it, and one that overflows, 9 to -7.
AnyPeriods == {0, 2, 4, 9}

Alike(key, anon) ==
    [e \in Endpoints |-> [kind \in Kinds |-> IF kind = "key" THEN key ELSE anon]]

KeptOrNot == {Alike(2, 4), Alike(9, 0)}

Symmetric == Permutations(Requests) \cup Permutations(Endpoints)
=============================================================================
