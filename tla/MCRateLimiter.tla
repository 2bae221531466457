--------------------------- MODULE MCRateLimiter ---------------------------
(***************************************************************************)
(* Two dispatchers and two groups, with limits of one and two calls per    *)
(* window of two ticks.                                                    *)
(***************************************************************************)
EXTENDS RateLimiter, TLC

CONSTANTS c1, c2, slow, fast

SmallLimits == [g \in Group |-> IF g = slow THEN 1 ELSE 2]

Callers == Permutations(Caller)
=============================================================================
