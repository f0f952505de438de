--------------------------- MODULE MCRateLimiter ---------------------------
(* Constant values for TLC: two callers, one of them in a process with a smaller limit. *)
EXTENDS RateLimiter

CONSTANTS c1, c2

MixedLimits == [c \in Callers |-> IF c = c1 THEN 1 ELSE 2]
=============================================================================
