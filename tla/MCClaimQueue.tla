---------------------------- MODULE MCClaimQueue ----------------------------
(* Constant values for TLC: n1 goes before all others, every cancel asks for all rows. *)
EXTENDS ClaimQueue

CONSTANTS n1, n2, w1, w2, c1, c2

Ranks == [n \in Notifications |-> IF n = n1 THEN 0 ELSE 1]
Everything == [c \in Cancellers |-> Notifications]
=============================================================================
