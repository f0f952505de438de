----------------------------- MODULE MCListing -----------------------------
(* Constant values for TLC: limits on both sides of the range, and a walk of several pages. *)
EXTENDS Listing, TLC

CONSTANTS r1, r2, r3, p

AllLists == ListKinds
AskedFor == {0, 1, 2, 3}
=============================================================================
