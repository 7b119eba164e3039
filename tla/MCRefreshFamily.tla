-------------------------- MODULE MCRefreshFamily --------------------------
(* Small instances of RefreshFamily. *)
EXTENDS RefreshFamily, TLC

(* The policy is not changed. *)
StableRefresh == {[refresh |-> 2, access |-> 1]}

(* The administrator may shorten the life of new refresh tokens. *)
ShrinkingRefresh == {[refresh |-> 3, access |-> 1], [refresh |-> 2, access |-> 1]}

(* He may shorten both lives, the family's below that of an access token   *)
(* issued before (from 24 h each, say, to 5 min and 1 h).                  *)
ShrinkingBoth == {[refresh |-> 4, access |-> 4], [refresh |-> 2, access |-> 1]}

Symmetry == Permutations(Families) \cup Permutations(Requests)
=============================================================================
