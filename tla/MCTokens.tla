------------------------------ MODULE MCTokens ------------------------------
(***************************************************************************)
(* Small instances of refresh-token families and of device authorizations. *)
(* Each is checked on its own: part says which of them takes steps.  They  *)
(* share their model values.                                               *)
(***************************************************************************)
EXTENDS RefreshFamily, DeviceAuthorization, TLC

VARIABLE part

\* The policy is not changed.
StableRefresh == {[refresh |-> 2, access |-> 1]}

MCInit == part \in {"family", "device"} /\ Init /\ DeviceInit

MCNext ==
    \/ part = "family" /\ Next /\ UNCHANGED <<part, deviceVars>>
    \/ part = "device" /\ DeviceNext /\ UNCHANGED <<part, vars>>

MCSpec == MCInit /\ [][MCNext]_<<part, vars, deviceVars>>

Symmetry == Permutations(Requests) \cup Permutations(Users) \cup Permutations(Challenges)
=============================================================================
