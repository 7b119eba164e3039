------------------------ MODULE MCDeviceAuthorization ------------------------
(* Small instances of DeviceAuthorization. *)
EXTENDS DeviceAuthorization, TLC

Symmetry == Permutations(DeviceCalls) \cup Permutations(Users) \cup Permutations(Challenges)
=============================================================================
