--------------------------- MODULE MCDeviceGrant ---------------------------
(* Instances of DeviceGrant for TLC. *)
EXTENDS DeviceGrant, TLC

\* Codes, users, sessions and request slots are interchangeable.
Symmetry == Permutations(Users) \cup Permutations(Sids) \cup Permutations(Polls)
            \cup Permutations(Codes)

=============================================================================
