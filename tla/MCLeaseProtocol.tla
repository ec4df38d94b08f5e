--------------------------- MODULE MCLeaseProtocol ---------------------------
(* Lease ids and reservation ids are interchangeable. *)
EXTENDS LeaseProtocol, TLC

ProtocolSymmetry == Permutations(Leases) \cup Permutations(Reservations)
=============================================================================
