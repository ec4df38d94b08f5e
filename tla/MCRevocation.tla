---------------------------- MODULE MCRevocation ----------------------------
(* Model-checking instance of Revocation. *)
EXTENDS Revocation, TLC

\* Block ids are only compared, and REVOKE calls are alike.
RevocationSymmetry == Permutations(Blocks) \cup Permutations(Revokers)
=============================================================================
