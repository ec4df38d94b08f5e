------------------------------ MODULE MCLedger ------------------------------
(* Model-checking instance of Ledger; MCLedger.cfg gives the constants. *)
EXTENDS Ledger
=============================================================================
