----------------------------- MODULE MCLeasePool -----------------------------
(* Model-checking instance of LeasePool; MCLeasePool.cfg and MCLeasePoolPrime.cfg
   give the constants. *)
EXTENDS LeasePool
=============================================================================
