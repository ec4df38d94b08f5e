-------------------------- MODULE MCSettlementDelivery ------------------------
(* Four settlements, two of each of two leases. *)
EXTENDS SettlementDelivery

CONSTANTS s1, s2, s3, s4, l1, l2

MCSettlements == {[id |-> s1, lease |-> l1], [id |-> s2, lease |-> l1],
                  [id |-> s3, lease |-> l2], [id |-> s4, lease |-> l2]}
=============================================================================
