------------------------------ MODULE Charging ------------------------------
(***************************************************************************)
(* What the lease protocol promises to whoever pays for a mandate, with no *)
(* leases, queues, clocks or crashes in it: each request is charged at     *)
(* most once and for good, never before its tool has charged or for more,  *)
(* and the bill is the sum of the charges and within the pool.  Not that   *)
(* every request is charged: one may be lost with the process that served  *)
(* it, or come too late for its lease.                                     *)
(***************************************************************************)
EXTENDS Naturals, FiniteSets, UnitSums

CONSTANTS
    Reservations,    \* ids of requests
    Reports,         \* amounts a tool may charge
    PoolTotal        \* what there is to spend

VARIABLES
    issued,     \* ids given to requests
    spent,      \* spent[r]: what the tool charged under r
    charged,    \* charged[r]: what was paid for r
    bill        \* what was paid in all

chargingVars == <<issued, spent, charged, bill>>

Init ==
    /\ issued = {} /\ bill = 0
    /\ spent = [r \in Reservations |-> 0] /\ charged = [r \in Reservations |-> 0]

\* A request is given an id of its own.
Issue(r) ==
    /\ r \notin issued /\ issued' = issued \cup {r}
    /\ UNCHANGED <<spent, charged, bill>>

\* Its tool charges, once.
Spend(r, amount) ==
    /\ r \in issued /\ spent[r] = 0 /\ charged[r] = 0
    /\ spent' = [spent EXCEPT ![r] = amount]
    /\ UNCHANGED <<issued, charged, bill>>

\* Requests that were not paid for are, in one transaction.
Charge ==
    /\ charged' \in [Reservations -> Nat] /\ charged' # charged
    /\ \A r \in Reservations :
          charged'[r] # charged[r] => charged[r] = 0 /\ charged'[r] <= spent[r]
    /\ bill' = SumOver(Reservations, charged') /\ bill' <= PoolTotal
    /\ UNCHANGED <<issued, spent>>

Next ==
    \/ \E r \in Reservations : Issue(r) \/ \E amount \in Reports : Spend(r, amount)
    \/ Charge

Spec == Init /\ [][Next]_chargingVars
=============================================================================
