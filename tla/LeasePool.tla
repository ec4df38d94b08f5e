------------------------------ MODULE LeasePool ------------------------------
(***************************************************************************)
(* The lease pool of a PEP (agentiam_pep/pool.py and lease.py) for one     *)
(* mandate and its one budgeted dimension, with the requests in flight     *)
(* that hold reservations (pipeline.py, app.py) and the life of the        *)
(* process around it (scripts/pep_service.py, lifespan).                   *)
(*                                                                         *)
(* Everything between two awaits is one action.  What the ledger does is   *)
(* not described here: the outcome of a call to it is the environment's    *)
(* choice, and module LeaseProtocol joins it to the ledger's operations.   *)
(* mandate_exhausted is left out: it only words the refusal.               *)
(***************************************************************************)
EXTENDS Naturals, FiniteSets, UnitSums

CONSTANTS
    Leases, NoLease,
    Reservations,   \* reservation ids
    Amounts,        \* what a request asks for
    Actuals,        \* charges other than the amount reserved
    LeaseSize,      \* PoolSettings.lease_size
    TTL,            \* PoolSettings.ttl
    SKEW,           \* PoolSettings.skew
    LowWater        \* PoolSettings.low_water, in percent

ASSUME PoolConstants ==
    /\ NoLease \notin Leases
    /\ IsFiniteSet(Reservations)
    /\ Amounts \subseteq Nat \ {0} /\ Actuals \subseteq Nat
    /\ LeaseSize \in Nat \ {0} /\ LowWater \in 0 .. 99
    /\ SKEW \in Nat /\ TTL \in Nat /\ TTL > 2 * SKEW

VARIABLES
    phase,     \* where the process is in its lifespan
    held,      \* _held[dimension].lease
    topup,     \* the task in _acquire or _release; pc # "idle" is topping_up
    inflight   \* reservations of requests that were forwarded upstream

poolVars == <<phase, held, topup, inflight>>

\* "settling" is settlement.aclose(), "stopping" and "releasing" pool.aclose().
Phases == {"boot", "serving", "settling", "stopping", "releasing", "down"}

\* `left` is expires_at minus the PEP's clock, down to 0.
LocalLease == [lease     : Leases \cup {NoLease},
               granted   : Nat,
               remaining : Nat,
               left      : 0 .. TTL,
               state     : {"none", "active", "released"}]

NoHeld == [lease |-> NoLease, granted |-> 0, remaining |-> 0, left |-> 0,
           state |-> "none"]

\* `age` is the time since the task read the clock for its ACQUIRE.
Task == [pc : {"idle", "acquire", "drain", "release"},
         old : Leases \cup {NoLease}, age : 0 .. TTL]

Idle == [pc |-> "idle", old |-> NoLease, age |-> 0]
Acquiring == [pc |-> "acquire", old |-> NoLease, age |-> 0]
Retiring(l) == [pc |-> "drain", old |-> l, age |-> 0]

Reservation == [id : Reservations, lease : Leases, amount : Nat]

PoolTypeOK ==
    /\ phase \in Phases
    /\ held \in LocalLease
    /\ topup \in Task
    /\ inflight \subseteq Reservation

\* The lifespan awaits prime() before it serves.
PoolInit ==
    /\ phase = "boot"
    /\ held = NoHeld
    /\ topup = Acquiring
    /\ inflight = {}

-----------------------------------------------------------------------------
(* The hot path *)

\* The test check() and reserve() share.
Covers(amount) ==
    /\ held.state = "active"
    /\ held.left > SKEW
    /\ held.remaining >= amount

\* _maybe_schedule_topup: out of budget or out of time.
RunningOut(remaining) ==
    \/ remaining * 100 <= held.granted * LowWater
    \/ held.state # "active"
    \/ held.left <= SKEW

\* _schedule_topup: at most one task.
Schedule(due) == topup' = IF due /\ topup.pc = "idle" THEN Acquiring ELSE topup

\* authorize() allows: check() and reserve() with no await between them.
Authorize(r, amount) ==
    /\ phase = "serving" /\ Covers(amount)
    /\ \A res \in inflight : res.id # r
    /\ held' = [held EXCEPT !.remaining = @ - amount]
    /\ inflight' = inflight \cup
                     {[id |-> r, lease |-> held.lease, amount |-> amount]}
    /\ Schedule(RunningOut(held.remaining - amount))
    /\ UNCHANGED phase

\* Mutant: what was never reserved is given back.
AuthorizeUnrecorded_RefundsMore(amount) ==
    /\ phase = "serving" /\ Covers(amount)
    /\ held' = [held EXCEPT !.remaining = @ + amount]
    /\ Schedule(RunningOut(held.remaining - amount))
    /\ UNCHANGED <<phase, inflight>>

\* authorize() allows but the audit buffer is full: the reservation is given
\* back at once and the request refused.
AuthorizeUnrecorded(amount) ==
    /\ phase = "serving" /\ Covers(amount)
    /\ Schedule(RunningOut(held.remaining - amount))
    /\ UNCHANGED <<phase, held, inflight>>

\* Mutant: a refusal does not ask for more.
Refuse_Silently(amount) ==
    /\ phase = "serving" /\ held # NoHeld /\ ~ Covers(amount)
    /\ UNCHANGED poolVars

\* check() refuses, and asks for more if the held lease is running out.  With
\* no lease at all it only refuses.
Refuse(amount) ==
    /\ phase = "serving" /\ held # NoHeld /\ ~ Covers(amount)
    /\ Schedule(RunningOut(held.remaining))
    /\ UNCHANGED <<phase, held, inflight>>

\* settle(): commit() on the lease that is held now.  A shortfall is covered
\* if it can be (else the outcome is escalated), an excess is refunded.
Settle(res, actual) ==
    /\ phase = "serving" /\ res \in inflight
    /\ inflight' = inflight \ {res}
    /\ held' = IF actual > res.amount
               THEN IF Covers(actual - res.amount)
                    THEN [held EXCEPT !.remaining = @ - (actual - res.amount)]
                    ELSE held
               ELSE [held EXCEPT !.remaining = @ + (res.amount - actual)]
    /\ UNCHANGED <<phase, topup>>

\* The CommitOutcome that settle() enqueues.
Outcome(res, actual) == [lease |-> held.lease, id |-> res.id, amount |-> actual]

\* The upstream timed out or could not be reached: proxy() answers 504 or 502
\* and neither settles nor refunds.
UpstreamFails(res) ==
    /\ phase = "serving" /\ res \in inflight
    /\ inflight' = inflight \ {res}
    /\ UNCHANGED <<phase, held, topup>>

-----------------------------------------------------------------------------
(* Background *)

\* Mutant: only a lease that was given up is renewed.
RenewSweep_ByStateOnly ==
    /\ phase \in {"serving", "settling"} /\ held # NoHeld
    /\ Schedule(held.state # "active")
    /\ UNCHANGED <<phase, held, inflight>>

\* _renew_forever, one sweep: replace a lease past half its life.
RenewSweep ==
    /\ phase \in {"serving", "settling"} /\ held # NoHeld
    /\ Schedule(held.state # "active" \/ 2 * held.left <= TTL)
    /\ UNCHANGED <<phase, held, inflight>>

Served == IF phase = "boot" THEN "serving" ELSE phase

\* Mutant: the lease's life is counted from the answer, not from the call.
AcquireGranted_LifeFromAnswer(l, granted) ==
    /\ topup.pc = "acquire"
    /\ held' = [lease |-> l, granted |-> granted, remaining |-> granted,
                left |-> TTL, state |-> "active"]
    /\ topup' = IF held = NoHeld THEN Idle ELSE Retiring(held.lease)
    /\ phase' = Served
    /\ UNCHANGED inflight

\* _acquire is granted lease l: the first one is taken, a later one replaces
\* the held one, which is marked and goes through _release.
AcquireGranted(l, granted) ==
    /\ topup.pc = "acquire"
    /\ held' = [lease |-> l, granted |-> granted, remaining |-> granted,
                left |-> TTL - topup.age, state |-> "active"]
    /\ topup' = IF held = NoHeld THEN Idle ELSE Retiring(held.lease)
    /\ phase' = Served
    /\ UNCHANGED inflight

\* _acquire gets nothing: the pool is exhausted or the call raised.  A failed
\* prime() is only logged.
AcquireFailed ==
    /\ topup.pc = "acquire"
    /\ topup' = Idle
    /\ phase' = Served
    /\ UNCHANGED <<held, inflight>>

\* _release, after before_release() returned.
ReleaseCall ==
    /\ topup.pc = "drain"
    /\ topup' = [topup EXCEPT !.pc = "release"]
    /\ UNCHANGED <<phase, held, inflight>>

\* _release returned or raised: topping_up is cleared either way.
ReleaseEnds ==
    /\ topup.pc = "release"
    /\ topup' = Idle
    /\ phase' = IF phase = "releasing" THEN "down" ELSE phase
    /\ UNCHANGED <<held, inflight>>

\* The PEP's clock advances.
PepTick ==
    /\ held' = [held EXCEPT !.left = IF @ > 0 THEN @ - 1 ELSE 0]
    /\ topup' = [topup EXCEPT !.age =
                    IF topup.pc = "acquire" /\ @ < TTL THEN @ + 1 ELSE @]
    /\ UNCHANGED <<phase, inflight>>

-----------------------------------------------------------------------------
(* The end of the process *)

\* The server stops: it has answered what was in flight, and the lifespan goes
\* on to settlement.aclose().
Shutdown ==
    /\ phase = "serving" /\ inflight = {}
    /\ phase' = "settling"
    /\ UNCHANGED <<held, topup, inflight>>

\* pool.aclose: the renewer is cancelled and the top-up under way awaited.
StopRenewer ==
    /\ phase = "settling"
    /\ phase' = "stopping"
    /\ UNCHANGED <<held, topup, inflight>>

\* pool.aclose: _closed is set and the held lease goes through _release.
CloseHeld ==
    /\ phase = "stopping" /\ topup.pc = "idle"
    /\ phase' = IF held.state = "active" THEN "releasing" ELSE "down"
    /\ held' = IF held.state = "active" THEN [held EXCEPT !.state = "released"]
                                        ELSE held
    /\ topup' = IF held.state = "active" THEN Retiring(held.lease) ELSE topup
    /\ UNCHANGED inflight

\* The process dies, or is started again after a shutdown.
Restart ==
    /\ phase # "boot"
    /\ phase' = "boot" /\ held' = NoHeld /\ topup' = Acquiring /\ inflight' = {}

-----------------------------------------------------------------------------
(* The pool against any ledger *)

FreshLeases == Leases \ ({held.lease, topup.old} \cup {res.lease : res \in inflight})

Granted == \E l \in FreshLeases, g \in 1 .. LeaseSize : AcquireGranted(l, g)

PoolNext ==
    \/ \E r \in Reservations, a \in Amounts : Authorize(r, a)
    \/ \E a \in Amounts : AuthorizeUnrecorded(a)
    \/ \E a \in Amounts : Refuse(a)
    \/ \E res \in inflight : \E actual \in {res.amount} \cup Actuals :
          Settle(res, actual)
    \/ \E res \in inflight : UpstreamFails(res)
    \/ RenewSweep
    \/ Granted
    \/ AcquireFailed
    \/ ReleaseCall
    \/ ReleaseEnds
    \/ PepTick
    \/ Shutdown
    \/ StopRenewer
    \/ CloseHeld
    \/ Restart

PoolSpec == PoolInit /\ [][PoolNext]_poolVars

\* The event loop runs the renewer and the top-up task, calls to the ledger
\* return, and an ACQUIRE that is tried again and again is granted at last, within
\* a tick of the clock reading it carries (the ledger is neither down, nor empty,
\* nor slower than a lease's life for ever).  Nothing is assumed of the agents.
FairPoolSpec ==
    /\ PoolSpec
    /\ WF_poolVars(RenewSweep)
    /\ WF_poolVars(Granted \/ AcquireFailed)
    /\ WF_poolVars(ReleaseCall)
    /\ WF_poolVars(ReleaseEnds)
    /\ SF_poolVars(topup.age = 0 /\ Granted)

\* Agents go on asking a PEP that refuses.
AgentsKeepAsking == WF_poolVars(\E a \in Amounts : Refuse(a))

-----------------------------------------------------------------------------
(* Properties *)

HeldInFlight ==
    [res \in inflight |-> IF res.lease = held.lease THEN res.amount ELSE 0]

\* What the PEP has in hand and in flight on the lease it holds is covered by
\* the grant, whatever requests, top-ups and refused audit records interleave
\* (spec 04 section 4.2), as long as no request is charged less than it
\* reserved, which proxy() never does.
InHandWithinGrant ==
    held.remaining + SumOver(inflight, HeldInFlight) <= held.granted

\* A lease that ran dry is replaced: after failed top-ups too, the PEP that
\* refuses for lack of budget gets budget again (check(): a refusal asks).
DryLeaseIsRefilled ==
    AgentsKeepAsking =>
        (phase = "serving" /\ held # NoHeld /\ held.remaining = 0
            ~> phase # "serving" \/ held.remaining > 0)

\* A lease that aged out is replaced even if no request comes (start(),
\* _renew_forever), so an idle PEP becomes able to spend again.
AgedLeaseIsRenewed ==
    phase = "serving" /\ held # NoHeld /\ held.left <= SKEW
        ~> phase # "serving" \/ held.left > SKEW
=============================================================================
