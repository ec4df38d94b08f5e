---------------------------- MODULE LeaseProtocol ----------------------------
(***************************************************************************)
(* The lease protocol end to end: one PEP, with its lease pool and its     *)
(* settlement queue, drawing on the pool row of the ledger over calls that *)
(* may fail before or after the ledger's transaction commits, while the    *)
(* reaper runs and the two clocks drift apart by up to 2S, each being      *)
(* within S of true time.  Requests are settled at the amount they         *)
(* reserved, which is how proxy() calls settle(), or at one of Actuals.    *)
(*                                                                         *)
(* Other PEPs take part through the ledger only: they draw on the same row *)
(* and release what they drew.  A lease this PEP has no knowledge of may   *)
(* be another's; which one it is, or whether it is one whose grant this    *)
(* PEP never heard of, the ledger does not tell apart.                     *)
(***************************************************************************)
EXTENDS Ledger

CONSTANTS
    Amounts, Actuals, LeaseSize, SKEW, LowWater,   \* see LeasePool
    Topup, Aclose, Run,                            \* coroutines, see SettlementQueue
    Capacity

ASSUME ProtocolConstants ==
    /\ LeaseSize \in Requests
    /\ Amounts \cup Actuals \subseteq Reports
    /\ BatchMax > 0

VARIABLES
    phase, held, topup, inflight,                       \* LeasePool
    pending, closed, running, lock, sending, before,    \* SettlementQueue
    clock,      \* the PEP's clock
    issued,     \* history: the reservation ids in use (they are never used again)
    spent       \* history: spent[r]: what the tool called under r has charged

poolVars == <<phase, held, topup, inflight>>
queueVars == <<pending, closed, running, lock, sending, before>>
history == <<issued, spent>>
protocolVars == <<vars, poolVars, queueVars, clock, history>>

P == INSTANCE LeasePool
Q == INSTANCE SettlementQueue WITH
        Settlements <- [lease : Leases, id : Reservations, amount : Reports],
        Drainers <- {Topup, Aclose}, Closer <- Aclose, Runner <- Run

Quiet == UNCHANGED <<reaping, now, clock>>

ProtocolInit ==
    /\ Init /\ P!PoolInit /\ Q!QueueInit
    /\ clock = 0
    /\ issued = {} /\ spent = [r \in Reservations |-> 0]

-----------------------------------------------------------------------------
(* Calls to the ledger *)

\* ACQUIRE, with the clock reading the task made before the call.
AcquireOwn(l) == Acquire(Pool, l, LeaseSize, clock - topup.age)
Readable == clock - topup.age \in PepClocks

\* _acquire is answered with a grant.  If it replaces a lease, before_release,
\* that is the queue's drain(), is called at once.
AcquireAnswered(l) ==
    /\ Readable /\ AcquireOwn(l)
    /\ P!AcquireGranted(l, lease'[l].granted)
    /\ IF held # P!NoHeld /\ pending # <<>> THEN Q!DrainCall(Topup)
                                            ELSE UNCHANGED queueVars
    /\ Quiet /\ UNCHANGED history

\* The grant is committed but the PEP never hears of it.
AcquireLost(l) ==
    /\ Readable /\ AcquireOwn(l)
    /\ P!AcquireFailed
    /\ Quiet /\ UNCHANGED <<queueVars, history>>

\* The pool has nothing left, or the ledger cannot be reached.
AcquireRefused ==
    /\ P!AcquireFailed
    /\ Quiet /\ UNCHANGED <<ledgerVars, queueVars, history>>

\* drain() returned, for whatever reason: RELEASE is called.
ReleaseCalled ==
    /\ before[Topup] = 0
    /\ P!ReleaseCall
    /\ Quiet /\ UNCHANGED <<ledgerVars, queueVars, history>>

\* RELEASE reaches the ledger, where it is a no-op unless the lease is active,
\* or the call fails: the pool goes on the same way.
ReleaseReturns ==
    /\ P!ReleaseEnds
    /\ Release(topup.old) \/ UNCHANGED ledgerVars
    /\ Quiet /\ UNCHANGED <<queueVars, history>>

\* LedgerSettlementSink.commit: the batch, in one transaction.
SinkCommit ==
    LedgerCommitBatch(pending[1].lease,
                      [i \in 1 .. sending |-> [id     |-> pending[i].id,
                                               amount |-> pending[i].amount]])

SinkAnswers ==
    /\ Q!Answered /\ SinkCommit
    /\ Quiet /\ UNCHANGED <<poolVars, history>>

\* The sink raises, after the commit or before it.
SinkFails ==
    /\ Q!Unanswered
    /\ SinkCommit \/ UNCHANGED ledgerVars
    /\ Quiet /\ UNCHANGED <<poolVars, history>>

-----------------------------------------------------------------------------
(* The PEP on its own *)

Local == Quiet /\ UNCHANGED ledgerVars

Request(r, amount) ==
    /\ r \notin issued
    /\ P!Authorize(r, amount)
    /\ issued' = issued \cup {r}
    /\ Local /\ UNCHANGED <<queueVars, spent>>

RequestRefused(amount) ==
    /\ P!Refuse(amount) \/ P!AuthorizeUnrecorded(amount)
    /\ Local /\ UNCHANGED <<queueVars, history>>

\* The upstream has charged `actual`; settle() settles locally and enqueues.
RequestSettled(res, actual) ==
    /\ P!Settle(res, actual)
    /\ Q!Enqueue(P!Outcome(res, actual))
    /\ spent' = [spent EXCEPT ![res.id] = actual]
    /\ Local /\ UNCHANGED issued

\* Mutant: a request that failed is settled at the amount it reserved.
RequestFailed_Settles(res) ==
    /\ P!UpstreamFails(res)
    /\ Q!Enqueue(P!Outcome(res, res.amount))
    /\ Local /\ UNCHANGED history

RequestFailed(res) ==
    /\ P!UpstreamFails(res)
    /\ Local /\ UNCHANGED <<queueVars, history>>

Renew == P!RenewSweep /\ Local /\ UNCHANGED <<queueVars, history>>

QueueTurns ==
    /\ Q!RunTick \/ Q!Wake \/ Q!EmptyFlush
    /\ Local /\ UNCHANGED <<poolVars, history>>

\* The lifespan's end: settlement.aclose(), then pool.aclose().
ShutdownBegins ==
    /\ P!Shutdown /\ Q!Close
    /\ Local /\ UNCHANGED history

QueueCloses ==
    /\ Q!CancelRunner
    /\ (Q!RunnerSends /\ SinkCommit) \/ UNCHANGED ledgerVars
    /\ Quiet /\ UNCHANGED <<poolVars, history>>

PoolStops ==
    /\ ~ running
    /\ P!StopRenewer
    /\ Local /\ UNCHANGED <<queueVars, history>>

PoolCloses ==
    /\ P!CloseHeld
    /\ IF held.state = "active" /\ pending # <<>> THEN Q!DrainCall(Topup)
                                                  ELSE UNCHANGED queueVars
    /\ Local /\ UNCHANGED history

\* The process dies or is restarted: what it held in memory is gone.
PepRestarts ==
    /\ P!Restart /\ Q!Rebuild
    /\ Local /\ UNCHANGED history

-----------------------------------------------------------------------------
(* Time and the rest of the system *)

\* The leases this PEP knows of.
InHand == {held.lease, topup.old} \cup {res.lease : res \in inflight}
             \cup {pending[i].lease : i \in DOMAIN pending}

OtherPep ==
    /\ \E l \in Leases \ InHand :
          \/ \E t \in PepClocks : Acquire(Pool, l, LeaseSize, t)
          \/ Release(l)
    /\ Quiet /\ UNCHANGED <<poolVars, queueVars, history>>

Reaper == Reap /\ UNCHANGED <<now, clock, poolVars, queueVars, history>>

\* Both clocks advance, or one of them within the skew.
TimePasses ==
    /\ UNCHANGED <<ledgerVars, reaping, queueVars, history>>
    /\ now' \in {now, now + 1} /\ now' <= MaxTime
    /\ clock' \in {clock, clock + 1}
    /\ now' <= clock' + 2 * SKEW_ALLOWANCE /\ clock' <= now' + 2 * SKEW_ALLOWANCE
    /\ IF clock' = clock THEN now' # now /\ UNCHANGED poolVars ELSE P!PepTick

ProtocolNext ==
    \/ \E l \in Leases : AcquireAnswered(l) \/ AcquireLost(l)
    \/ AcquireRefused
    \/ ReleaseCalled
    \/ ReleaseReturns
    \/ SinkAnswers
    \/ SinkFails
    \/ \E r \in Reservations, a \in Amounts : Request(r, a)
    \/ \E a \in Amounts : RequestRefused(a)
    \/ \E res \in inflight : \E actual \in {res.amount} \cup Actuals :
          RequestSettled(res, actual)
    \/ \E res \in inflight : RequestFailed(res)
    \/ Renew
    \/ QueueTurns
    \/ ShutdownBegins
    \/ QueueCloses
    \/ PoolStops
    \/ PoolCloses
    \/ PepRestarts
    \/ OtherPep
    \/ Reaper
    \/ TimePasses

ProtocolSpec == ProtocolInit /\ [][ProtocolNext]_protocolVars

-----------------------------------------------------------------------------
(* Properties *)

\* A PEP cannot break the ledger (spec 04 section 6): what it does to the
\* ledger, failures, retries and late calls included, are operations of module
\* Ledger.
ImplementsLedger == Spec

Paying == INSTANCE Charging WITH
        charged <- [r \in Reservations |-> reservation[r].amount],
        bill <- budget[Pool].committed

\* Behind all the machinery each request is paid for at most once: over lost answers and
\* the replays that follow them, crashes, batches, late settlements and the reaper, what
\* the pool has committed is the sum of one charge for each request that has one, made
\* after its tool charged, never for more and never changed (ledger_commit_batch,
\* SettlementQueue, spec 04 section 11).
ImplementsCharging == Paying!Spec

\* A lease the PEP may still spend from is active in the ledger: PEP and reaper
\* never both own its budget, whatever the clocks read within the skew and
\* however long an ACQUIRE took (spec 04 section 9).
SpendableIsActive ==
    held.state = "active" /\ held.left > SKEW =>
        lease[held.lease].state = "active"

\* The ledger never charges a request more than its tool did, nor at all if it
\* was refused or failed, replays and batches included.
ChargedAtMostOnce ==
    \A r \in Reservations : reservation[r].amount <= spent[r]

\* Spec 04 section 6: "committed + leased <= total holds after every operation,
\* therefore sum of spend <= total" (docs/specs/04-lease-protocol.md:271).
SpendWithinPool == SumOver(Reservations, spent) <= PoolTotal
=============================================================================
