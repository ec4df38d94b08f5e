------------------------------- MODULE Ledger -------------------------------
(***************************************************************************)
(* The lease ledger of the control plane: the tables budgets, leases,      *)
(* reservations and reconciliation_anomalies of one mandate and one        *)
(* dimension (db/models.py), and the operations of db/ledger.py on them:   *)
(* split_budget, acquire, release, reap and ledger_commit_batch            *)
(* (ledger_commit is a batch of one).                                      *)
(*                                                                         *)
(* Every operation is one transaction that locks the rows it writes, so    *)
(* each is one action.  reap is the exception: it reads its candidates in  *)
(* one transaction and retires each in a transaction of its own, and other *)
(* operations run in between.  Calls that are refused (AllocationError,    *)
(* LeaseUnavailableError, a RELEASE of a retired lease, a replayed         *)
(* settlement) change no row and are stuttering steps.                     *)
(***************************************************************************)
EXTENDS Integers, Sequences, FiniteSets, UnitSums

CONSTANTS
    Budgets,         \* ids of budget rows; an allocation row is its agent's
    Pool,            \* the row with parent_budget_id NULL
    NoBudget,        \* NULL
    Leases,          \* ids of lease rows
    NoLease,         \* NULL
    Reservations,    \* reservation ids, generated by the PEPs
    PoolTotal,       \* the pool's total
    Requests,        \* amounts asked for by an ACQUIRE or a split
    Reports,         \* amounts reported by a settlement
    TTL,             \* lifetime of a lease
    SKEW_ALLOWANCE,  \* S: how far a clock may be from true time
    BatchMax,        \* bound: settlements per batch
    MaxTime          \* bound: the last instant of the model

ASSUME LedgerConstants ==
    /\ IsFiniteSet(Budgets) /\ Pool \in Budgets /\ NoBudget \notin Budgets
    /\ IsFiniteSet(Leases) /\ NoLease \notin Leases
    /\ IsFiniteSet(Reservations)
    /\ PoolTotal \in Nat
    /\ Requests \subseteq Nat \ {0} /\ Reports \subseteq Nat
    /\ TTL \in Nat /\ SKEW_ALLOWANCE \in Nat
    /\ BatchMax \in Nat /\ MaxTime \in Nat

VARIABLES
    budget,       \* budget[b]: the row b of `budgets`
    lease,        \* lease[l]: the row l of `leases`
    reservation,  \* reservation[r]: the row r of `reservations`
    anomalies,    \* the rows of `reconciliation_anomalies`
    reaping,      \* candidate_ids of the reap() pass under way
    now           \* the clock of the control plane

ledgerVars == <<budget, lease, reservation, anomalies>>
vars == <<budget, lease, reservation, anomalies, reaping, now>>

-----------------------------------------------------------------------------
(* Rows *)

BudgetRow == [parent    : Budgets \cup {NoBudget},
              total     : Nat,
              committed : Nat,
              leased    : Nat,
              allocated : Nat]

LeaseState == {"active", "released", "expired"}

LeaseRow == [state      : LeaseState \cup {"none"},
             budget     : Budgets \cup {NoBudget},
             granted    : Nat,
             settled    : Nat,
             expires_at : Nat]

\* amount = 0 stands for "no such row": a row is only written for amount > 0.
ReservationRow == [lease : Leases \cup {NoLease}, amount : Nat]

\* reported_amount and lease_state are left out: nothing reads the first, and
\* the second is the state the lease keeps from then on.
AnomalyRow == [lease : Leases, reservation : Reservations]

EmptyBudget(parent, total) ==
    [parent |-> parent, total |-> total,
     committed |-> 0, leased |-> 0, allocated |-> 0]

NoLeaseRow == [state |-> "none", budget |-> NoBudget,
               granted |-> 0, settled |-> 0, expires_at |-> 0]

NoReservationRow == [lease |-> NoLease, amount |-> 0]

Exists(b) == b = Pool \/ budget[b].parent # NoBudget

\* Mutant: budget that was split off is handed out again.
Available_IgnoresAllocated(b) ==
    budget[b].total - budget[b].committed - budget[b].leased

Available(b) == budget[b].total - budget[b].committed
                  - budget[b].leased - budget[b].allocated

Outstanding(l) == lease[l].granted - lease[l].settled

LesserOf(a, b) == IF a <= b THEN a ELSE b

TypeOK ==
    /\ budget \in [Budgets -> BudgetRow]
    /\ lease \in [Leases -> LeaseRow]
    /\ reservation \in [Reservations -> ReservationRow]
    /\ anomalies \in SUBSET AnomalyRow
    /\ reaping \in SUBSET Leases
    /\ now \in Nat

Init ==
    /\ budget = [b \in Budgets |->
                    EmptyBudget(NoBudget, IF b = Pool THEN PoolTotal ELSE 0)]
    /\ lease = [l \in Leases |-> NoLeaseRow]
    /\ reservation = [r \in Reservations |-> NoReservationRow]
    /\ anomalies = {}
    /\ reaping = {}
    /\ now = 0

-----------------------------------------------------------------------------
(* Operations *)

\* split_budget: one new row per child, and the parent's `allocated` raised
\* by their sum, under the parent's lock; refused as a whole when the sum
\* exceeds what the parent has left.
SplitBudget(parent, allocations) ==
    LET children  == DOMAIN allocations
        requested == SumOver(children, allocations)
    IN  /\ Exists(parent)
        /\ children # {}
        /\ \A c \in children : ~ Exists(c)
        /\ requested <= Available(parent)
        /\ budget' = [b \in Budgets |->
                        IF b \in children
                        THEN EmptyBudget(parent, allocations[b])
                        ELSE IF b = parent
                        THEN [budget[b] EXCEPT !.allocated = @ + requested]
                        ELSE budget[b]]
        /\ UNCHANGED <<lease, reservation, anomalies>>

\* Mutant: the grant is not clamped to what is left.
Acquire_Unclamped(b, l, requested, t) ==
    /\ Exists(b) /\ lease[l].state = "none" /\ Available(b) > 0
    /\ budget' = [budget EXCEPT ![b].leased = @ + requested]
    /\ lease' = [lease EXCEPT ![l] =
                    [state |-> "active", budget |-> b, granted |-> requested,
                     settled |-> 0, expires_at |-> t + TTL]]
    /\ UNCHANGED <<reservation, anomalies>>

\* acquire: grants what is asked for or what is left, whichever is less;
\* `t` is the caller's clock.
Acquire(b, l, requested, t) ==
    LET grant == LesserOf(requested, Available(b))
    IN  /\ Exists(b)
        /\ lease[l].state = "none"
        /\ grant > 0
        /\ budget' = [budget EXCEPT ![b].leased = @ + grant]
        /\ lease' = [lease EXCEPT ![l] =
                        [state |-> "active", budget |-> b, granted |-> grant,
                         settled |-> 0, expires_at |-> t + TTL]]
        /\ UNCHANGED <<reservation, anomalies>>

\* _retire: a no-op unless the lease is active.
Retire(l, next_state) ==
    /\ lease[l].state = "active"
    /\ budget' = [budget EXCEPT ![lease[l].budget].leased = @ - Outstanding(l)]
    /\ lease' = [lease EXCEPT ![l].state = next_state]
    /\ UNCHANGED <<reservation, anomalies>>

Release(l) == Retire(l, "released")

\* Mutant: each item is clamped to the grant, not to what the batch leaves of it.
SettleItem_ClampedAlone(l, st, item) ==
    LET applied == LesserOf(item.amount, lease[l].granted)
    IN  IF item.id \in st.already THEN st
        ELSE [already |-> st.already \cup {item.id},
              settled |-> st.settled + applied,
              rows    |-> IF applied > 0
                          THEN [st.rows EXCEPT ![item.id] =
                                  [lease |-> l, amount |-> applied]]
                          ELSE st.rows]

\* One turn of ledger_commit_batch's loop.  `st` holds what the loop mutates:
\* the ids seen or already settled, lease.settled and the new rows.
SettleItem(l, st, item) ==
    LET applied == LesserOf(item.amount, lease[l].granted - st.settled)
    IN  IF item.id \in st.already
        THEN st
        ELSE [already |-> st.already \cup {item.id},
              settled |-> st.settled + applied,
              rows    |-> IF applied > 0
                          THEN [st.rows EXCEPT ![item.id] =
                                  [lease |-> l, amount |-> applied]]
                          ELSE st.rows]

\* Mutant: what was settled by an earlier call is not looked up.
SettleItems_OwnIdsOnly(l, items) ==
    LET run[i \in 0 .. Len(items)] ==
            IF i = 0
            THEN [already |-> {}, settled |-> lease[l].settled, rows |-> reservation]
            ELSE SettleItem(l, run[i-1], items[i])
    IN  run

\* The loop: the state after each item, from the one read under the lock.
SettleItems(l, items) ==
    LET run[i \in 0 .. Len(items)] ==
            IF i = 0
            THEN [already |-> {r \in Reservations : reservation[r].amount > 0},
                  settled |-> lease[l].settled,
                  rows    |-> reservation]
            ELSE SettleItem(l, run[i-1], items[i])
    IN  run

\* ledger_commit_batch on an active lease.
ApplyBatch(l, items) ==
    LET after   == SettleItems(l, items)[Len(items)]
        applied == after.settled - lease[l].settled
    IN  /\ lease[l].state = "active"
        /\ budget' = [budget EXCEPT
                        ![lease[l].budget].committed = @ + applied,
                        ![lease[l].budget].leased = @ - applied]
        /\ lease' = [lease EXCEPT ![l].settled = after.settled]
        /\ reservation' = after.rows
        /\ UNCHANGED anomalies

\* ledger_commit_batch on a lease that has left `active`: every item becomes
\* an anomaly row and LeaseNotActiveError is raised.
RejectBatch(l, items) ==
    /\ lease[l].state \in LeaseState \ {"active"}
    /\ anomalies' = anomalies \cup
                      {[lease |-> l, reservation |-> items[i].id] :
                          i \in DOMAIN items}
    /\ UNCHANGED <<budget, lease, reservation>>

LedgerCommitBatch(l, items) == ApplyBatch(l, items) \/ RejectBatch(l, items)

\* Mutant: the skew allowance is subtracted twice.
ReapScan_TwiceTheSkew ==
    /\ reaping = {}
    /\ reaping' = {l \in Leases : /\ lease[l].state = "active"
                                  /\ lease[l].expires_at < now - 2 * SKEW_ALLOWANCE}
    /\ reaping' # {}
    /\ UNCHANGED ledgerVars

\* reap, first transaction: the active leases past expires_at + S.
ReapScan ==
    /\ reaping = {}
    /\ reaping' = {l \in Leases : /\ lease[l].state = "active"
                                  /\ lease[l].expires_at < now - SKEW_ALLOWANCE}
    /\ reaping' # {}
    /\ UNCHANGED ledgerVars

\* Mutant: the candidate is retired without looking at it again.
ReapRetire_Unchecked(l) ==
    /\ l \in reaping
    /\ reaping' = reaping \ {l}
    /\ budget' = [budget EXCEPT ![lease[l].budget].leased = @ - Outstanding(l)]
    /\ lease' = [lease EXCEPT ![l].state = "expired"]
    /\ UNCHANGED <<reservation, anomalies>>

\* reap, one transaction per candidate.  The candidate may have been released
\* since the scan: _retire sees that under the lock and does nothing.
ReapRetire(l) ==
    /\ l \in reaping
    /\ reaping' = reaping \ {l}
    /\ IF lease[l].state = "active" THEN Retire(l, "expired")
                                    ELSE UNCHANGED ledgerVars

\* The database fails in the middle of a pass: _reaper_lifespan logs it and
\* starts over at its next turn.
ReapFails ==
    /\ reaping # {}
    /\ reaping' = {}
    /\ UNCHANGED ledgerVars

Tick == now < MaxTime /\ now' = now + 1 /\ UNCHANGED <<ledgerVars, reaping>>

-----------------------------------------------------------------------------
(* Specification *)

Items == {[id |-> r, amount |-> a] : r \in Reservations, a \in Reports}
Batches == UNION {[1 .. n -> Items] : n \in 1 .. BatchMax}

Allocations == UNION {[C -> Requests] : C \in SUBSET (Budgets \ {Pool}) \ {{}}}

\* Bound: leases are granted early enough for the reaper's cutoff to pass
\* them before MaxTime.
GrantHorizon == MaxTime - (TTL + SKEW_ALLOWANCE + 1)

\* The clock readings an ACQUIRE may carry: each clock is within S of true
\* time, and the call may have been under way for a while.
PepClocks == {t \in 0 .. GrantHorizon : t <= now + 2 * SKEW_ALLOWANCE}

Reap == \/ ReapScan
        \/ \E l \in Leases : ReapRetire(l)
        \/ ReapFails

Next ==
    \/ /\ UNCHANGED <<reaping, now>>
       /\ \/ \E parent \in Budgets, a \in Allocations : SplitBudget(parent, a)
          \/ \E b \in Budgets, l \in Leases, q \in Requests, t \in PepClocks :
                Acquire(b, l, q, t)
          \/ \E l \in Leases : Release(l)
          \/ \E l \in Leases, items \in Batches : LedgerCommitBatch(l, items)
    \/ Reap /\ UNCHANGED now
    \/ Tick

Spec == Init /\ [][Next]_vars

\* The reaper loop (_reaper_lifespan) runs for the life of the process and
\* outlives database errors; a retirement that is possible again and again is
\* eventually made, because the database is not down for ever.
FairSpec ==
    /\ Spec
    /\ WF_vars(Tick)
    /\ WF_vars(ReapScan /\ UNCHANGED now)
    /\ \A l \in Leases : SF_vars(ReapRetire(l) /\ UNCHANGED now)

-----------------------------------------------------------------------------
(* The sums of the invariant sweep, db/invariants.py *)

\* Outstanding budget of the active leases drawn on b.
ActiveOutstanding(b) ==
    [l \in Leases |-> IF lease[l].state = "active" /\ lease[l].budget = b
                      THEN Outstanding(l) ELSE 0]

\* Amounts settled by reservation rows against lease l.
SettledAgainst(l) ==
    [r \in Reservations |-> IF reservation[r].lease = l
                            THEN reservation[r].amount ELSE 0]

\* Amounts settled by reservation rows against leases drawn on b.
SettledFrom(b) ==
    [r \in Reservations |-> IF /\ reservation[r].amount > 0
                               /\ lease[reservation[r].lease].budget = b
                            THEN reservation[r].amount ELSE 0]

\* Totals of the rows split off from b.
ChildTotals(b) ==
    [c \in Budgets |-> IF budget[c].parent = b THEN budget[c].total ELSE 0]

-----------------------------------------------------------------------------
(* Properties *)

\* The pool invariant (ck_budgets_invariant, spec 04 section 2.1): no row
\* promises more than its total and none of its balances is negative,
\* whatever the PEPs report, replay or report late.
PoolInvariant ==
    \A b \in Budgets :
        /\ budget[b].committed >= 0
        /\ budget[b].leased >= 0
        /\ budget[b].allocated >= 0
        /\ budget[b].committed + budget[b].leased + budget[b].allocated
              <= budget[b].total

\* LEASED_VS_ACTIVE_LEASES: `leased` is what the active leases still hold, so
\* every exit of a lease returned its outstanding budget exactly once.
LeasedIsActiveOutstanding ==
    \A b \in Budgets :
        budget[b].leased = SumOver(Leases, ActiveOutstanding(b))

\* COMMITTED_VS_RESERVATIONS: every unit of `committed` is backed by a
\* reservation row, replays and repeats within a batch included.
CommittedIsReservations ==
    \A b \in Budgets :
        budget[b].committed = SumOver(Reservations, SettledFrom(b))

\* ALLOCATED_VS_CHILDREN: a row's `allocated` is the sum of its children.
AllocatedIsChildren ==
    \A b \in Budgets : budget[b].allocated = SumOver(Budgets, ChildTotals(b))

\* ck_leases_outstanding and its reading by the reservation rows: a lease is
\* never settled beyond its grant, and what it settled is the sum of its rows.
SettledWithinGrant ==
    \A l \in Leases :
        /\ lease[l].settled <= lease[l].granted
        /\ lease[l].settled = SumOver(Reservations, SettledAgainst(l))

\* The sweep's sums balance after every transaction, for every row at once: what a lease,
\* a settlement or a split moves out of one column of one table arrives in another exactly
\* once, whatever is replayed, repeated within a batch, over-reported or reaped (_SWEEP).
BooksBalance ==
    /\ LeasedIsActiveOutstanding
    /\ CommittedIsReservations
    /\ AllocatedIsChildren
    /\ SettledWithinGrant

\* Budget is conserved down the tree of splits: what all rows together have
\* spent and lent out never exceeds the total of the pool they came from.
TreeWithinPool ==
    SumOver(Budgets, [b \in Budgets |-> budget[b].committed + budget[b].leased])
        <= PoolTotal

HistoryStep ==
    /\ \A r \in Reservations :
          reservation[r].amount > 0 => reservation'[r] = reservation[r]
    /\ \A l \in Leases :
          /\ lease[l].state \in {"released", "expired"} => lease'[l] = lease[l]
          /\ lease'[l].settled >= lease[l].settled

\* A settlement counts once and a lease ends once: reservation rows are never
\* rewritten, a retired lease is never revived nor settled against, and
\* `settled` never goes back (spec 04 sections 3 and 11).
HistoryIsFinal == [][HistoryStep]_vars

\* The reaper reclaims every lease nobody returns (spec 04 section 7): an
\* active lease is eventually retired, whatever its PEP does.
LeasesEnd ==
    \A l \in Leases : lease[l].state = "active" ~> lease[l].state # "active"
=============================================================================
