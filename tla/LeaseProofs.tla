----------------------------- MODULE LeaseProofs -----------------------------
(***************************************************************************)
(* Proofs about module Ledger, for every set of budgets, leases and        *)
(* reservations, every amount and every batch; and that the lease protocol *)
(* implements the ledger and the pool, so that nothing a PEP does, at any  *)
(* number of requests, failures and restarts, breaks the ledger's          *)
(* invariants, that PEP and reaper never both own a lease, and that each   *)
(* request is charged at most once and for good, out of the pool.          *)
(***************************************************************************)
EXTENDS LeaseProtocol, OperatorProofs

-----------------------------------------------------------------------------
(* The inductive invariant *)

\* A lease row that was inserted draws on an inserted budget row; one that was not is blank.
LeaseShape ==
    \A l \in Leases :
        /\ lease[l].state # "none" =>
              lease[l].budget \in Budgets /\ Exists(lease[l].budget)
        /\ lease[l].state = "none" => lease[l] = NoLeaseRow

\* A reservation row that was inserted is against a lease that was inserted.
RowShape ==
    \A r \in Reservations :
        /\ reservation[r].amount > 0 =>
              /\ reservation[r].lease \in Leases
              /\ lease[reservation[r].lease].state # "none"
        /\ reservation[r].amount = 0 => reservation[r] = NoReservationRow

\* A budget row that was not inserted is blank; the pool has no parent.
BudgetShape ==
    /\ budget[Pool].parent = NoBudget
    /\ \A b \in Budgets : ~ Exists(b) => budget[b] = EmptyBudget(NoBudget, 0)

\* What the rows keep for themselves after their splits adds up to the pool.
NetTotal == [b \in Budgets |-> budget[b].total - budget[b].allocated]
NetTotalIsPool == SumOver(Budgets, NetTotal) = PoolTotal

IInv ==
    /\ TypeOK
    /\ LeaseShape
    /\ RowShape
    /\ BudgetShape
    /\ PoolInvariant
    /\ LeasedIsActiveOutstanding
    /\ SettledWithinGrant
    /\ CommittedIsReservations
    /\ AllocatedIsChildren
    /\ NetTotalIsPool

-----------------------------------------------------------------------------

\* The amounts the rows hold against lease l, and against leases drawn on b.
AgainstIn(rows, l) ==
    [r \in Reservations |-> IF rows[r].lease = l THEN rows[r].amount ELSE 0]
FromIn(rows, b) ==
    [r \in Reservations |-> IF rows[r].amount > 0 /\ lease[rows[r].lease].budget = b
                            THEN rows[r].amount ELSE 0]

\* What holds of the loop's state between two items of a batch for lease l:
\* `settled` has grown within the grant, rows were only added, they are rows
\* of l, and the sums over the rows have grown as `settled` has.
LoopStates(l) ==
    {st \in [already : SUBSET Reservations,
             settled : Nat,
             rows    : [Reservations -> ReservationRow]] :
        /\ lease[l].settled <= st.settled
        /\ st.settled <= lease[l].granted
        /\ \A r \in Reservations :
              /\ st.rows[r].amount > 0 => r \in st.already
              /\ \/ st.rows[r] = reservation[r]
                 \/ /\ reservation[r] = NoReservationRow
                    /\ st.rows[r].lease = l
                    /\ st.rows[r].amount > 0
        /\ SumOver(Reservations, AgainstIn(st.rows, l)) = st.settled
        /\ SumOver(Reservations, FromIn(st.rows, lease[l].budget))
              = budget[lease[l].budget].committed + (st.settled - lease[l].settled)}

LoopStart(l) ==
    [already |-> {r \in Reservations : reservation[r].amount > 0},
     settled |-> lease[l].settled,
     rows    |-> reservation]

\* The loop starts in a good state.
LEMMA LoopStartGood ==
    ASSUME IInv, NEW l \in Leases, lease[l].state = "active"
    PROVE  LoopStart(l) \in LoopStates(l)
<1> DEFINE b == lease[l].budget
<1>1. b \in Budgets
  BY DEF IInv, LeaseShape
<1>2. /\ reservation \in [Reservations -> ReservationRow]
      /\ lease[l].settled \in Nat
      /\ lease[l].settled <= lease[l].granted
  BY DEF IInv, TypeOK, LeaseRow, SettledWithinGrant
<1>3. SumOver(Reservations, AgainstIn(reservation, l)) = lease[l].settled
  BY DEF IInv, SettledWithinGrant, AgainstIn, SettledAgainst
<1>4. SumOver(Reservations, FromIn(reservation, b)) = budget[b].committed
  BY <1>1 DEF IInv, CommittedIsReservations, FromIn, SettledFrom
<1>5. budget[b].committed \in Nat
  BY <1>1 DEF IInv, TypeOK, BudgetRow
<1>6. SumOver(Reservations, FromIn(reservation, b))
        = budget[b].committed + (lease[l].settled - lease[l].settled)
  BY <1>2, <1>4, <1>5
<1> QED BY <1>2, <1>3, <1>6 DEF LoopStates, LoopStart

\* One item takes a good state to a good state: it adds at most one row, for
\* an id that had none, and adds its amount to `settled`.
LEMMA SettleItemGood ==
    ASSUME IInv, NEW l \in Leases, lease[l].state = "active",
           NEW st \in LoopStates(l), NEW item \in Items
    PROVE  SettleItem(l, st, item) \in LoopStates(l)
<1> DEFINE b       == lease[l].budget
           applied == LesserOf(item.amount, lease[l].granted - st.settled)
           rows    == [st.rows EXCEPT ![item.id] = [lease |-> l, amount |-> applied]]
<1>1. /\ b \in Budgets
      /\ lease[l].granted \in Nat /\ lease[l].settled \in Nat
      /\ budget[b].committed \in Nat
  BY DEF IInv, LeaseShape, TypeOK, LeaseRow, BudgetRow
<1>2. item.id \in Reservations /\ item.amount \in Nat
  BY LedgerConstants DEF Items
<1>3. /\ st.settled \in Nat /\ st.already \in SUBSET Reservations
      /\ st.rows \in [Reservations -> ReservationRow]
      /\ lease[l].settled <= st.settled /\ st.settled <= lease[l].granted
      /\ st = [already |-> st.already, settled |-> st.settled, rows |-> st.rows]
  BY DEF LoopStates
<1>4. applied \in Nat /\ applied <= lease[l].granted - st.settled
  BY <1>1, <1>2, <1>3 DEF LesserOf
<1>5. CASE item.id \in st.already
  BY <1>5 DEF SettleItem
<1>6. CASE item.id \notin st.already /\ applied = 0
  <2>1. SettleItem(l, st, item) = [already |-> st.already \cup {item.id},
                                   settled |-> st.settled, rows |-> st.rows]
    <3>1. SettleItem(l, st, item) =
            [already |-> st.already \cup {item.id},
             settled |-> st.settled + applied,
             rows    |-> IF applied > 0 THEN rows ELSE st.rows]
      BY <1>6, Zenon DEF SettleItem
    <3> HIDE DEF applied, rows
    <3>2. st.settled + applied = st.settled /\ ~ (applied > 0)
      BY <1>3, <1>6
    <3> QED BY <3>1, <3>2
  <2>2. \A r \in Reservations :
           st.rows[r].amount > 0 => r \in st.already \cup {item.id}
    BY DEF LoopStates
  <2> QED BY <1>2, <1>3, <2>1, <2>2 DEF LoopStates
<1>7. CASE item.id \notin st.already /\ applied > 0
  <2> DEFINE new == [already |-> st.already \cup {item.id},
                     settled |-> st.settled + applied, rows |-> rows]
  <2>1. SettleItem(l, st, item) = new
    BY <1>7 DEF SettleItem
  <2>2. st.rows[item.id].amount = 0 /\ reservation[item.id] = NoReservationRow
        /\ st.rows[item.id] = NoReservationRow
    <3>1. st.rows[item.id].amount = 0
      BY <1>2, <1>3, <1>7 DEF LoopStates, ReservationRow
    <3>2. st.rows[item.id] = reservation[item.id]
      BY <1>2, <3>1 DEF LoopStates
    <3>3. reservation[item.id].amount = 0
      BY <3>1, <3>2
    <3> QED BY <1>2, <3>1, <3>2, <3>3 DEF IInv, RowShape
  <2>3. rows \in [Reservations -> ReservationRow]
    BY <1>2, <1>3, <1>4 DEF ReservationRow
  <2>4. \A r \in Reservations :
           /\ rows[r].amount > 0 => r \in st.already \cup {item.id}
           /\ \/ rows[r] = reservation[r]
              \/ /\ reservation[r] = NoReservationRow
                 /\ rows[r].lease = l
                 /\ rows[r].amount > 0
    BY <1>2, <1>3, <1>7, <2>2 DEF LoopStates
  <2>5. SumOver(Reservations, AgainstIn(rows, l)) = st.settled + applied
    <3> DEFINE f == AgainstIn(st.rows, l)
               g == AgainstIn(rows, l)
    <3>1. \A r \in Reservations : f[r] \in Nat /\ g[r] \in Nat
      BY <1>3, <2>3 DEF AgainstIn, ReservationRow
    <3>2. \A r \in Reservations \ {item.id} : g[r] = f[r]
      BY <1>2, <1>3 DEF AgainstIn
    <3>3. f[item.id] = 0 /\ g[item.id] = applied
      BY <1>2, <1>3, <2>2 DEF AgainstIn
    <3>4. SumOver(Reservations, f) = st.settled
      BY DEF LoopStates
    <3> HIDE DEF f, g
    <3>5. SumOver(Reservations, g) + f[item.id] = SumOver(Reservations, f) + g[item.id]
      BY <1>2, <3>1, <3>2, SumUpdate, LedgerConstants
    <3>6. SumOver(Reservations, g) \in Nat
      BY <3>1, SumType, LedgerConstants
    <3> QED BY <1>3, <1>4, <3>3, <3>4, <3>5, <3>6 DEF g
  <2>6. SumOver(Reservations, FromIn(rows, b))
          = budget[b].committed + ((st.settled + applied) - lease[l].settled)
    <3> DEFINE f == FromIn(st.rows, b)
               g == FromIn(rows, b)
    <3>1. \A r \in Reservations : f[r] \in Nat /\ g[r] \in Nat
      BY <1>3, <2>3 DEF FromIn, ReservationRow
    <3>2. \A r \in Reservations \ {item.id} : g[r] = f[r]
      BY <1>2, <1>3 DEF FromIn
    <3>3. f[item.id] = 0 /\ g[item.id] = applied
      BY <1>2, <1>3, <1>7, <2>2 DEF FromIn
    <3>4. SumOver(Reservations, f)
            = budget[b].committed + (st.settled - lease[l].settled)
      BY DEF LoopStates
    <3> HIDE DEF f, g
    <3>5. SumOver(Reservations, g) + f[item.id] = SumOver(Reservations, f) + g[item.id]
      BY <1>2, <3>1, <3>2, SumUpdate, LedgerConstants
    <3>6. SumOver(Reservations, g) \in Nat
      BY <3>1, SumType, LedgerConstants
    <3>7. SumOver(Reservations, g)
            = budget[b].committed + ((st.settled + applied) - lease[l].settled)
      BY <1>1, <1>3, <1>4, <3>3, <3>4, <3>5, <3>6
    <3> QED BY <3>7 DEF g
  <2> HIDE DEF applied, rows
  <2>7. /\ st.settled + applied \in Nat
        /\ lease[l].settled <= st.settled + applied
        /\ st.settled + applied <= lease[l].granted
    BY <1>1, <1>3, <1>4
  <2>8. new \in LoopStates(l)
    BY <1>2, <1>3, <2>3, <2>4, <2>5, <2>6, <2>7 DEF LoopStates
  <2> QED BY <2>1, <2>8
<1> QED BY <1>4, <1>5, <1>6, <1>7

\* The batch loop is well defined, and it ends in every set of states it starts
\* in and its body preserves.
LEMMA SettleItemsStay ==
    ASSUME NEW l, NEW items, Len(items) \in Nat, NEW V, LoopStart(l) \in V,
           \A i \in 1 .. Len(items), st \in V : SettleItem(l, st, items[i]) \in V
    PROVE  SettleItems(l, items)[Len(items)] \in V
<1> DEFINE n == Len(items)
           step == [i \in 1 .. n |-> [st \in V |-> SettleItem(l, st, items[i])]]
           IsRun(run) == run = [i \in 0 .. n |->
                                  IF i = 0 THEN LoopStart(l)
                                  ELSE SettleItem(l, run[i-1], items[i])]
<1>1. n \in Nat
  OBVIOUS
<1>2. \A i \in 1 .. n, st \in V : SettleItem(l, st, items[i]) \in V
  OBVIOUS
<1>3. step \in [1 .. n -> [V -> V]]
  BY <1>2
<1>4. LoopStart(l) \in V
  OBVIOUS
<1> HIDE DEF n
<1>5. PICK run : IsLoopRun(run, n, V, LoopStart(l), step)
  <2> HIDE DEF step
  <2> QED BY <1>1, <1>3, <1>4, LoopRun, Zenon
<1>6. \A i \in 1 .. n : run[i] = SettleItem(l, run[i-1], items[i])
  <2> SUFFICES ASSUME NEW i \in 1 .. n
               PROVE  run[i] = SettleItem(l, run[i-1], items[i])
    OBVIOUS
  <2>1. run[i-1] \in V
    BY <1>1, <1>5 DEF IsLoopRun
  <2>2. step[i] = [st \in V |-> SettleItem(l, st, items[i])]
    BY Zenon
  <2>3. run[i] = step[i][run[i-1]]
    BY <1>5, Zenon DEF IsLoopRun
  <2> HIDE DEF step
  <2> QED BY <2>1, <2>2, <2>3, Zenon
<1>7. IsRun(run)
  BY <1>1, <1>5, <1>6 DEF IsLoopRun
<1>8. SettleItems(l, items) = CHOOSE f : IsRun(f)
  BY DEF SettleItems, LoopStart, n
<1> DEFINE f == CHOOSE g : IsRun(g)
<1>9. IsRun(f)
  <2> HIDE DEF IsRun
  <2> QED BY <1>7
<1>10. \A i \in 0 .. n : f[i] \in V
  <2> DEFINE T == {i \in 0 .. n : f[i] \in V}
  <2> HIDE DEF f
  <2>1. 0 \in T
    BY <1>1, <1>4, <1>9
  <2>2. ASSUME NEW i \in 1 .. n, i - 1 \in T PROVE i \in T
    <3>1. i \in 0 .. n /\ i # 0 /\ f[i - 1] \in V
      BY <1>1, <2>2
    <3>2. f[i] = SettleItem(l, f[i - 1], items[i])
      BY <1>9, <3>1
    <3> QED BY <1>2, <3>1, <3>2, Zenon
  <2>3. 0 .. n \subseteq T
    <3> HIDE DEF T
    <3> QED BY <1>1, <2>1, <2>2, SetInduction
  <2> QED BY <2>3
<1> QED BY <1>1, <1>8, <1>10 DEF n

\* A batch is a sequence of items.
LEMMA BatchItems ==
    ASSUME NEW items \in Batches
    PROVE  Len(items) \in Nat /\ \A i \in 1 .. Len(items) : items[i] \in Items
<1>1. PICK k \in 1 .. BatchMax : items \in [1 .. k -> Items]
  BY DEF Batches
<1>2. items \in Seq(Items) /\ Len(items) = k
  BY <1>1, LedgerConstants
<1> QED BY <1>1, <1>2

\* The loop over a batch ends in a good state.
LEMMA SettleItemsGood ==
    ASSUME IInv, NEW l \in Leases, lease[l].state = "active",
           NEW items \in Batches
    PROVE  /\ Len(items) \in Nat
           /\ SettleItems(l, items)[Len(items)] \in LoopStates(l)
<1> DEFINE V == LoopStates(l)
<1>1. Len(items) \in Nat /\ \A i \in 1 .. Len(items) : items[i] \in Items
  BY BatchItems
<1>2. \A i \in 1 .. Len(items), st \in V : SettleItem(l, st, items[i]) \in V
  BY <1>1, SettleItemGood
<1>3. LoopStart(l) \in V
  BY LoopStartGood
<1> HIDE DEF V
<1>4. SettleItems(l, items)[Len(items)] \in V
  BY <1>1, <1>2, <1>3, SettleItemsStay
<1> QED BY <1>1, <1>4 DEF V

-----------------------------------------------------------------------------
(* The sums of the invariant add up natural numbers *)

\* Under the type invariant and the grant bound, the summands are naturals.
LEMMA SummandTypes ==
    ASSUME TypeOK, SettledWithinGrant, PoolInvariant
    PROVE  /\ \A b \in Budgets, l \in Leases : ActiveOutstanding(b)[l] \in Nat
           /\ \A b \in Budgets, r \in Reservations : SettledFrom(b)[r] \in Nat
           /\ \A l \in Leases, r \in Reservations : SettledAgainst(l)[r] \in Nat
           /\ \A b \in Budgets, c \in Budgets : ChildTotals(b)[c] \in Nat
           /\ \A b \in Budgets : NetTotal[b] \in Nat
<1>1. \A l \in Leases : Outstanding(l) \in Nat
  BY DEF TypeOK, LeaseRow, SettledWithinGrant, Outstanding
<1>2. \A b \in Budgets, l \in Leases : ActiveOutstanding(b)[l] \in Nat
  BY <1>1 DEF ActiveOutstanding
<1>3. \A b \in Budgets, r \in Reservations : SettledFrom(b)[r] \in Nat
  BY DEF TypeOK, ReservationRow, SettledFrom
<1>4. \A l \in Leases, r \in Reservations : SettledAgainst(l)[r] \in Nat
  BY DEF TypeOK, ReservationRow, SettledAgainst
<1>5. \A b \in Budgets, c \in Budgets : ChildTotals(b)[c] \in Nat
  BY DEF TypeOK, BudgetRow, ChildTotals
<1>6. \A b \in Budgets : NetTotal[b] \in Nat
  BY DEF TypeOK, BudgetRow, NetTotal, PoolInvariant
<1> QED BY <1>2, <1>3, <1>4, <1>5, <1>6

\* The initial state satisfies the invariant.
LEMMA InitIInv == Init => IInv
<1> SUFFICES ASSUME Init PROVE IInv
  OBVIOUS
<1>1. TypeOK
  BY LedgerConstants DEF Init, TypeOK, BudgetRow, EmptyBudget, LeaseRow, NoLeaseRow,
     ReservationRow, NoReservationRow
<1>2. LeaseShape /\ RowShape /\ BudgetShape
  BY LedgerConstants DEF Init, LeaseShape, RowShape, BudgetShape, EmptyBudget,
     NoLeaseRow, NoReservationRow, Exists
<1>3. PoolInvariant
  BY LedgerConstants DEF Init, PoolInvariant, EmptyBudget
<1>4. LeasedIsActiveOutstanding
  <2>1. \A b \in Budgets, l \in Leases : ActiveOutstanding(b)[l] = 0
    BY DEF Init, ActiveOutstanding, NoLeaseRow
  <2>2. \A b \in Budgets : SumOver(Leases, ActiveOutstanding(b)) = 0
    BY <2>1, SumZero
  <2> QED BY <2>2 DEF Init, LeasedIsActiveOutstanding, EmptyBudget
<1>5. SettledWithinGrant
  <2>1. \A l \in Leases, r \in Reservations : SettledAgainst(l)[r] = 0
    BY DEF Init, SettledAgainst, NoReservationRow
  <2>2. \A l \in Leases : SumOver(Reservations, SettledAgainst(l)) = 0
    BY <2>1, SumZero
  <2> QED BY <2>2 DEF Init, SettledWithinGrant, NoLeaseRow
<1>6. CommittedIsReservations
  <2>1. \A b \in Budgets, r \in Reservations : SettledFrom(b)[r] = 0
    BY DEF Init, SettledFrom, NoReservationRow
  <2>2. \A b \in Budgets : SumOver(Reservations, SettledFrom(b)) = 0
    BY <2>1, SumZero
  <2> QED BY <2>2 DEF Init, CommittedIsReservations, EmptyBudget
<1>7. AllocatedIsChildren
  <2>1. \A b \in Budgets, c \in Budgets : ChildTotals(b)[c] = 0
    BY LedgerConstants DEF Init, ChildTotals, EmptyBudget
  <2>2. \A b \in Budgets : SumOver(Budgets, ChildTotals(b)) = 0
    BY <2>1, SumZero
  <2> QED BY <2>2 DEF Init, AllocatedIsChildren, EmptyBudget
<1>8. NetTotalIsPool
  <2> DEFINE zero == [b \in Budgets |-> 0]
  <2>1. /\ \A b \in Budgets : NetTotal[b] \in Nat /\ zero[b] \in Nat
        /\ \A b \in Budgets \ {Pool} : NetTotal[b] = zero[b]
        /\ NetTotal[Pool] = PoolTotal /\ zero[Pool] = 0
    BY LedgerConstants DEF Init, NetTotal, EmptyBudget
  <2>2. SumOver(Budgets, zero) = 0
    BY SumZero
  <2> HIDE DEF zero
  <2>3. SumOver(Budgets, NetTotal) + zero[Pool] = SumOver(Budgets, zero) + NetTotal[Pool]
    BY <2>1, SumUpdate, LedgerConstants
  <2>4. SumOver(Budgets, NetTotal) \in Nat
    BY <2>1, SumType, LedgerConstants
  <2> QED BY <2>1, <2>2, <2>3, <2>4, LedgerConstants DEF NetTotalIsPool
<1> QED BY <1>1, <1>2, <1>3, <1>4, <1>5, <1>6, <1>7, <1>8 DEF IInv

\* ACQUIRE: the new lease holds exactly what `leased` was raised by.
LEMMA AcquireIInv ==
    ASSUME IInv, NEW b \in Budgets, NEW l \in Leases, NEW q \in Requests,
           NEW t \in Nat, Acquire(b, l, q, t), UNCHANGED <<reaping, now>>
    PROVE  IInv'
<1> DEFINE grant == LesserOf(q, Available(b))
           new   == [state |-> "active", budget |-> b, granted |-> grant,
                     settled |-> 0, expires_at |-> t + TTL]
<1>1. /\ lease[l].state = "none" /\ lease[l] = NoLeaseRow
      /\ budget' = [budget EXCEPT ![b].leased = @ + grant]
      /\ lease' = [lease EXCEPT ![l] = new]
      /\ reservation' = reservation /\ anomalies' = anomalies
  BY DEF Acquire, IInv, LeaseShape
<1>2. grant \in Nat /\ grant > 0 /\ grant <= Available(b)
  BY LedgerConstants DEF Acquire, LesserOf, Available, IInv, TypeOK, BudgetRow
<1> HIDE DEF grant
<1>3. new \in LeaseRow
  BY <1>2, LedgerConstants DEF LeaseRow, LeaseState
<1>4. TypeOK'
  <2>1. budget' \in [Budgets -> BudgetRow]
    BY <1>1, <1>2 DEF IInv, TypeOK, BudgetRow
  <2>2. lease' \in [Leases -> LeaseRow]
    BY <1>1, <1>3 DEF IInv, TypeOK
  <2> QED BY <1>1, <2>1, <2>2 DEF IInv, TypeOK
<1>5. /\ \A c \in Budgets : /\ budget'[c].parent = budget[c].parent
                            /\ budget'[c].total = budget[c].total
                            /\ budget'[c].committed = budget[c].committed
                            /\ budget'[c].allocated = budget[c].allocated
                            /\ c # b => budget'[c] = budget[c]
      /\ budget'[b].leased = budget[b].leased + grant
      /\ \A m \in Leases \ {l} : lease'[m] = lease[m]
      /\ lease'[l] = new
  BY <1>1 DEF IInv, TypeOK, BudgetRow
<1>6. LeaseShape'
  BY <1>5 DEF IInv, LeaseShape, Exists, Acquire
<1>7. RowShape'
  BY <1>1, <1>5 DEF IInv, RowShape
<1>8. BudgetShape'
  BY <1>5, LedgerConstants DEF IInv, BudgetShape, Exists, Acquire
<1>9. PoolInvariant'
  BY <1>2, <1>5 DEF IInv, TypeOK, BudgetRow, PoolInvariant, Available
<1>10. SettledWithinGrant'
  <2>1. \A m \in Leases : SettledAgainst(m)' = SettledAgainst(m)
    BY <1>1 DEF SettledAgainst
  <2> QED BY <1>1, <1>2, <1>5, <2>1 DEF IInv, SettledWithinGrant, NoLeaseRow
<1>11. LeasedIsActiveOutstanding'
  <2>1. SUFFICES ASSUME NEW c \in Budgets
                 PROVE  budget'[c].leased = SumOver(Leases, ActiveOutstanding(c)')
    BY DEF LeasedIsActiveOutstanding
  <2> DEFINE f == ActiveOutstanding(c)
             g == ActiveOutstanding(c)'
  <2>2. \A m \in Leases : f[m] \in Nat /\ g[m] \in Nat
    BY <1>4, <1>9, <1>10, SummandTypes DEF IInv, ActiveOutstanding, TypeOK, LeaseRow,
       SettledWithinGrant, Outstanding
  <2>3. \A m \in Leases \ {l} : g[m] = f[m]
    BY <1>5 DEF ActiveOutstanding, Outstanding
  <2>4. f[l] = 0 /\ g[l] = (IF c = b THEN grant ELSE 0)
    BY <1>1, <1>2, <1>5 DEF ActiveOutstanding, Outstanding
  <2>5. SumOver(Leases, f) = budget[c].leased /\ budget[c].leased \in Nat
    BY DEF IInv, LeasedIsActiveOutstanding, TypeOK, BudgetRow
  <2> HIDE DEF f, g
  <2>6. SumOver(Leases, g) + f[l] = SumOver(Leases, f) + g[l]
    BY <2>2, <2>3, SumUpdate, LedgerConstants
  <2>7. SumOver(Leases, g) \in Nat
    BY <2>2, SumType, LedgerConstants
  <2>8. SumOver(Leases, g) = budget'[c].leased
    BY <1>2, <1>5, <2>4, <2>5, <2>6, <2>7
  <2> QED BY <2>8 DEF g
<1>12. CommittedIsReservations'
  <2>1. \A c \in Budgets : SettledFrom(c)' = SettledFrom(c)
    BY <1>1, <1>5 DEF IInv, RowShape, SettledFrom
  <2> QED BY <1>5, <2>1 DEF IInv, CommittedIsReservations
<1>13. AllocatedIsChildren'
  <2>1. \A c \in Budgets : ChildTotals(c)' = ChildTotals(c)
    BY <1>5 DEF ChildTotals
  <2> QED BY <1>5, <2>1 DEF IInv, AllocatedIsChildren
<1>14. NetTotalIsPool'
  <2>1. NetTotal' = NetTotal
    BY <1>5 DEF NetTotal
  <2> QED BY <2>1 DEF IInv, NetTotalIsPool
<1> QED BY <1>4, <1>6, <1>7, <1>8, <1>9, <1>10, <1>11, <1>12, <1>13, <1>14 DEF IInv

\* RELEASE and REAP: what leaves `leased` is what the retired lease held, and
\* it was there to leave.
LEMMA RetireIInv ==
    ASSUME IInv, NEW l \in Leases, NEW s \in {"released", "expired"}, Retire(l, s),
           reaping' \in SUBSET Leases, now' = now
    PROVE  IInv'
<1> DEFINE b == lease[l].budget
           owed == Outstanding(l)
<1>1. /\ lease[l].state = "active" /\ b \in Budgets
      /\ budget' = [budget EXCEPT ![b].leased = @ - owed]
      /\ lease' = [lease EXCEPT ![l].state = s]
      /\ reservation' = reservation /\ anomalies' = anomalies
  BY DEF Retire, IInv, LeaseShape
<1>2. owed \in Nat /\ owed <= budget[b].leased
  <2> DEFINE f == ActiveOutstanding(b)
  <2>1. \A m \in Leases : f[m] \in Nat
    BY <1>1, SummandTypes DEF IInv
  <2>2. f[l] = owed
    BY <1>1 DEF ActiveOutstanding
  <2>3. budget[b].leased = SumOver(Leases, f)
    BY <1>1 DEF IInv, LeasedIsActiveOutstanding
  <2> HIDE DEF f, owed
  <2>4. f[l] <= SumOver(Leases, f)
    BY <2>1, SumMember, LedgerConstants
  <2> QED BY <2>1, <2>2, <2>3, <2>4
<1> HIDE DEF owed
<1>3. /\ \A c \in Budgets : /\ budget'[c].parent = budget[c].parent
                            /\ budget'[c].total = budget[c].total
                            /\ budget'[c].committed = budget[c].committed
                            /\ budget'[c].allocated = budget[c].allocated
                            /\ c # b => budget'[c] = budget[c]
      /\ budget'[b].leased = budget[b].leased - owed
      /\ \A m \in Leases : /\ m # l => lease'[m] = lease[m]
                           /\ lease'[m].budget = lease[m].budget
                           /\ lease'[m].granted = lease[m].granted
                           /\ lease'[m].settled = lease[m].settled
      /\ lease'[l].state = s
  BY <1>1 DEF IInv, TypeOK, BudgetRow, LeaseRow
<1>4. TypeOK'
  <2>1. budget' \in [Budgets -> BudgetRow]
    BY <1>1, <1>2 DEF IInv, TypeOK, BudgetRow
  <2>2. lease' \in [Leases -> LeaseRow]
    BY <1>1 DEF IInv, TypeOK, LeaseRow, LeaseState
  <2> QED BY <1>1, <2>1, <2>2 DEF IInv, TypeOK
<1>5. LeaseShape'
  BY <1>1, <1>3 DEF IInv, LeaseShape, Exists
<1>6. RowShape'
  BY <1>1, <1>3 DEF IInv, RowShape
<1>7. BudgetShape'
  <2>1. Exists(b)
    BY <1>1 DEF IInv, LeaseShape
  <2> QED BY <1>1, <1>3, <2>1 DEF IInv, BudgetShape, Exists
<1>8. PoolInvariant'
  BY <1>1, <1>2, <1>3 DEF IInv, TypeOK, BudgetRow, PoolInvariant
<1>9. SettledWithinGrant'
  <2>1. \A m \in Leases : SettledAgainst(m)' = SettledAgainst(m)
    BY <1>1 DEF SettledAgainst
  <2> QED BY <1>3, <2>1 DEF IInv, SettledWithinGrant
<1>10. LeasedIsActiveOutstanding'
  <2>1. SUFFICES ASSUME NEW c \in Budgets
                 PROVE  budget'[c].leased = SumOver(Leases, ActiveOutstanding(c)')
    BY DEF LeasedIsActiveOutstanding
  <2> DEFINE f == ActiveOutstanding(c)
             g == ActiveOutstanding(c)'
  <2>2. \A m \in Leases : f[m] \in Nat /\ g[m] \in Nat
    BY <1>3, <1>4, <1>9, SummandTypes DEF IInv, ActiveOutstanding, TypeOK, LeaseRow,
       SettledWithinGrant, Outstanding
  <2>3. \A m \in Leases \ {l} : g[m] = f[m]
    BY <1>3 DEF ActiveOutstanding, Outstanding
  <2>4. f[l] = (IF c = b THEN owed ELSE 0) /\ g[l] = 0
    BY <1>1, <1>3 DEF ActiveOutstanding, owed
  <2>5. SumOver(Leases, f) = budget[c].leased /\ budget[c].leased \in Nat
    BY DEF IInv, LeasedIsActiveOutstanding, TypeOK, BudgetRow
  <2> HIDE DEF f, g
  <2>6. SumOver(Leases, g) + f[l] = SumOver(Leases, f) + g[l]
    BY <2>2, <2>3, SumUpdate, LedgerConstants
  <2>7. SumOver(Leases, g) \in Nat
    BY <2>2, SumType, LedgerConstants
  <2>8. SumOver(Leases, g) = budget'[c].leased
    BY <1>2, <1>3, <2>4, <2>5, <2>6, <2>7
  <2> QED BY <2>8 DEF g
<1>11. CommittedIsReservations'
  <2>1. \A c \in Budgets : SettledFrom(c)' = SettledFrom(c)
    BY <1>1, <1>3 DEF IInv, RowShape, SettledFrom
  <2> QED BY <1>3, <2>1 DEF IInv, CommittedIsReservations
<1>12. AllocatedIsChildren'
  <2>1. \A c \in Budgets : ChildTotals(c)' = ChildTotals(c)
    BY <1>3 DEF ChildTotals
  <2> QED BY <1>3, <2>1 DEF IInv, AllocatedIsChildren
<1>13. NetTotalIsPool'
  <2>1. NetTotal' = NetTotal
    BY <1>3 DEF NetTotal
  <2> QED BY <2>1 DEF IInv, NetTotalIsPool
<1> QED BY <1>4, <1>5, <1>6, <1>7, <1>8, <1>9, <1>10, <1>11, <1>12, <1>13 DEF IInv

\* LEDGER_COMMIT against an active lease: what moves from `leased` to
\* `committed` is what the rows added by the batch hold.
LEMMA ApplyBatchIInv ==
    ASSUME IInv, NEW l \in Leases, NEW items \in Batches, ApplyBatch(l, items),
           UNCHANGED <<reaping, now>>
    PROVE  IInv'
<1> DEFINE b == lease[l].budget
           after == SettleItems(l, items)[Len(items)]
           applied == after.settled - lease[l].settled
<1>1. /\ lease[l].state = "active" /\ b \in Budgets /\ Exists(b)
      /\ budget' = [budget EXCEPT ![b].committed = @ + applied,
                                  ![b].leased = @ - applied]
      /\ lease' = [lease EXCEPT ![l].settled = after.settled]
      /\ reservation' = after.rows /\ anomalies' = anomalies
  BY DEF ApplyBatch, IInv, LeaseShape
<1>2. after \in LoopStates(l)
  BY <1>1, SettleItemsGood
<1> HIDE DEF after
<1>3. /\ after.settled \in Nat
      /\ after.rows \in [Reservations -> ReservationRow]
      /\ lease[l].settled <= after.settled
      /\ after.settled <= lease[l].granted
      /\ lease[l].settled \in Nat /\ lease[l].granted \in Nat
  BY <1>2 DEF LoopStates, IInv, TypeOK, LeaseRow
<1>4. applied \in Nat /\ applied <= budget[b].leased
  <2> DEFINE f == ActiveOutstanding(b)
  <2>1. \A m \in Leases : f[m] \in Nat
    BY <1>1, SummandTypes DEF IInv
  <2>2. f[l] = lease[l].granted - lease[l].settled
    BY <1>1 DEF ActiveOutstanding, Outstanding
  <2>3. budget[b].leased = SumOver(Leases, f)
    BY <1>1 DEF IInv, LeasedIsActiveOutstanding
  <2> HIDE DEF f
  <2>4. f[l] <= SumOver(Leases, f)
    BY <2>1, SumMember, LedgerConstants
  <2>5. SumOver(Leases, f) \in Nat
    BY <2>1, SumType, LedgerConstants
  <2> QED BY <1>3, <2>2, <2>3, <2>4, <2>5
<1>5. after.settled = lease[l].settled + applied
  BY <1>3
<1> HIDE DEF applied
<1>6. /\ \A c \in Budgets : /\ budget'[c].parent = budget[c].parent
                            /\ budget'[c].total = budget[c].total
                            /\ budget'[c].allocated = budget[c].allocated
                            /\ c # b => budget'[c] = budget[c]
      /\ budget'[b].leased = budget[b].leased - applied
      /\ budget'[b].committed = budget[b].committed + applied
      /\ \A m \in Leases : /\ m # l => lease'[m] = lease[m]
                           /\ lease'[m].state = lease[m].state
                           /\ lease'[m].budget = lease[m].budget
                           /\ lease'[m].granted = lease[m].granted
      /\ lease'[l].settled = after.settled
  BY <1>1 DEF IInv, TypeOK, BudgetRow, LeaseRow
<1>0. lease[l].state = "active" /\ b \in Budgets
  BY <1>1
<1>7. TypeOK'
  <2>1. budget' \in [Budgets -> BudgetRow]
    <3>1. budget[b].committed + applied \in Nat /\ budget[b].leased - applied \in Nat
      BY <1>1, <1>4 DEF IInv, TypeOK, BudgetRow
    <3> QED BY <1>1, <3>1 DEF IInv, TypeOK, BudgetRow
  <2>2. lease' \in [Leases -> LeaseRow]
    BY <1>1, <1>3 DEF IInv, TypeOK, LeaseRow
  <2> QED BY <1>1, <1>3, <2>1, <2>2 DEF IInv, TypeOK
<1>8. \A c \in Budgets : Exists(c)' <=> Exists(c)
  BY <1>6 DEF Exists
<1>9. LeaseShape'
  <2> SUFFICES ASSUME NEW m \in Leases
               PROVE  /\ lease'[m].state # "none" =>
                            lease'[m].budget \in Budgets /\ Exists(lease[m].budget)'
                      /\ lease'[m].state = "none" => lease'[m] = NoLeaseRow
    BY DEF LeaseShape
  <2>1. lease'[m].state = lease[m].state /\ lease'[m].budget = lease[m].budget
    BY <1>6
  <2>2. lease'[m].state = "none" => lease'[m] = lease[m]
    BY <1>1, <1>6
  <2>3. lease[m].state # "none" => Exists(lease[m].budget)'
    BY <1>6, <2>1 DEF IInv, LeaseShape, Exists
  <2> QED BY <2>1, <2>2, <2>3 DEF IInv, LeaseShape
<1>10. RowShape'
  <2> SUFFICES ASSUME NEW r \in Reservations
               PROVE  /\ after.rows[r].amount > 0 =>
                            /\ after.rows[r].lease \in Leases
                            /\ lease'[after.rows[r].lease].state # "none"
                      /\ after.rows[r].amount = 0 => after.rows[r] = NoReservationRow
    BY <1>1 DEF RowShape
  <2>1. CASE after.rows[r] = reservation[r]
    BY <1>6, <2>1 DEF IInv, RowShape
  <2>2. CASE after.rows[r].lease = l /\ after.rows[r].amount > 0
    <3>1. lease'[l].state # "none"
      BY <1>6, <1>0
    <3>2. after.rows[r].amount # 0
      BY <2>2
    <3> QED BY <2>2, <3>1, <3>2, Zenon
  <2> QED BY <1>2, <2>1, <2>2 DEF LoopStates
<1>11. BudgetShape'
  <2>1. \A c \in Budgets : ~ Exists(c)' => c # b /\ budget'[c] = budget[c]
    BY <1>1, <1>6, <1>8
  <2>2. budget'[Pool].parent = NoBudget
    BY <1>6, LedgerConstants DEF IInv, BudgetShape
  <2> QED BY <1>8, <2>1, <2>2 DEF IInv, BudgetShape
<1>12. PoolInvariant'
  <2> SUFFICES ASSUME NEW c \in Budgets
               PROVE  /\ budget'[c].committed >= 0 /\ budget'[c].leased >= 0
                      /\ budget'[c].allocated >= 0
                      /\ budget'[c].committed + budget'[c].leased + budget'[c].allocated
                            <= budget'[c].total
    BY DEF PoolInvariant
  <2>1. /\ budget[c].committed \in Nat /\ budget[c].leased \in Nat
        /\ budget[c].allocated \in Nat /\ budget[c].total \in Nat
        /\ budget[c].committed + budget[c].leased + budget[c].allocated <= budget[c].total
    BY DEF IInv, TypeOK, BudgetRow, PoolInvariant
  <2>2. CASE c # b
    <3>1. budget'[c] = budget[c]
      BY <1>6, <2>2
    <3> QED BY <2>1, <3>1
  <2>3. CASE c = b
    BY <1>4, <1>6, <2>1, <2>3
  <2> QED BY <2>2, <2>3
<1>13. SettledWithinGrant'
  <2> SUFFICES ASSUME NEW m \in Leases
               PROVE  /\ lease'[m].settled <= lease'[m].granted
                      /\ lease'[m].settled = SumOver(Reservations, SettledAgainst(m)')
    BY DEF SettledWithinGrant
  <2>1. SettledAgainst(m)' = AgainstIn(after.rows, m)
    BY <1>1 DEF SettledAgainst, AgainstIn
  <2>2. CASE m = l
    BY <1>2, <1>3, <1>6, <2>1, <2>2 DEF LoopStates
  <2>3. CASE m # l
    <3>1. \A r \in Reservations : AgainstIn(after.rows, m)[r] = SettledAgainst(m)[r]
      BY <1>2, <2>3, LedgerConstants DEF LoopStates, AgainstIn, SettledAgainst,
         NoReservationRow
    <3>2. SumOver(Reservations, AgainstIn(after.rows, m))
            = SumOver(Reservations, SettledAgainst(m))
      BY <3>1, SumAgree
    <3> QED BY <1>6, <2>1, <2>3, <3>2 DEF IInv, SettledWithinGrant
  <2> QED BY <2>2, <2>3
<1>14. LeasedIsActiveOutstanding'
  <2>1. SUFFICES ASSUME NEW c \in Budgets
                 PROVE  budget'[c].leased = SumOver(Leases, ActiveOutstanding(c)')
    BY DEF LeasedIsActiveOutstanding
  <2> DEFINE f == ActiveOutstanding(c)
             g == ActiveOutstanding(c)'
  <2>2. \A m \in Leases : f[m] \in Nat /\ g[m] \in Nat
    BY <1>7, <1>13, SummandTypes DEF IInv, ActiveOutstanding, TypeOK, LeaseRow,
       SettledWithinGrant, Outstanding
  <2>3. \A m \in Leases \ {l} : g[m] = f[m]
    BY <1>6 DEF ActiveOutstanding, Outstanding
  <2>4. /\ f[l] = (IF c = b THEN lease[l].granted - lease[l].settled ELSE 0)
        /\ g[l] = (IF c = b THEN lease[l].granted - after.settled ELSE 0)
    BY <1>6, <1>0 DEF ActiveOutstanding, Outstanding
  <2>5. SumOver(Leases, f) = budget[c].leased /\ budget[c].leased \in Nat
    BY DEF IInv, LeasedIsActiveOutstanding, TypeOK, BudgetRow
  <2> HIDE DEF f, g
  <2>6. SumOver(Leases, g) + f[l] = SumOver(Leases, f) + g[l]
    BY <2>2, <2>3, SumUpdate, LedgerConstants
  <2>7. SumOver(Leases, g) \in Nat
    BY <2>2, SumType, LedgerConstants
  <2>8. SumOver(Leases, g) = budget'[c].leased
    BY <1>3, <1>4, <1>5, <1>6, <2>4, <2>5, <2>6, <2>7
  <2> QED BY <2>8 DEF g
<1>15. CommittedIsReservations'
  <2> SUFFICES ASSUME NEW c \in Budgets
               PROVE  budget'[c].committed = SumOver(Reservations, SettledFrom(c)')
    BY DEF CommittedIsReservations
  <2>1. \A r \in Reservations :
           after.rows[r].amount > 0 =>
             /\ after.rows[r].lease \in Leases
             /\ lease'[after.rows[r].lease].budget = lease[after.rows[r].lease].budget
    BY <1>1, <1>6, <1>10 DEF RowShape
  <2>2. SettledFrom(c)' = FromIn(after.rows, c)
    BY <1>1, <2>1 DEF SettledFrom, FromIn
  <2>3. CASE c = b
    <3>1. SumOver(Reservations, FromIn(after.rows, b))
            = budget[b].committed + (after.settled - lease[l].settled)
      BY <1>2 DEF LoopStates
    <3> QED BY <1>6, <2>2, <2>3, <3>1 DEF applied
  <2>4. CASE c # b
    <3>1. \A r \in Reservations : FromIn(after.rows, c)[r] = SettledFrom(c)[r]
      BY <1>2, <2>4 DEF LoopStates, FromIn, SettledFrom, NoReservationRow
    <3>2. SumOver(Reservations, FromIn(after.rows, c))
            = SumOver(Reservations, SettledFrom(c))
      BY <3>1, SumAgree
    <3> QED BY <1>6, <2>2, <2>4, <3>2 DEF IInv, CommittedIsReservations
  <2> QED BY <2>3, <2>4
<1>16. AllocatedIsChildren'
  <2>1. \A c \in Budgets : ChildTotals(c)' = ChildTotals(c)
    BY <1>6 DEF ChildTotals
  <2> QED BY <1>6, <2>1 DEF IInv, AllocatedIsChildren
<1>17. NetTotalIsPool'
  <2>1. NetTotal' = NetTotal
    BY <1>6 DEF NetTotal
  <2> QED BY <2>1 DEF IInv, NetTotalIsPool
<1> QED BY <1>7, <1>9, <1>10, <1>11, <1>12, <1>13, <1>14, <1>15, <1>16, <1>17 DEF IInv

\* SPLIT: the children's totals are what the parent's `allocated` was raised
\* by, and the parent had as much left.
LEMMA SplitIInv ==
    ASSUME IInv, NEW parent \in Budgets, NEW a \in Allocations,
           SplitBudget(parent, a), UNCHANGED <<reaping, now>>
    PROVE  IInv'
<1> DEFINE C == DOMAIN a
           requested == SumOver(C, a)
<1>1. C \subseteq Budgets /\ \A c \in C : a[c] \in Nat
  <2>1. PICK D \in SUBSET (Budgets \ {Pool}) : a \in [D -> Requests]
    BY DEF Allocations
  <2>2. DOMAIN a = D
    BY <2>1
  <2> QED BY <2>1, <2>2, LedgerConstants
<1>2. IsFiniteSet(C) /\ IsFiniteSet(Budgets \ C) /\ (Budgets \ C) \cap C = {}
      /\ (Budgets \ C) \cup C = Budgets
  <2> HIDE DEF C
  <2>1. IsFiniteSet(C)
    BY <1>1, FS_Subset, LedgerConstants
  <2>2. IsFiniteSet(Budgets \ C)
    BY FS_Difference, LedgerConstants
  <2> QED BY <1>1, <2>1, <2>2
<1>3. requested \in Nat
  <2> HIDE DEF C
  <2> QED BY <1>1, <1>2, SumType
<1>4. /\ Exists(parent) /\ parent \notin C /\ Pool \notin C
      /\ \A c \in C : budget[c] = EmptyBudget(NoBudget, 0)
      /\ requested <= Available(parent)
      /\ budget' = [b \in Budgets |->
                      IF b \in C THEN EmptyBudget(parent, a[b])
                      ELSE IF b = parent
                      THEN [budget[b] EXCEPT !.allocated = @ + requested]
                      ELSE budget[b]]
      /\ lease' = lease /\ reservation' = reservation /\ anomalies' = anomalies
  BY <1>1 DEF SplitBudget, IInv, BudgetShape, Exists
<1> HIDE DEF C, requested
<1>5. /\ \A c \in C : budget'[c] = EmptyBudget(parent, a[c])
      /\ \A b \in Budgets \ C : /\ budget'[b].parent = budget[b].parent
                                /\ budget'[b].total = budget[b].total
                                /\ budget'[b].committed = budget[b].committed
                                /\ budget'[b].leased = budget[b].leased
                                /\ b # parent => budget'[b] = budget[b]
      /\ budget'[parent].allocated = budget[parent].allocated + requested
  BY <1>1, <1>4 DEF IInv, TypeOK, BudgetRow
<1>6. \A c \in C : /\ budget'[c].parent = parent
                    /\ budget'[c].total = a[c]
                    /\ budget'[c].committed = 0
                    /\ budget'[c].leased = 0
                    /\ budget'[c].allocated = 0
  <2>1. SUFFICES ASSUME NEW c \in C
                 PROVE  /\ budget'[c].parent = parent
                        /\ budget'[c].total = a[c]
                        /\ budget'[c].committed = 0
                        /\ budget'[c].leased = 0
                        /\ budget'[c].allocated = 0
    OBVIOUS
  <2>2. budget'[c] = [parent |-> parent, total |-> a[c],
                      committed |-> 0, leased |-> 0, allocated |-> 0]
    BY <1>5 DEF EmptyBudget
  <2> QED BY ONLY <2>2
<1>7. \A c \in C : /\ budget[c].parent = NoBudget /\ budget[c].total = 0
                    /\ budget[c].committed = 0
                    /\ budget[c].leased = 0
                    /\ budget[c].allocated = 0
  <2>1. SUFFICES ASSUME NEW c \in C
                 PROVE  /\ budget[c].parent = NoBudget /\ budget[c].total = 0
                        /\ budget[c].committed = 0
                        /\ budget[c].leased = 0
                        /\ budget[c].allocated = 0
    OBVIOUS
  <2>2. budget[c] = [parent |-> NoBudget, total |-> 0,
                     committed |-> 0, leased |-> 0, allocated |-> 0]
    BY <1>4 DEF EmptyBudget
  <2> QED BY ONLY <2>2
<1>8. \A b \in Budgets : /\ budget'[b].committed = budget[b].committed
                         /\ budget'[b].leased = budget[b].leased
                         /\ Exists(b) => Exists(b)'
  BY <1>1, <1>4, <1>5, <1>6, <1>7 DEF Exists
<1>9. TypeOK'
  <2>1. \A c \in C : EmptyBudget(parent, a[c]) \in BudgetRow
    BY <1>1 DEF EmptyBudget, BudgetRow
  <2>2. [budget[parent] EXCEPT !.allocated = @ + requested] \in BudgetRow
    BY <1>3 DEF IInv, TypeOK, BudgetRow
  <2>3. budget' \in [Budgets -> BudgetRow]
    BY <1>4, <2>1, <2>2 DEF IInv, TypeOK
  <2> QED BY <1>4, <2>3 DEF IInv, TypeOK
<1>10. LeaseShape' /\ RowShape'
  BY <1>4, <1>8 DEF IInv, LeaseShape, RowShape
<1>11. BudgetShape'
  <2>1. budget'[Pool].parent = NoBudget
    BY <1>4, <1>5, LedgerConstants DEF IInv, BudgetShape
  <2>2. \A b \in Budgets : ~ Exists(b)' => budget'[b] = EmptyBudget(NoBudget, 0)
    <3> SUFFICES ASSUME NEW b \in Budgets, ~ Exists(b)'
                 PROVE  budget'[b] = EmptyBudget(NoBudget, 0)
      OBVIOUS
    <3>1. b \notin C
      BY <1>6, LedgerConstants DEF Exists
    <3>2. ~ Exists(b) /\ b # parent
      BY <1>4, <1>8
    <3> QED BY <1>5, <3>1, <3>2 DEF IInv, BudgetShape
  <2> QED BY <2>1, <2>2 DEF BudgetShape
<1>12. PoolInvariant'
  <2> SUFFICES ASSUME NEW b \in Budgets
               PROVE  /\ budget'[b].committed >= 0
                      /\ budget'[b].leased >= 0
                      /\ budget'[b].allocated >= 0
                      /\ budget'[b].committed + budget'[b].leased
                            + budget'[b].allocated <= budget'[b].total
    BY DEF PoolInvariant
  <2>1. CASE b \in C
    BY <1>1, <1>6, <2>1
  <2>2. CASE b = parent
    <3>1. /\ budget'[parent].committed = budget[parent].committed
          /\ budget'[parent].leased = budget[parent].leased
          /\ budget'[parent].total = budget[parent].total
          /\ budget'[parent].allocated = budget[parent].allocated + requested
      BY <1>4, <1>5
    <3>2. /\ budget[parent].committed \in Nat /\ budget[parent].leased \in Nat
          /\ budget[parent].total \in Nat /\ budget[parent].allocated \in Nat
      BY DEF IInv, TypeOK, BudgetRow
    <3>3. requested <= budget[parent].total - budget[parent].committed
                         - budget[parent].leased - budget[parent].allocated
      BY <1>4 DEF Available
    <3> QED BY <1>3, <2>2, <3>1, <3>2, <3>3
  <2>3. CASE b \notin C /\ b # parent
    BY <1>5, <2>3 DEF IInv, PoolInvariant
  <2> QED BY <2>1, <2>2, <2>3
<1>13. SettledWithinGrant' /\ LeasedIsActiveOutstanding' /\ CommittedIsReservations'
  <2>1. /\ \A l \in Leases : SettledAgainst(l)' = SettledAgainst(l)
        /\ \A b \in Budgets : ActiveOutstanding(b)' = ActiveOutstanding(b)
        /\ \A b \in Budgets : SettledFrom(b)' = SettledFrom(b)
    BY <1>4 DEF SettledAgainst, ActiveOutstanding, SettledFrom, Outstanding
  <2> QED BY <1>4, <1>8, <2>1 DEF IInv, SettledWithinGrant, LeasedIsActiveOutstanding,
             CommittedIsReservations
<1>14. AllocatedIsChildren'
  <2> SUFFICES ASSUME NEW b \in Budgets
               PROVE  budget'[b].allocated = SumOver(Budgets, ChildTotals(b)')
    BY DEF AllocatedIsChildren
  <2> DEFINE f == ChildTotals(b)
             g == ChildTotals(b)'
  <2>1. \A c \in Budgets : f[c] \in Nat /\ g[c] \in Nat
    BY <1>9 DEF IInv, TypeOK, BudgetRow, ChildTotals
  <2>2. \A c \in Budgets \ C : g[c] = f[c]
    BY <1>5 DEF ChildTotals
  <2>3. \A c \in C : f[c] = 0
    BY <1>1, <1>7 DEF ChildTotals
  <2>4. \A c \in C : g[c] = (IF b = parent THEN a[c] ELSE 0)
    BY <1>1, <1>6 DEF ChildTotals
  <2>5. SumOver(Budgets, f) = budget[b].allocated /\ budget[b].allocated \in Nat
    BY DEF IInv, AllocatedIsChildren, TypeOK, BudgetRow
  <2> HIDE DEF f, g
  <2>6. SumOver(Budgets, f) = SumOver(Budgets \ C, f) + SumOver(C, f)
    BY <1>2, <2>1, SumDisjoint
  <2>7. SumOver(Budgets, g) = SumOver(Budgets \ C, g) + SumOver(C, g)
    BY <1>2, <2>1, SumDisjoint
  <2>8. SumOver(Budgets \ C, g) = SumOver(Budgets \ C, f)
        /\ SumOver(Budgets \ C, f) \in Nat
    BY <1>2, <2>1, <2>2, SumAgree, SumType
  <2>9. SumOver(C, f) = 0
    BY <2>3, SumZero
  <2>10. CASE b = parent
    <3>1. SumOver(C, g) = requested
      BY <2>4, <2>10, SumAgree DEF requested
    <3>2. budget'[b].allocated = budget[b].allocated + requested
      BY <1>5, <2>10
    <3>3. SumOver(Budgets, g) = budget[b].allocated + requested
      BY <1>3, <2>5, <2>6, <2>7, <2>8, <2>9, <3>1
    <3> QED BY <3>2, <3>3 DEF g
  <2>11. CASE b # parent
    <3>1. SumOver(C, g) = 0
      BY <2>4, <2>11, SumZero
    <3>2. budget'[b].allocated = budget[b].allocated
      BY <1>4, <1>5, <2>11 DEF EmptyBudget
    <3>3. SumOver(Budgets, g) = budget'[b].allocated
      BY <2>5, <2>6, <2>7, <2>8, <2>9, <3>1, <3>2
    <3> QED BY <3>3 DEF g
  <2> QED BY <2>10, <2>11
<1>15. NetTotalIsPool'
  <2> DEFINE f == NetTotal
             g == NetTotal'
  <2>1. \A b \in Budgets : f[b] \in Nat /\ g[b] \in Nat
    BY <1>9, <1>12 DEF IInv, TypeOK, BudgetRow, NetTotal, PoolInvariant
  <2>2. /\ \A c \in C : f[c] = 0 /\ g[c] = a[c]
        /\ \A b \in Budgets \ C : b # parent => g[b] = f[b]
        /\ g[parent] = f[parent] - requested
    <3>1. ASSUME NEW c \in C PROVE f[c] = 0 /\ g[c] = a[c]
      <4>1. f[c] = budget[c].total - budget[c].allocated
            /\ g[c] = budget'[c].total - budget'[c].allocated
        BY <1>1 DEF NetTotal
      <4>2. a[c] \in Nat
        BY <1>1
      <4> HIDE DEF f, g
      <4> QED BY <1>6, <1>7, <4>1, <4>2
    <3>2. \A b \in Budgets \ C : b # parent => g[b] = f[b]
      BY <1>5 DEF NetTotal
    <3>3. g[parent] = f[parent] - requested
      <4>1. f[parent] = budget[parent].total - budget[parent].allocated
            /\ g[parent] = budget'[parent].total - budget'[parent].allocated
        BY DEF NetTotal
      <4>2. budget'[parent].total = budget[parent].total
            /\ budget'[parent].allocated = budget[parent].allocated + requested
        BY <1>4, <1>5
      <4>3. budget[parent].total \in Nat /\ budget[parent].allocated \in Nat
        BY DEF IInv, TypeOK, BudgetRow
      <4> HIDE DEF f, g
      <4> QED BY <1>3, <4>1, <4>2, <4>3
    <3> HIDE DEF f, g
    <3> QED BY <3>1, <3>2, <3>3
  <2>3. SumOver(Budgets, f) = PoolTotal
    BY DEF IInv, NetTotalIsPool
  <2> HIDE DEF f, g
  <2>4. SumOver(Budgets, f) = SumOver(Budgets \ C, f) + SumOver(C, f)
    BY <1>2, <2>1, SumDisjoint
  <2>5. SumOver(Budgets, g) = SumOver(Budgets \ C, g) + SumOver(C, g)
    BY <1>2, <2>1, SumDisjoint
  <2>6. SumOver(C, f) = 0
    BY <2>2, SumZero
  <2>7. SumOver(C, g) = requested
    BY <2>2, SumAgree DEF requested
  <2>8. SumOver(Budgets \ C, g) + f[parent] = SumOver(Budgets \ C, f) + g[parent]
    <3>1. parent \in Budgets \ C
      BY <1>4
    <3> QED BY <1>2, <2>1, <2>2, <3>1, SumUpdate
  <2>9. SumOver(Budgets \ C, g) \in Nat /\ SumOver(Budgets \ C, f) \in Nat
    BY <1>2, <2>1, SumType
  <2>10. SumOver(Budgets, g) = PoolTotal
    <3>1. f[parent] \in Nat /\ g[parent] = f[parent] - requested
      BY <2>1, <2>2
    <3>2. SumOver(Budgets \ C, g) = SumOver(Budgets \ C, f) - requested
      BY <1>3, <2>8, <2>9, <3>1
    <3>3. SumOver(Budgets, g) = SumOver(Budgets, f)
      BY <1>3, <2>4, <2>5, <2>6, <2>7, <2>9, <3>2
    <3> QED BY <2>3, <3>3
  <2> QED BY <2>10 DEF NetTotalIsPool, g
<1> QED BY <1>9, <1>10, <1>11, <1>12, <1>13, <1>14, <1>15 DEF IInv

\* Steps that write no budget, lease or reservation row.
LEMMA SameBooksIInv ==
    ASSUME IInv, UNCHANGED <<budget, lease, reservation>>,
           anomalies' \in SUBSET AnomalyRow, reaping' \in SUBSET Leases, now' \in Nat
    PROVE  IInv'
BY DEF IInv, TypeOK, LeaseShape, RowShape, BudgetShape, Exists, PoolInvariant,
   LeasedIsActiveOutstanding, ActiveOutstanding, Outstanding, SettledWithinGrant,
   SettledAgainst, CommittedIsReservations, SettledFrom, AllocatedIsChildren,
   ChildTotals, NetTotalIsPool, NetTotal

-----------------------------------------------------------------------------
(* Every step keeps the inductive invariant *)

\* One case per action of Next.
LEMMA NextIInv == IInv /\ [Next]_vars => IInv'
<1> SUFFICES ASSUME IInv, [Next]_vars PROVE IInv'
  OBVIOUS
<1>1. /\ anomalies \in SUBSET AnomalyRow /\ reaping \in SUBSET Leases /\ now \in Nat
  BY DEF IInv, TypeOK
<1>2. ASSUME NEW parent \in Budgets, NEW a \in Allocations,
             SplitBudget(parent, a), UNCHANGED <<reaping, now>>
      PROVE  IInv'
  BY <1>2, SplitIInv
<1>3. ASSUME NEW b \in Budgets, NEW l \in Leases, NEW q \in Requests,
             NEW t \in PepClocks, Acquire(b, l, q, t), UNCHANGED <<reaping, now>>
      PROVE  IInv'
  <2>1. t \in Nat
    BY LedgerConstants DEF PepClocks, GrantHorizon
  <2> QED BY <1>3, <2>1, AcquireIInv
<1>4. ASSUME NEW l \in Leases, Release(l), UNCHANGED <<reaping, now>>
      PROVE  IInv'
  <2>1. Retire(l, "released")
    BY <1>4 DEF Release
  <2> QED BY <1>1, <1>4, <2>1, RetireIInv
<1>5. ASSUME NEW l \in Leases, NEW items \in Batches, ApplyBatch(l, items),
             UNCHANGED <<reaping, now>>
      PROVE  IInv'
  BY <1>5, ApplyBatchIInv
<1>6. ASSUME NEW l \in Leases, NEW items \in Batches, RejectBatch(l, items),
             UNCHANGED <<reaping, now>>
      PROVE  IInv'
  <2>1. \A i \in DOMAIN items : items[i].id \in Reservations
    BY DEF Batches, Items
  <2>2. anomalies' \in SUBSET AnomalyRow
    BY <1>1, <1>6, <2>1 DEF RejectBatch, AnomalyRow
  <2>3. UNCHANGED <<budget, lease, reservation>>
    BY <1>6 DEF RejectBatch
  <2> QED BY <1>1, <1>6, <2>2, <2>3, SameBooksIInv
<1>7. ASSUME ReapScan, UNCHANGED now
      PROVE  IInv'
  BY <1>1, <1>7, SameBooksIInv DEF ReapScan, ledgerVars
<1>8. ASSUME NEW l \in Leases, ReapRetire(l), UNCHANGED now
      PROVE  IInv'
  <2>1. reaping' \in SUBSET Leases
    BY <1>1, <1>8 DEF ReapRetire
  <2>2. CASE lease[l].state = "active"
    <3>1. Retire(l, "expired")
      BY <1>8, <2>2 DEF ReapRetire
    <3> QED BY <1>8, <2>1, <3>1, RetireIInv
  <2>3. CASE lease[l].state # "active"
    BY <1>1, <1>8, <2>1, <2>3, SameBooksIInv DEF ReapRetire, ledgerVars
  <2> QED BY <2>2, <2>3
<1>9. ASSUME ReapFails, UNCHANGED now
      PROVE  IInv'
  BY <1>1, <1>9, SameBooksIInv DEF ReapFails, ledgerVars
<1>10. CASE Tick
  BY <1>1, <1>10, SameBooksIInv DEF Tick, ledgerVars
<1>11. CASE UNCHANGED vars
  BY <1>1, <1>11, SameBooksIInv DEF vars
<1> QED BY <1>2, <1>3, <1>4, <1>5, <1>6, <1>7, <1>8, <1>9, <1>10, <1>11
        DEF Next, Reap, LedgerCommitBatch

\* The inductive invariant holds in every reachable state of the ledger.
THEOREM LedgerInductive == Spec => []IInv
BY InitIInv, NextIInv, PTL DEF Spec

\* Rows keep their types: in particular no balance of a budget or lease row
\* that db/ledger.py writes ever becomes negative.
THEOREM LedgerTypes == Spec => []TypeOK
<1>1. IInv => TypeOK
  BY DEF IInv
<1> QED BY <1>1, LedgerInductive, PTL

\* committed + leased + allocated <= total on every row, whatever PEPs report
\* (the CHECK constraint ck_budgets_invariant never fires).
THEOREM LedgerPoolInvariant == Spec => []PoolInvariant
<1>1. IInv => PoolInvariant
  BY DEF IInv
<1> QED BY <1>1, LedgerInductive, PTL

\* The three book-keeping identities of the invariant sweep (db/invariants.py)
\* and the lease's own: a row's `leased`, `committed`, `allocated` and
\* `settled` always equal the sums over the rows they summarise.
THEOREM LedgerBooksBalance == Spec => []BooksBalance
<1>1. IInv => BooksBalance
  BY DEF IInv, BooksBalance
<1> QED BY <1>1, LedgerInductive, PTL

LEMMA InvTree == IInv => TreeWithinPool
<1> SUFFICES ASSUME IInv PROVE TreeWithinPool
  OBVIOUS
<1> DEFINE f == [b \in Budgets |-> budget[b].committed + budget[b].leased]
           g == NetTotal
<1>1. \A b \in Budgets : f[b] \in Nat /\ g[b] \in Nat /\ f[b] <= g[b]
  BY DEF IInv, TypeOK, BudgetRow, PoolInvariant, NetTotal
<1>2. SumOver(Budgets, g) = PoolTotal
  BY DEF IInv, NetTotalIsPool
<1> HIDE DEF f, g
<1>3. SumOver(Budgets, f) <= SumOver(Budgets, g)
  BY <1>1, SumMonotone, LedgerConstants
<1> QED BY <1>2, <1>3 DEF TreeWithinPool, f

\* Splits conserve the pool: all rows together never hold more in `committed`
\* and `leased` than the pool's total (split_budget, acquire, ledger_commit_batch).
THEOREM LedgerTreeWithinPool == Spec => []TreeWithinPool
BY InvTree, LedgerInductive, PTL

LEMMA HistoryKept == IInv /\ [Next]_vars => [HistoryStep]_vars
<1> SUFFICES ASSUME IInv, Next PROVE HistoryStep
  BY DEF vars
<1>1. \A l \in Leases : lease[l].settled \in Nat /\ lease[l].settled >= lease[l].settled
  BY DEF IInv, TypeOK, LeaseRow
<1>2. ASSUME UNCHANGED <<lease, reservation>> PROVE HistoryStep
  BY <1>1, <1>2 DEF HistoryStep
<1>3. ASSUME NEW b \in Budgets, NEW l \in Leases, NEW q \in Requests,
             NEW t \in PepClocks, Acquire(b, l, q, t)
      PROVE  HistoryStep
  <2>1. /\ lease[l] = NoLeaseRow /\ lease'[l].settled = 0
        /\ \A m \in Leases \ {l} : lease'[m] = lease[m]
        /\ reservation' = reservation
    BY <1>3 DEF Acquire, IInv, LeaseShape, TypeOK
  <2>2. lease[l].state = "none" /\ lease[l].settled = 0
    BY <2>1 DEF NoLeaseRow
  <2> QED BY <1>1, <2>1, <2>2 DEF HistoryStep
<1>4. ASSUME NEW l \in Leases, NEW s \in {"released", "expired"}, Retire(l, s)
      PROVE  HistoryStep
  <2>1. /\ lease[l].state = "active" /\ lease'[l].settled = lease[l].settled
        /\ \A m \in Leases \ {l} : lease'[m] = lease[m]
        /\ reservation' = reservation
    BY <1>4 DEF Retire, IInv, TypeOK, LeaseRow
  <2> QED BY <1>1, <2>1 DEF HistoryStep
<1>5. ASSUME NEW l \in Leases, NEW items \in Batches, ApplyBatch(l, items)
      PROVE  HistoryStep
  <2> DEFINE after == SettleItems(l, items)[Len(items)]
  <2>1. /\ lease[l].state = "active"
        /\ lease' = [lease EXCEPT ![l].settled = after.settled]
        /\ reservation' = after.rows
    BY <1>5 DEF ApplyBatch
  <2>2. after \in LoopStates(l)
    BY <1>5, <2>1, SettleItemsGood
  <2> HIDE DEF after
  <2>3. /\ lease'[l].settled = after.settled
        /\ \A m \in Leases \ {l} : lease'[m] = lease[m]
    BY <2>1 DEF IInv, TypeOK, LeaseRow
  <2>4. after.settled \in Nat /\ lease[l].settled <= after.settled
    BY <2>2 DEF LoopStates
  <2>5. \A r \in Reservations :
           reservation[r].amount > 0 => after.rows[r] = reservation[r]
    BY <2>2 DEF LoopStates, NoReservationRow
  <2> QED BY <1>1, <2>1, <2>3, <2>4, <2>5 DEF HistoryStep
<1> QED BY <1>2, <1>3, <1>4, <1>5 DEF Next, Reap, Tick, SplitBudget, Release,
           LedgerCommitBatch, RejectBatch, ReapScan, ReapRetire, ReapFails, ledgerVars

\* Reservation rows are written once, and a lease that was released or reaped
\* never changes again, whatever is replayed or reported late.
THEOREM LedgerHistoryIsFinal == Spec => HistoryIsFinal
BY HistoryKept, LedgerInductive, PTL DEF Spec, HistoryIsFinal

-----------------------------------------------------------------------------
(* The protocol *)

Settlement == [lease : Leases, id : Reservations, amount : Reports]

\* What the ledger relies on about the PEP: it names leases it was granted,
\* reservations it made and amounts it may report, and a batch is a part of
\* the queue.
HeldKnown == held = P!NoHeld \/ held.lease \in Leases
TopupKnown == topup.pc \in {"drain", "release"} => topup.old \in Leases
InflightKnown == \A res \in inflight : res.amount \in Reports /\ held.lease \in Leases
PendingKnown == pending \in Seq(Settlement)
SendingKnown == sending \in 0 .. Len(pending) /\ sending <= BatchMax

PoolKnown == P!PoolTypeOK /\ HeldKnown /\ TopupKnown /\ InflightKnown
QueueKnown == PendingKnown /\ SendingKnown
PepInv == PoolKnown /\ QueueKnown

\* A batch is a part of the queue and no larger than BatchMax.
LEMMA BatchLenBound ==
    ASSUME NEW queue \in Seq(Settlement)
    PROVE  Q!BatchLen(queue) \in 0 .. Len(queue) /\ Q!BatchLen(queue) <= BatchMax
<1> DEFINE S == {n \in 1 .. Len(queue) :
                    /\ n <= BatchMax
                    /\ \A i \in 1 .. n : queue[i].lease = queue[1].lease}
<1>1. Len(queue) \in Nat /\ BatchMax \in Nat
  BY LedgerConstants
<1>2. S \subseteq 1 .. Len(queue) /\ S \subseteq 1 .. BatchMax
  BY <1>1
<1>3. \A n \in Nat : IsFiniteSet(1 .. n) /\ Cardinality(1 .. n) = n
  <2> TAKE n \in Nat
  <2> QED BY FS_Interval
<1>4. /\ Cardinality(S) \in Nat
      /\ Cardinality(S) <= Len(queue) /\ Cardinality(S) <= BatchMax
  <2> HIDE DEF S
  <2>1. IsFiniteSet(S) /\ Cardinality(S) <= Cardinality(1 .. Len(queue))
    BY <1>1, <1>2, <1>3, FS_Subset
  <2>2. Cardinality(S) <= Cardinality(1 .. BatchMax)
    BY <1>1, <1>2, <1>3, FS_Subset
  <2>3. Cardinality(S) \in Nat
    BY <2>1, FS_CardinalityType
  <2> QED BY <1>1, <1>3, <2>1, <2>2, <2>3
<1>5. Q!BatchLen(queue) = Cardinality(S)
  BY Zenon DEF Q!BatchLen, Q!Cardinality, Cardinality
<1> HIDE DEF S
<1> QED BY <1>1, <1>4, <1>5

-----------------------------------------------------------------------------
(* Every step is a step of the ledger *)

\* What the sink sends is a batch of the ledger's.
LEMMA SinkCommitIsBatch ==
    ASSUME PepInv, sending > 0, SinkCommit
    PROVE  \E l \in Leases, items \in Batches : LedgerCommitBatch(l, items)
<1> DEFINE items == [i \in 1 .. sending |-> [id     |-> pending[i].id,
                                             amount |-> pending[i].amount]]
<1>1. /\ sending \in 1 .. BatchMax /\ sending <= Len(pending)
      /\ pending \in Seq(Settlement) /\ Len(pending) \in Nat
  BY LedgerConstants DEF PepInv, QueueKnown, PendingKnown, SendingKnown
<1>2. \A i \in 1 .. sending : pending[i] \in Settlement
  BY <1>1
<1>3. pending[1].lease \in Leases
  BY <1>1, <1>2 DEF Settlement
<1>4. items \in [1 .. sending -> Items]
  BY <1>2 DEF Settlement, Items
<1>5. items \in Batches
  <2> HIDE DEF items
  <2> QED BY <1>1, <1>4 DEF Batches
<1>6. LedgerCommitBatch(pending[1].lease, items)
  BY DEF SinkCommit
<1> HIDE DEF items
<1> QED BY <1>3, <1>5, <1>6

\* One case per action: each is an operation of the ledger or leaves it alone.
LEMMA StepImplements == PepInv /\ [ProtocolNext]_protocolVars => [Next]_vars
<1> SUFFICES ASSUME PepInv, [ProtocolNext]_protocolVars PROVE [Next]_vars
  OBVIOUS
<1> USE DEF Quiet, Local, ledgerVars
<1>1. Pool \in Budgets /\ LeaseSize \in Requests
  BY LedgerConstants, ProtocolConstants
<1>2. ASSUME NEW l \in Leases, AcquireAnswered(l) \/ AcquireLost(l)
      PROVE  Next
  <2>1. /\ clock - topup.age \in PepClocks
        /\ Acquire(Pool, l, LeaseSize, clock - topup.age)
        /\ UNCHANGED <<reaping, now>>
    BY <1>2 DEF AcquireAnswered, AcquireLost, Readable, AcquireOwn
  <2> QED BY <1>1, <2>1 DEF Next
<1>3. CASE AcquireRefused \/ ReleaseCalled
  BY <1>3 DEF AcquireRefused, ReleaseCalled, vars
<1>4. CASE ReleaseReturns
  <2>1. topup.old \in Leases
    BY <1>4 DEF ReleaseReturns, P!ReleaseEnds, PepInv, PoolKnown, TopupKnown
  <2>2. UNCHANGED <<reaping, now>> /\ (Release(topup.old) \/ UNCHANGED ledgerVars)
    BY <1>4 DEF ReleaseReturns
  <2>3. CASE Release(topup.old)
    BY <2>1, <2>2, <2>3 DEF Next
  <2>4. CASE UNCHANGED ledgerVars
    BY <2>2, <2>4 DEF vars
  <2> QED BY <2>2, <2>3, <2>4
<1>5. ASSUME sending > 0, SinkCommit \/ UNCHANGED ledgerVars, UNCHANGED <<reaping, now>>
      PROVE  [Next]_vars
  <2>1. CASE SinkCommit
    BY <1>5, <2>1, SinkCommitIsBatch DEF Next
  <2>2. CASE UNCHANGED ledgerVars
    BY <1>5, <2>2 DEF vars
  <2> QED BY <1>5, <2>1, <2>2
<1>6. CASE SinkAnswers \/ SinkFails
  BY <1>5, <1>6 DEF SinkAnswers, SinkFails, Q!Answered, Q!Unanswered
<1>7. CASE QueueCloses
  <2>1. CASE Q!RunnerSends /\ SinkCommit
    BY <1>5, <1>7, <2>1 DEF QueueCloses, Q!RunnerSends
  <2>2. CASE UNCHANGED ledgerVars
    BY <1>7, <2>2 DEF QueueCloses, vars
  <2> QED BY <1>7, <2>1, <2>2 DEF QueueCloses
<1>8. ASSUME Local PROVE [Next]_vars
  BY <1>8 DEF vars
<1>9. CASE OtherPep
  <2>1. PICK l \in Leases :
           \/ \E t \in PepClocks : Acquire(Pool, l, LeaseSize, t)
           \/ Release(l)
    BY <1>9 DEF OtherPep
  <2>2. UNCHANGED <<reaping, now>>
    BY <1>9 DEF OtherPep
  <2> QED BY <1>1, <2>1, <2>2 DEF Next
<1>10. CASE Reaper
  BY <1>10 DEF Reaper, Next
<1>11. CASE TimePasses
  <2>1. CASE now' = now
    BY <1>11, <2>1 DEF TimePasses, vars
  <2>2. CASE now' = now + 1
    <3>1. Tick \/ UNCHANGED vars
      BY <1>11, <2>2, LedgerConstants DEF TimePasses, Tick, vars
    <3> QED BY <3>1 DEF Next
  <2> QED BY <1>11, <2>1, <2>2 DEF TimePasses
<1>12. CASE UNCHANGED protocolVars
  BY <1>12 DEF protocolVars, vars
<1>13. CASE \/ \E r \in Reservations, a \in Amounts : Request(r, a)
            \/ \E a \in Amounts : RequestRefused(a)
            \/ \E res \in inflight : \E actual \in {res.amount} \cup Actuals :
                  RequestSettled(res, actual)
            \/ \E res \in inflight : RequestFailed(res)
            \/ Renew \/ QueueTurns \/ ShutdownBegins \/ PoolStops \/ PoolCloses
            \/ PepRestarts
  BY <1>8, <1>13 DEF Request, RequestRefused, RequestSettled, RequestFailed, Renew,
     QueueTurns, ShutdownBegins, PoolStops, PoolCloses, PepRestarts
<1> QED BY <1>2, <1>3, <1>4, <1>6, <1>7, <1>9, <1>10, <1>11, <1>12, <1>13
        DEF ProtocolNext

-----------------------------------------------------------------------------
(* The PEP's part of the invariant is inductive *)

LEMMA AmountsAreReports ==
    /\ Amounts \subseteq Reports /\ Actuals \subseteq Reports
    /\ Reports \subseteq Nat /\ TTL \in Nat /\ NoLease \notin Leases
BY LedgerConstants, ProtocolConstants

\* A grant is installed; what it replaces goes through _release.
LEMMA GrantedKnown ==
    ASSUME PoolKnown, NEW l \in Leases, NEW g \in Nat, P!AcquireGranted(l, g)
    PROVE  PoolKnown'
<1> USE AmountsAreReports DEF P!AcquireGranted, PoolKnown
<1>1. held' \in P!LocalLease /\ held'.lease \in Leases
  BY DEF P!PoolTypeOK, P!LocalLease, P!Task
<1>2. /\ topup' \in P!Task
      /\ topup'.pc \in {"drain", "release"} => topup'.old \in Leases
  <2>1. CASE held = P!NoHeld
    BY <2>1 DEF P!Task, P!Idle
  <2>2. CASE held # P!NoHeld
    BY <2>2 DEF P!Task, P!Retiring, HeldKnown
  <2> QED BY <2>1, <2>2
<1>3. phase' \in P!Phases
  BY DEF P!PoolTypeOK, P!Phases, P!Served
<1>4. UNCHANGED inflight
  OBVIOUS
<1> QED BY <1>1, <1>2, <1>3, <1>4
        DEF P!PoolTypeOK, HeldKnown, TopupKnown, InflightKnown

\* The lease that is held changes in what remains, in the time it has left or
\* in its state, and is there if it was.
LEMMA SameLeaseKnown ==
    ASSUME PoolKnown, held' \in P!LocalLease, held'.lease = held.lease,
           held = P!NoHeld => held' = P!NoHeld \/ inflight # {},
           topup' \in P!Task, topup'.pc \in {"drain", "release"} => topup'.old \in Leases,
           phase' \in P!Phases, inflight' \subseteq inflight
    PROVE  PoolKnown'
<1>1. HeldKnown'
  BY DEF PoolKnown, HeldKnown, InflightKnown
<1>2. InflightKnown'
  BY DEF PoolKnown, InflightKnown
<1>3. P!PoolTypeOK' /\ TopupKnown'
  BY DEF PoolKnown, P!PoolTypeOK, TopupKnown
<1> QED BY <1>1, <1>2, <1>3 DEF PoolKnown

LEMMA AuthorizeKnown ==
    ASSUME PoolKnown, NEW r \in Reservations, NEW a \in Amounts, P!Authorize(r, a)
    PROVE  PoolKnown'
<1> DEFINE res == [id |-> r, lease |-> held.lease, amount |-> a]
<1>1. held.lease \in Leases
  BY DEF P!Authorize, P!Covers, P!NoHeld, PoolKnown, HeldKnown
<1>2. res \in P!Reservation /\ res.amount \in Reports
  BY <1>1, AmountsAreReports DEF P!Reservation
<1>3. held' \in P!LocalLease /\ held'.lease = held.lease
  BY AmountsAreReports
     DEF P!Authorize, P!Covers, PoolKnown, P!PoolTypeOK, P!LocalLease
<1>4. topup' \in P!Task /\ TopupKnown'
  BY AmountsAreReports DEF P!Authorize, P!Schedule, P!Acquiring, PoolKnown,
     P!PoolTypeOK, P!Task, TopupKnown
<1>5. inflight' = inflight \cup {res} /\ UNCHANGED phase
  BY DEF P!Authorize
<1> HIDE DEF res
<1>6. P!PoolTypeOK'
  BY <1>2, <1>3, <1>4, <1>5 DEF PoolKnown, P!PoolTypeOK
<1>7. InflightKnown' /\ HeldKnown'
  BY <1>1, <1>2, <1>3, <1>5 DEF PoolKnown, InflightKnown, HeldKnown
<1> QED BY <1>4, <1>6, <1>7 DEF PoolKnown

LEMMA SettleKnown ==
    ASSUME PoolKnown, NEW res \in inflight,
           NEW actual \in {res.amount} \cup Actuals, P!Settle(res, actual)
    PROVE  PoolKnown'
<1>1. res.amount \in Nat /\ actual \in Nat
  BY AmountsAreReports DEF PoolKnown, InflightKnown
<1>2. held \in P!LocalLease
  BY DEF PoolKnown, P!PoolTypeOK
<1>3. held' \in P!LocalLease /\ held'.lease = held.lease
  <2>1. CASE actual > res.amount
    BY <1>1, <1>2, <2>1 DEF P!Settle, P!Covers, P!LocalLease
  <2>2. CASE ~ (actual > res.amount)
    <3>1. /\ held' = [held EXCEPT !.remaining = @ + (res.amount - actual)]
          /\ res.amount - actual \in Nat
      BY <1>1, <2>2 DEF P!Settle
    <3> QED BY <1>2, <3>1 DEF P!LocalLease
  <2> QED BY <2>1, <2>2
<1>4. UNCHANGED <<phase, topup>> /\ inflight' \subseteq inflight /\ inflight # {}
  BY DEF P!Settle
<1>5. /\ topup' \in P!Task /\ phase' \in P!Phases
      /\ topup'.pc \in {"drain", "release"} => topup'.old \in Leases
  BY <1>4 DEF PoolKnown, P!PoolTypeOK, TopupKnown
<1> QED BY <1>3, <1>4, <1>5, SameLeaseKnown

\* The steps that leave the lease and the requests alone.
LEMMA TaskStepKnown ==
    ASSUME PoolKnown, UNCHANGED held, inflight' \subseteq inflight,
           phase' \in P!Phases,
           \/ topup' = topup
           \/ topup' = P!Acquiring
           \/ topup' = P!Idle
           \/ topup.pc = "drain" /\ topup' = [topup EXCEPT !.pc = "release"]
    PROVE  PoolKnown'
<1>1. /\ topup' \in P!Task
      /\ topup'.pc \in {"drain", "release"} => topup'.old \in Leases
  BY AmountsAreReports
     DEF P!Task, P!Acquiring, P!Idle, PoolKnown, P!PoolTypeOK, TopupKnown
<1>2. held' \in P!LocalLease
  BY DEF PoolKnown, P!PoolTypeOK
<1> QED BY <1>1, <1>2, SameLeaseKnown

LEMMA PepTickKnown == ASSUME PoolKnown, P!PepTick PROVE PoolKnown'
<1>1. held \in P!LocalLease /\ topup \in P!Task /\ phase \in P!Phases
  BY DEF PoolKnown, P!PoolTypeOK
<1>2. /\ held' \in P!LocalLease /\ held'.lease = held.lease
      /\ held = P!NoHeld => held' = P!NoHeld
  BY <1>1, AmountsAreReports DEF P!PepTick, P!LocalLease, P!NoHeld
<1>3. topup' \in P!Task /\ topup'.pc = topup.pc /\ topup'.old = topup.old
  BY <1>1, AmountsAreReports DEF P!PepTick, P!Task
<1>4. UNCHANGED <<phase, inflight>>
  BY DEF P!PepTick
<1>5. topup'.pc \in {"drain", "release"} => topup'.old \in Leases
  BY <1>3 DEF PoolKnown, TopupKnown
<1> QED BY <1>1, <1>2, <1>3, <1>4, <1>5, SameLeaseKnown

LEMMA CloseHeldKnown == ASSUME PoolKnown, P!CloseHeld PROVE PoolKnown'
<1>1. held \in P!LocalLease /\ topup \in P!Task
  BY DEF PoolKnown, P!PoolTypeOK
<1>2. held.state = "active" => held.lease \in Leases
  BY DEF PoolKnown, HeldKnown, P!NoHeld
<1>3. /\ held' \in P!LocalLease /\ held'.lease = held.lease
      /\ held = P!NoHeld => held' = P!NoHeld
  BY <1>1 DEF P!CloseHeld, P!LocalLease, P!NoHeld
<1>4. /\ topup' \in P!Task
      /\ topup'.pc \in {"drain", "release"} => topup'.old \in Leases
  BY <1>1, <1>2, AmountsAreReports
     DEF P!CloseHeld, P!Retiring, P!Task, PoolKnown, TopupKnown
<1>5. phase' \in P!Phases /\ UNCHANGED inflight
  BY DEF P!CloseHeld, P!Phases
<1> QED BY <1>3, <1>4, <1>5, SameLeaseKnown

LEMMA PoolStep ==
    ASSUME PepInv, IInv', [ProtocolNext]_protocolVars
    PROVE  PoolKnown'
<1>1. PoolKnown /\ phase \in P!Phases
  BY DEF PepInv, PoolKnown, P!PoolTypeOK
<1>2. ASSUME UNCHANGED poolVars PROVE PoolKnown'
  BY <1>1, <1>2 DEF poolVars, PoolKnown, P!PoolTypeOK, HeldKnown, TopupKnown,
     InflightKnown
<1>3. ASSUME NEW l \in Leases, AcquireAnswered(l) PROVE PoolKnown'
  <2>1. l \in Leases /\ lease'[l].granted \in Nat
    BY DEF IInv, TypeOK, LeaseRow
  <2>2. P!AcquireGranted(l, lease'[l].granted)
    BY <1>3 DEF AcquireAnswered
  <2> QED BY <1>1, <2>1, <2>2, GrantedKnown
<1>4. CASE (\E l \in Leases : AcquireLost(l)) \/ AcquireRefused
  <2>1. P!AcquireFailed
    BY <1>4 DEF AcquireLost, AcquireRefused
  <2> QED BY <1>1, <2>1, TaskStepKnown DEF P!AcquireFailed, P!Served, P!Phases
<1>5. CASE ReleaseCalled
  BY <1>1, <1>5, TaskStepKnown DEF ReleaseCalled, P!ReleaseCall
<1>6. CASE ReleaseReturns
  BY <1>1, <1>6, TaskStepKnown DEF ReleaseReturns, P!ReleaseEnds, P!Phases
<1>7. ASSUME NEW r \in Reservations, NEW a \in Amounts, Request(r, a) PROVE PoolKnown'
  BY <1>1, <1>7, AuthorizeKnown DEF Request
<1>8. ASSUME NEW a \in Amounts, RequestRefused(a) PROVE PoolKnown'
  BY <1>1, <1>8, TaskStepKnown
     DEF RequestRefused, P!Refuse, P!AuthorizeUnrecorded, P!Schedule
<1>9. ASSUME NEW res \in inflight, NEW actual \in {res.amount} \cup Actuals,
             RequestSettled(res, actual)
      PROVE  PoolKnown'
  BY <1>1, <1>9, SettleKnown DEF RequestSettled
<1>10. ASSUME NEW res \in inflight, RequestFailed(res) PROVE PoolKnown'
  BY <1>1, <1>10, TaskStepKnown DEF RequestFailed, P!UpstreamFails
<1>11. CASE Renew
  BY <1>1, <1>11, TaskStepKnown DEF Renew, P!RenewSweep, P!Schedule
<1>12. CASE ShutdownBegins
  BY <1>1, <1>12, TaskStepKnown DEF ShutdownBegins, P!Shutdown, P!Phases
<1>13. CASE PoolStops
  BY <1>1, <1>13, TaskStepKnown DEF PoolStops, P!StopRenewer, P!Phases
<1>14. CASE PoolCloses
  BY <1>1, <1>14, CloseHeldKnown DEF PoolCloses
<1>15. CASE PepRestarts
  <2>1. P!PoolInit'
    BY <1>15 DEF PepRestarts, P!Restart, P!PoolInit
  <2> QED BY <2>1, AmountsAreReports DEF P!PoolInit, PoolKnown, P!PoolTypeOK,
          P!LocalLease, P!Task, P!NoHeld, P!Acquiring, P!Phases, HeldKnown,
          TopupKnown, InflightKnown
<1>16. CASE TimePasses
  BY <1>1, <1>2, <1>16, PepTickKnown DEF TimePasses
<1>17. CASE \/ SinkAnswers \/ SinkFails \/ QueueTurns \/ QueueCloses \/ OtherPep
            \/ Reaper \/ UNCHANGED protocolVars
  BY <1>2, <1>17 DEF SinkAnswers, SinkFails, QueueTurns, QueueCloses, OtherPep,
     Reaper, protocolVars
<1> QED BY <1>3, <1>4, <1>5, <1>6, <1>7, <1>8, <1>9, <1>10, <1>11, <1>12, <1>13,
        <1>14, <1>15, <1>16, <1>17 DEF ProtocolNext

-----------------------------------------------------------------------------

\* Whatever is sent next is a batch at the head of the queue.
LEMMA NextBatchKnown ==
    ASSUME pending' \in Seq(Settlement),
           sending' \in {0, Q!BatchLen(pending')}
    PROVE  QueueKnown'
<1>1. /\ Q!BatchLen(pending') \in 0 .. Len(pending')
      /\ Q!BatchLen(pending') <= BatchMax
  BY BatchLenBound
<1>2. BatchMax \in Nat /\ Len(pending') \in Nat
  BY LedgerConstants
<1> HIDE DEF Q!BatchLen
<1> QED BY <1>1, <1>2 DEF QueueKnown, PendingKnown, SendingKnown

LEMMA EndFlushKnown ==
    ASSUME NEW rest \in Seq(Settlement), Q!EndFlush(rest) PROVE QueueKnown'
<1>1. pending' = rest /\ sending' \in {0, Q!BatchLen(rest)}
  BY Zenon DEF Q!EndFlush
<1> HIDE DEF Q!BatchLen
<1> QED BY <1>1, NextBatchKnown

LEMMA FlushCallKnown ==
    ASSUME QueueKnown, NEW w, Q!FlushCall(w), UNCHANGED pending PROVE QueueKnown'
<1>1. sending' \in {sending, Q!BatchLen(pending)}
  BY Zenon DEF Q!FlushCall
<1>2. CASE sending' = sending
  BY <1>2 DEF QueueKnown, PendingKnown, SendingKnown
<1>3. CASE sending' = Q!BatchLen(pending)
  BY <1>3, NextBatchKnown DEF QueueKnown, PendingKnown
<1> QED BY <1>1, <1>2, <1>3

LEMMA EnqueueKnown ==
    ASSUME QueueKnown, NEW s \in Settlement, Q!Enqueue(s) PROVE QueueKnown'
<1>1. pending \in Seq(Settlement) /\ UNCHANGED sending
  BY DEF QueueKnown, PendingKnown, Q!Enqueue
<1>2. pending' = pending \/ pending' = Append(pending, s)
  BY DEF Q!Enqueue
<1>3. pending' \in Seq(Settlement) /\ Len(pending') >= Len(pending)
  BY <1>1, <1>2
<1>4. Len(pending) \in Nat /\ Len(pending') \in Nat
  BY <1>1, <1>3
<1> QED BY <1>1, <1>3, <1>4 DEF QueueKnown, PendingKnown, SendingKnown

LEMMA QueueStep ==
    ASSUME PepInv, IInv', [ProtocolNext]_protocolVars
    PROVE  QueueKnown'
<1>1. QueueKnown /\ pending \in Seq(Settlement)
  BY DEF PepInv, QueueKnown, PendingKnown
<1>2. ASSUME UNCHANGED queueVars PROVE QueueKnown'
  BY <1>1, <1>2 DEF queueVars, QueueKnown, PendingKnown, SendingKnown
<1>3. ASSUME Q!DrainCall(Topup) PROVE QueueKnown'
  BY <1>1, <1>3, FlushCallKnown DEF Q!DrainCall, Q!Drain
<1>4. ASSUME NEW l \in Leases, AcquireAnswered(l) PROVE QueueKnown'
  BY <1>2, <1>3, <1>4 DEF AcquireAnswered
<1>5. CASE PoolCloses
  BY <1>2, <1>3, <1>5 DEF PoolCloses
<1>6. CASE SinkAnswers
  <2>1. Q!EndFlush(SubSeq(pending, sending + 1, Len(pending)))
    BY <1>6 DEF SinkAnswers, Q!Answered
  <2>2. sending \in Nat
    BY <1>1 DEF QueueKnown, SendingKnown
  <2>3. SubSeq(pending, sending + 1, Len(pending)) \in Seq(Settlement)
    BY <1>1, <2>2
  <2> QED BY <2>1, <2>3, EndFlushKnown
<1>7. CASE SinkFails
  BY <1>1, <1>7, EndFlushKnown DEF SinkFails, Q!Unanswered
<1>8. ASSUME NEW res \in inflight, NEW actual \in {res.amount} \cup Actuals,
             RequestSettled(res, actual)
      PROVE  QueueKnown'
  <2>1. P!Outcome(res, actual) \in Settlement
    BY AmountsAreReports DEF P!Outcome, Settlement, PepInv, PoolKnown,
       InflightKnown, P!PoolTypeOK, P!Reservation
  <2> QED BY <1>1, <1>8, <2>1, EnqueueKnown DEF RequestSettled
<1>9. CASE QueueTurns
  <2>1. CASE Q!RunTick
    BY <1>1, <2>1, FlushCallKnown DEF Q!RunTick
  <2>2. CASE Q!Wake
    <3>1. pending' = pending /\ sending' = Q!BatchLen(pending)
      BY <2>2, Zenon DEF Q!Wake
    <3> HIDE DEF Q!BatchLen
    <3> QED BY <1>1, <3>1, NextBatchKnown
  <2>3. CASE Q!EmptyFlush
    <3>1. Q!EndFlush(<<>>) /\ <<>> \in Seq(Settlement)
      BY <2>3 DEF Q!EmptyFlush
    <3> QED BY <3>1, EndFlushKnown
  <2> QED BY <1>9, <2>1, <2>2, <2>3 DEF QueueTurns
<1>10. CASE ShutdownBegins
  <2>1. Q!Close
    BY <1>10 DEF ShutdownBegins
  <2>2. CASE pending = <<>>
    BY <1>1, <2>1, <2>2 DEF Q!Close, QueueKnown, PendingKnown, SendingKnown
  <2>3. CASE pending # <<>>
    <3>1. Q!FlushCall(Aclose) /\ UNCHANGED pending
      BY <2>1, <2>3, Zenon DEF Q!Close, Q!Drain
    <3> QED BY <1>1, <3>1, FlushCallKnown
  <2> QED BY <2>2, <2>3
<1>11. CASE QueueCloses
  <2>1. UNCHANGED pending /\ sending' \in {0, sending}
    BY <1>11, Zenon DEF QueueCloses, Q!CancelRunner
  <2>2. CASE sending' = 0
    BY <1>1, <2>1, <2>2, NextBatchKnown
  <2>3. CASE sending' = sending
    BY <1>1, <2>1, <2>3 DEF QueueKnown, PendingKnown, SendingKnown
  <2> QED BY <2>1, <2>2, <2>3
<1>12. CASE PepRestarts
  <2>1. pending' = <<>> /\ sending' = 0
    BY <1>12 DEF PepRestarts, Q!Rebuild
  <2> QED BY <2>1, NextBatchKnown
<1>13. CASE \/ \E l \in Leases : AcquireLost(l)
            \/ AcquireRefused \/ ReleaseCalled \/ ReleaseReturns
            \/ \E r \in Reservations, a \in Amounts : Request(r, a)
            \/ \E a \in Amounts : RequestRefused(a)
            \/ \E res \in inflight : RequestFailed(res)
            \/ Renew \/ PoolStops \/ OtherPep \/ Reaper \/ TimePasses
            \/ UNCHANGED protocolVars
  BY <1>2, <1>13 DEF AcquireLost, AcquireRefused, ReleaseCalled, ReleaseReturns,
     Request, RequestRefused, RequestFailed, Renew, PoolStops, OtherPep, Reaper,
     TimePasses, protocolVars
<1> QED BY <1>4, <1>5, <1>6, <1>7, <1>8, <1>9, <1>10, <1>11, <1>12, <1>13
        DEF ProtocolNext

-----------------------------------------------------------------------------
(* The theorems *)

LEMMA ProtocolInitInv == ProtocolInit => IInv /\ PepInv
<1> SUFFICES ASSUME ProtocolInit PROVE IInv /\ PepInv
  OBVIOUS
<1>1. IInv
  BY InitIInv DEF ProtocolInit
<1>2. PoolKnown
  BY AmountsAreReports DEF ProtocolInit, P!PoolInit, PoolKnown, P!PoolTypeOK,
     P!LocalLease, P!Task, P!NoHeld, P!Acquiring, P!Phases, HeldKnown, TopupKnown,
     InflightKnown
<1>3. pending = <<>> /\ sending = 0
  BY DEF ProtocolInit, Q!QueueInit
<1>4. QueueKnown
  BY <1>3, LedgerConstants DEF QueueKnown, PendingKnown, SendingKnown
<1> QED BY <1>1, <1>2, <1>4 DEF PepInv

\* The PEP's knowledge and the ledger's books are invariant together.
LEMMA ProtocolInductive == ProtocolSpec => [](IInv /\ PepInv)
<1>1. IInv /\ PepInv /\ [ProtocolNext]_protocolVars => (IInv /\ PepInv)'
  <2> SUFFICES ASSUME IInv, PepInv, [ProtocolNext]_protocolVars PROVE (IInv /\ PepInv)'
    OBVIOUS
  <2>1. IInv'
    BY StepImplements, NextIInv
  <2> QED BY <2>1, PoolStep, QueueStep DEF PepInv
<1> QED BY <1>1, ProtocolInitInv, PTL DEF ProtocolSpec

\* The protocol implements the ledger: every call of the PEP, lost, late,
\* repeated or cut off by a restart, and whatever amount a tool charges, is an
\* operation of db/ledger.py on its tables or leaves them alone.
THEOREM ProtocolImplementsLedger == ProtocolSpec => ImplementsLedger
<1>1. ProtocolInit => Init
  BY DEF ProtocolInit
<1> QED BY <1>1, ProtocolInductive, StepImplements, PTL
        DEF ProtocolSpec, ImplementsLedger, Spec

\* So the pool is never overdrawn by what PEPs are granted and report: in every
\* row committed + leased + allocated <= total (spec 04 section 6).
THEOREM ProtocolPoolInvariant == ProtocolSpec => [](PoolInvariant /\ TreeWithinPool)
BY ProtocolImplementsLedger, LedgerPoolInvariant, LedgerTreeWithinPool, PTL
   DEF ImplementsLedger

-----------------------------------------------------------------------------
(* Spendable leases are active *)

\* The reaper's candidates are rows past the cutoff, and stay so while it works
\* through them.
ReapingDue ==
    \A l \in reaping :
        lease[l].state # "none" /\ lease[l].expires_at < now - SKEW_ALLOWANCE

ClocksClose == clock \in Nat /\ now <= clock + 2 * SKEW_ALLOWANCE

\* The lease in hand has a row, is not the one being given back, and expires
\* there when the PEP believes it does.
HeldHasRow == held.lease \in Leases => lease[held.lease].state # "none"
OldIsNotHeld ==
    topup.pc \in {"drain", "release"} /\ held.state = "active" =>
        topup.old # held.lease
LifeAgrees ==
    held.state = "active" /\ held.left > 0 =>
        lease[held.lease].expires_at = clock + held.left

SpendInv ==
    /\ ReapingDue /\ ClocksClose
    /\ HeldHasRow /\ OldIsNotHeld /\ LifeAgrees
    /\ SpendableIsActive

\* A row that was inserted stays, with the expiry it was given.
LEMMA RowsKept ==
    ASSUME IInv, [Next]_vars
    PROVE  \A l \in Leases : lease[l].state # "none" =>
              lease'[l].state # "none" /\ lease'[l].expires_at = lease[l].expires_at
<1> DEFINE Kept == \A l \in Leases : lease[l].state # "none" =>
              lease'[l].state # "none" /\ lease'[l].expires_at = lease[l].expires_at
<1>1. lease \in [Leases -> LeaseRow]
  BY DEF IInv, TypeOK
<1>2. ASSUME UNCHANGED lease PROVE Kept
  BY <1>2
<1>3. ASSUME NEW b, NEW l \in Leases, NEW q, NEW t, Acquire(b, l, q, t) PROVE Kept
  BY <1>1, <1>3 DEF Acquire
<1>4. ASSUME NEW l \in Leases, NEW s \in {"released", "expired"}, Retire(l, s)
      PROVE  Kept
  BY <1>1, <1>4 DEF Retire, LeaseRow
<1>5. ASSUME NEW l \in Leases, NEW items, ApplyBatch(l, items) PROVE Kept
  <2>1. PICK x : lease' = [lease EXCEPT ![l].settled = x]
    BY <1>5, Zenon DEF ApplyBatch
  <2> QED BY <1>1, <2>1 DEF LeaseRow
<1> HIDE DEF Kept
<1>6. Kept
  BY <1>2, <1>3, <1>4, <1>5 DEF Next, vars, Reap, Tick, SplitBudget, Release,
     LedgerCommitBatch, RejectBatch, ReapScan, ReapRetire, ReapFails, ledgerVars
<1> QED BY <1>6 DEF Kept

LEMMA ReapingDueStep ==
    ASSUME IInv, ReapingDue, [Next]_vars PROVE ReapingDue'
<1>1. /\ now \in Nat /\ SKEW_ALLOWANCE \in Nat /\ reaping \subseteq Leases
      /\ \A l \in Leases : lease[l].expires_at \in Nat
  BY LedgerConstants DEF IInv, TypeOK, LeaseRow
<1>2. now' = now \/ now' = now + 1
  BY DEF Next, vars, Tick
<1>3. CASE reaping' \subseteq reaping
  <2> SUFFICES ASSUME NEW l \in reaping'
               PROVE  lease'[l].state # "none" /\ lease'[l].expires_at < now' - SKEW_ALLOWANCE
    BY DEF ReapingDue
  <2>1. /\ l \in Leases /\ lease[l].state # "none"
        /\ lease[l].expires_at < now - SKEW_ALLOWANCE
    BY <1>1, <1>3 DEF ReapingDue
  <2>2. lease'[l].state # "none" /\ lease'[l].expires_at = lease[l].expires_at
    BY <2>1, RowsKept
  <2> QED BY <1>1, <1>2, <2>1, <2>2
<1>4. CASE ReapScan /\ UNCHANGED now
  BY <1>4 DEF ReapScan, ledgerVars, ReapingDue
<1> QED BY <1>3, <1>4
        DEF Next, vars, Reap, Tick, ReapRetire, ReapFails

\* The steps that leave the lease in hand and the clocks as they are: it can
\* only be given up, and while it can be spent nobody retires its row.
LEMMA SameHeldSpend ==
    ASSUME IInv, PoolKnown, SpendInv, [Next]_vars, UNCHANGED <<now, clock>>,
           held'.lease = held.lease, held'.left = held.left,
           held'.state = "active" => held.state = "active",
           topup'.pc \in {"drain", "release"} /\ held'.state = "active" =>
               topup'.old # held'.lease,
           held.state = "active" /\ held.left > SKEW =>
               lease'[held.lease].state = "active"
    PROVE  SpendInv'
<1>1. ReapingDue'
  BY ReapingDueStep DEF SpendInv
<1>2. HeldHasRow'
  BY RowsKept DEF SpendInv, HeldHasRow
<1>3. held.state = "active" => held.lease \in Leases
  BY DEF PoolKnown, HeldKnown, P!NoHeld
<1>4. LifeAgrees'
  BY <1>3, RowsKept DEF SpendInv, HeldHasRow, LifeAgrees
<1> QED BY <1>1, <1>2, <1>4
        DEF SpendInv, ClocksClose, OldIsNotHeld, SpendableIsActive

\* Settling a batch leaves the states of all leases alone.
LEMMA BatchKeepsStates ==
    ASSUME IInv, NEW l \in Leases, NEW items, LedgerCommitBatch(l, items)
    PROVE  \A m \in Leases : lease'[m].state = lease[m].state
<1>1. lease \in [Leases -> LeaseRow]
  BY DEF IInv, TypeOK
<1>2. CASE ApplyBatch(l, items)
  <2>1. PICK x : lease' = [lease EXCEPT ![l].settled = x]
    BY <1>2, Zenon DEF ApplyBatch
  <2> QED BY <1>1, <2>1 DEF LeaseRow
<1>3. CASE RejectBatch(l, items)
  BY <1>3 DEF RejectBatch
<1> QED BY <1>2, <1>3 DEF LedgerCommitBatch

\* The reaper does not touch a lease that the PEP may spend from: the row of a
\* candidate expired more than S ago by the control plane's clock, which is at most
\* 2S ahead of the PEP's, so the PEP gives the lease less than S.
LEMMA ReaperSparesHeld ==
    ASSUME IInv, PoolKnown, SpendInv, SKEW \in Nat, SKEW >= SKEW_ALLOWANCE,
           held.state = "active", held.left > SKEW
    PROVE  held.lease \notin reaping
<1>1. /\ held.left \in Nat /\ clock \in Nat /\ now \in Nat /\ SKEW_ALLOWANCE \in Nat
      /\ now <= clock + 2 * SKEW_ALLOWANCE
  BY LedgerConstants, AmountsAreReports
     DEF PoolKnown, P!PoolTypeOK, P!LocalLease, IInv, TypeOK, SpendInv, ClocksClose
<1>2. lease[held.lease].expires_at = clock + held.left
  BY <1>1 DEF SpendInv, LifeAgrees
<1> QED BY <1>1, <1>2 DEF SpendInv, ReapingDue

\* While the PEP may spend from its lease, no step retires the lease's row.
LEMMA SpendableStaysActive ==
    ASSUME IInv, PepInv, SpendInv, SKEW \in Nat, SKEW >= SKEW_ALLOWANCE,
           held.state = "active", held.left > SKEW, [ProtocolNext]_protocolVars
    PROVE  lease'[held.lease].state = "active"
<1>1. /\ lease \in [Leases -> LeaseRow] /\ held.lease \in Leases
      /\ lease[held.lease].state = "active"
  BY DEF IInv, TypeOK, PepInv, PoolKnown, HeldKnown, P!NoHeld, SpendInv,
     SpendableIsActive
<1>2. ASSUME UNCHANGED ledgerVars PROVE lease'[held.lease].state = "active"
  BY <1>1, <1>2 DEF ledgerVars
<1>3. ASSUME NEW l \in Leases, NEW b, NEW q, NEW t, Acquire(b, l, q, t)
      PROVE  lease'[held.lease].state = "active"
  BY <1>1, <1>3 DEF Acquire
<1>4. ASSUME NEW l \in Leases, l # held.lease, NEW s, Retire(l, s)
      PROVE  lease'[held.lease].state = "active"
  BY <1>1, <1>4 DEF Retire
<1>5. ASSUME sending > 0, SinkCommit PROVE lease'[held.lease].state = "active"
  <2>1. PICK l \in Leases, items \in Batches : LedgerCommitBatch(l, items)
    BY <1>5, SinkCommitIsBatch
  <2> QED BY <1>1, <2>1, BatchKeepsStates
<1>6. ASSUME NEW l \in Leases, AcquireAnswered(l) \/ AcquireLost(l)
      PROVE  lease'[held.lease].state = "active"
  BY <1>3, <1>6 DEF AcquireAnswered, AcquireLost, AcquireOwn
<1>7. CASE ReleaseReturns
  <2>1. topup.pc = "release" /\ topup.old \in Leases /\ topup.old # held.lease
    BY <1>7 DEF ReleaseReturns, P!ReleaseEnds, PepInv, PoolKnown, TopupKnown,
       SpendInv, OldIsNotHeld
  <2> QED BY <1>2, <1>4, <1>7, <2>1 DEF ReleaseReturns, Release
<1>8. CASE SinkAnswers \/ SinkFails \/ QueueCloses
  BY <1>2, <1>5, <1>8 DEF SinkAnswers, SinkFails, QueueCloses, Q!Answered,
     Q!Unanswered, Q!RunnerSends
<1>9. CASE OtherPep
  <2>1. PICK l \in Leases \ InHand :
           (\E t \in PepClocks : Acquire(Pool, l, LeaseSize, t)) \/ Release(l)
    BY <1>9 DEF OtherPep
  <2>2. l # held.lease
    BY <2>1 DEF InHand
  <2> QED BY <1>3, <1>4, <2>1, <2>2 DEF Release
<1>10. CASE Reaper
  <2>1. held.lease \notin reaping
    BY ReaperSparesHeld DEF PepInv
  <2>2. ASSUME NEW l \in Leases, ReapRetire(l)
        PROVE  lease'[held.lease].state = "active"
    BY <1>2, <1>4, <2>1, <2>2 DEF ReapRetire
  <2> QED BY <1>2, <1>10, <2>2 DEF Reaper, Reap, ReapScan, ReapFails
<1>11. CASE \/ AcquireRefused \/ ReleaseCalled
            \/ \E r \in Reservations, a \in Amounts : Request(r, a)
            \/ \E a \in Amounts : RequestRefused(a)
            \/ \E res \in inflight : \E actual \in {res.amount} \cup Actuals :
                  RequestSettled(res, actual)
            \/ \E res \in inflight : RequestFailed(res)
            \/ Renew \/ QueueTurns \/ ShutdownBegins \/ PoolStops \/ PoolCloses
            \/ PepRestarts \/ TimePasses \/ UNCHANGED protocolVars
  BY <1>2, <1>11 DEF AcquireRefused, ReleaseCalled, Request, RequestRefused,
     RequestSettled, RequestFailed, Renew, QueueTurns, ShutdownBegins, PoolStops,
     PoolCloses, PepRestarts, TimePasses, Local, protocolVars, vars, ledgerVars
<1> QED BY <1>6, <1>7, <1>8, <1>9, <1>10, <1>11 DEF ProtocolNext

\* A grant is taken: the new lease is not the one it replaces, which had a row,
\* and its life is counted from the clock reading the ACQUIRE carried.
LEMMA GrantSpend ==
    ASSUME IInv, PepInv, SpendInv, NEW l \in Leases, AcquireAnswered(l),
           ReapingDue'
    PROVE  SpendInv'
<1>1. /\ Acquire(Pool, l, LeaseSize, clock - topup.age)
      /\ P!AcquireGranted(l, lease'[l].granted)
      /\ UNCHANGED <<reaping, now, clock>>
  BY DEF AcquireAnswered, AcquireOwn, Quiet
<1>2. /\ lease \in [Leases -> LeaseRow] /\ lease[l].state = "none"
      /\ lease'[l].state = "active" /\ lease'[l].expires_at = clock - topup.age + TTL
  BY <1>1 DEF Acquire, IInv, TypeOK
<1>3. /\ held'.lease = l /\ held'.left = TTL - topup.age /\ held'.state = "active"
      /\ topup'.pc \in {"drain", "release"} => topup'.old = held.lease /\ held # P!NoHeld
  BY <1>1 DEF P!AcquireGranted, P!Idle, P!Retiring
<1>4. held # P!NoHeld => held.lease # l
  BY <1>2 DEF PepInv, PoolKnown, HeldKnown, SpendInv, HeldHasRow
<1>5. TTL \in Nat /\ topup.age \in Nat /\ clock \in Nat
  BY AmountsAreReports DEF PepInv, PoolKnown, P!PoolTypeOK, P!Task, SpendInv,
     ClocksClose
<1>6. lease'[l].expires_at = clock' + held'.left
  BY <1>1, <1>2, <1>3, <1>5
<1> QED BY <1>1, <1>2, <1>3, <1>4, <1>6 DEF SpendInv, ClocksClose, HeldHasRow,
        OldIsNotHeld, LifeAgrees, SpendableIsActive

\* The PEP's clock and the life it gives its lease move together.
LEMMA TimeSpend ==
    ASSUME IInv, PepInv, SpendInv, TimePasses, ReapingDue', SKEW \in Nat
    PROVE  SpendInv'
<1>1. /\ held \in P!LocalLease /\ topup \in P!Task /\ TTL \in Nat /\ clock \in Nat
      /\ SKEW_ALLOWANCE \in Nat
  BY AmountsAreReports, LedgerConstants DEF PepInv, PoolKnown, P!PoolTypeOK,
     SpendInv, ClocksClose
<1>2. UNCHANGED lease /\ clock' \in {clock, clock + 1} /\ ClocksClose'
  BY <1>1 DEF TimePasses, ledgerVars, ClocksClose
<1>3. CASE clock' = clock
  <2>1. UNCHANGED <<held, topup>>
    BY <1>3 DEF TimePasses, poolVars
  <2> QED BY <1>2, <1>3, <2>1 DEF SpendInv, HeldHasRow, OldIsNotHeld, LifeAgrees,
          SpendableIsActive
<1>4. CASE clock' = clock + 1
  <2>1. P!PepTick
    BY <1>1, <1>4 DEF TimePasses
  <2>2. /\ held'.lease = held.lease /\ held'.state = held.state
        /\ held'.left = IF held.left > 0 THEN held.left - 1 ELSE 0
        /\ topup'.pc = topup.pc /\ topup'.old = topup.old
    BY <1>1, <2>1 DEF P!PepTick, P!LocalLease, P!Task
  <2>3. held.left \in Nat
    BY <1>1 DEF P!LocalLease
  <2>4. LifeAgrees'
    BY <1>1, <1>2, <1>4, <2>2, <2>3 DEF SpendInv, LifeAgrees
  <2>5. SpendableIsActive'
    BY <1>2, <2>2, <2>3 DEF SpendInv, SpendableIsActive
  <2> QED BY <1>2, <2>2, <2>4, <2>5 DEF SpendInv, HeldHasRow, OldIsNotHeld
<1> QED BY <1>2, <1>3, <1>4

LEMMA SpendStep ==
    ASSUME IInv, PepInv, SpendInv, SKEW \in Nat, SKEW >= SKEW_ALLOWANCE,
           [ProtocolNext]_protocolVars
    PROVE  SpendInv'
<1>1. [Next]_vars /\ ReapingDue' /\ PoolKnown
  BY StepImplements, ReapingDueStep DEF SpendInv, PepInv
<1>2. held.state = "active" /\ held.left > SKEW => lease'[held.lease].state = "active"
  BY SpendableStaysActive
<1>3. held \in P!LocalLease /\ topup \in P!Task /\ OldIsNotHeld
  BY <1>1 DEF PoolKnown, P!PoolTypeOK, SpendInv
<1>4. ASSUME UNCHANGED <<now, clock>>, held'.lease = held.lease,
             held'.left = held.left, held'.state = held.state,
             \/ UNCHANGED topup
             \/ topup'.pc \notin {"drain", "release"}
             \/ topup.pc = "drain" /\ topup'.old = topup.old
      PROVE  SpendInv'
  <2>1. topup'.pc \in {"drain", "release"} /\ held'.state = "active" =>
           topup'.old # held'.lease
    BY <1>3, <1>4 DEF OldIsNotHeld
  <2> QED BY <1>1, <1>2, <1>4, <2>1, SameHeldSpend
<1>5. ASSUME NEW l \in Leases, AcquireAnswered(l) PROVE SpendInv'
  BY <1>1, <1>5, GrantSpend
<1>6. CASE TimePasses
  BY <1>1, <1>6, TimeSpend
<1>7. CASE PepRestarts
  <2>1. /\ held' = P!NoHeld /\ NoLease \notin Leases
        /\ UNCHANGED <<reaping, now, clock>>
    BY <1>7, AmountsAreReports DEF PepRestarts, P!Restart, Local, Quiet
  <2>2. ClocksClose'
    BY <2>1 DEF SpendInv, ClocksClose
  <2> QED BY <1>1, <2>1, <2>2 DEF SpendInv, P!NoHeld, HeldHasRow, OldIsNotHeld,
          LifeAgrees, SpendableIsActive
<1>8. CASE PoolCloses
  <2>1. /\ held'.lease = held.lease /\ held'.left = held.left
        /\ held'.state # "active" /\ UNCHANGED <<now, clock>>
    BY <1>3, <1>8 DEF PoolCloses, P!CloseHeld, P!LocalLease, Local, Quiet
  <2> QED BY <1>1, <1>2, <2>1, SameHeldSpend
<1>9. ASSUME NEW r \in Reservations, NEW a \in Amounts, Request(r, a) PROVE SpendInv'
  BY <1>3, <1>4, <1>9 DEF Request, P!Authorize, P!Schedule, P!Acquiring,
     P!LocalLease, Local, Quiet
<1>10. ASSUME NEW a \in Amounts, RequestRefused(a) PROVE SpendInv'
  BY <1>4, <1>10 DEF RequestRefused, P!Refuse, P!AuthorizeUnrecorded, P!Schedule,
     P!Acquiring, Local, Quiet
<1>11. ASSUME NEW res \in inflight, NEW actual \in {res.amount} \cup Actuals,
              RequestSettled(res, actual)
       PROVE  SpendInv'
  <2>1. /\ UNCHANGED <<topup, now, clock>> /\ held'.lease = held.lease
        /\ held'.left = held.left /\ held'.state = held.state
    BY <1>3, <1>11 DEF RequestSettled, P!Settle, P!LocalLease, Local, Quiet
  <2> QED BY <1>4, <2>1
<1>12. CASE Renew
  BY <1>4, <1>12 DEF Renew, P!RenewSweep, P!Schedule, P!Acquiring, Local, Quiet
<1>13. CASE (\E l \in Leases : AcquireLost(l)) \/ AcquireRefused
  BY <1>4, <1>13 DEF AcquireLost, AcquireRefused, P!AcquireFailed, P!Idle, Quiet
<1>14. CASE ReleaseCalled
  BY <1>3, <1>4, <1>14 DEF ReleaseCalled, P!ReleaseCall, P!Task, Quiet
<1>15. CASE ReleaseReturns
  BY <1>4, <1>15 DEF ReleaseReturns, P!ReleaseEnds, P!Idle, Quiet
<1>16. CASE \/ SinkAnswers \/ SinkFails \/ QueueTurns \/ QueueCloses \/ OtherPep
            \/ Reaper \/ ShutdownBegins \/ PoolStops
            \/ \E res \in inflight : RequestFailed(res)
            \/ UNCHANGED protocolVars
  <2>1. UNCHANGED <<held, topup, now, clock>>
    BY <1>16 DEF SinkAnswers, SinkFails, QueueTurns, QueueCloses, OtherPep, Reaper,
       ShutdownBegins, P!Shutdown, PoolStops, P!StopRenewer, RequestFailed,
       P!UpstreamFails, protocolVars, vars, poolVars, Local, Quiet
  <2> QED BY <1>4, <2>1
<1> QED BY <1>5, <1>6, <1>7, <1>8, <1>9, <1>10, <1>11, <1>12, <1>13, <1>14, <1>15,
        <1>16 DEF ProtocolNext

\* PEP and reaper never both own a lease's budget: a PEP whose margin is at least
\* the ledger's allowance (both are 5 s: PoolSettings.skew and SKEW_ALLOWANCE) spends
\* only from leases that are active in the ledger, for every lifetime, drift of the
\* clocks within 2S and duration of an ACQUIRE, through failures and restarts.
THEOREM ProtocolSpendableIsActive ==
    ASSUME SKEW \in Nat, SKEW >= SKEW_ALLOWANCE
    PROVE  ProtocolSpec => []SpendableIsActive
<1>1. ProtocolInit => SpendInv
  BY AmountsAreReports, LedgerConstants DEF ProtocolInit, Init, P!PoolInit, P!NoHeld,
     SpendInv, ReapingDue, ClocksClose, HeldHasRow, OldIsNotHeld, LifeAgrees,
     SpendableIsActive
<1>2. IInv /\ PepInv /\ SpendInv /\ [ProtocolNext]_protocolVars => SpendInv'
  BY SpendStep
<1>3. SpendInv => SpendableIsActive
  BY DEF SpendInv
<1> QED BY <1>1, <1>2, <1>3, ProtocolInductive, PTL DEF ProtocolSpec

-----------------------------------------------------------------------------
(* The ledger charges what the tools did *)

\* A reservation id is used once, and its tool is charged for when the request
\* leaves flight: until then nothing has been spent under it.
SpentTypes == spent \in [Reservations -> Nat]
NotYetIssued == \A r \in Reservations \ issued : spent[r] = 0
InflightUncharged ==
    \A res \in inflight :
        /\ res.id \in issued /\ spent[res.id] = 0
        /\ \A other \in inflight : other.id = res.id => other = res

\* Nothing that waits in the queue reports more than was spent.
PendingCharged ==
    \A i \in 1 .. Len(pending) : pending[i].amount <= spent[pending[i].id]

ChargeInv ==
    SpentTypes /\ NotYetIssued /\ InflightUncharged /\ PendingCharged /\ ChargedAtMostOnce

\* A batch from the queue writes rows of at most what was spent: the amount of a
\* row is clamped from the item's, and an id that has a row keeps it.
LEMMA CommitCharges ==
    ASSUME IInv, PepInv, ChargeInv, sending > 0, SinkCommit, UNCHANGED spent
    PROVE  ChargedAtMostOnce'
<1> SUFFICES \A r \in Reservations : reservation'[r].amount <= spent[r]
  BY DEF ChargedAtMostOnce
<1> DEFINE l     == pending[1].lease
           items == [i \in 1 .. sending |-> [id     |-> pending[i].id,
                                             amount |-> pending[i].amount]]
           V     == {st \in [already : SUBSET Reservations,
                             settled : Nat,
                             rows    : [Reservations -> ReservationRow]] :
                        /\ st.settled <= lease[l].granted
                        /\ \A r \in Reservations : st.rows[r].amount <= spent[r]}
<1>1. /\ sending \in 1 .. BatchMax /\ sending <= Len(pending)
      /\ pending \in Seq(Settlement) /\ Len(pending) \in Nat
  BY LedgerConstants DEF PepInv, QueueKnown, PendingKnown, SendingKnown
<1>2. \A i \in 1 .. sending : pending[i] \in Settlement
  BY <1>1
<1>3. l \in Leases
  BY <1>1, <1>2 DEF Settlement
<1>4. Len(items) = sending
  BY <1>1
<1>5. CASE RejectBatch(l, items)
  BY <1>5 DEF RejectBatch, ChargeInv, ChargedAtMostOnce
<1>6. CASE ApplyBatch(l, items)
  <2>1. /\ lease[l].granted \in Nat /\ lease[l].settled \in Nat
        /\ lease[l].settled <= lease[l].granted
        /\ reservation \in [Reservations -> ReservationRow]
    BY <1>3 DEF IInv, TypeOK, LeaseRow, SettledWithinGrant
  <2>2. LoopStart(l) \in V
    BY <2>1 DEF LoopStart, ChargeInv, ChargedAtMostOnce
  <2>3. ASSUME NEW i \in 1 .. Len(items), NEW st \in V
        PROVE  SettleItem(l, st, items[i]) \in V
    <3> DEFINE item    == items[i]
               applied == LesserOf(item.amount, lease[l].granted - st.settled)
               rows    == IF applied > 0
                          THEN [st.rows EXCEPT ![item.id] = [lease |-> l, amount |-> applied]]
                          ELSE st.rows
    <3>1. /\ i \in 1 .. sending /\ i \in 1 .. Len(pending)
          /\ item.id = pending[i].id /\ item.amount = pending[i].amount
      BY <1>1, <1>4, <2>3
    <3>2. /\ item.id \in Reservations /\ item.amount \in Nat
          /\ item.amount <= spent[item.id] /\ spent[item.id] \in Nat
      BY <1>2, <3>1, AmountsAreReports
         DEF Settlement, ChargeInv, PendingCharged, SpentTypes
    <3>3. /\ st.settled \in Nat /\ st.already \in SUBSET Reservations
          /\ st.rows \in [Reservations -> ReservationRow]
          /\ st.settled <= lease[l].granted
          /\ \A r \in Reservations : st.rows[r].amount <= spent[r]
      OBVIOUS
    <3> HIDE DEF item, items, V
    <3>4. /\ applied \in Nat /\ applied <= item.amount
          /\ applied <= lease[l].granted - st.settled
      BY <2>1, <3>2, <3>3 DEF LesserOf
    <3>5. /\ rows \in [Reservations -> ReservationRow]
          /\ \A r \in Reservations : rows[r].amount <= spent[r]
      BY <1>3, <3>2, <3>3, <3>4 DEF ReservationRow
    <3>6. CASE item.id \in st.already
      BY <3>6 DEF SettleItem, item
    <3>7. CASE item.id \notin st.already
      <4>1. SettleItem(l, st, item) = [already |-> st.already \cup {item.id},
                                       settled |-> st.settled + applied,
                                       rows    |-> rows]
        BY <3>7, Zenon DEF SettleItem
      <4>2. st.settled + applied \in Nat /\ st.settled + applied <= lease[l].granted
        BY <2>1, <3>3, <3>4
      <4> HIDE DEF applied, rows
      <4>3. SettleItem(l, st, item) \in V
        BY <3>2, <3>3, <3>5, <4>1, <4>2 DEF V
      <4> QED BY <4>3 DEF item
    <3> QED BY <3>6, <3>7
  <2> HIDE DEF V, items
  <2>4. SettleItems(l, items)[Len(items)] \in V
    BY <1>1, <1>4, <2>2, <2>3, SettleItemsStay
  <2>5. reservation' = SettleItems(l, items)[Len(items)].rows
    BY <1>6 DEF ApplyBatch
  <2> QED BY <2>4, <2>5 DEF V
<1> QED BY <1>5, <1>6 DEF SinkCommit, LedgerCommitBatch

\* The queue is served from the head and otherwise left alone.
LEMMA QueueKeepsCharges ==
    ASSUME PepInv, ChargeInv, UNCHANGED <<inflight, issued, spent>>,
           \/ pending' = pending
           \/ pending' = <<>>
           \/ pending' = SubSeq(pending, sending + 1, Len(pending)),
           ChargedAtMostOnce'
    PROVE  ChargeInv'
<1>1. /\ pending \in Seq(Settlement) /\ Len(pending) \in Nat
      /\ sending \in Nat /\ sending <= Len(pending)
  BY DEF PepInv, QueueKnown, PendingKnown, SendingKnown
<1>2. PendingCharged'
  <2>1. CASE pending' = pending \/ pending' = <<>>
    BY <2>1 DEF ChargeInv, PendingCharged
  <2>2. CASE pending' = SubSeq(pending, sending + 1, Len(pending))
    <3>1. /\ Len(pending') = Len(pending) - sending
          /\ \A i \in 1 .. Len(pending') :
                /\ pending'[i] = pending[sending + i]
                /\ sending + i \in 1 .. Len(pending)
      BY <1>1, <2>2
    <3> QED BY <3>1 DEF ChargeInv, PendingCharged
  <2> QED BY <2>1, <2>2
<1> QED BY <1>2 DEF ChargeInv, SpentTypes, NotYetIssued, InflightUncharged

\* A request leaves flight: its tool is charged once, and nothing that was
\* queued or written before is about it.
LEMMA SettledCharge ==
    ASSUME IInv, PepInv, ChargeInv, NEW res \in inflight,
           NEW actual \in {res.amount} \cup Actuals, RequestSettled(res, actual)
    PROVE  ChargeInv'
<1>1. /\ actual \in Nat /\ res.id \in Reservations /\ res.id \in issued
      /\ spent[res.id] = 0 /\ spent \in [Reservations -> Nat]
  BY AmountsAreReports DEF PepInv, PoolKnown, InflightKnown, P!PoolTypeOK,
     P!Reservation, ChargeInv, InflightUncharged, SpentTypes
<1>2. /\ spent' = [spent EXCEPT ![res.id] = actual] /\ UNCHANGED <<issued, reservation>>
      /\ inflight' = inflight \ {res}
      /\ \/ pending' = pending
         \/ pending' = Append(pending, P!Outcome(res, actual))
  BY DEF RequestSettled, P!Settle, Q!Enqueue, Local, ledgerVars
<1>3. SpentTypes' /\ \A r \in Reservations : spent[r] <= spent'[r]
  BY <1>1, <1>2 DEF SpentTypes
<1>4. NotYetIssued' /\ InflightUncharged'
  BY <1>1, <1>2 DEF ChargeInv, NotYetIssued, InflightUncharged, PepInv, PoolKnown,
     P!PoolTypeOK, P!Reservation
<1>5. ChargedAtMostOnce'
  <2>1. \A r \in Reservations : reservation[r].amount \in Nat /\ spent[r] \in Nat
    BY <1>1 DEF IInv, TypeOK, ReservationRow
  <2> QED BY <1>2, <1>3, <2>1 DEF ChargeInv, ChargedAtMostOnce, SpentTypes
<1>6. PendingCharged'
  <2>1. /\ pending \in Seq(Settlement) /\ Len(pending) \in Nat
        /\ \A i \in 1 .. Len(pending) :
              /\ pending[i].id \in Reservations /\ pending[i].amount \in Nat
              /\ pending[i].amount <= spent'[pending[i].id]
    <3>1. pending \in Seq(Settlement)
      BY DEF PepInv, QueueKnown, PendingKnown
    <3>2. \A i \in 1 .. Len(pending) :
             pending[i].id \in Reservations /\ pending[i].amount \in Nat
      <4> TAKE i \in 1 .. Len(pending)
      <4>1. pending[i] \in Settlement
        BY <3>1
      <4> QED BY <4>1, AmountsAreReports DEF Settlement
    <3> QED BY <1>1, <1>3, <3>1, <3>2 DEF ChargeInv, PendingCharged, SpentTypes
  <2>2. CASE pending' = pending
    BY <2>1, <2>2 DEF PendingCharged
  <2>3. CASE pending' = Append(pending, P!Outcome(res, actual))
    <3>1. /\ Len(pending') = Len(pending) + 1
          /\ pending'[Len(pending) + 1] = P!Outcome(res, actual)
          /\ \A i \in 1 .. Len(pending) : pending'[i] = pending[i]
      BY <2>1, <2>3
    <3>2. P!Outcome(res, actual).amount <= spent'[P!Outcome(res, actual).id]
      BY <1>1, <1>2 DEF P!Outcome
    <3> QED BY <2>1, <3>1, <3>2 DEF PendingCharged
  <2> QED BY <1>2, <2>2, <2>3
<1> QED BY <1>3, <1>4, <1>5, <1>6 DEF ChargeInv

LEMMA ChargeStart == ProtocolInit => ChargeInv
BY DEF ProtocolInit, Init, P!PoolInit, Q!QueueInit, NoReservationRow, ChargeInv,
   SpentTypes, NotYetIssued, InflightUncharged, PendingCharged, ChargedAtMostOnce

LEMMA ChargeStep ==
    ASSUME IInv, PepInv, ChargeInv, [ProtocolNext]_protocolVars PROVE ChargeInv'
<1>1. ChargedAtMostOnce /\ SpentTypes
  BY DEF ChargeInv
<1>2. ASSUME UNCHANGED <<reservation, pending, inflight, issued, spent>>
      PROVE  ChargeInv'
  BY <1>1, <1>2, QueueKeepsCharges DEF ChargedAtMostOnce
<1>3. ASSUME sending > 0, UNCHANGED <<inflight, issued, spent>>,
             SinkCommit \/ UNCHANGED ledgerVars,
             \/ pending' = pending
             \/ pending' = SubSeq(pending, sending + 1, Len(pending))
      PROVE  ChargeInv'
  <2>1. CASE SinkCommit
    BY <1>3, <2>1, CommitCharges, QueueKeepsCharges
  <2>2. CASE UNCHANGED ledgerVars
    BY <1>1, <1>3, <2>2, QueueKeepsCharges DEF ledgerVars, ChargedAtMostOnce
  <2> QED BY <1>3, <2>1, <2>2
<1>4. ASSUME NEW r \in Reservations, NEW a \in Amounts, Request(r, a) PROVE ChargeInv'
  <2>1. /\ r \notin issued /\ issued' = issued \cup {r}
        /\ inflight' = inflight \cup
                         {[id |-> r, lease |-> held.lease, amount |-> a]}
        /\ UNCHANGED <<reservation, pending, spent>>
    BY <1>4 DEF Request, P!Authorize, Local, ledgerVars, queueVars
  <2>2. InflightUncharged'
    BY <2>1 DEF ChargeInv, NotYetIssued, InflightUncharged
  <2>3. NotYetIssued'
    BY <2>1 DEF ChargeInv, NotYetIssued
  <2> QED BY <2>1, <2>2, <2>3
          DEF ChargeInv, SpentTypes, PendingCharged, ChargedAtMostOnce
<1>5. ASSUME NEW res \in inflight, NEW actual \in {res.amount} \cup Actuals,
             RequestSettled(res, actual)
      PROVE  ChargeInv'
  BY <1>5, SettledCharge
<1>6. ASSUME NEW res \in inflight, RequestFailed(res) PROVE ChargeInv'
  <2>1. UNCHANGED <<reservation, pending, issued, spent>> /\ inflight' \subseteq inflight
    BY <1>6 DEF RequestFailed, P!UpstreamFails, Local, ledgerVars, queueVars, history
  <2> QED BY <2>1 DEF ChargeInv, SpentTypes, NotYetIssued, InflightUncharged,
          PendingCharged, ChargedAtMostOnce
<1>7. CASE PepRestarts
  <2>1. /\ UNCHANGED <<reservation, issued, spent>> /\ inflight' = {}
        /\ pending' = <<>>
    BY <1>7 DEF PepRestarts, P!Restart, Q!Rebuild, Local, ledgerVars, history
  <2> QED BY <2>1 DEF ChargeInv, SpentTypes, NotYetIssued, InflightUncharged,
          PendingCharged, ChargedAtMostOnce
<1>8. CASE SinkAnswers \/ SinkFails
  BY <1>3, <1>8 DEF SinkAnswers, SinkFails, Q!Answered, Q!Unanswered, Q!EndFlush,
     poolVars, history
<1>9. CASE QueueCloses
  <2>1. UNCHANGED <<pending, inflight, issued, spent>>
    BY <1>9 DEF QueueCloses, Q!CancelRunner, poolVars, history
  <2>2. CASE Q!RunnerSends /\ SinkCommit
    BY <1>3, <2>1, <2>2 DEF Q!RunnerSends
  <2>3. CASE UNCHANGED ledgerVars
    BY <1>2, <2>1, <2>3 DEF ledgerVars
  <2> QED BY <1>9, <2>2, <2>3 DEF QueueCloses
<1>10. CASE QueueTurns
  <2>1. UNCHANGED <<reservation, inflight, issued, spent>> /\ pending' \in {pending, <<>>}
    BY <1>10 DEF QueueTurns, Q!RunTick, Q!Wake, Q!EmptyFlush, Q!EndFlush, Local,
       ledgerVars, poolVars, history
  <2> QED BY <1>1, <2>1, QueueKeepsCharges DEF ChargedAtMostOnce
<1>11. ASSUME UNCHANGED queueVars \/ Q!DrainCall(Topup) PROVE UNCHANGED pending
  BY <1>11 DEF queueVars, Q!DrainCall
<1>12. CASE (\E l \in Leases : AcquireAnswered(l)) \/ PoolCloses
  BY <1>2, <1>11, <1>12 DEF AcquireAnswered, AcquireOwn, Acquire, P!AcquireGranted,
     PoolCloses, P!CloseHeld, Local, ledgerVars, history
<1>13. CASE ShutdownBegins
  BY <1>2, <1>13 DEF ShutdownBegins, P!Shutdown, Q!Close, Local, ledgerVars, history
<1>14. CASE OtherPep \/ Reaper \/ ReleaseReturns
  <2>1. UNCHANGED <<pending, inflight, issued, spent>>
    BY <1>14 DEF OtherPep, Reaper, ReleaseReturns, P!ReleaseEnds, poolVars, queueVars,
       history
  <2>2. UNCHANGED reservation
    BY <1>14 DEF OtherPep, Reaper, ReleaseReturns, Acquire, Release, Retire, Reap,
       ReapScan, ReapRetire, ReapFails, ledgerVars
  <2> QED BY <1>2, <2>1, <2>2
<1>15. CASE \/ \E l \in Leases : AcquireLost(l)
            \/ AcquireRefused \/ ReleaseCalled \/ Renew \/ PoolStops \/ TimePasses
            \/ \E a \in Amounts : RequestRefused(a)
            \/ UNCHANGED protocolVars
  BY <1>2, <1>15 DEF AcquireLost, AcquireOwn, Acquire, P!AcquireFailed,
     AcquireRefused, ReleaseCalled, P!ReleaseCall, Renew, P!RenewSweep, PoolStops,
     P!StopRenewer, TimePasses, P!PepTick, RequestRefused, P!Refuse,
     P!AuthorizeUnrecorded, Local, ledgerVars, poolVars, queueVars, history,
     protocolVars, vars
<1> QED BY <1>4, <1>5, <1>6, <1>7, <1>8, <1>9, <1>10, <1>12, <1>13, <1>14, <1>15
        DEF ProtocolNext

\* Whatever is replayed after a lost answer, cut off by a restart or repeated in
\* a batch, the ledger charges a reservation at most what its tool charged, and
\* one that was refused, failed or never settled not at all.
THEOREM ProtocolChargedAtMostOnce == ProtocolSpec => []ChargedAtMostOnce
<1>1. ProtocolInit => ChargeInv
  BY ChargeStart
<1>2. IInv /\ PepInv /\ ChargeInv /\ [ProtocolNext]_protocolVars => ChargeInv'
  BY ChargeStep
<1>3. ChargeInv => ChargedAtMostOnce
  BY DEF ChargeInv
<1> QED BY <1>1, <1>2, <1>3, ProtocolInductive, PTL DEF ProtocolSpec

-----------------------------------------------------------------------------
(* The protocol charges each request once *)

\* What a step does to the ledger's books: the protocol leases out of the pool only.
Moves ==
    \/ UNCHANGED lease
    \/ \E l \in Leases, t \in PepClocks : Acquire(Pool, l, LeaseSize, t)
    \/ \E l \in Leases, s \in {"released", "expired"} : Retire(l, s)
    \/ \E l \in Leases, items \in Batches : ApplyBatch(l, items)

LEMMA LedgerMoves ==
    ASSUME PepInv, [ProtocolNext]_protocolVars PROVE Moves
<1>1. ASSUME UNCHANGED ledgerVars PROVE Moves
  BY <1>1 DEF ledgerVars, Moves
<1>2. ASSUME NEW l \in Leases, NEW t \in PepClocks, Acquire(Pool, l, LeaseSize, t)
      PROVE  Moves
  BY <1>2 DEF Moves
<1>3. ASSUME NEW l \in Leases, NEW s \in {"released", "expired"}, Retire(l, s)
      PROVE  Moves
  BY <1>3 DEF Moves
<1>4. ASSUME sending > 0, SinkCommit PROVE Moves
  <2>1. PICK l \in Leases, items \in Batches : LedgerCommitBatch(l, items)
    BY <1>4, SinkCommitIsBatch
  <2> QED BY <2>1 DEF LedgerCommitBatch, RejectBatch, Moves
<1>5. ASSUME NEW l \in Leases, AcquireAnswered(l) \/ AcquireLost(l) PROVE Moves
  BY <1>2, <1>5 DEF AcquireAnswered, AcquireLost, AcquireOwn, Readable
<1>6. CASE ReleaseReturns
  <2>1. topup.old \in Leases
    BY <1>6 DEF ReleaseReturns, P!ReleaseEnds, PepInv, PoolKnown, TopupKnown
  <2> QED BY <1>1, <1>3, <1>6, <2>1 DEF ReleaseReturns, Release
<1>7. CASE SinkAnswers \/ SinkFails \/ QueueCloses
  BY <1>1, <1>4, <1>7 DEF SinkAnswers, SinkFails, QueueCloses, Q!Answered,
     Q!Unanswered, Q!RunnerSends
<1>8. CASE OtherPep
  <2>1. PICK l \in Leases :
           \/ \E t \in PepClocks : Acquire(Pool, l, LeaseSize, t)
           \/ Release(l)
    BY <1>8 DEF OtherPep
  <2> QED BY <1>2, <1>3, <2>1 DEF Release
<1>9. CASE Reaper
  BY <1>1, <1>3, <1>9 DEF Reaper, Reap, ReapScan, ReapRetire, ReapFails
<1>10. CASE \/ AcquireRefused \/ ReleaseCalled
            \/ \E r \in Reservations, a \in Amounts : Request(r, a)
            \/ \E a \in Amounts : RequestRefused(a)
            \/ \E res \in inflight : \E actual \in {res.amount} \cup Actuals :
                  RequestSettled(res, actual)
            \/ \E res \in inflight : RequestFailed(res)
            \/ Renew \/ QueueTurns \/ ShutdownBegins \/ PoolStops \/ PoolCloses
            \/ PepRestarts \/ TimePasses \/ UNCHANGED protocolVars
  BY <1>1, <1>10 DEF AcquireRefused, ReleaseCalled, Request, RequestRefused,
     RequestSettled, RequestFailed, Renew, QueueTurns, ShutdownBegins, PoolStops,
     PoolCloses, PepRestarts, TimePasses, Local, protocolVars, vars, ledgerVars
<1> QED BY <1>5, <1>6, <1>7, <1>8, <1>9, <1>10 DEF ProtocolNext

OnlyPool == \A l \in Leases : lease[l].state # "none" => lease[l].budget = Pool

LEMMA OnlyPoolStep ==
    ASSUME IInv, PepInv, OnlyPool, [ProtocolNext]_protocolVars PROVE OnlyPool'
<1>1. lease \in [Leases -> LeaseRow]
  BY DEF IInv, TypeOK
<1>2. CASE UNCHANGED lease
  BY <1>2 DEF OnlyPool
<1>3. ASSUME NEW l \in Leases, NEW t \in PepClocks, Acquire(Pool, l, LeaseSize, t)
      PROVE  OnlyPool'
  BY <1>1, <1>3 DEF Acquire, OnlyPool
<1>4. ASSUME NEW l \in Leases, NEW s \in {"released", "expired"}, Retire(l, s)
      PROVE  OnlyPool'
  BY <1>1, <1>4 DEF Retire, OnlyPool, LeaseRow
<1>5. ASSUME NEW l \in Leases, NEW items \in Batches, ApplyBatch(l, items)
      PROVE  OnlyPool'
  <2>1. PICK x : lease' = [lease EXCEPT ![l].settled = x]
    BY <1>5, Zenon DEF ApplyBatch
  <2> QED BY <1>1, <2>1 DEF OnlyPool, LeaseRow
<1> QED BY <1>2, <1>3, <1>4, <1>5, LedgerMoves DEF Moves

\* What the pool has committed is the sum of the reservation rows, and within it.
Charges == [r \in Reservations |-> reservation[r].amount]
BillIsSum ==
    /\ budget[Pool].committed = SumOver(Reservations, Charges)
    /\ budget[Pool].committed <= PoolTotal
    /\ Charges \in [Reservations -> Nat]

LEMMA BillAdds == IInv /\ OnlyPool => BillIsSum
<1> SUFFICES ASSUME IInv, OnlyPool PROVE BillIsSum
  OBVIOUS
<1>1. /\ Pool \in Budgets /\ IsFiniteSet(Budgets) /\ IsFiniteSet(Reservations)
      /\ budget \in [Budgets -> BudgetRow]
      /\ reservation \in [Reservations -> ReservationRow]
  BY LedgerConstants DEF IInv, TypeOK
<1>2. Charges \in [Reservations -> Nat]
  BY <1>1 DEF Charges, ReservationRow
<1>3. budget[Pool].committed = SumOver(Reservations, Charges)
  <2>1. \A r \in Reservations : SettledFrom(Pool)[r] = Charges[r]
    <3> TAKE r \in Reservations
    <3>1. reservation[r].amount \in Nat
      BY <1>1 DEF ReservationRow
    <3>2. CASE reservation[r].amount > 0
      <4>1. lease[reservation[r].lease].budget = Pool
        BY <3>2 DEF IInv, RowShape, OnlyPool
      <4> QED BY <3>2, <4>1 DEF SettledFrom, Charges
    <3>3. CASE reservation[r].amount = 0
      BY <3>3 DEF SettledFrom, Charges
    <3> QED BY <3>1, <3>2, <3>3
  <2>2. SumOver(Reservations, SettledFrom(Pool)) = SumOver(Reservations, Charges)
    BY <2>1, SumAgree
  <2> QED BY <1>1, <2>2 DEF IInv, CommittedIsReservations
<1>4. budget[Pool].committed <= PoolTotal
  <2> DEFINE f == [b \in Budgets |-> budget[b].committed + budget[b].leased]
  <2>1. \A b \in Budgets : f[b] \in Nat
    BY <1>1 DEF BudgetRow
  <2>2. budget[Pool].committed \in Nat /\ budget[Pool].committed <= f[Pool]
    BY <1>1 DEF BudgetRow
  <2>3. SumOver(Budgets, f) <= PoolTotal
    BY InvTree DEF TreeWithinPool
  <2> HIDE DEF f
  <2>4. f[Pool] <= SumOver(Budgets, f) /\ SumOver(Budgets, f) \in Nat
    BY <1>1, <2>1, SumMember, SumType
  <2> QED BY <1>1, <2>1, <2>2, <2>3, <2>4, LedgerConstants
<1> QED BY <1>2, <1>3, <1>4 DEF BillIsSum

\* The sums of module Charging are the ledger's.
LEMMA SameSums == \A f : Paying!SumOver(Reservations, f) = SumOver(Reservations, f)
BY Zenon DEF Paying!SumOver, Paying!Units, Paying!Cardinality, SumOver, Units, Cardinality

\* Ids are given out and tools charge in two steps; all others leave both alone.
LEMMA HistoryMoves ==
    ASSUME [ProtocolNext]_protocolVars
    PROVE  \/ UNCHANGED history
           \/ \E r \in Reservations, a \in Amounts : Request(r, a)
           \/ \E res \in inflight : \E actual \in {res.amount} \cup Actuals :
                 RequestSettled(res, actual)
BY DEF ProtocolNext, AcquireAnswered, AcquireLost, AcquireRefused, ReleaseCalled,
   ReleaseReturns, SinkAnswers, SinkFails, RequestRefused, RequestFailed, Renew,
   QueueTurns, ShutdownBegins, QueueCloses, PoolStops, PoolCloses, PepRestarts,
   OtherPep, Reaper, TimePasses, protocolVars

\* A step charges requests that had not been, or leaves the bill alone.
LEMMA StepImplementsCharging ==
    /\ IInv /\ PepInv /\ ChargeInv /\ BillIsSum
    /\ ChargedAtMostOnce' /\ BillIsSum'
    /\ [ProtocolNext]_protocolVars
    => [Paying!Next]_(Paying!chargingVars)
<1> SUFFICES ASSUME IInv, PepInv, ChargeInv, BillIsSum, ChargedAtMostOnce', BillIsSum',
                    [ProtocolNext]_protocolVars
             PROVE  [Paying!Next]_(Paying!chargingVars)
  OBVIOUS
<1>1. ASSUME NEW r \in Reservations, NEW a \in Amounts, Request(r, a)
      PROVE  Paying!Issue(r)
  BY <1>1 DEF Request, Local, ledgerVars, Paying!Issue
<1>2. ASSUME NEW res \in inflight, NEW actual \in {res.amount} \cup Actuals,
             RequestSettled(res, actual)
      PROVE  res.id \in Reservations /\ actual \in Reports /\ Paying!Spend(res.id, actual)
  <2>1. /\ res.id \in Reservations /\ actual \in Reports
        /\ res.id \in issued /\ spent[res.id] = 0
    BY AmountsAreReports DEF PepInv, PoolKnown, InflightKnown, P!PoolTypeOK,
       P!Reservation, ChargeInv, InflightUncharged
  <2>2. reservation[res.id].amount = 0
    BY <2>1 DEF ChargeInv, ChargedAtMostOnce, IInv, TypeOK, ReservationRow
  <2>3. spent' = [spent EXCEPT ![res.id] = actual] /\ UNCHANGED <<budget, reservation, issued>>
    BY <1>2 DEF RequestSettled, Local, ledgerVars
  <2> QED BY <2>1, <2>2, <2>3 DEF Paying!Spend
<1>3. CASE UNCHANGED history
  <2>1. UNCHANGED <<issued, spent>>
    BY <1>3 DEF history
  <2>2. CASE Charges' = Charges
    <3>1. budget'[Pool].committed = budget[Pool].committed
      BY <2>2 DEF BillIsSum
    <3> QED BY <2>1, <2>2, <3>1 DEF Paying!chargingVars, Charges
  <2>3. CASE Charges' # Charges
    <3>1. \A r \in Reservations : reservation[r].amount > 0 => reservation'[r] = reservation[r]
      BY StepImplements, HistoryKept DEF HistoryStep, vars
    <3>2. \A r \in Reservations :
             /\ reservation[r].amount \in Nat
             /\ reservation'[r].amount <= spent[r]
      BY <2>1 DEF IInv, TypeOK, ReservationRow, ChargedAtMostOnce
    <3>3. \A r \in Reservations :
             Charges'[r] # Charges[r] => Charges[r] = 0 /\ Charges'[r] <= spent[r]
      BY <3>1, <3>2 DEF Charges
    <3>4. /\ Charges' \in [Reservations -> Nat]
          /\ budget'[Pool].committed = Paying!SumOver(Reservations, Charges')
          /\ budget'[Pool].committed <= PoolTotal
      BY SameSums DEF BillIsSum
    <3>5. Paying!Charge
      BY <2>1, <2>3, <3>3, <3>4, Zenon DEF Paying!Charge, Charges
    <3> QED BY <3>5 DEF Paying!Next
  <2> QED BY <2>2, <2>3
<1> QED BY <1>1, <1>2, <1>3, HistoryMoves DEF Paying!Next

\* Over any number of requests, losses, replays, crashes and late answers, what the
\* pool has committed is the sum of one charge for each request that has one, made
\* after its tool charged, never for more and never changed.
THEOREM ProtocolImplementsCharging == ProtocolSpec => ImplementsCharging
<1>1. ProtocolInit => ChargeInv /\ OnlyPool /\ Paying!Init
  <2> SUFFICES ASSUME ProtocolInit PROVE ChargeInv /\ OnlyPool /\ Paying!Init
    OBVIOUS
  <2>1. ChargeInv
    BY ChargeStart
  <2>2. OnlyPool
    BY DEF ProtocolInit, Init, NoLeaseRow, OnlyPool
  <2>3. /\ budget[Pool].committed = 0
        /\ [r \in Reservations |-> reservation[r].amount] = [r \in Reservations |-> 0]
    BY LedgerConstants DEF ProtocolInit, Init, EmptyBudget, NoReservationRow
  <2> QED BY <2>1, <2>2, <2>3 DEF ProtocolInit, Paying!Init
<1>2. IInv /\ PepInv /\ ChargeInv /\ [ProtocolNext]_protocolVars => ChargeInv'
  BY ChargeStep
<1>3. IInv /\ PepInv /\ OnlyPool /\ [ProtocolNext]_protocolVars => OnlyPool'
  BY OnlyPoolStep
<1>4. ChargeInv => ChargedAtMostOnce
  BY DEF ChargeInv
<1> QED BY <1>1, <1>2, <1>3, <1>4, BillAdds, StepImplementsCharging, ProtocolInductive,
        PTL DEF ProtocolSpec, ImplementsCharging, Paying!Spec

-----------------------------------------------------------------------------
(* The protocol implements the pool against any ledger *)

\* The leases the pool knows of have rows, so a grant is of another one.
InflightHaveRows == \A res \in inflight : lease[res.lease].state # "none"
AskingForNone == topup.pc = "acquire" => topup.old = NoLease
FreshInv == HeldHasRow /\ InflightHaveRows /\ AskingForNone

LEMMA FreshStep ==
    ASSUME IInv, PepInv, FreshInv, [ProtocolNext]_protocolVars PROVE FreshInv'
<1>1. /\ held \in P!LocalLease /\ topup \in P!Task /\ inflight \subseteq P!Reservation
      /\ HeldHasRow /\ InflightHaveRows /\ AskingForNone
  BY DEF PepInv, PoolKnown, P!PoolTypeOK, FreshInv
<1>2. \A l \in Leases : lease[l].state # "none" => lease'[l].state # "none"
  BY StepImplements, RowsKept
<1>3. ASSUME held'.lease = held.lease, inflight' \subseteq inflight,
             \/ topup'.pc = topup.pc /\ topup'.old = topup.old
             \/ topup'.pc # "acquire"
             \/ topup' = P!Acquiring
      PROVE  FreshInv'
  <2>1. HeldHasRow' /\ InflightHaveRows'
    BY <1>1, <1>2, <1>3 DEF HeldHasRow, InflightHaveRows, P!Reservation
  <2>2. AskingForNone'
    BY <1>1, <1>3 DEF AskingForNone, P!Acquiring
  <2> QED BY <2>1, <2>2 DEF FreshInv
<1>4. ASSUME NEW l \in Leases, AcquireAnswered(l) PROVE FreshInv'
  <2>1. /\ lease'[l].state = "active" /\ held'.lease = l /\ UNCHANGED inflight
        /\ topup'.pc # "acquire"
    BY <1>4 DEF AcquireAnswered, AcquireOwn, Acquire, P!AcquireGranted, P!Idle,
       P!Retiring, IInv, TypeOK
  <2> QED BY <1>1, <1>2, <2>1 DEF FreshInv, HeldHasRow, InflightHaveRows,
          AskingForNone, P!Reservation
<1>5. ASSUME NEW r \in Reservations, NEW a \in Amounts, Request(r, a) PROVE FreshInv'
  <2>1. held.lease \in Leases
    BY <1>5 DEF Request, P!Authorize, P!Covers, P!NoHeld, PepInv, PoolKnown, HeldKnown
  <2>2. /\ held'.lease = held.lease
        /\ inflight' = inflight \cup
                         {[id |-> r, lease |-> held.lease, amount |-> a]}
        /\ topup' = topup \/ topup' = P!Acquiring
    BY <1>1, <1>5 DEF Request, P!Authorize, P!Schedule, P!LocalLease
  <2>3. InflightHaveRows'
    BY <1>1, <1>2, <2>1, <2>2 DEF HeldHasRow, InflightHaveRows, P!Reservation
  <2>4. HeldHasRow' /\ AskingForNone'
    BY <1>1, <1>2, <2>2 DEF HeldHasRow, AskingForNone, P!Acquiring
  <2> QED BY <2>3, <2>4 DEF FreshInv
<1>6. ASSUME NEW res \in inflight, NEW actual \in {res.amount} \cup Actuals,
             RequestSettled(res, actual)
      PROVE  FreshInv'
  <2>1. UNCHANGED topup /\ inflight' \subseteq inflight /\ held'.lease = held.lease
    BY <1>1, <1>6 DEF RequestSettled, P!Settle, P!LocalLease
  <2> QED BY <1>3, <2>1
<1>7. CASE PepRestarts
  BY <1>7, AmountsAreReports DEF PepRestarts, P!Restart, P!NoHeld, P!Acquiring,
     FreshInv, HeldHasRow, InflightHaveRows, AskingForNone
<1>8. CASE PoolCloses
  <2>1. /\ UNCHANGED inflight /\ held'.lease = held.lease
        /\ topup'.pc # "acquire"
    BY <1>1, <1>8 DEF PoolCloses, P!CloseHeld, P!Retiring, P!LocalLease
  <2> QED BY <1>3, <2>1
<1>9. CASE TimePasses
  <2>1. /\ UNCHANGED inflight /\ held'.lease = held.lease
        /\ topup'.pc = topup.pc /\ topup'.old = topup.old
    BY <1>1, <1>9 DEF TimePasses, P!PepTick, poolVars, P!LocalLease, P!Task
  <2> QED BY <1>3, <2>1
<1>10. CASE (\E a \in Amounts : RequestRefused(a)) \/ Renew
  <2>1. UNCHANGED <<held, inflight>> /\ (topup' = topup \/ topup' = P!Acquiring)
    BY <1>10 DEF RequestRefused, P!Refuse, P!AuthorizeUnrecorded, Renew,
       P!RenewSweep, P!Schedule
  <2> QED BY <1>3, <2>1
<1>11. CASE \/ \E l \in Leases : AcquireLost(l)
            \/ AcquireRefused \/ ReleaseCalled \/ ReleaseReturns
  <2>1. UNCHANGED <<held, inflight>> /\ topup'.pc # "acquire"
    BY <1>1, <1>11 DEF AcquireLost, AcquireRefused, P!AcquireFailed, P!Idle,
       ReleaseCalled, P!ReleaseCall, ReleaseReturns, P!ReleaseEnds, P!Task
  <2> QED BY <1>3, <2>1
<1>12. CASE \/ SinkAnswers \/ SinkFails \/ QueueTurns \/ QueueCloses \/ OtherPep
            \/ Reaper \/ ShutdownBegins \/ PoolStops
            \/ \E res \in inflight : RequestFailed(res)
            \/ UNCHANGED protocolVars
  <2>1. UNCHANGED <<held, topup>> /\ inflight' \subseteq inflight
    BY <1>12 DEF SinkAnswers, SinkFails, QueueTurns, QueueCloses, OtherPep, Reaper,
       ShutdownBegins, P!Shutdown, PoolStops, P!StopRenewer, RequestFailed,
       P!UpstreamFails, protocolVars, poolVars
  <2> QED BY <1>3, <2>1
<1> QED BY <1>4, <1>5, <1>6, <1>7, <1>8, <1>9, <1>10, <1>11, <1>12 DEF ProtocolNext

\* The ledger grants a lease the pool does not know, of at most what it asked for.
LEMMA GrantIsFresh ==
    ASSUME IInv, PepInv, FreshInv, NEW l \in Leases, AcquireAnswered(l)
    PROVE  P!Granted
<1>1. /\ lease[l].state = "none" /\ P!AcquireGranted(l, lease'[l].granted)
      /\ lease'[l].granted = LesserOf(LeaseSize, Available(Pool))
      /\ LesserOf(LeaseSize, Available(Pool)) > 0
  BY DEF AcquireAnswered, AcquireOwn, Acquire, IInv, TypeOK
<1>2. LeaseSize \in Nat /\ Available(Pool) \in Int
  BY ProtocolConstants, LedgerConstants DEF Available, IInv, TypeOK, BudgetRow
<1>3. lease'[l].granted \in 1 .. LeaseSize
  BY <1>1, <1>2 DEF LesserOf
<1>4. topup.old = NoLease /\ NoLease # l
  BY <1>1, AmountsAreReports DEF P!AcquireGranted, FreshInv, AskingForNone
<1>5. l \in P!FreshLeases
  BY <1>1, <1>4 DEF P!FreshLeases, FreshInv, HeldHasRow, InflightHaveRows
<1> QED BY <1>1, <1>3, <1>5 DEF P!Granted

LEMMA StepImplementsPool ==
    ASSUME IInv, PepInv, FreshInv, [ProtocolNext]_protocolVars
    PROVE  [P!PoolNext]_(P!poolVars)
<1>1. ASSUME NEW l \in Leases, AcquireAnswered(l) PROVE P!PoolNext
  BY <1>1, GrantIsFresh DEF P!PoolNext
<1>2. CASE \/ \E l \in Leases : AcquireLost(l)
           \/ AcquireRefused \/ ReleaseCalled \/ ReleaseReturns
           \/ Renew \/ ShutdownBegins \/ PoolStops \/ PoolCloses \/ PepRestarts
  BY <1>2 DEF AcquireLost, AcquireRefused, ReleaseCalled, ReleaseReturns, Renew,
     ShutdownBegins, PoolStops, PoolCloses, PepRestarts, P!PoolNext
<1>3. CASE \/ \E r \in Reservations, a \in Amounts : Request(r, a)
           \/ \E a \in Amounts : RequestRefused(a)
           \/ \E res \in inflight : \E actual \in {res.amount} \cup Actuals :
                 RequestSettled(res, actual)
           \/ \E res \in inflight : RequestFailed(res)
  BY <1>3 DEF Request, RequestRefused, RequestSettled, RequestFailed, P!PoolNext
<1>4. CASE TimePasses
  BY <1>4 DEF TimePasses, P!PoolNext, poolVars, P!poolVars
<1>5. CASE \/ SinkAnswers \/ SinkFails \/ QueueTurns \/ QueueCloses \/ OtherPep
           \/ Reaper \/ UNCHANGED protocolVars
  BY <1>5 DEF SinkAnswers, SinkFails, QueueTurns, QueueCloses, OtherPep, Reaper,
     protocolVars, poolVars, P!poolVars
<1> QED BY <1>1, <1>2, <1>3, <1>4, <1>5 DEF ProtocolNext

\* Joined to the ledger, the pool does nothing that module LeasePool does not let
\* it do against an arbitrary one: every grant is of a lease it did not know.
THEOREM ProtocolImplementsPool == ProtocolSpec => P!PoolSpec
<1>1. ProtocolInit => P!PoolInit /\ FreshInv
  BY AmountsAreReports DEF ProtocolInit, P!PoolInit, P!NoHeld, P!Acquiring, FreshInv,
     HeldHasRow, InflightHaveRows, AskingForNone
<1>2. IInv /\ PepInv /\ FreshInv /\ [ProtocolNext]_protocolVars => FreshInv'
  BY FreshStep
<1>3. IInv /\ PepInv /\ FreshInv /\ [ProtocolNext]_protocolVars
         => [P!PoolNext]_(P!poolVars)
  BY StepImplementsPool
<1> QED BY <1>1, <1>2, <1>3, ProtocolInductive, PTL DEF ProtocolSpec, P!PoolSpec
==============================================================================
