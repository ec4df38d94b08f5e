------------------------------ MODULE PepProofs ------------------------------
(***************************************************************************)
(* Proofs about what a PEP keeps besides requests: the settlements it      *)
(* delivers (module SettlementDelivery), the revocations it is fed (module *)
(* Revocation), the budget it holds (module LeasePool) and the policy      *)
(* bundle it decides by (module PolicyCache), for any number of each.      *)
(***************************************************************************)
EXTENDS SettlementDelivery, Revocation, LeasePool, PolicyCache, SequenceTheorems, TokenProofs

-----------------------------------------------------------------------------
(* Settlements are delivered in order *)

DeliveryTypes ==
    /\ pending \in Seq(Settlements) /\ accepted \in Seq(Settlements)
    /\ sending \in Nat /\ sending <= Len(pending)
    /\ Len(pending) <= Len(accepted)

\* A settlement is offered once, so the queue takes it once, and the ledger is
\* told of nothing else.
OfferedOnce ==
    /\ \A i \in 1 .. Len(accepted) : accepted[i] \in offered
    /\ \A i, j \in 1 .. Len(accepted) : accepted[i] = accepted[j] => i = j
    /\ told \subseteq offered

\* The deque is the end of what was taken; what came before it was told.
QueueIsTheEnd ==
    \A i \in 1 .. Len(pending) : pending[i] = accepted[Popped + i]
PoppedIsTold == \A i \in 1 .. Popped : accepted[i] \in told
ToldIsPrefix ==
    \A i, j \in 1 .. Len(accepted) :
        i < j /\ accepted[j] \in told => accepted[i] \in told

DeliveryInv ==
    DeliveryTypes /\ OfferedOnce /\ QueueIsTheEnd /\ PoppedIsTold /\ ToldIsPrefix

\* A batch is a part of the queue.
LEMMA BatchIsPart ==
    ASSUME NEW q \in Seq(Settlements) PROVE BatchLen(q) \in 0 .. Len(q)
<1> DEFINE S == {n \in 1 .. Len(q) : /\ n <= BatchMax
                                     /\ \A i \in 1 .. n : q[i].lease = q[1].lease}
<1>1. Len(q) \in Nat /\ S \subseteq 1 .. Len(q)
  OBVIOUS
<1>2. IsFiniteSet(1 .. Len(q)) /\ Cardinality(1 .. Len(q)) = Len(q)
  <2>1. \A k \in Nat : IsFiniteSet(1 .. k) /\ Cardinality(1 .. k) = k
    <3> TAKE k \in Nat
    <3> QED BY FS_Interval
  <2> QED BY <1>1, <2>1
<1>3. BatchLen(q) = Cardinality(S)
  BY DEF BatchLen
<1> HIDE DEF S
<1>4. IsFiniteSet(S) /\ Cardinality(S) <= Len(q)
  BY <1>1, <1>2, FS_Subset
<1> QED BY <1>1, <1>3, <1>4, FS_CardinalityType

\* Whatever is sent next is a part of the queue.
LEMMA SendingFits ==
    ASSUME pending' \in Seq(Settlements),
           sending' \in {0, BatchLen(pending')}
    PROVE  sending' \in Nat /\ sending' <= Len(pending')
<1>1. BatchLen(pending') \in 0 .. Len(pending') /\ Len(pending') \in Nat
  BY BatchIsPart
<1> HIDE DEF BatchLen
<1> QED BY <1>1

\* The ledger learns of no more than the batch at the head of the queue.
LEMMA TellingStep ==
    ASSUME DeliveryInv, UNCHANGED <<offered, accepted>>,
           Commits \/ UNCHANGED told,
           \/ /\ pending' = pending
              /\ sending' \in {0, sending, BatchLen(pending')}
           \/ /\ pending' = SubSeq(pending, sending + 1, Len(pending))
              /\ Commits
              /\ sending' \in {0, BatchLen(pending')}
    PROVE  DeliveryInv'
<1> DEFINE n == Len(pending)
           m == Len(accepted)
           p == Popped
<1>1. /\ n \in Nat /\ m \in Nat /\ p \in Nat /\ n <= m /\ p = m - n
      /\ sending \in Nat /\ sending <= n
      /\ pending \in Seq(Settlements) /\ accepted \in Seq(Settlements)
  BY DEF DeliveryInv, DeliveryTypes, Popped
<1>2. \A i \in 1 .. sending : pending[i] = accepted[p + i] /\ p + i \in 1 .. m
  <2> TAKE i \in 1 .. sending
  <2>1. i \in 1 .. Len(pending) /\ p + i \in 1 .. m
    BY <1>1
  <2> QED BY <2>1 DEF DeliveryInv, QueueIsTheEnd
<1>3. told \subseteq told'
  BY DEF Commits
<1>4. \A x \in told' : x \in told \/ \E k \in 1 .. sending : x = accepted[p + k]
  BY <1>2 DEF Commits, Batch
<1>5. OfferedOnce'
  BY <1>2, <1>4 DEF DeliveryInv, OfferedOnce
<1>6. ToldIsPrefix'
  <2> SUFFICES ASSUME NEW i \in 1 .. m, NEW j \in 1 .. m, i < j, accepted[j] \in told'
               PROVE  accepted[i] \in told'
    BY DEF ToldIsPrefix
  <2>1. CASE accepted[j] \in told
    BY <1>3, <2>1 DEF DeliveryInv, ToldIsPrefix
  <2>2. CASE accepted[j] \notin told
    <3>1. PICK k \in 1 .. sending : accepted[j] = accepted[p + k]
      BY <1>4, <2>2
    <3>2. j = p + k
      BY <1>2, <3>1 DEF DeliveryInv, OfferedOnce
    <3>3. CASE i <= p
      BY <1>1, <1>3, <3>3 DEF DeliveryInv, PoppedIsTold
    <3>4. CASE ~ (i <= p)
      <4>1. i - p \in 1 .. sending /\ p + (i - p) = i
        BY <1>1, <3>2, <3>4
      <4>2. pending[i - p] = accepted[i]
        BY <1>2, <4>1
      <4>3. Commits
        BY <2>2
      <4> QED BY <4>1, <4>2, <4>3 DEF Commits, Batch
    <3> QED BY <3>3, <3>4
  <2> QED BY <2>1, <2>2
<1>7. CASE pending' = pending /\ sending' \in {0, sending, BatchLen(pending')}
  <2>1. QueueIsTheEnd' /\ PoppedIsTold'
    BY <1>3, <1>7 DEF DeliveryInv, QueueIsTheEnd, PoppedIsTold, Popped
  <2>2. DeliveryTypes'
    BY <1>1, <1>7, SendingFits DEF DeliveryInv, DeliveryTypes
  <2> QED BY <1>5, <1>6, <2>1, <2>2 DEF DeliveryInv
<1>8. CASE /\ pending' = SubSeq(pending, sending + 1, Len(pending))
           /\ Commits
           /\ sending' \in {0, BatchLen(pending')}
  <2>1. /\ pending' \in Seq(Settlements) /\ Len(pending') = n - sending
        /\ \A i \in 1 .. n - sending : pending'[i] = pending[sending + i]
    BY <1>1, <1>8
  <2>2. Popped' = p + sending
    BY <1>1, <2>1 DEF Popped
  <2>3. QueueIsTheEnd'
    <3> SUFFICES ASSUME NEW i \in 1 .. n - sending
                 PROVE  pending'[i] = accepted[(p + sending) + i]
      BY <2>1, <2>2 DEF QueueIsTheEnd
    <3>1. sending + i \in 1 .. n /\ p + (sending + i) = (p + sending) + i
      BY <1>1
    <3>2. pending[sending + i] = accepted[p + (sending + i)]
      BY <3>1 DEF DeliveryInv, QueueIsTheEnd
    <3> QED BY <2>1, <3>1, <3>2
  <2>4. PoppedIsTold'
    <3> SUFFICES ASSUME NEW i \in 1 .. p + sending PROVE accepted[i] \in told'
      BY <2>2 DEF PoppedIsTold
    <3>1. CASE i <= p
      BY <1>1, <1>3, <3>1 DEF DeliveryInv, PoppedIsTold
    <3>2. CASE ~ (i <= p)
      <4>1. i - p \in 1 .. sending /\ p + (i - p) = i
        BY <1>1, <3>2
      <4> QED BY <1>2, <1>8, <4>1 DEF Commits, Batch
    <3> QED BY <3>1, <3>2
  <2>5. sending' \in Nat /\ sending' <= Len(pending')
    BY <1>8, <2>1, SendingFits
  <2>6. DeliveryTypes'
    BY <1>1, <2>1, <2>5 DEF DeliveryTypes
  <2> QED BY <1>5, <1>6, <2>3, <2>4, <2>6 DEF DeliveryInv
<1> QED BY <1>7, <1>8

\* enqueue() of a settlement that was not offered before.
LEMMA QueuedStep ==
    ASSUME DeliveryInv, NEW s \in Settlements, Queued(s) PROVE DeliveryInv'
<1>1. /\ pending \in Seq(Settlements) /\ accepted \in Seq(Settlements)
      /\ Len(pending) \in Nat /\ Len(accepted) \in Nat /\ Len(pending) <= Len(accepted)
      /\ sending \in Nat /\ sending <= Len(pending)
      /\ s \notin offered /\ offered' = offered \cup {s}
      /\ UNCHANGED <<sending, told>>
  BY DEF DeliveryInv, DeliveryTypes, Queued, Enqueue
<1>2. CASE pending' = pending
  <2>1. accepted' = accepted
    BY <1>2 DEF Queued
  <2> QED BY <1>1, <1>2, <2>1 DEF DeliveryInv, DeliveryTypes, OfferedOnce,
          QueueIsTheEnd, PoppedIsTold, ToldIsPrefix, Popped
<1>3. CASE pending' = Append(pending, s)
  <2>1. pending' # pending
    BY <1>1, <1>3
  <2>2. accepted' = Append(accepted, s)
    BY <2>1 DEF Queued
  <2>3. /\ accepted' \in Seq(Settlements) /\ Len(accepted') = Len(accepted) + 1
        /\ accepted'[Len(accepted) + 1] = s
        /\ \A i \in 1 .. Len(accepted) : accepted'[i] = accepted[i]
    BY <1>1, <2>2
  <2>4. /\ pending' \in Seq(Settlements) /\ Len(pending') = Len(pending) + 1
        /\ pending'[Len(pending) + 1] = s
        /\ \A i \in 1 .. Len(pending) : pending'[i] = pending[i]
    BY <1>1, <1>3
  <2>5. Popped' = Popped /\ Popped \in Nat /\ Popped + Len(pending) = Len(accepted)
    BY <1>1, <2>3, <2>4 DEF Popped
  <2>6. DeliveryTypes'
    BY <1>1, <2>3, <2>4 DEF DeliveryTypes
  <2>7. OfferedOnce'
    <3>1. OfferedOnce
      BY DEF DeliveryInv
    <3>2. \A i \in 1 .. Len(accepted) : accepted'[i] \in offered /\ accepted'[i] # s
      BY <1>1, <2>3, <3>1 DEF OfferedOnce
    <3>3. \A i \in 1 .. Len(accepted') : i \in 1 .. Len(accepted) \/ i = Len(accepted) + 1
      BY <1>1, <2>3
    <3>4. ASSUME NEW i \in 1 .. Len(accepted'), NEW j \in 1 .. Len(accepted'),
                 accepted'[i] = accepted'[j]
          PROVE  i = j
      <4>1. i \in 1 .. Len(accepted) <=> j \in 1 .. Len(accepted)
        BY <2>3, <3>2, <3>3, <3>4
      <4>2. CASE i \in 1 .. Len(accepted)
        BY <2>3, <3>1, <3>4, <4>1, <4>2 DEF OfferedOnce
      <4> QED BY <3>3, <4>1, <4>2
    <3>5. \A i \in 1 .. Len(accepted') : accepted'[i] \in offered'
      BY <1>1, <2>3, <3>2, <3>3
    <3> QED BY <1>1, <3>1, <3>4, <3>5 DEF OfferedOnce
  <2>8. QueueIsTheEnd'
    <3> SUFFICES ASSUME NEW i \in 1 .. Len(pending) + 1
                 PROVE  pending'[i] = accepted'[Popped + i]
      BY <2>4, <2>5 DEF QueueIsTheEnd
    <3>1. CASE i \in 1 .. Len(pending)
      <4>1. Popped + i \in 1 .. Len(accepted)
        BY <1>1, <2>5, <3>1
      <4> QED BY <2>3, <2>4, <3>1, <4>1 DEF DeliveryInv, QueueIsTheEnd
    <3>2. CASE i = Len(pending) + 1
      <4>1. Popped + i = Len(accepted) + 1
        BY <1>1, <2>5, <3>2
      <4> QED BY <2>3, <2>4, <3>2, <4>1
    <3> QED BY <1>1, <3>1, <3>2
  <2>9. PoppedIsTold'
    <3> SUFFICES ASSUME NEW i \in 1 .. Popped PROVE accepted'[i] \in told
      BY <1>1, <2>5 DEF PoppedIsTold
    <3>1. i \in 1 .. Len(accepted)
      BY <1>1, <2>5
    <3> QED BY <2>3, <3>1 DEF DeliveryInv, PoppedIsTold
  <2>10. ToldIsPrefix'
    BY <1>1, <2>3, SMTT(30) DEF DeliveryInv, OfferedOnce, ToldIsPrefix
  <2> QED BY <2>6, <2>7, <2>8, <2>9, <2>10 DEF DeliveryInv
<1> QED BY <1>2, <1>3 DEF Queued, Enqueue

LEMMA DeliveryStep ==
    ASSUME DeliveryInv, [DeliveryNext]_deliveryVars PROVE DeliveryInv'
<1>1. ASSUME UNCHANGED <<offered, accepted, told, pending>>,
             sending' \in {0, sending, BatchLen(pending')}
      PROVE  DeliveryInv'
  BY <1>1, TellingStep
<1>2. ASSUME NEW w, FlushCall(w), UNCHANGED pending
      PROVE  sending' \in {0, sending, BatchLen(pending')}
  BY <1>2 DEF FlushCall
<1>3. ASSUME NEW rest, EndFlush(rest)
      PROVE  pending' = rest /\ sending' \in {0, BatchLen(pending')}
  BY <1>3, Zenon DEF EndFlush
<1>4. ASSUME NEW s \in Settlements, Queued(s) PROVE DeliveryInv'
  BY <1>4, QueuedStep
<1>5. ASSUME NEW d \in Drainers, Turns(DrainCall(d)) PROVE DeliveryInv'
  BY <1>1, <1>2, <1>5 DEF Turns, DrainCall, Drain
<1>6. CASE Turns(Close)
  BY <1>1, <1>2, <1>6 DEF Turns, Close, Drain
<1>7. CASE SinkAnswers
  <2>1. /\ sending > 0 /\ Commits /\ UNCHANGED <<offered, accepted>>
        /\ pending' = SubSeq(pending, sending + 1, Len(pending))
        /\ sending' \in {0, BatchLen(pending')}
    BY <1>3, <1>7 DEF SinkAnswers, Answered
  <2> QED BY <2>1, TellingStep
<1>8. CASE SinkFails
  <2>1. /\ Commits \/ UNCHANGED told
        /\ UNCHANGED <<offered, accepted>>
        /\ pending' = pending
        /\ sending' \in {0, BatchLen(pending')}
    BY <1>3, <1>8 DEF SinkFails, Unanswered
  <2> QED BY <2>1, TellingStep
<1>9. CASE RunnerCancelled
  <2>1. /\ Commits \/ UNCHANGED told
        /\ UNCHANGED <<offered, accepted, pending>> /\ sending' \in {0, sending}
    BY <1>9 DEF RunnerCancelled, CancelRunner
  <2> QED BY <2>1, TellingStep
<1>10. CASE Turns(RunTick)
  BY <1>1, <1>2, <1>10 DEF Turns, RunTick
<1>11. CASE Turns(Wake)
  BY <1>1, <1>11 DEF Turns, Wake
<1>12. CASE Turns(EmptyFlush)
  BY <1>1, <1>3, <1>12 DEF Turns, EmptyFlush
<1>13. CASE UNCHANGED deliveryVars
  BY <1>1, <1>13 DEF deliveryVars, queueVars
<1> QED BY <1>4, <1>5, <1>6, <1>7, <1>8, <1>9, <1>10, <1>11, <1>12, <1>13
        DEF DeliveryNext

\* Settlements reach the ledger in the order they were queued and none is passed
\* over, for any number of settlements, drains and failures and any batch size:
\* the batch at the head is popped only when the sink has answered for it.
THEOREM DeliveryNothingLost == DeliverySpec => []NothingLost
<1>1. DeliveryInit => DeliveryInv
  BY DEF DeliveryInit, QueueInit, DeliveryInv, DeliveryTypes, OfferedOnce,
     QueueIsTheEnd, PoppedIsTold, ToldIsPrefix, Popped
<1>2. DeliveryInv /\ [DeliveryNext]_deliveryVars => DeliveryInv'
  BY DeliveryStep
<1>3. DeliveryInv => NothingLost
  <2> SUFFICES ASSUME DeliveryInv PROVE NothingLost
    OBVIOUS
  <2>1. /\ pending \in Seq(Settlements) /\ accepted \in Seq(Settlements)
        /\ Len(pending) \in Nat /\ Len(accepted) \in Nat
        /\ Popped \in Nat /\ Popped + Len(pending) = Len(accepted)
    BY DEF DeliveryInv, DeliveryTypes, Popped
  <2> DEFINE end == SubSeq(accepted, Popped + 1, Len(accepted))
  <2>2. /\ end \in Seq(Settlements) /\ Len(end) = Len(pending)
        /\ \A i \in 1 .. Len(pending) : end[i] = accepted[Popped + i]
    BY <2>1
  <2>3. pending = end
    <3> HIDE DEF end
    <3>1. \A i \in 1 .. Len(pending) : pending[i] = end[i]
      BY <2>2 DEF DeliveryInv, QueueIsTheEnd
    <3> QED BY <2>1, <2>2, <3>1, SeqEqual
  <2>4. DOMAIN accepted = 1 .. Len(accepted)
    BY <2>1
  <2>5. \A i, j \in DOMAIN accepted :
           i < j /\ accepted[j] \in told => accepted[i] \in told
    BY <2>4 DEF DeliveryInv, ToldIsPrefix
  <2>6. Popped >= 0 /\ \A i \in 1 .. Popped : accepted[i] \in told
    BY <2>1 DEF DeliveryInv, PoppedIsTold
  <2> QED BY <2>3, <2>5, <2>6, Zenon DEF NothingLost
<1> QED BY <1>1, <1>2, <1>3, PTL DEF DeliverySpec

-----------------------------------------------------------------------------
(* A block that was denied stays denied *)

\* What a REVOKE under way may rely on: the row it inserts is not there, nobody
\* else inserts it, and what it publishes is committed.
CallsKnown ==
    \A t \in Revokers :
        /\ tx[t].pc = "insert" =>
              /\ tx[t].block \in Blocks /\ row[tx[t].block] = 0 /\ tx[t].seq # 0
              /\ \A u \in Revokers :
                    tx[u].pc = "insert" /\ tx[u].block = tx[t].block => u = t
        /\ tx[t].pc = "publish" =>
              tx[t].block \in Blocks /\ row[tx[t].block] # 0

\* Whatever reaches the PEP, by push or by pull, was committed before.
SeenIsCommitted == \A b \in channel \cup denied \cup pull.rows : row[b] # 0

\* A denied block that the set of the present process lacks is still ahead of its
\* cursor, and in the answer of a pull that has been served.
UnknownIsAhead ==
    /\ \A b \in denied : IsRevoked(b) \/ row[b] > since
    /\ pull.pc = "served" => \A b \in denied : IsRevoked(b) \/ b \in pull.rows

FeedInv ==
    RevocationTypeOK /\ CallsKnown /\ SeenIsCommitted /\ UnknownIsAhead /\ NoResurrection

\* What list_revocations answers.
LEMMA ServedRows ==
    ASSUME RevocationTypeOK, PullServed
    PROVE  /\ pull'.pc = "served" /\ pull'.rows = {b \in Blocks : row[b] > since}
           /\ pull'.age = pull.age /\ pull'.next \in Seqs
           /\ \A b \in Blocks : row[b] > since => row[b] <= pull'.next
           /\ pull'.next = since \/ \E b \in Blocks : pull'.next = row[b]
<1> DEFINE rows == {b \in Blocks : row[b] > since}
           S    == {since} \cup {row[b] : b \in rows}
<1>1. row \in [Blocks -> Seqs] /\ since \in Seqs /\ pull \in Pull /\ MaxSeq \in Nat
  BY RevocationConstants DEF RevocationTypeOK
<1>2. S \in SUBSET Nat /\ S # {} /\ \A x \in S : x <= MaxSeq
  BY <1>1 DEF Seqs
<1>3. pull' = [pull EXCEPT !.pc = "served", !.rows = rows, !.next = Max(S)]
  BY DEF PullServed
<1>4. /\ pull'.pc = "served" /\ pull'.rows = rows /\ pull'.age = pull.age
      /\ pull'.next = Max(S)
  <2> HIDE DEF rows, S
  <2> QED BY <1>1, <1>3 DEF Pull
<1>5. Max(S) \in S /\ \A x \in S : x <= Max(S)
  <2> HIDE DEF S
  <2> QED BY <1>1, <1>2, MaxIsMaximal
<1> HIDE DEF S
<1>6. pull'.next \in S /\ \A x \in S : x <= pull'.next
  BY <1>4, <1>5
<1> QED BY <1>1, <1>4, <1>6 DEF S

LEMMA FeedInsert ==
    ASSUME FeedInv, NEW t \in Revokers, NEW b \in Blocks, RevokeInsert(t, b)
    PROVE  FeedInv'
<1>1. /\ row \in [Blocks -> Seqs] /\ nextSeq \in 1 .. MaxSeq + 1
      /\ tx \in [Revokers -> Call] /\ MaxSeq \in Nat
  BY RevocationConstants DEF FeedInv, RevocationTypeOK
<1>2. /\ nextSeq <= MaxSeq /\ nextSeq' = nextSeq + 1
      /\ UNCHANGED <<row, rowAge, channel, listening, started, setVars, pull, denied>>
      /\ \A u \in Revokers \ {t} : tx'[u] = tx[u]
      /\ tx'[t] = IF row[b] = 0 THEN [pc |-> "insert", block |-> b, seq |-> nextSeq]
                               ELSE [pc |-> "publish", block |-> b, seq |-> row[b]]
      /\ tx' \in [Revokers -> Call]
  BY <1>1 DEF RevokeInsert, Call, Seqs
<1>3. RevocationTypeOK'
  BY <1>1, <1>2 DEF FeedInv, RevocationTypeOK, setVars
<1>4. CallsKnown'
  <2>1. \A u \in Revokers : tx[u].pc = "insert" => tx[u].block # b
    BY DEF RevokeInsert
  <2>2. CASE row[b] = 0
    BY <1>1, <1>2, <2>1, <2>2 DEF FeedInv, CallsKnown
  <2>3. CASE row[b] # 0
    BY <1>1, <1>2, <2>3 DEF FeedInv, CallsKnown
  <2> QED BY <2>2, <2>3
<1>5. SeenIsCommitted' /\ UnknownIsAhead' /\ NoResurrection'
  BY <1>2 DEF FeedInv, SeenIsCommitted, UnknownIsAhead, NoResurrection, Answers,
     IsRevoked, setVars
<1> QED BY <1>3, <1>4, <1>5 DEF FeedInv

\* A row is committed once: it was not there, so no block that has reached the
\* PEP changes its seq.
LEMMA FeedCommit ==
    ASSUME FeedInv, NEW t \in Revokers, RevokeCommit(t) PROVE FeedInv'
<1> DEFINE b == tx[t].block
<1>1. /\ row \in [Blocks -> Seqs] /\ tx \in [Revokers -> Call]
      /\ rowAge \in [Blocks -> 0 .. Window + 1] /\ Window \in Nat
  BY RevocationConstants DEF FeedInv, RevocationTypeOK, Window
<1>2. tx[t].pc = "insert" /\ b \in Blocks /\ row[b] = 0 /\ tx[t].seq # 0
      /\ tx[t].seq \in Seqs
  BY <1>1 DEF RevokeCommit, FeedInv, CallsKnown, Call
<1>3. /\ \A c \in Blocks \ {b} : row'[c] = row[c]
      /\ row'[b] = tx[t].seq /\ row' \in [Blocks -> Seqs]
      /\ rowAge' \in [Blocks -> 0 .. Window + 1]
      /\ tx' \in [Revokers -> Call]
      /\ tx'[t] = [tx[t] EXCEPT !.pc = "publish"]
      /\ \A u \in Revokers \ {t} : tx'[u] = tx[u]
      /\ UNCHANGED <<nextSeq, channel, listening, started, setVars, pull, denied>>
  BY <1>1, <1>2 DEF RevokeCommit, Call
<1>4. RevocationTypeOK'
  BY <1>3 DEF FeedInv, RevocationTypeOK, setVars
<1>5. CallsKnown'
  <2>1. tx'[t].pc = "publish" /\ tx'[t].block = b
    BY <1>1, <1>3 DEF Call
  <2>2. \A u \in Revokers : tx[u].pc = "insert" /\ tx[u].block = b => u = t
    BY <1>2 DEF FeedInv, CallsKnown
  <2> HIDE DEF b
  <2>3. row'[b] # 0 /\ b \in Blocks
    BY <1>2, <1>3
  <2> SUFFICES ASSUME NEW u \in Revokers
               PROVE  /\ tx'[u].pc = "insert" =>
                            /\ tx'[u].block \in Blocks /\ row'[tx'[u].block] = 0
                            /\ tx'[u].seq # 0
                            /\ \A v \in Revokers :
                                  tx'[v].pc = "insert" /\ tx'[v].block = tx'[u].block
                                     => v = u
                      /\ tx'[u].pc = "publish" =>
                            tx'[u].block \in Blocks /\ row'[tx'[u].block] # 0
    BY DEF CallsKnown
  <2>4. CASE u = t
    BY <2>1, <2>3, <2>4
  <2>5. CASE u # t
    <3>1. tx'[u] = tx[u] /\ CallsKnown
      BY <1>3, <2>5 DEF FeedInv
    <3>2. CASE tx[u].pc = "insert"
      <4>1. /\ tx[u].block \in Blocks \ {b} /\ row[tx[u].block] = 0 /\ tx[u].seq # 0
            /\ \A v \in Revokers :
                  tx[v].pc = "insert" /\ tx[v].block = tx[u].block => v = u
        BY <2>2, <2>5, <3>1, <3>2 DEF CallsKnown
      <4> QED BY <1>3, <2>1, <3>1, <3>2, <4>1
    <3>3. CASE tx[u].pc = "publish"
      BY <1>3, <2>3, <3>1, <3>3 DEF CallsKnown
    <3> QED BY <3>1, <3>2, <3>3
  <2> QED BY <2>4, <2>5
<1>6. SeenIsCommitted'
  BY <1>2, <1>3 DEF FeedInv, SeenIsCommitted, RevocationTypeOK, Pull
<1>7. \A c \in denied : row'[c] = row[c]
  BY <1>2, <1>3 DEF FeedInv, SeenIsCommitted, RevocationTypeOK
<1>8. UnknownIsAhead' /\ NoResurrection'
  BY <1>3, <1>7 DEF FeedInv, UnknownIsAhead, NoResurrection, Answers, IsRevoked, setVars
<1> QED BY <1>4, <1>5, <1>6, <1>8 DEF FeedInv

\* A REVOKE ends, with or without a push.
LEMMA FeedEnds ==
    ASSUME FeedInv, NEW t \in Revokers, RevokeAborts(t) \/ Publish(t) \/ PublishFails(t)
    PROVE  FeedInv'
<1>1. tx \in [Revokers -> Call] /\ channel \subseteq Blocks
  BY DEF FeedInv, RevocationTypeOK
<1>2. /\ UNCHANGED <<row, nextSeq, rowAge, listening, started, setVars, pull, denied>>
      /\ tx' = [tx EXCEPT ![t] = NoCall]
      /\ \/ channel' = channel
         \/ tx[t].pc = "publish" /\ channel' = channel \cup {tx[t].block}
  BY DEF RevokeAborts, Publish, PublishFails, Ended
<1>3. /\ tx' \in [Revokers -> Call] /\ tx'[t] = NoCall
      /\ \A u \in Revokers \ {t} : tx'[u] = tx[u]
  BY <1>1, <1>2, RevocationConstants DEF NoCall, Call, Seqs
<1>4. \A b \in channel' : b \in Blocks /\ row[b] # 0
  BY <1>1, <1>2 DEF FeedInv, CallsKnown, SeenIsCommitted
<1>5. RevocationTypeOK'
  BY <1>2, <1>3, <1>4 DEF FeedInv, RevocationTypeOK, setVars
<1>6. CallsKnown'
  BY <1>2, <1>3 DEF FeedInv, CallsKnown, NoCall
<1>7. SeenIsCommitted' /\ UnknownIsAhead' /\ NoResurrection'
  BY <1>2, <1>4 DEF FeedInv, SeenIsCommitted, UnknownIsAhead, NoResurrection, Answers,
     IsRevoked, setVars
<1> QED BY <1>5, <1>6, <1>7 DEF FeedInv

\* The pull: called, served, answered, failed.
LEMMA FeedPull ==
    ASSUME FeedInv, PullCalled \/ PullServed \/ PullAnswered \/ PullFails
    PROVE  FeedInv'
<1>1. /\ row \in [Blocks -> Seqs] /\ pull \in Pull /\ since \in Seqs
      /\ revoked \subseteq Blocks /\ bloom \subseteq Blocks /\ denied \subseteq Blocks
      /\ MaxSeq \in Nat /\ CallTimeout \in Nat /\ StalenessLimit \in Nat
  BY RevocationConstants DEF FeedInv, RevocationTypeOK
<1>2. UNCHANGED <<row, nextSeq, tx, rowAge, channel, listening>> /\ CallsKnown'
  BY DEF PullCalled, PullServed, PullAnswered, PullFails, tableVars, FeedInv, CallsKnown
<1>3. NoPull \in Pull /\ PullSent \in Pull /\ NoPull.rows = {} /\ PullSent.rows = {}
      /\ NoPull.pc = "idle" /\ PullSent.pc = "sent"
  BY <1>1 DEF NoPull, PullSent, Pull, Seqs
<1>4. CASE PullCalled \/ PullFails
  <2>1. /\ UNCHANGED <<setVars, denied>> /\ started' \in BOOLEAN
        /\ pull' = NoPull \/ pull' = PullSent
    BY <1>4 DEF PullCalled, PullFails, FeedInv, RevocationTypeOK
  <2>2. RevocationTypeOK'
    BY <1>2, <1>3, <2>1 DEF FeedInv, RevocationTypeOK, setVars
  <2>3. SeenIsCommitted' /\ UnknownIsAhead' /\ NoResurrection'
    BY <1>2, <1>3, <2>1 DEF FeedInv, SeenIsCommitted, UnknownIsAhead, NoResurrection,
       Answers, IsRevoked, setVars
  <2> QED BY <1>2, <2>2, <2>3 DEF FeedInv
<1>5. CASE PullServed
  <2>1. /\ pull'.pc = "served" /\ pull'.rows = {b \in Blocks : row[b] > since}
        /\ pull'.age = pull.age /\ pull'.next \in Seqs
    BY <1>5, ServedRows DEF FeedInv
  <2>2. pull' \in Pull
    <3>1. pull' = [pull EXCEPT !.pc = "served", !.rows = pull'.rows, !.next = pull'.next]
      <4>1. PICK R, N : pull' = [pull EXCEPT !.pc = "served", !.rows = R, !.next = N]
        BY <1>5 DEF PullServed
      <4> QED BY <1>1, <4>1 DEF Pull
    <3> DEFINE R == pull'.rows
               N == pull'.next
    <3>2. R \in SUBSET Blocks /\ N \in Seqs
      BY <2>1
    <3> HIDE DEF R, N
    <3>3. pull' = [pull EXCEPT !.pc = "served", !.rows = R, !.next = N]
      BY <3>1 DEF R, N
    <3> QED BY <1>1, <3>2, <3>3 DEF Pull
  <2>3. UNCHANGED <<setVars, started, denied>>
    BY <1>5 DEF PullServed
  <2>4. RevocationTypeOK'
    BY <1>2, <2>2, <2>3 DEF FeedInv, RevocationTypeOK, setVars
  <2>5. SeenIsCommitted'
    BY <1>1, <1>2, <2>1, <2>3 DEF FeedInv, SeenIsCommitted, Seqs
  <2>6. UnknownIsAhead' /\ NoResurrection'
    BY <1>1, <1>2, <2>1, <2>3 DEF FeedInv, UnknownIsAhead, NoResurrection, Answers,
       IsRevoked, setVars
  <2> QED BY <1>2, <2>4, <2>5, <2>6 DEF FeedInv
<1>6. CASE PullAnswered
  <2>1. /\ pull.pc = "served" /\ pull.rows \subseteq Blocks /\ pull.next \in Seqs
        /\ revoked' = revoked \cup pull.rows /\ bloom' = bloom \cup pull.rows
        /\ since' = pull.next /\ pullAge' = 0
        /\ pull' = NoPull /\ started' = TRUE
        /\ denied' = denied \cup pull.rows
    BY <1>1, <1>6 DEF PullAnswered, Pull
  <2>2. RevocationTypeOK'
    BY <1>1, <1>2, <1>3, <2>1 DEF FeedInv, RevocationTypeOK
  <2>3. SeenIsCommitted'
    BY <1>2, <1>3, <2>1 DEF FeedInv, SeenIsCommitted
  <2>4. \A b \in denied' : IsRevoked(b)'
    BY <2>1 DEF FeedInv, UnknownIsAhead, IsRevoked
  <2>5. UnknownIsAhead' /\ NoResurrection'
    BY <1>3, <2>1, <2>4 DEF UnknownIsAhead, NoResurrection
  <2> QED BY <1>2, <2>2, <2>3, <2>5 DEF FeedInv
<1> QED BY <1>4, <1>5, <1>6

\* The subscription comes and goes, pushes are handled, the PEP restarts, time
\* passes.
LEMMA FeedLocal ==
    ASSUME FeedInv, \/ Subscribe \/ ConnectionDrops \/ PepRestarts \/ TimePasses
                    \/ \E b \in Blocks : HandlePush(b)
                    \/ UNCHANGED revocationVars
    PROVE  FeedInv'
<1>1. /\ row \in [Blocks -> Seqs] /\ pull \in Pull /\ since \in Seqs
      /\ pullAge \in 0 .. StalenessLimit /\ denied \subseteq Blocks
      /\ rowAge \in [Blocks -> 0 .. Window + 1]
      /\ MaxSeq \in Nat /\ CallTimeout \in Nat /\ StalenessLimit \in Nat
      /\ StalenessLimit > 0 /\ Window \in Nat
  BY RevocationConstants DEF FeedInv, RevocationTypeOK, Window
<1>2. UNCHANGED <<row, nextSeq, tx>> /\ CallsKnown'
  BY DEF Subscribe, ConnectionDrops, PepRestarts, TimePasses, HandlePush, tableVars,
     revocationVars, FeedInv, CallsKnown
<1>3. CASE Subscribe \/ ConnectionDrops \/ UNCHANGED revocationVars
  <2>1. /\ UNCHANGED <<rowAge, setVars, pull, denied, started>>
        /\ channel' \subseteq channel /\ listening' \in BOOLEAN
    BY <1>3 DEF Subscribe, ConnectionDrops, revocationVars, tableVars, setVars, FeedInv,
       RevocationTypeOK
  <2>2. RevocationTypeOK'
    BY <1>2, <2>1 DEF FeedInv, RevocationTypeOK, setVars
  <2>3. SeenIsCommitted' /\ UnknownIsAhead' /\ NoResurrection'
    BY <1>2, <2>1 DEF FeedInv, SeenIsCommitted, UnknownIsAhead, NoResurrection,
       Answers, IsRevoked, setVars
  <2> QED BY <1>2, <2>2, <2>3 DEF FeedInv
<1>4. ASSUME NEW b \in Blocks, HandlePush(b) PROVE FeedInv'
  <2>1. /\ b \in channel /\ channel' = channel \ {b}
        /\ revoked' = revoked \cup {b} /\ bloom' = bloom \cup {b}
        /\ denied' = denied \cup {b}
        /\ UNCHANGED <<rowAge, listening, started, since, pullAge, pull>>
    BY <1>4 DEF HandlePush, tableVars
  <2>2. RevocationTypeOK'
    BY <1>2, <2>1 DEF FeedInv, RevocationTypeOK
  <2>3. SeenIsCommitted' /\ UnknownIsAhead' /\ NoResurrection'
    BY <1>2, <2>1 DEF FeedInv, SeenIsCommitted, UnknownIsAhead, NoResurrection,
       Answers, IsRevoked
  <2> QED BY <1>2, <2>2, <2>3 DEF FeedInv
<1>5. CASE PepRestarts
  <2>1. /\ revoked' = {} /\ bloom' = {} /\ since' = 0 /\ pullAge' = StalenessLimit
        /\ listening' = FALSE /\ channel' = {} /\ started' = FALSE
        /\ pull' = PullSent /\ UNCHANGED <<rowAge, denied>>
    BY <1>5 DEF PepRestarts, ColdStart, tableVars
  <2>2. PullSent \in Pull /\ PullSent.rows = {} /\ PullSent.pc = "sent"
    BY <1>1 DEF NoPull, PullSent, Pull, Seqs
  <2>3. RevocationTypeOK'
    <3>1. since' \in Seqs /\ pullAge' \in 0 .. StalenessLimit
      BY <1>1, <2>1 DEF Seqs
    <3>2. /\ row' \in [Blocks -> Seqs] /\ nextSeq' \in 1 .. MaxSeq + 1
          /\ tx' \in [Revokers -> Call]
          /\ rowAge' \in [Blocks -> 0 .. Window + 1] /\ denied' \subseteq Blocks
      BY <1>2, <2>1 DEF FeedInv, RevocationTypeOK
    <3>3. /\ channel' \subseteq Blocks /\ listening' \in BOOLEAN /\ started' \in BOOLEAN
          /\ revoked' \subseteq Blocks /\ bloom' \subseteq Blocks /\ pull' \in Pull
      BY <2>1, <2>2
    <3> QED BY <3>1, <3>2, <3>3 DEF RevocationTypeOK
  <2>4. SeenIsCommitted'
    BY <1>2, <2>1, <2>2 DEF FeedInv, SeenIsCommitted
  <2>5. UnknownIsAhead'
    BY <1>1, <1>2, <2>1, <2>2 DEF FeedInv, SeenIsCommitted, UnknownIsAhead, Seqs
  <2>6. NoResurrection'
    BY <1>1, <2>1 DEF NoResurrection, Answers
  <2> QED BY <1>2, <2>3, <2>4, <2>5, <2>6 DEF FeedInv
<1>6. CASE TimePasses
  <2>1. /\ UNCHANGED <<channel, listening, started, revoked, bloom, since, denied>>
        /\ pullAge' = Older(pullAge, StalenessLimit)
        /\ rowAge' = [b \in Blocks |-> IF row[b] = 0 THEN 0
                                       ELSE Older(rowAge[b], Window + 1)]
        /\ pull' = [pull EXCEPT !.age = IF pull.pc = "idle" THEN 0 ELSE @ + 1]
        /\ pull.pc # "idle" => pull.age < CallTimeout
    BY <1>6 DEF TimePasses
  <2>2. pull' \in Pull /\ pull'.pc = pull.pc /\ pull'.rows = pull.rows
    BY <1>1, <2>1 DEF Pull
  <2>3. pullAge' \in 0 .. StalenessLimit /\ pullAge' >= pullAge
    BY <1>1, <2>1 DEF Older
  <2>4. rowAge' \in [Blocks -> 0 .. Window + 1]
    BY <1>1, <2>1 DEF Older
  <2>5. RevocationTypeOK'
    BY <1>2, <2>1, <2>2, <2>3, <2>4 DEF FeedInv, RevocationTypeOK
  <2>6. Answers' => Answers
    BY <1>1, <2>3 DEF Answers
  <2>7. SeenIsCommitted' /\ UnknownIsAhead' /\ NoResurrection'
    BY <1>2, <2>1, <2>2, <2>6 DEF FeedInv, SeenIsCommitted, UnknownIsAhead,
       NoResurrection, IsRevoked
  <2> QED BY <1>2, <2>5, <2>7 DEF FeedInv
<1> QED BY <1>3, <1>4, <1>5, <1>6

LEMMA FeedStep == ASSUME FeedInv, [RevocationNext]_revocationVars PROVE FeedInv'
BY FeedInsert, FeedCommit, FeedEnds, FeedPull, FeedLocal DEF RevocationNext

LEMMA FeedInit == RevocationInit => FeedInv
<1> SUFFICES ASSUME RevocationInit PROVE FeedInv
  OBVIOUS
<1>1. /\ MaxSeq \in Nat /\ CallTimeout \in Nat /\ StalenessLimit \in Nat
      /\ Window \in Nat
  BY RevocationConstants DEF Window
<1>2. /\ NoCall \in Call /\ PullSent \in Pull /\ PullSent.rows = {}
      /\ PullSent.pc = "sent" /\ NoCall.pc = "idle"
  BY <1>1 DEF NoCall, Call, NoPull, PullSent, Pull, Seqs
<1>3. RevocationTypeOK
  <2>1. /\ row \in [Blocks -> Seqs] /\ nextSeq \in 1 .. MaxSeq + 1 /\ since \in Seqs
        /\ pullAge \in 0 .. StalenessLimit /\ rowAge \in [Blocks -> 0 .. Window + 1]
    BY <1>1 DEF RevocationInit, Seqs
  <2>2. tx \in [Revokers -> Call] /\ pull \in Pull
    BY <1>2 DEF RevocationInit
  <2>3. /\ channel \subseteq Blocks /\ listening \in BOOLEAN /\ started \in BOOLEAN
        /\ revoked \subseteq Blocks /\ bloom \subseteq Blocks /\ denied \subseteq Blocks
    BY DEF RevocationInit
  <2> QED BY <2>1, <2>2, <2>3 DEF RevocationTypeOK
<1>4. CallsKnown /\ SeenIsCommitted /\ UnknownIsAhead /\ NoResurrection
  BY <1>2 DEF RevocationInit, CallsKnown, SeenIsCommitted, UnknownIsAhead, NoResurrection
<1> QED BY <1>3, <1>4 DEF FeedInv

LEMMA FeedInductive == RevocationSpec => []FeedInv
BY FeedInit, FeedStep, PTL DEF RevocationSpec

\* INV-10 for any number of blocks and of REVOKE calls at the same time: what a PEP
\* has once denied it never answers "not revoked" for again.  After a restart with
\* an empty set it answers nothing before a pull from cursor 0, and that returns
\* every row there is.
THEOREM RevocationNoResurrection == RevocationSpec => []NoResurrection
<1>1. FeedInv => NoResurrection
  BY DEF FeedInv
<1> QED BY <1>1, FeedInductive, PTL

-----------------------------------------------------------------------------
(* The window of a revocation *)

\* No two REVOKE calls are between their INSERT and their commit at the same time.
OneInserts ==
    \A t, u \in Revokers : tx[t].pc = "insert" /\ tx[u].pc = "insert" => t = u

\* The sequence is ahead of every cursor and row, and what is being inserted is
\* ahead of every cursor and row that is there.
SeqsInOrder ==
    /\ since < nextSeq /\ pull.next < nextSeq
    /\ \A b \in Blocks : row[b] < nextSeq
    /\ \A t \in Revokers : tx[t].pc = "insert" =>
          /\ tx[t].seq < nextSeq /\ since < tx[t].seq /\ pull.next < tx[t].seq
          /\ \A b \in Blocks : row[b] < tx[t].seq

\* The answer of a pull holds what the set lacks up to the cursor it hands out.
ServedToCursor ==
    pull.pc = "served" =>
        \A b \in Blocks : row[b] # 0 /\ row[b] <= pull.next =>
            IsRevoked(b) \/ b \in pull.rows

\* A row the set lacks was committed after the control plane served the last
\* successful pull, and after it served the present one if that lacks it too.
UnknownIsYoung ==
    \A b \in Blocks : row[b] # 0 /\ ~ IsRevoked(b) =>
        /\ Answers => rowAge[b] <= pullAge + CallTimeout
        /\ pull.pc = "served" /\ b \notin pull.rows => rowAge[b] <= pull.age

WindowInv ==
    /\ FeedInv /\ SeqsInOrder /\ NothingBehindCursor /\ ServedToCursor
    /\ UnknownIsYoung

LEMMA WindowTypes ==
    ASSUME FeedInv
    PROVE  /\ row \in [Blocks -> Seqs] /\ nextSeq \in 1 .. MaxSeq + 1
           /\ tx \in [Revokers -> Call] /\ since \in Nat /\ nextSeq \in Nat
           /\ pullAge \in 0 .. StalenessLimit /\ pull \in Pull
           /\ rowAge \in [Blocks -> 0 .. Window + 1]
           /\ MaxSeq \in Nat /\ CallTimeout \in Nat /\ StalenessLimit \in Nat
           /\ StalenessLimit > 0 /\ Window = StalenessLimit + CallTimeout
           /\ \A b \in Blocks : row[b] \in Nat /\ rowAge[b] \in Nat
           /\ \A t \in Revokers : tx[t].seq \in Nat
           /\ pull.next \in Nat /\ pull.age \in 0 .. CallTimeout
BY RevocationConstants DEF FeedInv, RevocationTypeOK, Seqs, Call, Pull, Window

\* The rows, the set and the clocks as they were: only the calls and the pushes
\* move.  What holds of the calls is shown step by step.
LEMMA WindowQuiet ==
    ASSUME WindowInv, UNCHANGED <<row, rowAge, setVars, pull>>
    PROVE  NothingBehindCursor' /\ ServedToCursor' /\ UnknownIsYoung'
BY DEF WindowInv, NothingBehindCursor, ServedToCursor, UnknownIsYoung, IsRevoked,
   Answers, setVars

LEMMA WindowInsert ==
    ASSUME WindowInv, NEW t \in Revokers, NEW b \in Blocks, RevokeInsert(t, b)
    PROVE  SeqsInOrder' /\ NothingBehindCursor' /\ ServedToCursor' /\ UnknownIsYoung'
<1>1. FeedInv /\ SeqsInOrder
  BY DEF WindowInv
<1>2. /\ nextSeq' = nextSeq + 1
      /\ UNCHANGED <<row, rowAge, channel, listening, started, setVars, pull, denied>>
      /\ \A u \in Revokers \ {t} : tx'[u] = tx[u]
      /\ tx'[t].pc = "insert" => tx'[t].seq = nextSeq
  BY <1>1, WindowTypes DEF RevokeInsert
<1>3. SeqsInOrder'
  <2>2. nextSeq \in Nat /\ since < nextSeq /\ pull.next < nextSeq
        /\ since \in Nat /\ pull.next \in Nat
        /\ \A c \in Blocks : row[c] < nextSeq /\ row[c] \in Nat
    BY <1>1, WindowTypes DEF SeqsInOrder
  <2>3. since' = since /\ pull' = pull /\ row' = row
    BY <1>2 DEF setVars
  <2>4. ASSUME NEW u \in Revokers, tx'[u].pc = "insert"
        PROVE  /\ tx'[u].seq < nextSeq + 1 /\ since < tx'[u].seq
               /\ pull.next < tx'[u].seq /\ \A c \in Blocks : row[c] < tx'[u].seq
    <3>1. CASE u = t
      BY <1>2, <2>2, <2>4, <3>1
    <3>2. CASE u # t
      BY <1>1, <1>2, <2>2, <2>4, <3>2, WindowTypes DEF SeqsInOrder
    <3> QED BY <3>1, <3>2
  <2> QED BY <1>2, <2>2, <2>3, <2>4 DEF SeqsInOrder
<1> QED BY <1>2, <1>3, WindowQuiet

\* The row that is committed is ahead of the cursor and of the answer under way,
\* and it is new.
LEMMA WindowCommit ==
    ASSUME WindowInv, OneInserts, NEW t \in Revokers, RevokeCommit(t)
    PROVE  SeqsInOrder' /\ NothingBehindCursor' /\ ServedToCursor' /\ UnknownIsYoung'
<1> DEFINE b == tx[t].block
<1>1. FeedInv /\ SeqsInOrder
  BY DEF WindowInv
<1>2. /\ tx[t].pc = "insert" /\ b \in Blocks /\ row[b] = 0
      /\ tx[t].seq \in Nat /\ since < tx[t].seq /\ pull.next < tx[t].seq
      /\ tx[t].seq < nextSeq
  BY <1>1, WindowTypes DEF RevokeCommit, FeedInv, CallsKnown, SeqsInOrder
<1>3. /\ \A c \in Blocks \ {b} : row'[c] = row[c] /\ rowAge'[c] = rowAge[c]
      /\ row'[b] = tx[t].seq /\ rowAge'[b] = 0
      /\ UNCHANGED <<nextSeq, setVars, pull>>
      /\ tx'[t].pc = "publish" /\ \A u \in Revokers \ {t} : tx'[u] = tx[u]
  BY <1>1, <1>2, WindowTypes DEF RevokeCommit, Call
<1>4. since' = since /\ pullAge' = pullAge /\ pull' = pull /\ nextSeq' = nextSeq
      /\ revoked' = revoked /\ bloom' = bloom
  BY <1>3 DEF setVars
<1>5. SeqsInOrder'
  <2>1. \A u \in Revokers : tx'[u].pc # "insert"
    BY <1>2, <1>3 DEF OneInserts
  <2>2. \A c \in Blocks : row'[c] < nextSeq
    <3> HIDE DEF b
    <3> QED BY <1>1, <1>2, <1>3 DEF SeqsInOrder
  <2> QED BY <1>1, <1>4, <2>1, <2>2 DEF SeqsInOrder
<1> HIDE DEF b
<1>6. NothingBehindCursor' /\ ServedToCursor'
  <2>1. ~ (row'[b] <= since) /\ ~ (row'[b] <= pull.next)
    BY <1>1, <1>2, <1>3, WindowTypes
  <2> QED BY <1>3, <1>4, <2>1 DEF WindowInv, NothingBehindCursor, ServedToCursor, IsRevoked
<1>7. UnknownIsYoung'
  <2>1. 0 <= pullAge + CallTimeout /\ 0 <= pull.age
    BY <1>1, WindowTypes
  <2> QED BY <1>3, <1>4, <2>1 DEF WindowInv, UnknownIsYoung, IsRevoked, Answers
<1> QED BY <1>5, <1>6, <1>7

LEMMA WindowEnds ==
    ASSUME WindowInv,
           \/ \E t \in Revokers : RevokeAborts(t) \/ Publish(t) \/ PublishFails(t)
           \/ Subscribe \/ ConnectionDrops \/ UNCHANGED revocationVars
    PROVE  SeqsInOrder' /\ NothingBehindCursor' /\ ServedToCursor' /\ UnknownIsYoung'
<1>1. FeedInv /\ SeqsInOrder
  BY DEF WindowInv
<1>2. UNCHANGED <<row, nextSeq, rowAge, setVars, pull>>
  BY DEF RevokeAborts, Publish, PublishFails, Subscribe, ConnectionDrops,
     revocationVars, tableVars
<1>3. \A u \in Revokers : tx'[u].pc = "insert" => tx'[u] = tx[u]
  <2>1. CASE tx' = tx
    BY <2>1
  <2>2. ASSUME NEW t \in Revokers, tx' = [tx EXCEPT ![t] = NoCall]
        PROVE  \A u \in Revokers : tx'[u].pc = "insert" => tx'[u] = tx[u]
    BY <1>1, <2>2, WindowTypes DEF NoCall
  <2> QED BY <2>1, <2>2 DEF RevokeAborts, Publish, PublishFails, Ended, Subscribe,
     ConnectionDrops, revocationVars, tableVars
<1>4. SeqsInOrder'
  BY <1>1, <1>2, <1>3 DEF SeqsInOrder, setVars
<1> QED BY <1>2, <1>4, WindowQuiet

\* The cursor moves to what the answer covers; with a failed pull it stays.
LEMMA WindowPull ==
    ASSUME WindowInv, PullCalled \/ PullServed \/ PullAnswered \/ PullFails
    PROVE  SeqsInOrder' /\ NothingBehindCursor' /\ ServedToCursor' /\ UnknownIsYoung'
<1>1. FeedInv /\ SeqsInOrder /\ NothingBehindCursor /\ ServedToCursor /\ UnknownIsYoung
      /\ RevocationTypeOK /\ CallsKnown
  BY DEF WindowInv, FeedInv
<1>2. row' = row /\ nextSeq' = nextSeq /\ tx' = tx /\ rowAge' = rowAge
  BY DEF PullCalled, PullServed, PullAnswered, PullFails, tableVars
<1>3. /\ NoPull.pc = "idle" /\ NoPull.next = 0
      /\ PullSent.pc = "sent" /\ PullSent.next = 0
  BY DEF NoPull, PullSent
<1>4. \A t \in Revokers : tx[t].pc = "insert" => 0 < tx[t].seq
  BY <1>1, WindowTypes DEF CallsKnown
<1>5. CASE PullCalled \/ PullFails
  <2>1. /\ revoked' = revoked /\ bloom' = bloom /\ since' = since /\ pullAge' = pullAge
        /\ pull' = NoPull \/ pull' = PullSent
    BY <1>5 DEF PullCalled, PullFails, setVars
  <2>2. SeqsInOrder'
    BY <1>1, <1>2, <1>3, <1>4, <2>1, WindowTypes DEF SeqsInOrder
  <2>3. NothingBehindCursor' /\ ServedToCursor' /\ UnknownIsYoung'
    BY <1>1, <1>2, <1>3, <2>1 DEF NothingBehindCursor, ServedToCursor, UnknownIsYoung,
       IsRevoked, Answers
  <2> QED BY <2>2, <2>3
<1>6. CASE PullServed
  <2>1. revoked' = revoked /\ bloom' = bloom /\ since' = since /\ pullAge' = pullAge
    BY <1>6 DEF PullServed, setVars
  <2>2. /\ pull'.pc = "served" /\ pull'.rows = {b \in Blocks : row[b] > since}
        /\ pull'.next = since \/ \E b \in Blocks : pull'.next = row[b]
    BY <1>1, <1>6, ServedRows
  <2>3. SeqsInOrder'
    BY <1>1, <1>2, <2>1, <2>2 DEF SeqsInOrder
  <2>4. \A b \in Blocks : row[b] # 0 => IsRevoked(b) \/ b \in pull'.rows
    BY <1>1, <2>2, WindowTypes DEF NothingBehindCursor
  <2>5. NothingBehindCursor' /\ ServedToCursor' /\ UnknownIsYoung'
    BY <1>1, <1>2, <2>1, <2>4 DEF NothingBehindCursor, ServedToCursor, UnknownIsYoung,
       IsRevoked, Answers
  <2> QED BY <2>3, <2>5
<1>7. CASE PullAnswered
  <2>1. /\ pull.pc = "served" /\ pull' = NoPull
        /\ revoked' = revoked \cup pull.rows /\ bloom' = bloom \cup pull.rows
        /\ since' = pull.next /\ pullAge' = 0
    BY <1>7 DEF PullAnswered
  <2>2. SeqsInOrder'
    BY <1>1, <1>2, <1>3, <1>4, <2>1, WindowTypes DEF SeqsInOrder
  <2>3. NothingBehindCursor'
    BY <1>1, <1>2, <2>1 DEF NothingBehindCursor, ServedToCursor, IsRevoked
  <2>4. ServedToCursor'
    BY <1>3, <2>1 DEF ServedToCursor
  <2>5. \A b \in Blocks : row[b] # 0 /\ ~ IsRevoked(b)' => rowAge[b] <= pull.age
    BY <1>1, <2>1 DEF UnknownIsYoung, IsRevoked
  <2>6. UnknownIsYoung'
    BY <1>1, <1>2, <1>3, <2>1, <2>5, WindowTypes DEF UnknownIsYoung
  <2> QED BY <2>2, <2>3, <2>4, <2>6
<1> QED BY <1>5, <1>6, <1>7

\* A push adds to the set; a restart empties it, with the cursor and the freshness;
\* a tick ages a row, the pull under way and the last one alike.
LEMMA WindowLocal ==
    ASSUME WindowInv, PepRestarts \/ TimePasses \/ \E b \in Blocks : HandlePush(b)
    PROVE  SeqsInOrder' /\ NothingBehindCursor' /\ ServedToCursor' /\ UnknownIsYoung'
<1>1. FeedInv /\ SeqsInOrder /\ NothingBehindCursor /\ ServedToCursor /\ UnknownIsYoung
      /\ CallsKnown
  BY DEF WindowInv, FeedInv
<1>2. row' = row /\ nextSeq' = nextSeq /\ tx' = tx
  BY DEF PepRestarts, TimePasses, HandlePush, tableVars
<1>3. ASSUME NEW b \in Blocks, HandlePush(b)
      PROVE  SeqsInOrder' /\ NothingBehindCursor' /\ ServedToCursor' /\ UnknownIsYoung'
  <2>1. /\ revoked' = revoked \cup {b} /\ bloom' = bloom \cup {b} /\ rowAge' = rowAge
        /\ since' = since /\ pullAge' = pullAge /\ pull' = pull
    BY <1>3 DEF HandlePush, tableVars
  <2>2. \A c \in Blocks : IsRevoked(c) => IsRevoked(c)'
    BY <2>1 DEF IsRevoked
  <2>3. SeqsInOrder'
    BY <1>1, <1>2, <2>1 DEF SeqsInOrder
  <2>4. NothingBehindCursor' /\ ServedToCursor'
    BY <1>1, <1>2, <2>1, <2>2 DEF NothingBehindCursor, ServedToCursor
  <2>5. UnknownIsYoung'
    BY <1>1, <1>2, <2>1, <2>2 DEF UnknownIsYoung, Answers
  <2> QED BY <2>3, <2>4, <2>5
<1>4. CASE PepRestarts
  <2>1. /\ since' = 0 /\ pullAge' = StalenessLimit /\ pull' = PullSent
        /\ PullSent.pc = "sent" /\ PullSent.next = 0
    BY <1>4 DEF PepRestarts, ColdStart, PullSent, NoPull
  <2>2. SeqsInOrder'
    BY <1>1, <1>2, <2>1, WindowTypes DEF SeqsInOrder, CallsKnown
  <2>3. NothingBehindCursor'
    BY <1>1, <1>2, <2>1, WindowTypes DEF NothingBehindCursor
  <2>4. ServedToCursor' /\ UnknownIsYoung'
    BY <1>1, <2>1, WindowTypes DEF ServedToCursor, UnknownIsYoung, Answers
  <2> QED BY <2>2, <2>3, <2>4
<1>5. CASE TimePasses
  <2>1. /\ revoked' = revoked /\ bloom' = bloom /\ since' = since
        /\ pullAge' = Older(pullAge, StalenessLimit)
        /\ pull' = [pull EXCEPT !.age = IF pull.pc = "idle" THEN 0 ELSE @ + 1]
        /\ rowAge' = [b \in Blocks |-> IF row[b] = 0 THEN 0
                                       ELSE Older(rowAge[b], Window + 1)]
    BY <1>5 DEF TimePasses
  <2>2. /\ pull'.pc = pull.pc /\ pull'.rows = pull.rows /\ pull'.next = pull.next
        /\ pull.pc = "served" => pull'.age = pull.age + 1
    BY <1>1, <2>1, WindowTypes DEF Pull
  <2>3. SeqsInOrder'
    BY <1>1, <1>2, <2>1, <2>2 DEF SeqsInOrder
  <2>4. NothingBehindCursor' /\ ServedToCursor'
    BY <1>1, <1>2, <2>1, <2>2 DEF NothingBehindCursor, ServedToCursor, IsRevoked
  <2>5. \A b \in Blocks : row[b] # 0 => rowAge'[b] <= rowAge[b] + 1 /\ rowAge'[b] \in Nat
    BY <1>1, <2>1, WindowTypes DEF Older
  <2>6. Answers' => Answers /\ pullAge' = pullAge + 1
    BY <1>1, <2>1, WindowTypes DEF Answers, Older
  <2>7. UnknownIsYoung'
    <3> SUFFICES ASSUME NEW b \in Blocks, row[b] # 0, ~ IsRevoked(b)
                 PROVE  /\ Answers' => rowAge'[b] <= pullAge' + CallTimeout
                        /\ pull'.pc = "served" /\ b \notin pull'.rows
                              => rowAge'[b] <= pull'.age
      BY <1>2, <2>1 DEF UnknownIsYoung, IsRevoked
    <3>1. /\ Answers => rowAge[b] <= pullAge + CallTimeout
          /\ pull.pc = "served" /\ b \notin pull.rows => rowAge[b] <= pull.age
      BY <1>1 DEF UnknownIsYoung
    <3>2. /\ rowAge[b] \in Nat /\ rowAge'[b] \in Nat /\ rowAge'[b] <= rowAge[b] + 1
          /\ pullAge \in Nat /\ CallTimeout \in Nat /\ pull.age \in Nat
      BY <1>1, <2>5, WindowTypes
    <3>3. Answers' => rowAge'[b] <= pullAge' + CallTimeout
      BY <2>6, <3>1, <3>2
    <3>4. pull'.pc = "served" /\ b \notin pull'.rows => rowAge'[b] <= pull'.age
      BY <2>2, <3>1, <3>2
    <3> QED BY <3>3, <3>4
  <2> QED BY <2>3, <2>4, <2>7
<1> QED BY <1>3, <1>4, <1>5

LEMMA WindowStep ==
    ASSUME OneInserts, WindowInv, [RevocationNext]_revocationVars PROVE WindowInv'
<1>1. FeedInv'
  BY FeedStep DEF WindowInv
<1>2. SeqsInOrder' /\ NothingBehindCursor' /\ ServedToCursor' /\ UnknownIsYoung'
  BY WindowInsert, WindowCommit, WindowEnds, WindowPull, WindowLocal DEF RevocationNext
<1> QED BY <1>1, <1>2 DEF WindowInv

LEMMA WindowInit == RevocationInit => WindowInv
<1> SUFFICES ASSUME RevocationInit PROVE WindowInv
  OBVIOUS
<1>1. FeedInv
  BY FeedInit
<1>2. NoCall.pc = "idle" /\ PullSent.pc = "sent" /\ PullSent.next = 0
  BY DEF NoCall, NoPull, PullSent
<1>3. SeqsInOrder /\ NothingBehindCursor /\ ServedToCursor /\ UnknownIsYoung
  BY <1>2 DEF RevocationInit, SeqsInOrder, NothingBehindCursor, ServedToCursor,
     UnknownIsYoung
<1> QED BY <1>1, <1>3 DEF WindowInv

\* As long as no two REVOKEs are between INSERT and commit together, rows become
\* visible in the order of their seq, the pull cursor leaves none behind, and the
\* window of spec 07 section 6 holds: a PEP that answers is wrong about a committed
\* revocation for at most staleness_limit and one pull, whatever pushes are lost and
\* however often it restarts.  Nothing in the code enforces the hypothesis: it is
\* the condition under which a cursor by `seq` is a sound way to pull.
THEOREM RevocationWithinWindow ==
    RevocationSpec /\ []OneInserts => [](RevokedWithinWindow /\ NothingBehindCursor)
<1>1. WindowInv => RevokedWithinWindow /\ NothingBehindCursor
  <2> SUFFICES ASSUME WindowInv, NEW b \in Blocks, Answers, row[b] # 0, ~ IsRevoked(b)
               PROVE  rowAge[b] <= Window
    BY DEF RevokedWithinWindow, WindowInv
  <2>1. FeedInv /\ rowAge[b] <= pullAge + CallTimeout
    BY DEF WindowInv, UnknownIsYoung
  <2>2. rowAge[b] \in Nat /\ CallTimeout \in Nat /\ Window = StalenessLimit + CallTimeout
        /\ pullAge \in Nat /\ pullAge < StalenessLimit /\ StalenessLimit \in Nat
    BY <2>1, WindowTypes DEF Answers
  <2> QED BY <2>1, <2>2
<1> QED BY <1>1, WindowInit, WindowStep, PTL DEF RevocationSpec

-----------------------------------------------------------------------------
(* The pool spends within its grants *)

\* What the requests in S hold on lease l.
HeldOn(S, l) == SumOver(S, [res \in S |-> IF res.lease = l THEN res.amount ELSE 0])

LEMMA HeldOnEmpty ==
    ASSUME NEW S, NEW l, \A res \in S : res.lease # l PROVE HeldOn(S, l) = 0
BY SumZero DEF HeldOn

LEMMA HeldOnAdd ==
    ASSUME NEW S, IsFiniteSet(S), \A res \in S : res.amount \in Nat,
           NEW x, x \notin S, x.amount \in Nat, NEW l
    PROVE  /\ HeldOn(S, l) \in Nat
           /\ HeldOn(S \cup {x}, l) =
                HeldOn(S, l) + (IF x.lease = l THEN x.amount ELSE 0)
<1> DEFINE f == [res \in S |-> IF res.lease = l THEN res.amount ELSE 0]
           g == [res \in S \cup {x} |-> IF res.lease = l THEN res.amount ELSE 0]
<1>1. /\ \A res \in S : f[res] \in Nat /\ g[res] \in Nat /\ f[res] = g[res]
      /\ g[x] = IF x.lease = l THEN x.amount ELSE 0
      /\ g[x] \in Nat
  OBVIOUS
<1> HIDE DEF f, g
<1>2. SumOver(S, f) \in Nat /\ SumOver(S, f) = SumOver(S, g)
  BY <1>1, SumType, SumAgree
<1>3. SumOver(S \cup {x}, g) = SumOver(S, g) + g[x]
  BY <1>1, SumAdd
<1> QED BY <1>1, <1>2, <1>3 DEF HeldOn, f, g

\* Nothing is refunded when no tool charges less than was reserved.
NoRefunds == \A a \in Amounts, c \in Actuals : c >= a

\* A lease in hand is one the ledger granted.
PoolInv == PoolTypeOK /\ (held.state # "none" => held.lease \in Leases)

GrantInv ==
    /\ IsFiniteSet(inflight)
    /\ \A res \in inflight : res.amount \in Amounts
    /\ held.remaining + HeldOn(inflight, held.lease) <= held.granted

\* Requests leave flight, and what remains of the lease does not grow.
LEMMA LeaveFlight ==
    ASSUME PoolInv, GrantInv, NEW res \in inflight, inflight' = inflight \ {res},
           held'.lease = held.lease, held'.granted = held.granted,
           held'.remaining \in Nat, held'.remaining <= held.remaining
    PROVE  GrantInv'
<1> DEFINE rest == inflight \ {res}
<1>1. IsFiniteSet(rest) /\ res \notin rest /\ rest \cup {res} = inflight
  BY FS_Subset DEF GrantInv
<1>2. /\ \A x \in inflight : x.amount \in Nat
      /\ held.remaining \in Nat /\ held.granted \in Nat
  BY PoolConstants DEF GrantInv, PoolInv, PoolTypeOK, LocalLease
<1> HIDE DEF rest
<1>3. /\ HeldOn(rest, held.lease) \in Nat
      /\ HeldOn(inflight, held.lease) = HeldOn(rest, held.lease)
            + (IF res.lease = held.lease THEN res.amount ELSE 0)
  <2>1. res.amount \in Nat /\ \A x \in rest : x.amount \in Nat
    BY <1>1, <1>2
  <2>2. /\ HeldOn(rest, held.lease) \in Nat
        /\ HeldOn(rest \cup {res}, held.lease) = HeldOn(rest, held.lease)
              + (IF res.lease = held.lease THEN res.amount ELSE 0)
    BY <1>1, <2>1, HeldOnAdd
  <2> QED BY <1>1, <2>2
<1>4. res.amount \in Nat
  BY <1>2
<1>5. held'.remaining + HeldOn(rest, held.lease) <= held.granted
  BY <1>2, <1>3, <1>4 DEF GrantInv
<1> QED BY <1>1, <1>5 DEF GrantInv, rest

LEMMA AuthorizeGrant ==
    ASSUME PoolInv, GrantInv, NEW r \in Reservations, NEW a \in Amounts,
           Authorize(r, a)
    PROVE  GrantInv'
<1> DEFINE res == [id |-> r, lease |-> held.lease, amount |-> a]
<1>1. /\ held.remaining \in Nat /\ held.granted \in Nat /\ a \in Nat
      /\ \A x \in inflight : x.amount \in Nat
  BY PoolConstants DEF PoolInv, PoolTypeOK, LocalLease, GrantInv
<1>2. res \notin inflight /\ inflight' = inflight \cup {res}
  BY DEF Authorize
<1>3. /\ held'.lease = held.lease /\ held'.granted = held.granted
      /\ held'.remaining = held.remaining - a /\ held.remaining >= a
  BY DEF Authorize, Covers, PoolInv, PoolTypeOK, LocalLease
<1>4. res.lease = held.lease /\ res.amount = a
  OBVIOUS
<1> HIDE DEF res
<1>5. /\ HeldOn(inflight, held.lease) \in Nat
      /\ HeldOn(inflight \cup {res}, held.lease) = HeldOn(inflight, held.lease)
            + (IF res.lease = held.lease THEN res.amount ELSE 0)
  <2>1. IsFiniteSet(inflight) /\ res.amount \in Nat
    BY <1>1, <1>4 DEF GrantInv
  <2> QED BY <1>1, <1>2, <2>1, HeldOnAdd
<1>6. IsFiniteSet(inflight')
  BY <1>2, FS_AddElement DEF GrantInv
<1>7. held'.remaining + HeldOn(inflight', held'.lease) <= held'.granted
  BY <1>1, <1>2, <1>3, <1>4, <1>5 DEF GrantInv
<1> QED BY <1>2, <1>4, <1>6, <1>7 DEF GrantInv

\* One case per action of the pool.
LEMMA PoolStep == ASSUME PoolInv, [PoolNext]_poolVars PROVE PoolInv'
<1> USE PoolConstants
<1>1. /\ held \in LocalLease /\ phase \in Phases /\ topup \in Task
      /\ inflight \subseteq Reservation /\ (held.state # "none" => held.lease \in Leases)
  BY DEF PoolInv, PoolTypeOK
<1>2. ASSUME phase' \in Phases, topup' \in Task, held' \in LocalLease,
             held'.state # "none" => held'.lease \in Leases,
             inflight' \subseteq Reservation
      PROVE  PoolInv'
  BY <1>2 DEF PoolInv, PoolTypeOK
<1>3. Idle \in Task /\ Acquiring \in Task /\ \A l \in Leases \cup {NoLease} : Retiring(l) \in Task
  BY DEF Task, Idle, Acquiring, Retiring
<1>4. ASSUME NEW r \in Reservations, NEW a \in Amounts, Authorize(r, a) PROVE PoolInv'
  <2>1. held.state = "active" /\ held.remaining >= a /\ a \in Nat
    BY <1>4 DEF Authorize, Covers
  <2>2. held' \in LocalLease /\ held'.state = held.state /\ held'.lease = held.lease
    BY <1>1, <1>4, <2>1 DEF Authorize, LocalLease
  <2>3. inflight' \subseteq Reservation
    BY <1>1, <1>4, <2>1 DEF Authorize, Reservation
  <2> QED BY <1>1, <1>2, <1>3, <1>4, <2>2, <2>3 DEF Authorize, Schedule
<1>5. ASSUME NEW res \in inflight, NEW actual \in {res.amount} \cup Actuals,
             Settle(res, actual)
      PROVE  PoolInv'
  <2>1. res.amount \in Nat /\ actual \in Nat
    BY <1>1 DEF Reservation
  <2>2. held' \in LocalLease /\ held'.state = held.state /\ held'.lease = held.lease
    <3>1. CASE actual > res.amount
      BY <1>1, <1>5, <2>1, <3>1 DEF Settle, Covers, LocalLease
    <3>2. CASE ~ (actual > res.amount)
      <4>1. held' = [held EXCEPT !.remaining = @ + (res.amount - actual)]
        BY <1>5, <3>2 DEF Settle
      <4> QED BY <1>1, <2>1, <3>2, <4>1 DEF LocalLease
    <3> QED BY <3>1, <3>2
  <2> QED BY <1>1, <1>2, <1>5, <2>2 DEF Settle
<1>6. ASSUME NEW res \in inflight, UpstreamFails(res) PROVE PoolInv'
  BY <1>1, <1>2, <1>6 DEF UpstreamFails
<1>7. CASE Granted
  <2>1. PICK l \in FreshLeases, g \in 1 .. LeaseSize : AcquireGranted(l, g)
    BY <1>7 DEF Granted
  <2>2. l \in Leases /\ g \in Nat
    BY <2>1 DEF FreshLeases
  <2>3. TTL - topup.age \in 0 .. TTL
    BY <1>1 DEF Task
  <2>4. held' \in LocalLease /\ held'.lease = l
    BY <2>1, <2>2, <2>3 DEF AcquireGranted, LocalLease
  <2>5. held.lease \in Leases \cup {NoLease}
    BY <1>1 DEF LocalLease
  <2>6. topup' \in Task /\ phase' \in Phases /\ UNCHANGED inflight
    BY <1>1, <1>3, <2>1, <2>5 DEF AcquireGranted, Served, Phases
  <2> QED BY <1>1, <1>2, <2>2, <2>4, <2>6
<1>8. CASE Restart
  BY <1>2, <1>3, <1>8 DEF Restart, NoHeld, LocalLease, Phases
<1>9. CASE PepTick
  <2>1. held' \in LocalLease /\ held'.state = held.state /\ held'.lease = held.lease
    BY <1>1, <1>9 DEF PepTick, LocalLease
  <2>2. topup' \in Task
    BY <1>1, <1>9 DEF PepTick, Task
  <2> QED BY <1>1, <1>2, <1>9, <2>1, <2>2 DEF PepTick
<1>10. CASE CloseHeld
  <2>1. held' \in LocalLease /\ held'.lease = held.lease
        /\ (held'.state # "none" => held.state # "none")
    BY <1>1, <1>10 DEF CloseHeld, LocalLease
  <2>2. topup' \in Task /\ phase' \in Phases
    BY <1>1, <1>3, <1>10 DEF CloseHeld, LocalLease, Phases
  <2> QED BY <1>1, <1>2, <1>10, <2>1, <2>2 DEF CloseHeld
<1>11. CASE \/ \E a \in Amounts : AuthorizeUnrecorded(a) \/ Refuse(a)
            \/ RenewSweep
  BY <1>1, <1>2, <1>3, <1>11 DEF AuthorizeUnrecorded, Refuse, RenewSweep, Schedule
<1>12. CASE AcquireFailed \/ ReleaseCall \/ ReleaseEnds
  <2>1. topup.pc = "drain" => [topup EXCEPT !.pc = "release"] \in Task
    BY <1>1 DEF Task
  <2> QED BY <1>1, <1>2, <1>3, <1>12, <2>1
          DEF AcquireFailed, ReleaseCall, ReleaseEnds, Served, Phases
<1>13. CASE Shutdown \/ StopRenewer \/ UNCHANGED poolVars
  BY <1>1, <1>2, <1>13 DEF Shutdown, StopRenewer, poolVars, Phases
<1> QED BY <1>4, <1>5, <1>6, <1>7, <1>8, <1>9, <1>10, <1>11, <1>12, <1>13
        DEF PoolNext

LEMMA PoolGrantStep ==
    ASSUME PoolInv, GrantInv, NoRefunds, [PoolNext]_poolVars
    PROVE  GrantInv'
<1>1. /\ held \in LocalLease /\ inflight \subseteq Reservation
  BY DEF PoolInv, PoolTypeOK
<1>2. ASSUME UNCHANGED inflight, held'.lease = held.lease,
             held'.granted = held.granted, held'.remaining = held.remaining
      PROVE  GrantInv'
  BY <1>2 DEF GrantInv
<1>3. ASSUME NEW r \in Reservations, NEW a \in Amounts, Authorize(r, a)
      PROVE  GrantInv'
  BY <1>3, AuthorizeGrant
<1>4. ASSUME NEW res \in inflight, NEW actual \in {res.amount} \cup Actuals,
             Settle(res, actual)
      PROVE  GrantInv'
  <2>1. res.amount \in Nat /\ actual \in Nat /\ actual >= res.amount
    <3>1. res.amount \in Amounts
      BY DEF GrantInv
    <3>2. res.amount \in Nat /\ actual \in Nat
      BY <3>1, PoolConstants
    <3> QED BY <1>4, <3>1, <3>2 DEF NoRefunds
  <2>2. /\ held'.lease = held.lease /\ held'.granted = held.granted
        /\ held'.remaining \in Nat /\ held'.remaining <= held.remaining
    <3>1. CASE actual > res.amount
      BY <1>1, <1>4, <2>1, <3>1 DEF Settle, Covers, LocalLease
    <3>2. CASE actual = res.amount
      <4>1. held' = [held EXCEPT !.remaining = @ + (res.amount - actual)]
        BY <1>4, <2>1, <3>2 DEF Settle
      <4> QED BY <1>1, <2>1, <3>2, <4>1 DEF LocalLease
    <3> QED BY <2>1, <3>1, <3>2
  <2>3. inflight' = inflight \ {res}
    BY <1>4 DEF Settle
  <2> QED BY <2>2, <2>3, LeaveFlight
<1>5. ASSUME NEW res \in inflight, UpstreamFails(res) PROVE GrantInv'
  <2>1. UNCHANGED held /\ inflight' = inflight \ {res}
    BY <1>5 DEF UpstreamFails
  <2>2. held.remaining \in Nat /\ held.remaining <= held.remaining
    BY <1>1 DEF LocalLease
  <2> QED BY <2>1, <2>2, LeaveFlight
<1>6. CASE Granted
  <2>1. PICK l \in FreshLeases, g \in 1 .. LeaseSize : AcquireGranted(l, g)
    BY <1>6 DEF Granted
  <2>2. g \in Nat /\ \A res \in inflight : res.lease # l
    BY <2>1, PoolConstants DEF FreshLeases
  <2>3. /\ held'.lease = l /\ held'.remaining = g /\ held'.granted = g
        /\ UNCHANGED inflight
    BY <2>1 DEF AcquireGranted
  <2>4. HeldOn(inflight, l) = 0
    BY <2>2, HeldOnEmpty
  <2> QED BY <2>2, <2>3, <2>4 DEF GrantInv
<1>7. CASE Restart
  <2>1. HeldOn({}, NoLease) = 0 /\ IsFiniteSet({})
    BY HeldOnEmpty, FS_EmptySet
  <2> QED BY <1>7, <2>1 DEF Restart, NoHeld, GrantInv
<1>8. CASE PepTick \/ CloseHeld
  <2>1. UNCHANGED inflight /\ held'.lease = held.lease
        /\ held'.granted = held.granted /\ held'.remaining = held.remaining
    BY <1>1, <1>8 DEF PepTick, CloseHeld, LocalLease
  <2> QED BY <1>2, <2>1
<1>9. CASE \/ \E a \in Amounts : AuthorizeUnrecorded(a) \/ Refuse(a)
           \/ RenewSweep \/ AcquireFailed \/ ReleaseCall \/ ReleaseEnds
           \/ Shutdown \/ StopRenewer \/ UNCHANGED poolVars
  <2>1. UNCHANGED <<held, inflight>>
    BY <1>9 DEF AuthorizeUnrecorded, Refuse, RenewSweep, AcquireFailed, ReleaseCall,
       ReleaseEnds, Shutdown, StopRenewer, poolVars
  <2> QED BY <1>2, <2>1
<1> QED BY <1>3, <1>4, <1>5, <1>6, <1>7, <1>8, <1>9 DEF PoolNext

\* Against any ledger, what a pool has in hand and in flight on its lease is
\* covered by the grant, however requests, settlements, top-ups, refused audit
\* records and restarts interleave, if no tool charges less than was reserved.
THEOREM PoolInHandWithinGrant ==
    ASSUME NoRefunds
    PROVE  PoolSpec => []InHandWithinGrant
<1>1. PoolInit => PoolInv /\ GrantInv
  <2> SUFFICES ASSUME PoolInit PROVE PoolInv /\ GrantInv
    OBVIOUS
  <2>1. PoolInv
    BY PoolConstants DEF PoolInit, PoolInv, PoolTypeOK, LocalLease, Task, NoHeld,
       Acquiring, Phases
  <2>2. HeldOn({}, NoLease) = 0 /\ IsFiniteSet({})
    BY HeldOnEmpty, FS_EmptySet
  <2> QED BY <2>1, <2>2 DEF PoolInit, NoHeld, GrantInv
<1>2. PoolInv /\ GrantInv /\ [PoolNext]_poolVars => (PoolInv /\ GrantInv)'
  BY PoolStep, PoolGrantStep
<1>3. GrantInv => InHandWithinGrant
  BY DEF GrantInv, InHandWithinGrant, HeldOn, HeldInFlight
<1> QED BY <1>1, <1>2, <1>3, PTL DEF PoolSpec

-----------------------------------------------------------------------------
(* The policy cache *)

\* What the cache holds is one of the candidates and passed the gates that do not depend on
\* what was held before, `serial` is its own, it is no younger than the clock says, and
\* /readyz counts a loaded bundle exactly while one is held.
CacheInv ==
    /\ now \in Nat /\ loaded_at \in Nat /\ loaded_at <= now /\ loaded \in Nat
    /\ Empty <=> loaded = 0
    /\ ~Empty => /\ engine \in Bundles /\ verify_bundle(engine) /\ CedarEngine(engine)
                 /\ serial = engine.serial

LEMMA MakeCurrentInv ==
    ASSUME CacheInv, NEW b \in Bundles, Gates3(b), MakeCurrent(b), now' = now
    PROVE  CacheInv'
BY CacheConstants DEF CacheInv, Gates3, MakeCurrent, Empty, verify_bundle, CedarEngine

LEMMA NextCacheInv ==
    ASSUME CacheInv, [Next]_vars
    PROVE  CacheInv'
<1>1. ASSUME NEW b \in Bundles, Load(b) \/ Activate(b)
      PROVE  CacheInv'
  BY <1>1, MakeCurrentInv DEF Load, Activate
<1>2. ASSUME UNCHANGED <<engine, serial, loaded_at, loaded>>, now' = now \/ now' = now + 1
      PROVE  CacheInv'
  BY <1>2 DEF CacheInv, Empty, verify_bundle, CedarEngine
<1>3. ASSUME NEW b \in Bundles, Reject(b)
      PROVE  CacheInv'
  BY <1>2, <1>3 DEF Reject
<1>4. CASE Tick
  BY <1>2, <1>4 DEF Tick, cacheVars
<1>5. CASE RestartEmpty
  BY <1>5 DEF RestartEmpty, CacheInv, Empty
<1>6. CASE UNCHANGED vars
  BY <1>2, <1>6 DEF vars, cacheVars
<1> QED BY <1>1, <1>3, <1>4, <1>5, <1>6 DEF Next

\* No bundle is ever held that was not signed or whose source does not parse, the serial
\* that candidates are compared with is the held bundle's own, and its age is counted from
\* no later than now, whatever was refused, loaded, activated and restarted before
\* (PolicyCache.load, activate_bundle).
THEOREM CacheVouched == Spec => []CacheInv
<1>1. Init => CacheInv
  BY DEF Init, CacheInv, Empty
<1> QED BY <1>1, NextCacheInv, PTL DEF Spec

LEMMA MakeCurrentAdvances ==
    ASSUME NEW b \in Bundles, Gates3(b), MakeCurrent(b), ~Empty
    PROVE  serial' > serial /\ serial' = engine'.serial
BY DEF Gates3, Advances, MakeCurrent

\* A served bundle is replaced only by one of a higher serial, and its age starts again
\* only then, for every sequence of loads, activations, refusals and restarts
\* (PolicyCache.load, activate_bundle).
THEOREM CacheOnlyAdvances == Spec => ServedOnlyAdvances
<1> DEFINE Advance ==
      ~Empty /\ engine' # NoBundle =>
        \/ UNCHANGED <<engine, serial, loaded_at>>
        \/ serial' > serial /\ serial' = engine'.serial
<1>1. ASSUME [Next]_vars
      PROVE  Advance
  <2>1. ASSUME NEW b \in Bundles, Load(b) \/ Activate(b)
        PROVE  Advance
    BY <2>1, MakeCurrentAdvances DEF Load, Activate
  <2>2. ASSUME NEW b \in Bundles, Reject(b)
        PROVE  Advance
    BY <2>2 DEF Reject
  <2>3. CASE Tick
    BY <2>3 DEF Tick, cacheVars
  <2>4. CASE RestartEmpty
    BY <2>4 DEF RestartEmpty
  <2>5. CASE UNCHANGED vars
    BY <2>5 DEF vars, cacheVars
  <2> QED BY <1>1, <2>1, <2>2, <2>3, <2>4, <2>5 DEF Next
<1>2. Spec => [][Next]_vars
  BY DEF Spec
<1>3. [][Next]_vars => [][Advance]_vars
  BY <1>1, PTL
<1> QED BY <1>2, <1>3 DEF ServedOnlyAdvances

\* A gate stops a request with a refusal or an escalation, or lets it by, whatever it was
\* handed.
LEMMA GateOutcomes ==
    ASSUME NEW t, NEW ids, NEW ctx, NEW cs, NEW o, NEW i \in 1 .. 8
    PROVE  Gates(t, ids, ctx, cs, o)[i].outcome \in Stopping
<1>1. /\ Pass.outcome = "pass" /\ FailClosed.outcome = "deny"
      /\ \A reason : _deny(reason).outcome = "deny"
      /\ \A outcome, reason : Verdict(outcome, reason).outcome = outcome
  BY DEF Pass, FailClosed, _deny, Verdict
<1>2. \E outcome \in Stopping : \E reason, k : _evaluate_caveats(cs, ctx)
        \in {Verdict(outcome, reason), [Verdict(outcome, reason) EXCEPT !.caveat = k]}
  BY Zenon DEF _evaluate_caveats, Stopping, Pass
<1>3. DenyOnly(_evaluate_caveats(cs, ctx)).outcome \in Stopping
  <2>1. _evaluate_caveats(cs, ctx).outcome \in Stopping
    BY <1>2 DEF Verdict
  <2> QED BY <1>1, <2>1 DEF DenyOnly, Stopping
<1>4. \A score : [_evaluate_caveats(cs, ctx) EXCEPT !.drift = score].outcome \in Stopping
  BY <1>2 DEF Verdict
<1>5. RevocationGate(ids, o.revoked).outcome \in Stopping
  BY <1>1 DEF RevocationGate, Stopping
<1>6. GrantGate(Grant(t), ctx).outcome \in Stopping
  BY <1>1 DEF GrantGate, Stopping
<1>7. DatalogGate(t, ctx, o.limited).outcome \in Stopping
  BY <1>1 DEF DatalogGate, Stopping
<1>8. PolicyGate(o.policy).outcome \in Stopping
  BY <1>1 DEF PolicyGate, Stopping
<1>9. DriftGate(ctx, o).outcome \in Stopping
  BY <1>1 DEF DriftGate, Stopping, Verdict
<1>10. BudgetGate(o.budget).outcome \in Stopping
  BY <1>1 DEF BudgetGate, Stopping
<1> DEFINE g == Gates(t, ids, ctx, cs, o)
<1>11. /\ g[1] = RevocationGate(ids, o.revoked) /\ g[2] = GrantGate(Grant(t), ctx)
       /\ g[3] = DenyOnly(_evaluate_caveats(cs, ctx)) /\ g[4] = DatalogGate(t, ctx, o.limited)
       /\ g[5] = PolicyGate(o.policy) /\ g[6] = DriftGate(ctx, o)
       /\ g[7] = [_evaluate_caveats(cs, ctx) EXCEPT !.drift = DriftScore(ctx, o)]
       /\ g[8] = BudgetGate(o.budget)
  BY GateList
<1> HIDE DEF g
<1>12. g[7].outcome \in Stopping
  BY <1>4, <1>11
<1>13. i = 1 \/ i = 2 \/ i = 3 \/ i = 4 \/ i = 5 \/ i = 6 \/ i = 7 \/ i = 8
  OBVIOUS
<1>14. g[i].outcome \in Stopping
  BY <1>3, <1>5, <1>6, <1>7, <1>8, <1>9, <1>10, <1>11, <1>12, <1>13
<1> QED BY <1>14 DEF g

\* An allow means that every gate let the request by.
LEMMA AllowedPasses ==
    ASSUME NEW gates, DOMAIN gates = 1 .. 8, \A i \in 1 .. 8 : gates[i].outcome \in Stopping,
           NEW ctx, NEW o, decide(gates, ctx, o).outcome = "allow"
    PROVE  \A i \in 1 .. 8 : gates[i].outcome = "pass"
<1> DEFINE stops == {i \in 1 .. 8 : gates[i].outcome # "pass"}
<1> SUFFICES ASSUME stops # {} PROVE FALSE
  OBVIOUS
<1>1. MinOf(stops) \in stops
  <2> HIDE DEF stops
  <2>1. stops \in SUBSET (1 .. 8)
    BY DEF stops
  <2> QED BY <2>1, LeastIsMember
<1>2. decide(gates, ctx, o) = gates[MinOf(stops)]
  BY DEF decide
<1>3. decide(gates, ctx, o).outcome \in {"deny", "escalate"}
  BY <1>1, <1>2 DEF Stopping
<1> QED BY <1>3

LEMMA FreshIsVouched == CacheInv => OnlyFreshVouched
<1> SUFFICES ASSUME CacheInv PROVE OnlyFreshVouched
  OBVIOUS
<1>1. ~Empty => verify_bundle(engine) /\ CedarEngine(engine)
  BY DEF CacheInv
<1>2. ASSUME NEW s \in Samples, Decided(s).outcome = "allow"
      PROVE  /\ ~Empty /\ now - loaded_at <= MaxStaleness
             /\ is_authorized(engine, s.role, s.ctx, _facts_for(CacheTools, s.ctx.tool))
  <2> DEFINE o == [revoked |-> {}, limited |-> FALSE, policy |-> bound(s.role, s.ctx),
                   drift |-> NoScore, budget |-> [ok |-> TRUE, mandate_exhausted |-> FALSE]]
             gates == Gates(s.token, s.ids, s.ctx, TokenCaveats(s.token), o)
  <2>1. decide(gates, s.ctx, o).outcome = "allow"
    BY <1>2 DEF Decided
  <2>2. DOMAIN gates = 1 .. 8
    BY DEF Gates
  <2>3. gates[5] = PolicyGate(bound(s.role, s.ctx))
    BY DEF Gates
  <2>4. \A i \in 1 .. 8 : gates[i].outcome \in Stopping
    BY GateOutcomes
  <2> HIDE DEF gates, o
  <2>5. gates[5].outcome = "pass"
    BY <2>1, <2>2, <2>4, AllowedPasses
  <2>6. /\ bound(s.role, s.ctx) # Unavailable
        /\ ~ bound(s.role, s.ctx).stale /\ bound(s.role, s.ctx).allowed
    BY <2>3, <2>5 DEF PolicyGate, FailClosed, _deny, Verdict
  <2>7. ~Empty /\ bound(s.role, s.ctx) = evaluate(engine, CacheTools, stale, s.role, s.ctx)
    BY <2>6 DEF bound
  <2>8. ~ stale /\ is_authorized(engine, s.role, s.ctx, _facts_for(CacheTools, s.ctx.tool))
    BY <2>6, <2>7 DEF evaluate
  <2>9. now - loaded_at <= MaxStaleness
    BY <2>7, <2>8, CacheConstants DEF stale, CacheInv
  <2> QED BY <2>7, <2>8, <2>9
<1> QED BY <1>1, <1>2 DEF OnlyFreshVouched

\* Nothing is allowed on the word of a bundle past its staleness limit, of one that was
\* not signed, or of none, or with other tools than the cache was given, whatever was
\* offered, refused, loaded and restarted before (PolicyCache.bound, decide() step 5): the
\* policy's refusal is never outranked.
THEOREM CacheOnlyFreshVouched == Spec => []OnlyFreshVouched
<1> QED BY CacheVouched, FreshIsVouched, PTL
==============================================================================
