----------------------------- MODULE RecordProofs -----------------------------
(***************************************************************************)
(* Proofs about decision records: what the audit emitter keeps, writes and *)
(* gives up (module Emitter), for any number of records, callers of        *)
(* flush(), capacity and batch size.                                       *)
(***************************************************************************)
EXTENDS Emitter, OperatorProofs

-----------------------------------------------------------------------------
(* Orders among records *)

\* x was emitted before y.
Precedes(em, x, y) == \E m, n \in DOMAIN em : m < n /\ em[m] = x /\ em[n] = y

InOrder(em, s) == \A i, j \in DOMAIN s : i < j => Precedes(em, s[i], s[j])
AllBefore(em, s, t) == \A i \in DOMAIN s, j \in DOMAIN t : Precedes(em, s[i], t[j])
Once(s) == \A i, j \in DOMAIN s : s[i] = s[j] => i = j

\* The membership of a record in a sequence, by its place.
LEMMA InSeq ==
    ASSUME NEW s, NEW x
    PROVE  x \in ToSet(s) <=> \E i \in DOMAIN s : s[i] = x
BY DEF ToSet

LEMMA DistinctInOrder ==
    ASSUME NEW em \in Seq(Records), Once(em), NEW x, NEW y, Precedes(em, x, y)
    PROVE  x # y
<1>1. PICK m \in DOMAIN em, n \in DOMAIN em : m < n /\ em[m] = x /\ em[n] = y
  BY DEF Precedes
<1>2. m \in Nat /\ n \in Nat /\ m # n
  BY <1>1
<1> QED BY <1>1, <1>2 DEF Once

\* Records in the order they were emitted are different.
LEMMA OnceInOrder ==
    ASSUME NEW em \in Seq(Records), Once(em), NEW s \in Seq(Records), InOrder(em, s)
    PROVE  Once(s)
<1> SUFFICES ASSUME NEW i \in DOMAIN s, NEW j \in DOMAIN s, i # j PROVE s[i] # s[j]
  BY DEF Once
<1>1. i < j \/ j < i
  OBVIOUS
<1>2. CASE i < j
  BY <1>2, DistinctInOrder DEF InOrder
<1>3. CASE j < i
  <2>1. s[j] # s[i]
    BY <1>3, DistinctInOrder DEF InOrder
  <2> QED BY <2>1
<1> QED BY <1>1, <1>2, <1>3

LEMMA ApartInOrder ==
    ASSUME NEW em \in Seq(Records), Once(em), NEW s \in Seq(Records), NEW t \in Seq(Records),
           AllBefore(em, s, t)
    PROVE  ToSet(s) \cap ToSet(t) = {}
<1> SUFFICES ASSUME NEW x \in ToSet(s), x \in ToSet(t) PROVE FALSE
  OBVIOUS
<1>1. PICK i \in DOMAIN s, j \in DOMAIN t : s[i] = x /\ t[j] = x
  BY InSeq
<1>2. Precedes(em, x, x)
  BY <1>1 DEF AllBefore
<1> QED BY <1>2, DistinctInOrder

\* A record that is emitted comes after all that were.
LEMMA EmittedLast ==
    ASSUME NEW em \in Seq(Records), NEW r \in Records
    PROVE  /\ \A x, y : Precedes(em, x, y) => Precedes(Append(em, r), x, y)
           /\ \A x \in ToSet(em) : Precedes(Append(em, r), x, r)
           /\ r \notin ToSet(em) /\ Once(em) => Once(Append(em, r))
<1> DEFINE ex == Append(em, r)
<1>1. /\ Len(em) \in Nat /\ DOMAIN em = 1 .. Len(em) /\ DOMAIN ex = 1 .. Len(em) + 1
      /\ ex[Len(em) + 1] = r /\ \A i \in 1 .. Len(em) : ex[i] = em[i]
  OBVIOUS
<1>2. \A i \in DOMAIN em : i \in DOMAIN ex /\ ex[i] = em[i] /\ i < Len(em) + 1
  BY <1>1
<1> HIDE DEF ex
<1>3. ASSUME NEW x, NEW y, Precedes(em, x, y) PROVE Precedes(ex, x, y)
  BY <1>2, <1>3 DEF Precedes
<1>4. ASSUME NEW x \in ToSet(em) PROVE Precedes(ex, x, r)
  <2>1. PICK i \in DOMAIN em : em[i] = x
    BY InSeq
  <2>2. Len(em) + 1 \in DOMAIN ex /\ ex[Len(em) + 1] = r
    BY <1>1
  <2> QED BY <1>2, <2>1, <2>2 DEF Precedes
<1>5. ASSUME r \notin ToSet(em), Once(em) PROVE Once(ex)
  <2> SUFFICES ASSUME NEW i \in DOMAIN ex, NEW j \in DOMAIN ex, ex[i] = ex[j] PROVE i = j
    BY DEF Once
  <2>1. /\ i = Len(em) + 1 \/ (i \in DOMAIN em /\ ex[i] = em[i])
        /\ j = Len(em) + 1 \/ (j \in DOMAIN em /\ ex[j] = em[j])
    BY <1>1
  <2>2. \A k \in DOMAIN em : em[k] # r
    BY <1>5, InSeq
  <2>3. CASE i = Len(em) + 1 /\ j \in DOMAIN em
    BY <1>1, <2>1, <2>2, <2>3
  <2>4. CASE j = Len(em) + 1 /\ i \in DOMAIN em
    BY <1>1, <2>1, <2>2, <2>4
  <2>5. CASE i \in DOMAIN em /\ j \in DOMAIN em /\ ex[i] = em[i] /\ ex[j] = em[j]
    BY <1>5, <2>5 DEF Once
  <2> QED BY <2>1, <2>3, <2>4, <2>5
<1>6. r \notin ToSet(em) /\ Once(em) => Once(ex)
  BY <1>5
<1> QED BY <1>3, <1>4, <1>6 DEF ex

LEMMA ToSetAppend ==
    ASSUME NEW s \in Seq(Records), NEW r \in Records
    PROVE  ToSet(Append(s, r)) = ToSet(s) \cup {r}
<1> DEFINE t == Append(s, r)
<1>1. /\ Len(s) \in Nat /\ DOMAIN s = 1 .. Len(s) /\ DOMAIN t = 1 .. Len(s) + 1
      /\ t[Len(s) + 1] = r /\ \A i \in 1 .. Len(s) : t[i] = s[i]
  OBVIOUS
<1>2. \A i \in DOMAIN t : i = Len(s) + 1 \/ i \in DOMAIN s
  BY <1>1
<1>3. Len(s) + 1 \in DOMAIN t /\ \A i \in DOMAIN s : i \in DOMAIN t
  BY <1>1
<1> HIDE DEF t
<1>4. ToSet(t) = ToSet(s) \cup {r}
  <2>1. ASSUME NEW x \in ToSet(t) PROVE x \in ToSet(s) \cup {r}
    <3>1. PICK i \in DOMAIN t : t[i] = x
      BY InSeq
    <3> QED BY <1>1, <1>2, <3>1 DEF ToSet
  <2>2. ASSUME NEW x \in ToSet(s) PROVE x \in ToSet(t)
    <3>1. PICK i \in DOMAIN s : s[i] = x
      BY InSeq
    <3> QED BY <1>1, <1>3, <3>1 DEF ToSet
  <2>3. r \in ToSet(t)
    BY <1>1, <1>3 DEF ToSet
  <2> QED BY <2>1, <2>2, <2>3
<1> QED BY <1>4 DEF t

LEMMA ToSetConcat ==
    ASSUME NEW s \in Seq(Records), NEW t \in Seq(Records)
    PROVE  ToSet(s \o t) = ToSet(s) \cup ToSet(t)
<1>1. Range(s \o t) = Range(s) \cup Range(t)
  BY RangeConcatenation
<1> QED BY <1>1 DEF Range, ToSet

\* Two sequences in order, one before the other, are one in order.
LEMMA ConcatInOrder ==
    ASSUME NEW em \in Seq(Records), NEW s \in Seq(Records), NEW t \in Seq(Records),
           InOrder(em, s), InOrder(em, t), AllBefore(em, s, t)
    PROVE  InOrder(em, s \o t)
<1> DEFINE u == s \o t
<1>1. /\ Len(s) \in Nat /\ Len(t) \in Nat
      /\ DOMAIN s = 1 .. Len(s) /\ DOMAIN t = 1 .. Len(t) /\ DOMAIN u = 1 .. Len(s) + Len(t)
      /\ \A i \in 1 .. Len(s) : u[i] = s[i]
      /\ \A i \in Len(s) + 1 .. Len(s) + Len(t) : u[i] = t[i - Len(s)]
  OBVIOUS
<1> HIDE DEF u
<1> SUFFICES ASSUME NEW i \in DOMAIN u, NEW j \in DOMAIN u, i < j PROVE Precedes(em, u[i], u[j])
  BY DEF InOrder, u
<1>2. CASE j <= Len(s)
  <2>1. i \in DOMAIN s /\ j \in DOMAIN s /\ u[i] = s[i] /\ u[j] = s[j]
    BY <1>1, <1>2
  <2> QED BY <2>1 DEF InOrder
<1>3. CASE i <= Len(s) /\ j > Len(s)
  <2>1. i \in DOMAIN s /\ j - Len(s) \in DOMAIN t /\ u[i] = s[i] /\ u[j] = t[j - Len(s)]
    BY <1>1, <1>3
  <2> QED BY <2>1 DEF AllBefore
<1>4. CASE i > Len(s)
  <2>1. /\ i - Len(s) \in DOMAIN t /\ j - Len(s) \in DOMAIN t /\ i - Len(s) < j - Len(s)
        /\ u[i] = t[i - Len(s)] /\ u[j] = t[j - Len(s)]
    BY <1>1, <1>4, SMTT(30)
  <2> QED BY <2>1 DEF InOrder
<1> QED BY <1>1, <1>2, <1>3, <1>4

\* A sequence in order is cut in two that are, the first before the second.
LEMMA CutInOrder ==
    ASSUME NEW em, NEW s \in Seq(Records), InOrder(em, s), NEW n \in 0 .. Len(s)
    PROVE  LET a == SubSeq(s, 1, n)
               b == SubSeq(s, n + 1, Len(s))
           IN  /\ a \in Seq(Records) /\ b \in Seq(Records)
               /\ InOrder(em, a) /\ InOrder(em, b) /\ AllBefore(em, a, b)
               /\ ToSet(a) \cup ToSet(b) = ToSet(s)
<1> DEFINE a == SubSeq(s, 1, n)
           b == SubSeq(s, n + 1, Len(s))
<1>0. n \in Nat /\ Len(s) \in Nat /\ DOMAIN s = 1 .. Len(s)
  OBVIOUS
<1>1. /\ a \in Seq(Records) /\ DOMAIN a = 1 .. n /\ \A i \in 1 .. n : a[i] = s[i]
  BY <1>0
<1>2. /\ b \in Seq(Records) /\ DOMAIN b = 1 .. Len(s) - n
      /\ \A i \in 1 .. Len(s) - n : b[i] = s[n + i]
  BY <1>0
<1>3. \A i \in DOMAIN a : i \in DOMAIN s /\ a[i] = s[i]
  BY <1>0, <1>1
<1>4. \A i \in DOMAIN b : n + i \in DOMAIN s /\ b[i] = s[n + i]
  BY <1>0, <1>2
<1> HIDE DEF a, b
<1>5. InOrder(em, a)
  BY <1>1, <1>3 DEF InOrder
<1>6. InOrder(em, b)
  <2> SUFFICES ASSUME NEW i \in DOMAIN b, NEW j \in DOMAIN b, i < j PROVE Precedes(em, b[i], b[j])
    BY DEF InOrder
  <2>1. n + i < n + j
    BY <1>0, <1>2
  <2> QED BY <1>4, <2>1 DEF InOrder
<1>7. AllBefore(em, a, b)
  <2> SUFFICES ASSUME NEW i \in DOMAIN a, NEW j \in DOMAIN b PROVE Precedes(em, a[i], b[j])
    BY DEF AllBefore
  <2>1. i < n + j
    BY <1>0, <1>1, <1>2
  <2> QED BY <1>3, <1>4, <2>1 DEF InOrder
<1>8. ToSet(a) \subseteq ToSet(s) /\ ToSet(b) \subseteq ToSet(s)
  BY <1>3, <1>4 DEF ToSet
<1>9. ASSUME NEW x \in ToSet(s) PROVE x \in ToSet(a) \cup ToSet(b)
  <2>1. PICK i \in DOMAIN s : s[i] = x
    BY InSeq
  <2>2. CASE i <= n
    <3>1. i \in DOMAIN a /\ a[i] = x
      BY <1>0, <1>1, <2>1, <2>2
    <3> QED BY <3>1 DEF ToSet
  <2>3. CASE i > n
    <3>1. i - n \in DOMAIN b /\ b[i - n] = x
      BY <1>0, <1>2, <2>1, <2>3
    <3> QED BY <3>1 DEF ToSet
  <2> QED BY <1>0, <2>2, <2>3
<1>10. /\ a \in Seq(Records) /\ b \in Seq(Records)
       /\ InOrder(em, a) /\ InOrder(em, b) /\ AllBefore(em, a, b)
       /\ ToSet(a) \cup ToSet(b) = ToSet(s)
  BY <1>1, <1>2, <1>5, <1>6, <1>7, <1>8, <1>9
<1> QED BY <1>10 DEF a, b

\* The same, by the records and not their places.
LEMMA BeforeBySet ==
    ASSUME NEW em, NEW s, NEW t
    PROVE  AllBefore(em, s, t) <=> \A x \in ToSet(s), y \in ToSet(t) : Precedes(em, x, y)
BY DEF AllBefore, ToSet

LEMMA EmptyBuffer ==
    ASSUME NEW em
    PROVE  /\ <<>> \in Seq(Records) /\ ToSet(<<>>) = {} /\ InOrder(em, <<>>)
           /\ \A s : AllBefore(em, s, <<>>) /\ AllBefore(em, <<>>, s)
BY DEF ToSet, InOrder, AllBefore

-----------------------------------------------------------------------------
(* The records of an emitter: what holds of em, emitted, of w, written, and of   *)
(* the queue q and the batch p between them.  A batch was written before the     *)
(* sink's answer was lost, or is after all that was written.                     *)

OrderInv(em, q, p, w) ==
    /\ em \in Seq(Records) /\ q \in Seq(Records) /\ p \in Seq(Records) /\ w \in Seq(Records)
    /\ Once(em)
    /\ ToSet(q) \cup ToSet(p) \cup ToSet(w) \subseteq ToSet(em)
    /\ InOrder(em, q) /\ InOrder(em, p) /\ InOrder(em, w)
    /\ AllBefore(em, p, q) /\ AllBefore(em, w, q)
    /\ \/ ToSet(p) \subseteq ToSet(w) /\ ToSet(p) \cap Poison = {}
       \/ AllBefore(em, w, p)

Missing(em, q, p, w) == ToSet(em) \ (ToSet(p) \cup ToSet(q) \cup ToSet(w))

LEMMA OrderTypes ==
    ASSUME NEW em, NEW q, NEW p, NEW w, OrderInv(em, q, p, w)
    PROVE  em \in Seq(Records) /\ q \in Seq(Records) /\ p \in Seq(Records) /\ w \in Seq(Records)
BY Zenon DEF OrderInv

\* A record is emitted, and put in the queue or not.
LEMMA OrderEmit ==
    ASSUME NEW em, NEW q, NEW p, NEW w, OrderInv(em, q, p, w),
           NEW r \in Records, r \notin ToSet(em)
    PROVE  /\ OrderInv(Append(em, r), q, p, w)
           /\ OrderInv(Append(em, r), Append(q, r), p, w)
           /\ Missing(Append(em, r), Append(q, r), p, w) = Missing(em, q, p, w)
           /\ Missing(Append(em, r), q, p, w) = Missing(em, q, p, w) \cup {r}
           /\ r \notin Missing(em, q, p, w)
<1> DEFINE ex == Append(em, r)
           qx == Append(q, r)
<1>0. em \in Seq(Records) /\ q \in Seq(Records) /\ p \in Seq(Records) /\ w \in Seq(Records)
  BY OrderTypes
<1>1. /\ ex \in Seq(Records) /\ qx \in Seq(Records)
      /\ ToSet(ex) = ToSet(em) \cup {r} /\ ToSet(qx) = ToSet(q) \cup {r}
  BY <1>0, ToSetAppend
<1>2. /\ Once(em) /\ ToSet(q) \cup ToSet(p) \cup ToSet(w) \subseteq ToSet(em)
      /\ InOrder(em, q) /\ InOrder(em, p) /\ InOrder(em, w)
      /\ AllBefore(em, p, q) /\ AllBefore(em, w, q)
      /\ \/ ToSet(p) \subseteq ToSet(w) /\ ToSet(p) \cap Poison = {}
         \/ AllBefore(em, w, p)
  BY Zenon DEF OrderInv
<1>3. /\ \A x, y : Precedes(em, x, y) => Precedes(ex, x, y)
      /\ \A x \in ToSet(em) : Precedes(ex, x, r)
      /\ Once(ex)
  BY <1>0, <1>2, EmittedLast
<1>4. qx = q \o <<r>> /\ <<r>> \in Seq(Records) /\ ToSet(<<r>>) = {r}
  BY <1>0 DEF ToSet
<1> HIDE DEF ex, qx
<1>5. /\ InOrder(ex, q) /\ InOrder(ex, p) /\ InOrder(ex, w)
      /\ AllBefore(ex, p, q) /\ AllBefore(ex, w, q)
      /\ AllBefore(em, w, p) => AllBefore(ex, w, p)
  BY <1>2, <1>3 DEF InOrder, AllBefore
<1>6. InOrder(ex, qx)
  <2>1. AllBefore(ex, q, <<r>>)
    BY <1>2, <1>3, <1>4, BeforeBySet
  <2>2. InOrder(ex, <<r>>)
    BY DEF InOrder
  <2> QED BY <1>0, <1>1, <1>4, <1>5, <2>1, <2>2, ConcatInOrder
<1>7. AllBefore(ex, p, qx) /\ AllBefore(ex, w, qx)
  <2>1. \A x \in ToSet(p), y \in ToSet(q) : Precedes(ex, x, y)
    BY <1>5, BeforeBySet
  <2>2. \A x \in ToSet(w), y \in ToSet(q) : Precedes(ex, x, y)
    BY <1>5, BeforeBySet
  <2>3. \A x \in ToSet(p) \cup ToSet(w) : Precedes(ex, x, r)
    BY <1>2, <1>3
  <2> QED BY <1>1, <2>1, <2>2, <2>3, BeforeBySet
<1>8. OrderInv(ex, q, p, w)
  BY <1>0, <1>1, <1>2, <1>3, <1>5 DEF OrderInv
<1>9. OrderInv(ex, qx, p, w)
  <2>1. ToSet(qx) \cup ToSet(p) \cup ToSet(w) \subseteq ToSet(ex)
    BY <1>1, <1>2
  <2> QED BY <1>0, <1>1, <1>2, <1>3, <1>5, <1>6, <1>7, <2>1 DEF OrderInv
<1>10. /\ Missing(ex, qx, p, w) = Missing(em, q, p, w)
       /\ Missing(ex, q, p, w) = Missing(em, q, p, w) \cup {r}
       /\ r \notin Missing(em, q, p, w)
  BY <1>1, <1>2 DEF Missing
<1> QED BY <1>8, <1>9, <1>10 DEF ex, qx

\* The sink commits the batch, as append() does.
LEMMA OrderCommit ==
    ASSUME NEW em, NEW q, NEW p, NEW w, OrderInv(em, q, p, w), ToSet(p) \cap Poison = {}
    PROVE  /\ OrderInv(em, q, p, w \o Skipping(p, ToSet(w)))
           /\ ToSet(w \o Skipping(p, ToSet(w))) = ToSet(w) \cup ToSet(p)
<1> DEFINE k == Skipping(p, ToSet(w))
           wx == w \o k
<1>0. em \in Seq(Records) /\ q \in Seq(Records) /\ p \in Seq(Records) /\ w \in Seq(Records)
      /\ DOMAIN p = 1 .. Len(p)
  BY OrderTypes
<1>1. /\ Once(em) /\ ToSet(q) \cup ToSet(p) \cup ToSet(w) \subseteq ToSet(em)
      /\ InOrder(em, q) /\ InOrder(em, p) /\ InOrder(em, w)
      /\ AllBefore(em, p, q) /\ AllBefore(em, w, q)
      /\ ToSet(p) \subseteq ToSet(w) \/ AllBefore(em, w, p)
  BY Zenon DEF OrderInv
<1>2. Keeps(k, Records, p, ToSet(w), Len(p))
  BY <1>0, SkippingKeeps
<1> HIDE DEF k
<1>3. k \in Seq(Records) /\ DOMAIN k = 1 .. Len(k)
  <2>1. k \in Seq(Records)
    BY <1>2, Zenon DEF Keeps
  <2> QED BY <2>1
<1>4. ASSUME NEW x \in ToSet(k) PROVE x \in ToSet(p) /\ x \notin ToSet(w)
  <2>1. PICK i \in 1 .. Len(k) : k[i] = x
    BY <1>3, InSeq
  <2>2. PICK m \in 1 .. Len(p) : p[m] = k[i] /\ p[m] \notin ToSet(w)
    BY <1>2, Zenon DEF Keeps
  <2> QED BY <1>0, <2>1, <2>2 DEF ToSet
<1>5. ASSUME NEW x \in ToSet(p), x \notin ToSet(w) PROVE x \in ToSet(k)
  <2>1. PICK m \in 1 .. Len(p) : p[m] = x
    BY <1>0, InSeq
  <2>2. p[m] \notin ToSet(w)
    BY <1>5, <2>1
  <2>3. PICK i \in 1 .. Len(k) : k[i] = p[m]
    BY <1>2, <2>2, Zenon DEF Keeps
  <2> QED BY <1>3, <2>1, <2>3 DEF ToSet
<1>6. ToSet(wx) = ToSet(w) \cup ToSet(p) /\ wx \in Seq(Records)
  <2>1. ToSet(wx) = ToSet(w) \cup ToSet(k) /\ wx \in Seq(Records)
    BY <1>0, <1>3, ToSetConcat
  <2> QED BY <1>4, <1>5, <2>1
<1>7. InOrder(em, k)
  <2> SUFFICES ASSUME NEW i \in DOMAIN k, NEW j \in DOMAIN k, i < j PROVE Precedes(em, k[i], k[j])
    BY DEF InOrder
  <2>0. /\ i \in 1 .. Len(k) /\ j \in 1 .. Len(k)
        /\ \A a, b \in 1 .. Len(k) : a < b =>
              \E m, n \in 1 .. Len(p) : m < n /\ p[m] = k[a] /\ p[n] = k[b]
    BY <1>2, <1>3, Zenon DEF Keeps
  <2>1. PICK m \in 1 .. Len(p), n \in 1 .. Len(p) : m < n /\ p[m] = k[i] /\ p[n] = k[j]
    BY <2>0
  <2> QED BY <1>0, <1>1, <2>1 DEF InOrder
<1>8. AllBefore(em, w, k)
  <2> SUFFICES ASSUME NEW x \in ToSet(w), NEW y \in ToSet(k) PROVE Precedes(em, x, y)
    BY BeforeBySet
  <2>1. y \in ToSet(p) /\ y \notin ToSet(w)
    BY <1>4
  <2>2. AllBefore(em, w, p)
    BY <1>1, <2>1
  <2> QED BY <2>1, <2>2, BeforeBySet
<1>9. InOrder(em, wx)
  BY <1>0, <1>1, <1>3, <1>7, <1>8, ConcatInOrder
<1> HIDE DEF wx
<1>10. AllBefore(em, wx, q)
  BY <1>1, <1>6, BeforeBySet
<1>11. OrderInv(em, q, p, wx)
  <2>1. ToSet(q) \cup ToSet(p) \cup ToSet(wx) \subseteq ToSet(em)
    BY <1>1, <1>6
  <2>2. ToSet(p) \subseteq ToSet(wx)
    BY <1>6
  <2> QED BY <1>0, <1>1, <1>6, <1>9, <1>10, <2>1, <2>2 DEF OrderInv
<1> QED BY <1>6, <1>11 DEF wx, k

\* The batch is done with, one way or the other.
LEMMA OrderDrop ==
    ASSUME NEW em, NEW q, NEW p, NEW w, OrderInv(em, q, p, w)
    PROVE  OrderInv(em, q, <<>>, w)
<1>1. /\ em \in Seq(Records) /\ q \in Seq(Records) /\ p \in Seq(Records) /\ w \in Seq(Records)
      /\ Once(em) /\ ToSet(q) \cup ToSet(p) \cup ToSet(w) \subseteq ToSet(em)
      /\ InOrder(em, q) /\ InOrder(em, w) /\ AllBefore(em, w, q)
  BY Zenon DEF OrderInv
<1>2. /\ <<>> \in Seq(Records) /\ ToSet(<<>>) = {} /\ InOrder(em, <<>>)
      /\ AllBefore(em, w, <<>>) /\ AllBefore(em, <<>>, q)
  BY EmptyBuffer
<1> QED BY <1>1, <1>2 DEF OrderInv

\* A new batch is taken off the head of the queue.
LEMMA OrderTake ==
    ASSUME NEW em, NEW q, NEW w, OrderInv(em, q, <<>>, w), NEW n \in 0 .. Len(q)
    PROVE  /\ OrderInv(em, SubSeq(q, n + 1, Len(q)), SubSeq(q, 1, n), w)
           /\ ToSet(SubSeq(q, 1, n)) \cup ToSet(SubSeq(q, n + 1, Len(q))) = ToSet(q)
<1> DEFINE a == SubSeq(q, 1, n)
           b == SubSeq(q, n + 1, Len(q))
<1>1. /\ em \in Seq(Records) /\ q \in Seq(Records) /\ w \in Seq(Records)
      /\ Once(em) /\ ToSet(q) \cup ToSet(w) \subseteq ToSet(em)
      /\ InOrder(em, q) /\ InOrder(em, w) /\ AllBefore(em, w, q)
  BY DEF OrderInv
<1>2. /\ a \in Seq(Records) /\ b \in Seq(Records)
      /\ InOrder(em, a) /\ InOrder(em, b) /\ AllBefore(em, a, b)
      /\ ToSet(a) \cup ToSet(b) = ToSet(q)
  BY <1>1, CutInOrder
<1> HIDE DEF a, b
<1>3. ToSet(a) \subseteq ToSet(q) /\ ToSet(b) \subseteq ToSet(q)
  BY <1>2
<1>4. AllBefore(em, w, a) /\ AllBefore(em, w, b)
  BY <1>1, <1>3, BeforeBySet
<1>5. OrderInv(em, b, a, w)
  <2>1. ToSet(b) \cup ToSet(a) \cup ToSet(w) \subseteq ToSet(em)
    BY <1>1, <1>3
  <2> QED BY <1>1, <1>2, <1>4, <2>1 DEF OrderInv
<1> QED BY <1>2, <1>5 DEF a, b

-----------------------------------------------------------------------------
(* The emitter: the invariant *)

EmitterInv ==
    /\ OrderInv(emitted, queue, pending, written)
    /\ dropped \in Nat /\ lost \in Nat
    /\ RecordsAccounted

\* What is missing is a finite set; giving up a batch adds as many as it has.
LEMMA MissingFinite ==
    ASSUME NEW em, NEW q, NEW p, NEW w, OrderInv(em, q, p, w)
    PROVE  /\ IsFiniteSet(Missing(em, q, p, w))
           /\ Cardinality(Missing(em, q, p, w)) \in Nat
<1>1. em \in Seq(Records) /\ DOMAIN em = 1 .. Len(em) /\ Len(em) \in Nat
  BY OrderTypes
<1>2. em \in Surjection(1 .. Len(em), ToSet(em))
  BY <1>1 DEF Surjection, ToSet
<1>3. IsFiniteSet(1 .. Len(em))
  BY <1>1, FS_Interval
<1>4. IsFiniteSet(ToSet(em))
  BY <1>2, <1>3, FS_Surjection
<1>5. Missing(em, q, p, w) \subseteq ToSet(em)
  BY DEF Missing
<1> QED BY <1>4, <1>5, FS_Subset, FS_CardinalityType

LEMMA UpTo == ASSUME NEW n \in Nat PROVE IsFiniteSet(1 .. n) /\ Cardinality(1 .. n) = n
BY FS_Interval

LEMMA GivenUp ==
    ASSUME NEW em, NEW q, NEW p, NEW w, OrderInv(em, q, p, w), ToSet(p) \cap Poison # {}
    PROVE  Cardinality(Missing(em, q, <<>>, w)) =
              Cardinality(Missing(em, q, p, w)) + Len(p)
<1> DEFINE A == Missing(em, q, p, w)
           B == Missing(em, q, <<>>, w)
           P == ToSet(p)
<1>1. em \in Seq(Records) /\ q \in Seq(Records) /\ p \in Seq(Records) /\ w \in Seq(Records)
      /\ DOMAIN p = 1 .. Len(p) /\ Len(p) \in Nat
  BY OrderTypes
<1>2. /\ Once(em) /\ InOrder(em, p) /\ AllBefore(em, p, q) /\ AllBefore(em, w, p)
      /\ P \subseteq ToSet(em)
  BY DEF OrderInv
<1>3. Once(p) /\ P \cap ToSet(q) = {} /\ ToSet(w) \cap P = {}
  BY <1>1, <1>2, OnceInOrder, ApartInOrder
<1>4. IsFiniteSet(P) /\ Cardinality(P) = Len(p)
  <2>1. p \in Surjection(1 .. Len(p), P)
    BY <1>1 DEF Surjection, ToSet
  <2>2. p \in Injection(1 .. Len(p), P)
    BY <1>1, <1>3 DEF Injection, IsInjective, Once, ToSet
  <2>3. IsFiniteSet(1 .. Len(p)) /\ Cardinality(1 .. Len(p)) = Len(p)
    BY <1>1, UpTo
  <2> HIDE DEF P
  <2> QED BY <2>1, <2>2, <2>3, FS_Surjection
<1>5. B = A \cup P /\ A \cap P = {}
  <2>1. ToSet(<<>>) = {}
    BY EmptyBuffer
  <2> QED BY <1>2, <1>3, <2>1 DEF Missing
<1>6. IsFiniteSet(A) /\ Cardinality(A) \in Nat
  BY MissingFinite
<1> HIDE DEF A, B, P
<1>7. Cardinality(A \cup P) = Cardinality(A) + Cardinality(P) - Cardinality(A \cap P)
  BY <1>4, <1>6, FS_Union
<1>8. Cardinality(A \cap P) = 0
  BY <1>5, FS_EmptySet
<1>9. Cardinality(B) = Cardinality(A) + Len(p)
  BY <1>1, <1>4, <1>5, <1>6, <1>7, <1>8
<1> QED BY <1>9 DEF A, B

\* Whether or not the next batch is sent at once, the records stay.
Sent(batch) ==
    \/ pending' = batch /\ queue' = queue
    \/ pending' = TakeBatch(batch).batch /\ queue' = TakeBatch(batch).rest

LEMMA SentKeeps ==
    ASSUME NEW batch, NEW w, OrderInv(emitted, queue, batch, w), Sent(batch)
    PROVE  /\ OrderInv(emitted, queue', pending', w)
           /\ Missing(emitted, queue', pending', w) = Missing(emitted, queue, batch, w)
<1>1. CASE pending' = batch /\ queue' = queue
  BY <1>1
<1>2. CASE pending' = TakeBatch(batch).batch /\ queue' = TakeBatch(batch).rest
  <2>1. CASE batch # <<>>
    <3>1. pending' = batch /\ queue' = queue
      BY <1>2, <2>1 DEF TakeBatch
    <3> QED BY <3>1
  <2>2. CASE batch = <<>>
    <3> DEFINE n == IF Len(queue) <= BatchMax THEN Len(queue) ELSE BatchMax
    <3>1. queue \in Seq(Records)
      BY OrderTypes
    <3>2. n \in 0 .. Len(queue)
      BY <3>1, EmitterConstants
    <3>3. pending' = SubSeq(queue, 1, n) /\ queue' = SubSeq(queue, n + 1, Len(queue))
      BY <1>2, <2>2 DEF TakeBatch
    <3> HIDE DEF n
    <3>4. OrderInv(emitted, queue, <<>>, w)
      BY <2>2
    <3>5. /\ OrderInv(emitted, queue', pending', w)
          /\ ToSet(pending') \cup ToSet(queue') = ToSet(queue)
      BY <3>2, <3>3, <3>4, OrderTake
    <3>6. ToSet(batch) = {}
      BY <2>2, EmptyBuffer
    <3> QED BY <3>5, <3>6 DEF Missing
  <2> QED BY <2>1, <2>2
<1> QED BY <1>1, <1>2 DEF Sent

LEMMA EndIsSent ==
    ASSUME NEW batch, EndWrite(batch)
    PROVE  Sent(batch)
BY DEF EndWrite, StartWrite, Sent

LEMMA StartIsSent ==
    ASSUME StartWrite(pending)
    PROVE  Sent(pending)
BY DEF StartWrite, Sent

LEMMA AccountedIs ==
    RecordsAccounted <=> Cardinality(Missing(emitted, queue, pending, written)) = dropped + lost
BY DEF RecordsAccounted, Missing, Buffered

\* Sending a batch on changes no count.
LEMMA SentStep ==
    ASSUME EmitterInv, Sent(pending) \/ UNCHANGED <<queue, pending>>,
           UNCHANGED <<emitted, written, dropped, lost>>
    PROVE  EmitterInv'
<1>1. Sent(pending)
  BY DEF Sent
<1>2. /\ OrderInv(emitted, queue', pending', written)
      /\ Missing(emitted, queue', pending', written) = Missing(emitted, queue, pending, written)
  BY <1>1, SentKeeps DEF EmitterInv
<1>3. Cardinality(Missing(emitted, queue, pending, written)) = dropped + lost
  BY AccountedIs DEF EmitterInv
<1>4. RecordsAccounted'
  BY <1>2, <1>3 DEF RecordsAccounted, Missing, Buffered
<1> QED BY <1>2, <1>4 DEF EmitterInv

\* The sink may have committed the batch, which is then kept or done with.
LEMMA WriteStep ==
    ASSUME EmitterInv, ~ Poisoned /\ Commits, NEW batch \in {<<>>, pending}, Sent(batch),
           UNCHANGED <<emitted, dropped, lost>>
    PROVE  EmitterInv'
<1>1. /\ OrderInv(emitted, queue, pending, written')
      /\ ToSet(written') = ToSet(written) \cup ToSet(pending)
  BY OrderCommit DEF EmitterInv, Commits, Poisoned
<1>2. OrderInv(emitted, queue, batch, written')
  BY <1>1, OrderDrop
<1>3. Missing(emitted, queue, batch, written') = Missing(emitted, queue, pending, written)
  <2>1. ToSet(<<>>) = {}
    BY EmptyBuffer
  <2> QED BY <1>1, <2>1 DEF Missing
<1>4. /\ OrderInv(emitted, queue', pending', written')
      /\ Missing(emitted, queue', pending', written') = Missing(emitted, queue, pending, written)
  <2> DEFINE w == written'
  <2>1. OrderInv(emitted, queue, batch, w)
    BY <1>2
  <2> HIDE DEF w
  <2>2. /\ OrderInv(emitted, queue', pending', w)
        /\ Missing(emitted, queue', pending', w) = Missing(emitted, queue, batch, w)
    BY <2>1, SentKeeps
  <2> QED BY <1>3, <2>2 DEF w
<1>5. Cardinality(Missing(emitted, queue, pending, written)) = dropped + lost
  BY AccountedIs DEF EmitterInv
<1>6. RecordsAccounted'
  BY <1>4, <1>5 DEF RecordsAccounted, Missing, Buffered
<1> QED BY <1>4, <1>6 DEF EmitterInv

\* The batch is given up for good, and counted.
LEMMA RejectStep ==
    ASSUME EmitterInv, Poisoned, lost' = lost + Len(pending), Sent(<<>>),
           UNCHANGED <<emitted, written, dropped>>
    PROVE  EmitterInv'
<1>1. OrderInv(emitted, queue, pending, written) /\ dropped \in Nat /\ lost \in Nat
  BY DEF EmitterInv
<1>2. Len(pending) \in Nat
  BY <1>1, OrderTypes
<1>3. Cardinality(Missing(emitted, queue, <<>>, written)) =
        Cardinality(Missing(emitted, queue, pending, written)) + Len(pending)
  BY <1>1, GivenUp DEF Poisoned
<1>4. OrderInv(emitted, queue, <<>>, written)
  BY <1>1, OrderDrop
<1>5. /\ OrderInv(emitted, queue', pending', written)
      /\ Missing(emitted, queue', pending', written) = Missing(emitted, queue, <<>>, written)
  BY <1>4, SentKeeps
<1>6. Cardinality(Missing(emitted, queue, pending, written)) = dropped + lost
  BY AccountedIs DEF EmitterInv
<1>7. Cardinality(Missing(emitted, queue', pending', written)) = dropped + lost'
  BY <1>1, <1>2, <1>3, <1>5, <1>6
<1>8. RecordsAccounted'
  BY <1>7 DEF RecordsAccounted, Missing, Buffered
<1>9. lost' \in Nat
  BY <1>1, <1>2
<1> QED BY <1>1, <1>5, <1>8, <1>9 DEF EmitterInv

LEMMA EmitStep ==
    ASSUME EmitterInv, NEW r \in Records, Emit(r)
    PROVE  EmitterInv'
<1> DEFINE A == Missing(emitted, queue, pending, written)
<1>1. /\ OrderInv(emitted, queue, pending, written) /\ dropped \in Nat /\ lost \in Nat
      /\ Cardinality(A) = dropped + lost
  BY AccountedIs DEF EmitterInv
<1>2. /\ r \notin ToSet(emitted) /\ emitted' = Append(emitted, r)
      /\ UNCHANGED <<pending, written, lost>>
      /\ \/ queue' = Append(queue, r) /\ dropped' = dropped
         \/ queue' = queue /\ dropped' = dropped + 1
  BY DEF Emit, NotEmitted
<1>3. /\ OrderInv(Append(emitted, r), queue, pending, written)
      /\ OrderInv(Append(emitted, r), Append(queue, r), pending, written)
      /\ Missing(Append(emitted, r), Append(queue, r), pending, written) = A
      /\ Missing(Append(emitted, r), queue, pending, written) = A \cup {r}
      /\ r \notin A
  BY <1>1, <1>2, OrderEmit
<1>4. IsFiniteSet(A)
  BY <1>1, MissingFinite
<1> HIDE DEF A
<1>5. Cardinality(A \cup {r}) = Cardinality(A) + 1
  BY <1>3, <1>4, FS_AddElement
<1>6. CASE queue' = Append(queue, r) /\ dropped' = dropped
  <2>1. OrderInv(emitted', queue', pending', written')
    BY <1>2, <1>3, <1>6
  <2>2. Cardinality(Missing(emitted', queue', pending', written')) = dropped' + lost'
    BY <1>1, <1>2, <1>3, <1>6
  <2> QED BY <1>1, <1>2, <1>6, <2>1, <2>2 DEF EmitterInv, RecordsAccounted, Missing, Buffered
<1>7. CASE queue' = queue /\ dropped' = dropped + 1
  <2>1. OrderInv(emitted', queue', pending', written')
    BY <1>2, <1>3, <1>7
  <2>2. Cardinality(Missing(emitted', queue', pending', written')) = dropped' + lost'
    <3>1. Missing(emitted', queue', pending', written') = A \cup {r}
      BY <1>2, <1>3, <1>7
    <3>2. Cardinality(A \cup {r}) = dropped' + lost'
      BY <1>1, <1>2, <1>5, <1>7
    <3> QED BY <3>1, <3>2
  <2>3. dropped' \in Nat /\ lost' \in Nat
    BY <1>1, <1>2, <1>7
  <2> QED BY <2>1, <2>2, <2>3 DEF EmitterInv, RecordsAccounted, Missing, Buffered
<1> QED BY <1>2, <1>6, <1>7

LEMMA EmitterInvInit == EmitterInit => EmitterInv
<1> SUFFICES ASSUME EmitterInit PROVE EmitterInv
  OBVIOUS
<1>1. emitted = <<>> /\ queue = <<>> /\ pending = <<>> /\ written = <<>>
      /\ dropped = 0 /\ lost = 0
  BY DEF EmitterInit
<1>2. OrderInv(emitted, queue, pending, written)
  <2>1. Once(<<>>)
    BY DEF Once
  <2> QED BY <1>1, <2>1, EmptyBuffer DEF OrderInv
<1>3. Missing(emitted, queue, pending, written) = {}
  BY <1>1, EmptyBuffer DEF Missing
<1>4. RecordsAccounted
  BY <1>1, <1>3, AccountedIs, FS_EmptySet
<1> QED BY <1>1, <1>2, <1>4 DEF EmitterInv

LEMMA EmitterInvNext == EmitterInv /\ [EmitterNext]_emitterVars => EmitterInv'
<1> SUFFICES ASSUME EmitterInv, [EmitterNext]_emitterVars PROVE EmitterInv'
  OBVIOUS
<1>1. ASSUME NEW r \in Records, Emit(r) PROVE EmitterInv'
  BY <1>1, EmitStep
<1>2. CASE RunTick
  BY <1>2, SentStep, StartIsSent DEF RunTick, counters
<1>3. ASSUME NEW f, FlushCall(f), UNCHANGED <<emitted, written, dropped, lost>>
      PROVE  EmitterInv'
  BY <1>3, SentStep, StartIsSent DEF FlushCall
<1>4. ASSUME NEW f \in Flushers \ {Closer}, FlushCalled(f) PROVE EmitterInv'
  BY <1>3, <1>4 DEF FlushCalled, counters
<1>5. CASE Wake
  BY <1>5, SentStep, StartIsSent DEF Wake, counters
<1>6. CASE NothingToWrite
  <2>1. pending = <<>> /\ EndWrite(pending) /\ UNCHANGED <<emitted, written, dropped, lost>>
    BY <1>6 DEF NothingToWrite, Empty, Unchanging
  <2> QED BY <2>1, EndIsSent, SentStep
<1>7. CASE SinkWrites
  <2>1. ~ Poisoned /\ Commits /\ Sent(<<>>) /\ UNCHANGED <<emitted, dropped, lost>>
    BY <1>7, EndIsSent DEF SinkWrites, Unchanging
  <2> QED BY <2>1, WriteStep
<1>8. CASE SinkFails
  <2>1. /\ (~ Poisoned /\ Commits) \/ UNCHANGED written
        /\ Sent(pending) /\ UNCHANGED <<emitted, dropped, lost>>
    BY <1>8, EndIsSent DEF SinkFails, Unchanging
  <2>2. CASE ~ Poisoned /\ Commits
    BY <2>1, <2>2, WriteStep
  <2>3. CASE UNCHANGED written
    BY <2>1, <2>3, SentStep
  <2> QED BY <2>1, <2>2, <2>3
<1>9. CASE SinkRejects
  <2>1. /\ Poisoned /\ lost' = lost + Len(pending) /\ Sent(<<>>)
        /\ UNCHANGED <<emitted, written, dropped>>
    BY <1>9, EndIsSent DEF SinkRejects, Unchanging
  <2> QED BY <2>1, RejectStep
<1>10. CASE CloseCalled
  <2>1. /\ UNCHANGED bufferVars \/ FlushCall(Closer)
        /\ UNCHANGED <<emitted, written, dropped, lost>>
    BY <1>10 DEF CloseCalled, counters
  <2>2. CASE UNCHANGED bufferVars
    BY <2>1, <2>2, SentStep DEF bufferVars
  <2> QED BY <1>3, <2>1, <2>2
<1>11. CASE CancelRunner
  <2>1. /\ (~ Poisoned /\ Commits) \/ UNCHANGED written
        /\ UNCHANGED <<queue, pending, emitted, dropped, lost>>
    BY <1>11 DEF CancelRunner, counters
  <2>2. Sent(pending)
    BY <2>1 DEF Sent
  <2>3. CASE ~ Poisoned /\ Commits
    BY <2>1, <2>2, <2>3, WriteStep
  <2>4. CASE UNCHANGED written
    BY <2>1, <2>4, SentStep
  <2> QED BY <2>1, <2>3, <2>4
<1>12. CASE UNCHANGED emitterVars
  BY <1>12, SentStep DEF emitterVars, bufferVars, counters, history
<1> QED BY <1>1, <1>2, <1>4, <1>5, <1>6, <1>7, <1>8, <1>9, <1>10, <1>11, <1>12 DEF EmitterNext

\* No record of a request that went ahead disappears uncounted, whichever coroutine
\* takes, retries or gives up a batch, and whatever the sink answers (emitter.py).
THEOREM EmitterRecordsAccounted == EmitterSpec => []RecordsAccounted
<1>1. EmitterInv => RecordsAccounted
  BY DEF EmitterInv
<1> QED BY <1>1, EmitterInvInit, EmitterInvNext, PTL DEF EmitterSpec

\* The chain has each record once and in the order it was decided, for any number of
\* retries after lost answers (_write_batch_locked with append).
THEOREM EmitterWrittenInOrder == EmitterSpec => []WrittenInOrder
<1>1. EmitterInv => WrittenInOrder
  <2>1. EmitterInv => InOrder(emitted, written)
    BY DEF EmitterInv, OrderInv
  <2> QED BY <2>1 DEF WrittenInOrder, InOrder, Precedes
<1> QED BY <1>1, EmitterInvInit, EmitterInvNext, PTL DEF EmitterSpec

\* flush() that returns from a write the sink answered leaves nothing buffered
\* (flush(), the loop's condition and its test for progress).
THEOREM EmitterFlushLeavesNothing == EmitterSpec => FlushLeavesNothing
<1> DEFINE Leaves == \A f \in Flushers :
               flush[f].on /\ ~ flush'[f].on /\ pending' = <<>> => queue' = <<>>
<1>1. ASSUME NEW batch, EndWrite(batch) PROVE Leaves
  <2> SUFFICES ASSUME NEW f \in Flushers, flush[f].on, ~ flush'[f].on, pending' = <<>>
               PROVE  queue' = <<>>
    OBVIOUS
  <2> DEFINE w == Head(lock)
             again == /\ w \in Flushers /\ ~ (queue = <<>> /\ batch = <<>>)
                      /\ ~ (/\ batch # <<>>
                            /\ batch = flush[w].batch \/ Len(queue) = flush[w].size)
  <2>1. /\ flush' = [g \in Flushers |->
                       IF g # w THEN flush[g]
                       ELSE IF again
                       THEN [on |-> TRUE, batch |-> batch, size |-> Len(queue)]
                       ELSE NotFlushing]
        /\ ~ again => pending' = batch /\ queue' = queue
    BY <1>1 DEF EndWrite
  <2>2. f = w /\ ~ again
    BY <2>1
  <2> QED BY <2>1, <2>2
<1>2. ASSUME NEW f, FlushCall(f) PROVE Leaves
  BY <1>2 DEF FlushCall
<1>3. ASSUME UNCHANGED flush PROVE Leaves
  BY <1>3
<1>4. ASSUME [EmitterNext]_emitterVars PROVE Leaves
  <2>1. ASSUME NEW r \in Records, Emit(r) PROVE UNCHANGED flush
    BY <2>1 DEF Emit
  <2>2. RunTick \/ Wake \/ CancelRunner => UNCHANGED flush
    BY DEF RunTick, Wake, CancelRunner
  <2>3. NothingToWrite \/ SinkWrites \/ SinkFails \/ SinkRejects => \E batch : EndWrite(batch)
    BY DEF NothingToWrite, SinkWrites, SinkFails, SinkRejects
  <2>4. ASSUME NEW f \in Flushers \ {Closer}, FlushCalled(f) PROVE FlushCall(f)
    BY <2>4 DEF FlushCalled
  <2>5. CloseCalled => UNCHANGED flush \/ FlushCall(Closer)
    BY DEF CloseCalled, bufferVars
  <2>6. UNCHANGED emitterVars => UNCHANGED flush
    BY DEF emitterVars, bufferVars
  <2> HIDE DEF Leaves
  <2> QED BY <1>1, <1>2, <1>3, <1>4, <2>1, <2>2, <2>3, <2>4, <2>5, <2>6 DEF EmitterNext
<1>5. EmitterSpec => [][EmitterNext]_emitterVars
  BY DEF EmitterSpec
<1>6. [][EmitterNext]_emitterVars => [][Leaves]_emitterVars
  BY <1>4, PTL
<1> QED BY <1>5, <1>6 DEF FlushLeavesNothing
=============================================================================
