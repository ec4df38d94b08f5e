--------------------------- MODULE OperatorProofs ---------------------------
(***************************************************************************)
(* Lemmas about the operators the modules are built from: the induction    *)
(* they rest on, loops over the positions of a sequence, the maximum and   *)
(* the minimum of a set of naturals, what SumOver of module UnitSums adds  *)
(* up and what Skipping of module Filtering keeps.                         *)
(***************************************************************************)
EXTENDS UnitSums, Filtering, FiniteSetsExt, SequenceTheorems, FiniteSetTheorems,
        WellFoundedInduction, TLAPS

NatLess == {ss \in Nat \X Nat : ss[1] < ss[2]}

\* "Less than" on the naturals has no infinite descent (as a set of pairs).
LEMMA NatLessWellFounded == IsWellFoundedOn(NatLess, Nat)
BY NatLessThanWellFounded, Zenon DEF OpToRel, NatLess

\* Induction, for a set of naturals: one that holds 0 and is closed under
\* successor up to n holds everything up to n.
LEMMA SetInduction ==
    ASSUME NEW n \in Nat, NEW S, 0 \in S,
           \A i \in 1 .. n : i - 1 \in S => i \in S
    PROVE  0 .. n \subseteq S
<1>1. SUFFICES ASSUME (0 .. n) \ S # {} PROVE FALSE
  OBVIOUS
<1>2. PICK x \in (0 .. n) \ S : \A y \in (0 .. n) \ S : ~ (<<y, x>> \in NatLess)
  <2>1. (0 .. n) \ S \subseteq Nat
    OBVIOUS
  <2> QED BY <1>1, <2>1, NatLessWellFounded, WFMin
<1>3. x \in 1 .. n /\ x - 1 \in 0 .. n
  BY <1>2
<1>4. x - 1 \in (0 .. n) \ S
  BY <1>2, <1>3
<1>5. <<x - 1, x>> \in NatLess
  BY <1>3 DEF NatLess
<1> QED BY <1>2, <1>4, <1>5

-----------------------------------------------------------------------------
(* Loops *)

\* run is what a loop over 1..n with body step[i] goes through from s.
IsLoopRun(run, n, V, s, step) ==
    /\ run \in [0 .. n -> V]
    /\ run[0] = s
    /\ \A i \in 1 .. n : run[i] = step[i][run[i-1]]

\* A loop has a run, from any initial state, that stays in every set of states
\* its body preserves.
LEMMA LoopRun ==
    ASSUME NEW n \in Nat, NEW V, NEW s \in V, NEW step \in [1 .. n -> [V -> V]]
    PROVE  \E run : IsLoopRun(run, n, V, s, step)
<1> DEFINE Runs(m) == {run \in [0 .. m -> V] :
                          /\ run[0] = s
                          /\ \A i \in 1 .. m : run[i] = step[i][run[i-1]]}
           T == {m \in 0 .. n : Runs(m) # {}}
<1>1. 0 \in T
  <2>1. [i \in 0 .. 0 |-> s] \in Runs(0)
    OBVIOUS
  <2> QED BY <2>1
<1>2. ASSUME NEW m \in 1 .. n, m - 1 \in T
      PROVE  m \in T
  <2>1. PICK run : run \in Runs(m - 1)
    BY <1>2
  <2> DEFINE next == [i \in 0 .. m |-> IF i = m THEN step[m][run[m-1]] ELSE run[i]]
  <2>2. step[m][run[m-1]] \in V
    BY <2>1
  <2>3. next \in [0 .. m -> V]
    BY <2>1, <2>2
  <2>4. next[0] = s
    BY <2>1
  <2>5. \A i \in 1 .. m : next[i] = step[i][next[i-1]]
    BY <2>1
  <2>6. next \in Runs(m)
    BY <2>3, <2>4, <2>5
  <2> QED BY <2>6
<1>3. 0 .. n \subseteq T
  <2> HIDE DEF T
  <2> QED BY <1>1, <1>2, SetInduction
<1>4. n \in T
  BY <1>3
<1> QED BY <1>4 DEF IsLoopRun

-----------------------------------------------------------------------------
(* Maximum and minimum *)

\* A set of naturals with an upper bound has a maximum.
LEMMA MaxIsMaximal ==
    ASSUME NEW S \in SUBSET Nat, S # {}, NEW n \in Nat, \A x \in S : x <= n
    PROVE  Max(S) \in S /\ \A x \in S : x <= Max(S)
<1> DEFINE Bounds == {m \in Nat : \A x \in S : x <= m}
<1>1. PICK m \in Bounds : \A k \in Bounds : ~ (<<k, m>> \in NatLess)
  <2>1. n \in Bounds /\ Bounds \subseteq Nat
    OBVIOUS
  <2> QED BY <2>1, NatLessWellFounded, WFMin
<1>2. m \in Nat /\ \A x \in S : x <= m
  BY <1>1
<1>3. m \in S
  <2> SUFFICES ASSUME m \notin S PROVE FALSE
    OBVIOUS
  <2>1. \A x \in S : x < m
    BY <1>2
  <2>2. m - 1 \in Bounds
    <3>1. PICK x \in S : TRUE
      OBVIOUS
    <3>2. x \in Nat /\ x < m
      BY <2>1
    <3>3. m - 1 \in Nat
      BY <1>2, <3>2
    <3>4. \A y \in S : y \in Nat /\ y <= m - 1
      BY <1>2, <2>1
    <3> QED BY <3>3, <3>4
  <2>3. <<m - 1, m>> \in NatLess
    BY <1>2, <2>2 DEF NatLess
  <2> QED BY <1>1, <2>2, <2>3
<1>4. \E x \in S : \A y \in S : x >= y
  BY <1>2, <1>3
<1>5. /\ Max(S) \in S /\ \A y \in S : Max(S) >= y
  BY <1>4 DEF Max
<1> QED BY <1>5

\* A set of naturals has a minimum.
LEMMA MinIsMinimal ==
    ASSUME NEW S \in SUBSET Nat, S # {}
    PROVE  Min(S) \in S /\ \A x \in S : Min(S) <= x
<1>1. PICK m \in S : \A k \in S : ~ (<<k, m>> \in NatLess)
  BY NatLessWellFounded, WFMin
<1>2. \A k \in S : m <= k
  <2> SUFFICES ASSUME NEW k \in S PROVE m <= k
    OBVIOUS
  <2>1. k \in Nat /\ m \in Nat /\ <<k, m>> \notin NatLess
    BY <1>1
  <2>2. ~ (k < m)
    BY <2>1 DEF NatLess
  <2> QED BY <2>1, <2>2
<1>3. Min(S) \in S /\ \A x \in S : Min(S) <= x
  BY <1>1, <1>2 DEF Min
<1> QED BY <1>3

-----------------------------------------------------------------------------

\* Finitely many holders of finite amounts hold finitely many units.
LEMMA UnitsFinite ==
    ASSUME NEW S, IsFiniteSet(S), NEW f, \A x \in S : f[x] \in Nat
    PROVE  IsFiniteSet(Units(S, f))
<1> DEFINE part == [x \in S |-> {x} \X (1 .. f[x])]
           T    == {part[x] : x \in S}
<1>1. part \in Surjection(S, T)
  BY DEF Surjection
<1>2. IsFiniteSet(T)
  <2> HIDE DEF part, T
  <2> QED BY <1>1, FS_Surjection
<1>3. \A x \in S : IsFiniteSet(part[x])
  <2> SUFFICES ASSUME NEW x \in S PROVE IsFiniteSet({x} \X (1 .. f[x]))
    OBVIOUS
  <2>1. IsFiniteSet({x})
    BY FS_Singleton
  <2>2. IsFiniteSet(1 .. f[x])
    BY FS_Interval
  <2> QED BY <2>1, <2>2, FS_Product
<1>4. IsFiniteSet(UNION T)
  <2>1. \A t \in T : IsFiniteSet(t)
    BY <1>3
  <2> HIDE DEF T
  <2> QED BY <1>2, <2>1, FS_UNION
<1>5. Units(S, f) = UNION T
  BY DEF Units
<1> QED BY <1>4, <1>5

\* A sum is a natural number.
LEMMA SumType ==
    ASSUME NEW S, IsFiniteSet(S), NEW f, \A x \in S : f[x] \in Nat
    PROVE  SumOver(S, f) \in Nat
BY UnitsFinite, FS_CardinalityType DEF SumOver

\* A sum depends only on the values on S.
LEMMA SumAgree ==
    ASSUME NEW S, NEW f, NEW g, \A x \in S : f[x] = g[x]
    PROVE  SumOver(S, f) = SumOver(S, g)
BY DEF SumOver, Units

\* A pair is a unit of S iff its holder is in S and its number is in range.
LEMMA UnitsMember ==
    ASSUME NEW S, NEW f, NEW u
    PROVE  u \in Units(S, f) <=> \E x \in S : u \in {x} \X (1 .. f[x])
BY DEF Units

\* A sum over two disjoint sets is the sum of the two sums.
LEMMA SumDisjoint ==
    ASSUME NEW A, IsFiniteSet(A), NEW B, IsFiniteSet(B), A \cap B = {},
           NEW f, \A x \in A \cup B : f[x] \in Nat
    PROVE  SumOver(A \cup B, f) = SumOver(A, f) + SumOver(B, f)
<1>1. Units(A \cup B, f) = Units(A, f) \cup Units(B, f)
  BY DEF Units
<1>2. Units(A, f) \cap Units(B, f) = {}
  BY DEF Units
<1>3. IsFiniteSet(Units(A, f)) /\ IsFiniteSet(Units(B, f))
  BY UnitsFinite
<1>4. Cardinality(Units(A, f)) \in Nat /\ Cardinality(Units(B, f)) \in Nat
  BY <1>3, FS_CardinalityType
<1>5. Cardinality(Units(A, f) \cup Units(B, f)) =
        Cardinality(Units(A, f)) + Cardinality(Units(B, f))
          - Cardinality(Units(A, f) \cap Units(B, f))
  BY <1>3, FS_Union
<1>6. Cardinality(Units(A, f) \cap Units(B, f)) = 0
  BY <1>2, FS_EmptySet
<1>7. Cardinality(Units(A, f) \cup Units(B, f)) =
        Cardinality(Units(A, f)) + Cardinality(Units(B, f))
  BY <1>4, <1>5, <1>6
<1> QED BY <1>1, <1>7, Zenon DEF SumOver

\* A sum over one holder is its amount.
LEMMA SumSingleton ==
    ASSUME NEW x, NEW f, f[x] \in Nat
    PROVE  SumOver({x}, f) = f[x]
<1>1. Units({x}, f) = {x} \X (1 .. f[x])
  BY DEF Units
<1>2. IsFiniteSet({x}) /\ Cardinality({x}) = 1
  BY FS_Singleton
<1>3. IsFiniteSet(1 .. f[x]) /\ Cardinality(1 .. f[x]) = f[x]
  BY FS_Interval
<1>4. Cardinality({x} \X (1 .. f[x])) = Cardinality({x}) * Cardinality(1 .. f[x])
  BY <1>2, <1>3, FS_Product, Zenon
<1>5. Cardinality({x}) * Cardinality(1 .. f[x]) = f[x]
  BY <1>2, <1>3
<1> QED BY <1>1, <1>4, <1>5, Zenon DEF SumOver

\* One more holder adds its amount.
LEMMA SumAdd ==
    ASSUME NEW S, IsFiniteSet(S), NEW x, x \notin S,
           NEW f, f[x] \in Nat, \A y \in S : f[y] \in Nat
    PROVE  SumOver(S \cup {x}, f) = SumOver(S, f) + f[x]
<1>1. IsFiniteSet({x}) /\ S \cap {x} = {} /\ \A y \in S \cup {x} : f[y] \in Nat
  BY FS_Singleton
<1>2. SumOver(S \cup {x}, f) = SumOver(S, f) + SumOver({x}, f)
  BY <1>1, SumDisjoint
<1> QED BY <1>2, SumSingleton

\* A sum of zeroes is zero.
LEMMA SumZero ==
    ASSUME NEW S, NEW f, \A x \in S : f[x] = 0
    PROVE  SumOver(S, f) = 0
<1>1. Units(S, f) = {}
  BY DEF Units
<1> QED BY <1>1, FS_EmptySet DEF SumOver

\* Changing the amount of one holder changes the sum by the difference.
LEMMA SumUpdate ==
    ASSUME NEW S, IsFiniteSet(S), NEW x \in S,
           NEW f, \A y \in S : f[y] \in Nat,
           NEW g, \A y \in S : g[y] \in Nat,
           \A y \in S \ {x} : g[y] = f[y]
    PROVE  SumOver(S, g) + f[x] = SumOver(S, f) + g[x]
<1> DEFINE R == S \ {x}
<1>0. IsFiniteSet(R)
  BY FS_RemoveElement
<1>1. IsFiniteSet(R) /\ IsFiniteSet({x}) /\ R \cap {x} = {} /\ R \cup {x} = S
  <2>1. IsFiniteSet({x})
    BY FS_Singleton
  <2>2. R \cap {x} = {} /\ R \cup {x} = S
    OBVIOUS
  <2> QED BY <1>0, <2>1, <2>2
<1>2. \A y \in R : f[y] \in Nat /\ g[y] \in Nat /\ g[y] = f[y]
  OBVIOUS
<1> HIDE DEF R
<1>3. SumOver(S, f) = SumOver(R, f) + SumOver({x}, f)
  BY <1>1, SumDisjoint
<1>4. SumOver(S, g) = SumOver(R, g) + SumOver({x}, g)
  BY <1>1, SumDisjoint
<1>5. SumOver(R, f) = SumOver(R, g) /\ SumOver(R, f) \in Nat
  BY <1>1, <1>2, SumAgree, SumType
<1>6. SumOver({x}, f) = f[x] /\ SumOver({x}, g) = g[x]
  BY SumSingleton
<1> QED BY <1>3, <1>4, <1>5, <1>6

\* No holder has more than the sum.
LEMMA SumMember ==
    ASSUME NEW S, IsFiniteSet(S), NEW x \in S, NEW f, \A y \in S : f[y] \in Nat
    PROVE  f[x] <= SumOver(S, f)
<1> DEFINE g == [y \in S |-> IF y = x THEN 0 ELSE f[y]]
<1>1. /\ \A y \in S : g[y] \in Nat
      /\ \A y \in S \ {x} : g[y] = f[y]
      /\ g[x] = 0
  OBVIOUS
<1> HIDE DEF g
<1>2. SumOver(S, g) \in Nat /\ SumOver(S, f) \in Nat
  BY <1>1, SumType
<1>3. SumOver(S, g) + f[x] = SumOver(S, f) + g[x]
  BY <1>1, SumUpdate
<1> QED BY <1>1, <1>2, <1>3

\* A larger amount for every holder gives a larger sum.
LEMMA SumMonotone ==
    ASSUME NEW S, IsFiniteSet(S),
           NEW f, \A x \in S : f[x] \in Nat,
           NEW g, \A x \in S : g[x] \in Nat,
           \A x \in S : f[x] <= g[x]
    PROVE  SumOver(S, f) <= SumOver(S, g)
<1>1. Units(S, f) \subseteq Units(S, g)
  <2>1. \A x \in S : {x} \X (1 .. f[x]) \subseteq {x} \X (1 .. g[x])
    OBVIOUS
  <2> QED BY <2>1 DEF Units
<1> QED BY <1>1, UnitsFinite, FS_Subset DEF SumOver

-----------------------------------------------------------------------------
(* What Skipping keeps *)

\* kept is the history of the loop: one entry for each position.
IsKept(kept, batch, known) ==
    /\ DOMAIN kept = 0 .. Len(batch) /\ kept[0] = <<>>
    /\ \A i \in 1 .. Len(batch) :
          kept[i] = AddUnlessKnown(kept[i - 1], batch[i], known)

LEMMA SkippingLoop ==
    ASSUME NEW R, NEW batch \in Seq(R), NEW known
    PROVE  \E kept : IsKept(kept, batch, known) /\ Skipping(batch, known) = kept[Len(batch)]
<1> DEFINE n == Len(batch)
           V == Seq(R)
           step == [i \in 1 .. n |-> [q \in V |-> AddUnlessKnown(q, batch[i], known)]]
           IsRun(run) == run = [i \in 0 .. n |->
                                  IF i = 0 THEN <<>>
                                  ELSE AddUnlessKnown(run[i - 1], batch[i], known)]
<1>1. n \in Nat /\ \A i \in 1 .. n : batch[i] \in R
  OBVIOUS
<1>2. \A i \in 1 .. n, q \in V : AddUnlessKnown(q, batch[i], known) \in V
  BY <1>1 DEF AddUnlessKnown
<1>3. step \in [1 .. n -> [V -> V]] /\ <<>> \in V
  BY <1>2
<1>4. PICK run : IsLoopRun(run, n, V, <<>>, step)
  <2> HIDE DEF step, n, V
  <2> QED BY <1>1, <1>3, LoopRun
<1>5. \A i \in 1 .. n : run[i] = AddUnlessKnown(run[i - 1], batch[i], known)
  <2> SUFFICES ASSUME NEW i \in 1 .. n PROVE run[i] = AddUnlessKnown(run[i - 1], batch[i], known)
    OBVIOUS
  <2>1. run[i - 1] \in V
    BY <1>1, <1>4 DEF IsLoopRun
  <2>2. run[i] = step[i][run[i - 1]]
    <3> HIDE DEF step
    <3> QED BY <1>4 DEF IsLoopRun
  <2> QED BY <2>1, <2>2
<1>6. IsRun(run)
  BY <1>1, <1>4, <1>5 DEF IsLoopRun
<1> DEFINE f == CHOOSE g : IsRun(g)
<1>7. Skipping(batch, known) = f[n]
  BY DEF Skipping
<1>8. IsRun(f)
  <2> HIDE DEF IsRun
  <2> QED BY <1>6
<1>9. IsKept(f, batch, known)
  <2> HIDE DEF f
  <2> QED BY <1>1, <1>8 DEF IsKept
<1> QED BY <1>7, <1>9

\* q holds the items of the first k positions of batch that are not in known, in
\* their order.
Keeps(q, R, batch, known, k) ==
    /\ q \in Seq(R) /\ Len(q) <= k
    /\ \A i \in 1 .. Len(q) : \E m \in 1 .. k : batch[m] = q[i] /\ batch[m] \notin known
    /\ \A m \in 1 .. k : batch[m] \notin known => \E i \in 1 .. Len(q) : q[i] = batch[m]
    /\ \A i, j \in 1 .. Len(q) : i < j =>
          \E m, n \in 1 .. k : m < n /\ batch[m] = q[i] /\ batch[n] = q[j]

LEMMA SkippingKeeps ==
    ASSUME NEW R, NEW batch \in Seq(R), NEW known
    PROVE  Keeps(Skipping(batch, known), R, batch, known, Len(batch))
<1>1. PICK kept : IsKept(kept, batch, known) /\ Skipping(batch, known) = kept[Len(batch)]
  BY SkippingLoop
<1> DEFINE N == Len(batch)
           T == {k \in 0 .. N : Keeps(kept[k], R, batch, known, k)}
<1>2. N \in Nat /\ \A k \in 1 .. N : batch[k] \in R
  OBVIOUS
<1>3. 0 \in T
  <2>1. kept[0] = <<>> /\ 0 \in 0 .. N
    BY <1>1, <1>2 DEF IsKept
  <2>2. Keeps(<<>>, R, batch, known, 0)
    BY DEF Keeps
  <2> QED BY <2>1, <2>2
<1>4. ASSUME NEW k \in 1 .. N, k - 1 \in T PROVE k \in T
  <2> DEFINE q == kept[k - 1]
  <2>1. k \in Nat /\ k - 1 \in Nat
    BY <1>2
  <2>0. /\ q \in Seq(R) /\ Len(q) <= k - 1
        /\ \A i \in 1 .. Len(q) :
              \E m \in 1 .. k - 1 : batch[m] = q[i] /\ batch[m] \notin known
        /\ \A m \in 1 .. k - 1 : batch[m] \notin known =>
              \E i \in 1 .. Len(q) : q[i] = batch[m]
        /\ \A i, j \in 1 .. Len(q) : i < j =>
              \E m, n \in 1 .. k - 1 : m < n /\ batch[m] = q[i] /\ batch[n] = q[j]
    <3>1. Keeps(q, R, batch, known, k - 1)
      BY <1>4
    <3> QED BY <3>1, Zenon DEF Keeps
  <2>2. \A m \in 1 .. k - 1 : m \in 1 .. k
    BY <2>1
  <2>3. \A m \in 1 .. k : m = k \/ m \in 1 .. k - 1
    BY <2>1
  <2> SUFFICES Keeps(kept[k], R, batch, known, k)
    BY <1>2
  <2> HIDE DEF q
  <2>4. CASE batch[k] \in known
    <3>1. kept[k] = q
      BY <1>1, <2>4 DEF IsKept, q, AddUnlessKnown
    <3>2. Keeps(q, R, batch, known, k)
      <4>1. q \in Seq(R) /\ Len(q) <= k
        BY <2>0, <2>1
      <4>2. \A i \in 1 .. Len(q) : \E m \in 1 .. k : batch[m] = q[i] /\ batch[m] \notin known
        BY <2>0, <2>1, <2>2
      <4>3. \A m \in 1 .. k : batch[m] \notin known => \E i \in 1 .. Len(q) : q[i] = batch[m]
        BY <2>0, <2>1, <2>3, <2>4
      <4>4. \A i, j \in 1 .. Len(q) : i < j =>
               \E m, n \in 1 .. k : m < n /\ batch[m] = q[i] /\ batch[n] = q[j]
        BY <2>0, <2>1, <2>2
      <4> QED BY <4>1, <4>2, <4>3, <4>4, Zenon DEF Keeps
    <3> QED BY <3>1, <3>2
  <2>5. CASE batch[k] \notin known
    <3> DEFINE p == Append(q, batch[k])
    <3>1. kept[k] = p
      BY <1>1, <2>5 DEF IsKept, q, AddUnlessKnown
    <3>2. /\ q \in Seq(R) /\ Len(q) \in Nat /\ Len(q) <= k - 1
          /\ p \in Seq(R) /\ Len(p) = Len(q) + 1 /\ p[Len(q) + 1] = batch[k]
          /\ \A i \in 1 .. Len(q) : p[i] = q[i]
          /\ \A i \in 1 .. Len(p) : i = Len(q) + 1 \/ i \in 1 .. Len(q)
      BY <1>2, <2>0, <2>1
    <3> HIDE DEF p
    <3>3. Len(p) <= k
      BY <2>0, <2>1, <3>2
    <3>4. ASSUME NEW i \in 1 .. Len(p)
          PROVE  \E m \in 1 .. k : batch[m] = p[i] /\ batch[m] \notin known
      <4>1. CASE i = Len(q) + 1
        <5>1. k \in 1 .. k /\ batch[k] = p[i] /\ batch[k] \notin known
          BY <2>0, <2>1, <2>5, <3>2, <4>1
        <5> QED BY <5>1
      <4>2. CASE i \in 1 .. Len(q)
        <5>1. PICK m \in 1 .. k - 1 : batch[m] = q[i] /\ batch[m] \notin known
          BY <2>0, <2>1, <4>2
        <5>2. m \in 1 .. k /\ p[i] = q[i]
          BY <2>2, <3>2, <4>2
        <5> QED BY <5>1, <5>2
      <4> QED BY <3>2, <4>1, <4>2
    <3>5. \A m \in 1 .. k : batch[m] \notin known => \E i \in 1 .. Len(p) : p[i] = batch[m]
      <4> SUFFICES ASSUME NEW m \in 1 .. k, batch[m] \notin known
                   PROVE  \E i \in 1 .. Len(p) : p[i] = batch[m]
        OBVIOUS
      <4>1. CASE m = k
        BY <3>2, <4>1
      <4>2. CASE m \in 1 .. k - 1
        <5>1. PICK i \in 1 .. Len(q) : q[i] = batch[m]
          BY <2>0, <2>1, <4>2
        <5>2. i \in 1 .. Len(p) /\ p[i] = batch[m]
          BY <3>2, <5>1
        <5> QED BY <5>2
      <4> QED BY <2>3, <4>1, <4>2
    <3>6. \A i, j \in 1 .. Len(p) : i < j =>
             \E m, n \in 1 .. k : m < n /\ batch[m] = p[i] /\ batch[n] = p[j]
      <4> SUFFICES ASSUME NEW i \in 1 .. Len(p), NEW j \in 1 .. Len(p), i < j
                   PROVE  \E m, n \in 1 .. k : m < n /\ batch[m] = p[i] /\ batch[n] = p[j]
        OBVIOUS
      <4>1. i \in 1 .. Len(q) /\ p[i] = q[i]
        BY <3>2
      <4>2. CASE j = Len(q) + 1
        <5>1. PICK m \in 1 .. k - 1 : batch[m] = q[i]
          BY <2>0, <2>1, <4>1
        <5>2. m \in 1 .. k /\ k \in 1 .. k /\ m < k
          BY <2>0, <2>1, <5>1
        <5> QED BY <3>2, <4>1, <4>2, <5>1, <5>2
      <4>3. CASE j \in 1 .. Len(q)
        <5>1. PICK m \in 1 .. k - 1, n \in 1 .. k - 1 :
                 m < n /\ batch[m] = q[i] /\ batch[n] = q[j]
          BY <2>0, <2>1, <4>1, <4>3
        <5> QED BY <2>2, <3>2, <4>1, <4>3, <5>1
      <4> QED BY <3>2, <4>2, <4>3
    <3>7. Keeps(p, R, batch, known, k)
      BY <3>2, <3>3, <3>4, <3>5, <3>6, Zenon DEF Keeps
    <3> QED BY <3>1, <3>7
  <2> QED BY <2>4, <2>5
<1>5. 0 .. N \subseteq T
  <2> HIDE DEF T
  <2> QED BY <1>2, <1>3, <1>4, SetInduction
<1> QED BY <1>1, <1>2, <1>5

\* What a set skips, the set of the others keeps.
Splits(a, b, n) == Len(a) \in Nat /\ Len(b) \in Nat /\ Len(a) + Len(b) = n

LEMMA SkippingSplits ==
    ASSUME NEW R, NEW batch \in Seq(R), NEW known, NEW rest,
           \A x \in R : x \in known <=> x \notin rest
    PROVE  Splits(Skipping(batch, known), Skipping(batch, rest), Len(batch))
<1>1. PICK a : IsKept(a, batch, known) /\ Skipping(batch, known) = a[Len(batch)]
  BY SkippingLoop
<1>2. PICK b : IsKept(b, batch, rest) /\ Skipping(batch, rest) = b[Len(batch)]
  BY SkippingLoop
<1> DEFINE N == Len(batch)
           Both(p, q, k) == p \in Seq(R) /\ q \in Seq(R) /\ Len(p) + Len(q) = k
           T == {k \in 0 .. N : Both(a[k], b[k], k)}
<1>3. N \in Nat /\ \A k \in 1 .. N : batch[k] \in R
  OBVIOUS
<1>4. 0 \in T
  <2>1. a[0] = <<>> /\ b[0] = <<>> /\ 0 \in 0 .. N
    BY <1>1, <1>2, <1>3 DEF IsKept
  <2>2. Both(<<>>, <<>>, 0)
    OBVIOUS
  <2> HIDE DEF Both
  <2> QED BY <2>1, <2>2
<1>5. ASSUME NEW k \in 1 .. N, k - 1 \in T PROVE k \in T
  <2> DEFINE p == a[k - 1]
             q == b[k - 1]
             x == batch[k]
  <2>1. p \in Seq(R) /\ q \in Seq(R) /\ Len(p) + Len(q) = k - 1 /\ x \in R /\ k \in 0 .. N
    <3>1. Both(p, q, k - 1)
      <4> HIDE DEF Both
      <4> QED BY <1>5
    <3>2. x \in R /\ k \in 0 .. N
      BY <1>3
    <3> HIDE DEF p, q, x
    <3> QED BY <3>1, <3>2
  <2> SUFFICES Both(a[k], b[k], k)
    <3> HIDE DEF Both
    <3> QED BY <2>1
  <2>2. a[k] = AddUnlessKnown(p, x, known) /\ b[k] = AddUnlessKnown(q, x, rest)
    BY <1>1, <1>2 DEF IsKept
  <2> HIDE DEF p, q, x
  <2>3. CASE x \in known
    <3>1. a[k] = p /\ b[k] = Append(q, x)
      BY <2>1, <2>2, <2>3 DEF AddUnlessKnown
    <3>2. Append(q, x) \in Seq(R) /\ Len(Append(q, x)) = Len(q) + 1
      BY <2>1
    <3>3. Len(p) + Len(Append(q, x)) = k
      BY <1>3, <2>1, <3>2
    <3> QED BY <2>1, <3>1, <3>2, <3>3
  <2>4. CASE x \notin known
    <3>1. a[k] = Append(p, x) /\ b[k] = q
      BY <2>1, <2>2, <2>4 DEF AddUnlessKnown
    <3>2. Append(p, x) \in Seq(R) /\ Len(Append(p, x)) = Len(p) + 1
      BY <2>1
    <3>3. Len(Append(p, x)) + Len(q) = k
      BY <1>3, <2>1, <3>2
    <3> QED BY <2>1, <3>1, <3>2, <3>3
  <2> QED BY <2>3, <2>4
<1>6. 0 .. N \subseteq T
  <2> HIDE DEF T
  <2> QED BY <1>3, <1>4, <1>5, SetInduction
<1>7. Both(a[N], b[N], N)
  <2> HIDE DEF Both
  <2> QED BY <1>3, <1>6
<1>8. Both(Skipping(batch, known), Skipping(batch, rest), N)
  BY <1>1, <1>2, <1>7
<1> QED BY <1>8 DEF Splits
=============================================================================
