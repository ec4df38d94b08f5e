------------------------------ MODULE TokenProofs ------------------------------
(***************************************************************************)
(* Facts about caveats, statements and tokens (modules Caveats,            *)
(* Attenuation and Tokens) that the proofs about delegation and about the  *)
(* decision pipeline rest on, for any caveats, dimensions and requests.    *)
(***************************************************************************)
EXTENDS Decision, OperatorProofs

-----------------------------------------------------------------------------
(* Sequences *)

\* A sequence is one of its own items.
LEMMA SeqOfItself ==
    ASSUME NEW S, NEW q \in Seq(S)
    PROVE  q \in Seq(ToSet(q))
BY DEF ToSet

\* r is q and then x, whatever x is.
IsAppend(r, q, x) ==
    /\ r \in Seq(ToSet(r)) /\ Len(q) \in Nat
    /\ DOMAIN r = 1 .. Len(q) + 1 /\ Len(r) = Len(q) + 1
    /\ r[Len(q) + 1] = x
    /\ \A i \in 1 .. Len(q) : r[i] = q[i]

LEMMA AppendAny ==
    ASSUME NEW S, NEW q \in Seq(S), NEW x
    PROVE  IsAppend(Append(q, x), q, x)
<1> DEFINE r == Append(q, x)
<1>1. q \in Seq(S \cup {x}) /\ x \in S \cup {x}
  OBVIOUS
<1>2. /\ r \in Seq(S \cup {x}) /\ Len(r) = Len(q) + 1 /\ Len(q) \in Nat
      /\ r[Len(q) + 1] = x /\ \A i \in 1 .. Len(q) : r[i] = q[i]
  BY <1>1
<1> HIDE DEF r
<1>3. DOMAIN r = 1 .. Len(r)
  BY <1>2
<1>4. r \in Seq(ToSet(r))
  BY <1>2, SeqOfItself
<1> QED BY <1>2, <1>3, <1>4 DEF r, IsAppend

\* r is a and then b.
IsConcat(r, S, a, b) ==
    /\ r \in Seq(S) /\ Len(r) = Len(a) + Len(b) /\ DOMAIN r = 1 .. Len(r)
    /\ Len(a) \in Nat /\ Len(b) \in Nat
    /\ \A i \in 1 .. Len(a) : r[i] = a[i]
    /\ \A i \in 1 .. Len(b) : r[Len(a) + i] = b[i]

LEMMA Concat ==
    ASSUME NEW S, NEW a \in Seq(S), NEW b \in Seq(S)
    PROVE  IsConcat(a \o b, S, a, b)
BY DEF IsConcat

\* What FlattenSeq holds: the items of its sequences, all of them and no others.
IsFlat(q, S, ss, n) ==
    /\ q \in Seq(S)
    /\ \A i \in 1 .. Len(q) : \E k \in 1 .. n : \E j \in 1 .. Len(ss[k]) : q[i] = ss[k][j]
    /\ \A k \in 1 .. n : \A j \in 1 .. Len(ss[k]) : \E i \in 1 .. Len(q) : q[i] = ss[k][j]
    /\ \A k \in 1 .. n : Len(ss[k]) <= Len(q)

\* f is the history of FlattenSeq's loop.
IsFlatten(f, ss) ==
    \A i \in 1 .. Len(ss) : f[i] = IF i = 1 THEN ss[i] ELSE f[i - 1] \o ss[i]

LEMMA FlattenLoop ==
    ASSUME NEW S, NEW ss \in Seq(Seq(S)), Len(ss) # 0
    PROVE  \E f : IsFlatten(f, ss) /\ FlattenSeq(ss) = f[Len(ss)]
<1> DEFINE n == Len(ss)
           V == Seq(S)
           step == [i \in 1 .. n |-> [q \in V |-> IF i = 1 THEN ss[i] ELSE q \o ss[i]]]
           IsRun(f) == f = [i \in 1 .. n |-> IF i = 1 THEN ss[i] ELSE f[i - 1] \o ss[i]]
<1>1. n \in Nat /\ n >= 1 /\ \A i \in 1 .. n : ss[i] \in V
  OBVIOUS
<1>2. step \in [1 .. n -> [V -> V]] /\ <<>> \in V
  BY <1>1
<1>3. PICK run : IsLoopRun(run, n, V, <<>>, step)
  <2> HIDE DEF step, n, V
  <2> QED BY <1>1, <1>2, LoopRun
<1>4. \A i \in 1 .. n : run[i] = IF i = 1 THEN ss[i] ELSE run[i - 1] \o ss[i]
  <2> SUFFICES ASSUME NEW i \in 1 .. n
               PROVE  run[i] = IF i = 1 THEN ss[i] ELSE run[i - 1] \o ss[i]
    OBVIOUS
  <2>1. run[i - 1] \in V
    <3>1. i - 1 \in 0 .. n
      BY <1>1
    <3> HIDE DEF V, n, step
    <3> QED BY <1>3, <3>1 DEF IsLoopRun
  <2>2. run[i] = step[i][run[i - 1]]
    <3> HIDE DEF step
    <3> QED BY <1>3 DEF IsLoopRun
  <2> QED BY <2>1, <2>2
<1> DEFINE g == [i \in 1 .. n |-> run[i]]
<1>5. IsRun(g)
  <2>1. \A i \in 1 .. n : i # 1 => i - 1 \in 1 .. n
    BY <1>1
  <2>2. \A i \in 1 .. n : g[i] = IF i = 1 THEN ss[i] ELSE g[i - 1] \o ss[i]
    BY <1>4, <2>1
  <2>3. DOMAIN g = 1 .. n /\ g = [i \in 1 .. n |-> g[i]]
    OBVIOUS
  <2> HIDE DEF g
  <2> QED BY <2>2, <2>3
<1> DEFINE f == CHOOSE h : IsRun(h)
<1>6. FlattenSeq(ss) = f[n]
  BY DEF FlattenSeq
<1>7. IsRun(f)
  <2> HIDE DEF IsRun, g
  <2> QED BY <1>5
<1>8. IsFlatten(f, ss)
  <2> HIDE DEF f
  <2> QED BY <1>1, <1>7 DEF IsFlatten
<1> QED BY <1>6, <1>8

LEMMA Flattened ==
    ASSUME NEW S, NEW ss \in Seq(Seq(S))
    PROVE  IsFlat(FlattenSeq(ss), S, ss, Len(ss))
<1> DEFINE N == Len(ss)
<1>1. N \in Nat /\ \A k \in 1 .. N : ss[k] \in Seq(S) /\ Len(ss[k]) \in Nat
  OBVIOUS
<1>2. CASE N = 0
  <2>1. ss = <<>> /\ FlattenSeq(ss) = ss
    BY <1>2 DEF FlattenSeq
  <2>2. IsFlat(<<>>, S, ss, 0)
    BY DEF IsFlat
  <2> QED BY <1>2, <2>1, <2>2
<1>3. CASE N # 0
  <2>1. PICK f : IsFlatten(f, ss) /\ FlattenSeq(ss) = f[N]
    BY <1>3, FlattenLoop
  <2> DEFINE T == {k \in 0 .. N : k = 0 \/ IsFlat(f[k], S, ss, k)}
  <2>2. 0 \in T
    BY <1>1
  <2>3. ASSUME NEW k \in 1 .. N, k - 1 \in T PROVE k \in T
    <3> SUFFICES IsFlat(f[k], S, ss, k)
      BY <1>1
    <3>1. k \in Nat /\ k - 1 \in Nat /\ \A m \in 1 .. k : m = k \/ m \in 1 .. k - 1
      BY <1>1
    <3>2. CASE k = 1
      <4>1. f[k] = ss[1]
        BY <2>1, <3>2 DEF IsFlatten
      <4>2. IsFlat(ss[1], S, ss, 1)
        BY <1>1, <3>2 DEF IsFlat
      <4> QED BY <3>2, <4>1, <4>2
    <3>3. CASE k # 1
      <4> DEFINE q == f[k - 1]
                 r == f[k]
      <4>1. IsFlat(q, S, ss, k - 1) /\ r = q \o ss[k]
        <5>1. IsFlat(q, S, ss, k - 1)
          BY <2>3, <3>1, <3>3
        <5>2. r = q \o ss[k]
          BY <2>1, <3>3 DEF IsFlatten
        <5> QED BY <5>1, <5>2
      <4> HIDE DEF q, r
      <4>2. IsConcat(r, S, q, ss[k])
        BY <1>1, <4>1, Concat DEF IsFlat
      <4>3. ASSUME NEW i \in 1 .. Len(r)
            PROVE  \E m \in 1 .. k : \E j \in 1 .. Len(ss[m]) : r[i] = ss[m][j]
        <5>1. CASE i <= Len(q)
          <6>1. i \in 1 .. Len(q) /\ r[i] = q[i]
            BY <4>2, <5>1 DEF IsConcat
          <6>2. PICK m \in 1 .. k - 1 : \E j \in 1 .. Len(ss[m]) : q[i] = ss[m][j]
            BY <4>1, <6>1 DEF IsFlat
          <6>3. m \in 1 .. k
            BY <3>1
          <6> QED BY <6>1, <6>2, <6>3
        <5>2. CASE i > Len(q)
          <6> DEFINE j == i - Len(q)
          <6>1. j \in 1 .. Len(ss[k]) /\ i = Len(q) + j
            BY <4>2, <5>2 DEF IsConcat
          <6> HIDE DEF j
          <6>2. r[i] = ss[k][j]
            BY <4>2, <6>1 DEF IsConcat
          <6>3. k \in 1 .. k
            BY <3>1
          <6> QED BY <6>1, <6>2, <6>3
        <5> QED BY <4>2, <5>1, <5>2 DEF IsConcat
      <4>4. ASSUME NEW m \in 1 .. k, NEW j \in 1 .. Len(ss[m])
            PROVE  \E i \in 1 .. Len(r) : r[i] = ss[m][j]
        <5>1. CASE m = k
          <6>1. Len(q) + j \in 1 .. Len(r) /\ r[Len(q) + j] = ss[k][j]
            BY <4>2, <5>1 DEF IsConcat
          <6> QED BY <5>1, <6>1
        <5>2. CASE m \in 1 .. k - 1
          <6>1. PICK i \in 1 .. Len(q) : q[i] = ss[m][j]
            BY <4>1, <5>2 DEF IsFlat
          <6>2. i \in 1 .. Len(r) /\ r[i] = q[i]
            <7>1. Len(q) \in Nat /\ Len(r) \in Nat /\ Len(q) <= Len(r)
              BY <4>2 DEF IsConcat
            <7> QED BY <4>2, <7>1 DEF IsConcat
          <6> QED BY <6>1, <6>2
        <5> QED BY <3>1, <5>1, <5>2
      <4>5. r \in Seq(S)
        BY <4>2 DEF IsConcat
      <4>7. ASSUME NEW m \in 1 .. k PROVE Len(ss[m]) <= Len(r)
        <5>1. Len(q) \in Nat /\ Len(ss[k]) \in Nat /\ Len(r) = Len(q) + Len(ss[k])
          BY <4>2 DEF IsConcat
        <5>2. CASE m = k
          BY <5>1, <5>2
        <5>3. CASE m \in 1 .. k - 1
          <6>1. Len(ss[m]) <= Len(q) /\ Len(ss[m]) \in Nat
            BY <1>1, <3>1, <4>1, <5>3 DEF IsFlat
          <6> QED BY <5>1, <6>1
        <5> QED BY <3>1, <5>2, <5>3
      <4>6. IsFlat(r, S, ss, k)
        BY <4>3, <4>4, <4>5, <4>7, Zenon DEF IsFlat
      <4> QED BY <4>6 DEF r
    <3> QED BY <3>2, <3>3
  <2>4. 0 .. N \subseteq T
    <3> HIDE DEF T, N
    <3> QED BY <1>1, <2>2, <2>3, SetInduction
  <2>5. IsFlat(f[N], S, ss, N)
    <3>1. N \in 0 .. N
      BY <1>1
    <3>2. N \in T
      BY <2>4, <3>1, Zenon
    <3> HIDE DEF N
    <3> QED BY <1>3, <3>2, Zenon
  <2> QED BY <2>1, <2>5
<1> QED BY <1>2, <1>3

\* SetToSeq lists a finite set.
LEMMA SetToSeqType ==
    ASSUME NEW S, IsFiniteSet(S)
    PROVE  SetToSeq(S) \in Seq(S) /\ DOMAIN SetToSeq(S) = 1 .. Cardinality(S)
<1>1. Cardinality(S) \in Nat /\ ExistsBijection(1 .. Cardinality(S), S)
  BY FS_CardinalityType
<1>2. PICK f : f \in Bijection(1 .. Cardinality(S), S)
  BY <1>1 DEF ExistsBijection
<1>3. f \in [1 .. Cardinality(S) -> S] /\ IsInjective(f)
  BY <1>2 DEF Bijection, Injection, IsInjective
<1>4. SetToSeq(S) \in [1 .. Cardinality(S) -> S]
  BY <1>3 DEF SetToSeq
<1> QED BY <1>1, <1>4

-----------------------------------------------------------------------------
(* What a block's clauses see *)

\* A block that states no facts of the kinds that describe a request.
Silent(own) == \A k \in DOMAIN own : own[k].form = "fact" => own[k].fact \notin REQUEST_FACTS

\* The clause, with the facts of the request alone.
SeenAlone(clause, facts) ==
    LET hit == \E v \in facts[clause.fact][clause.key] : Compare(v, clause.op, clause.term)
    IN  CASE clause.form = "check" -> hit
          [] clause.form = "reject" -> ~hit
          [] clause.form = "fact" -> TRUE

\* Of a request's facts a silent block sees those of the request.
LEMMA SilentSees ==
    ASSUME NEW own, Silent(own), NEW ctx, NEW m, NEW fact \in REQUEST_FACTS, NEW key
    PROVE  Visible(own, RequestFacts(ctx), GrantFacts(m), fact, key) =
               Held(RequestFacts(ctx), fact, key)
<1>1. Brought(own, fact, key) = {}
  BY DEF Brought, Silent
<1>2. Held(GrantFacts(m), fact, key) = {}
  <2>1. DOMAIN GrantFacts(m) = {"scope", "intent", "max_depth", "budget", "not_before", "expires_at"}
    BY DEF GrantFacts
  <2>2. fact \notin DOMAIN GrantFacts(m)
    BY <2>1 DEF REQUEST_FACTS
  <2> QED BY <2>2 DEF Held
<1> QED BY <1>1, <1>2 DEF Visible

LEMMA RequestHeld ==
    ASSUME NEW ctx, NEW fact \in REQUEST_FACTS, NEW key \in DOMAIN RequestFacts(ctx)[fact]
    PROVE  Held(RequestFacts(ctx), fact, key) = RequestFacts(ctx)[fact][key]
<1>1. DOMAIN RequestFacts(ctx) = REQUEST_FACTS
  BY DEF RequestFacts, REQUEST_FACTS
<1> QED BY <1>1 DEF Held

\* There its clauses are judged by the request's facts alone.
LEMMA PassesAlone ==
    ASSUME NEW own, Silent(own), NEW ctx, NEW m, NEW s,
           s.fact \in REQUEST_FACTS, s.op # "joins", s.key \in DOMAIN RequestFacts(ctx)[s.fact]
    PROVE  Passes(s, own, RequestFacts(ctx), GrantFacts(m)) <=> SeenAlone(s, RequestFacts(ctx))
<1>1. Visible(own, RequestFacts(ctx), GrantFacts(m), s.fact, s.key) = RequestFacts(ctx)[s.fact][s.key]
  BY SilentSees, RequestHeld
<1> DEFINE V == Visible(own, RequestFacts(ctx), GrantFacts(m), s.fact, s.key)
<1>2. Passes(s, own, RequestFacts(ctx), GrantFacts(m)) <=>
        CASE s.form = "check" -> \E v \in V : Compare(v, s.op, s.term)
          [] s.form = "reject" -> ~ \E v \in V : Compare(v, s.op, s.term)
          [] s.form = "fact" -> TRUE
  BY DEF Passes
<1> HIDE DEF V
<1> QED BY <1>1, <1>2, Zenon DEF SeenAlone, V

-----------------------------------------------------------------------------
(* The authority block *)

\* Where mint_root() puts each of its checks.
LEMMA AuthorityBlock ==
    ASSUME NEW m
    PROVE  LET A == AuthorityStatements(m)
               n == Len(DimensionOrder)
           IN  /\ n \in Nat /\ DOMAIN A = 1 .. n + 5 /\ A \in Seq(ToSet(A))
               /\ A[1] = Clause("check", "operation", NoKey, "joins", "scope")
               /\ A[2] = Clause("check", "current_depth", NoKey, "le", m.max_depth)
               /\ A[3] = Clause("check", "request_intent", NoKey, "joins", "intent")
               /\ \A i \in 1 .. n : A[3 + i] = Clause("check", "requested", DimensionOrder[i],
                                            "le", scale(m.budget[DimensionOrder[i]]))
               /\ A[n + 4] = Clause("check", "time", NoKey, "ge", datalog_date(m.not_before))
               /\ A[n + 5] = Clause("check", "time", NoKey, "lt", datalog_date(m.expires_at))
<1> DEFINE n == Len(DimensionOrder)
           a1 == Clause("check", "operation", NoKey, "joins", "scope")
           a2 == Clause("check", "current_depth", NoKey, "le", m.max_depth)
           a3 == Clause("check", "request_intent", NoKey, "joins", "intent")
           c1 == Clause("check", "time", NoKey, "ge", datalog_date(m.not_before))
           c2 == Clause("check", "time", NoKey, "lt", datalog_date(m.expires_at))
           e(i) == Clause("check", "requested", DimensionOrder[i], "le",
                          scale(m.budget[DimensionOrder[i]]))
           b == BudgetChecks(m)
           A == AuthorityStatements(m)
<1>1. n \in Nat /\ DOMAIN DimensionOrder = 1 .. n
  BY CaveatConstants
<1>2. b = [i \in 1 .. n |-> e(i)]
  BY <1>1 DEF BudgetChecks
<1>3. A = <<a1, a2, a3>> \o b \o <<c1, c2>>
  BY DEF AuthorityStatements
<1> HIDE DEF n, a1, a2, a3, c1, c2, e, b, A
<1> DEFINE S == {a1, a2, a3, c1, c2} \cup {e(i) : i \in 1 .. n}
<1>4. /\ b \in Seq(S) /\ Len(b) = n /\ \A i \in 1 .. n : b[i] = e(i)
  BY <1>1, <1>2
<1>5. <<a1, a2, a3>> \in Seq(S) /\ <<c1, c2>> \in Seq(S)
  OBVIOUS
<1> DEFINE a == <<a1, a2, a3>>
           c == <<c1, c2>>
<1>6. Len(a) = 3 /\ Len(c) = 2 /\ a[1] = a1 /\ a[2] = a2 /\ a[3] = a3 /\ c[1] = c1 /\ c[2] = c2
  OBVIOUS
<1>7. a \in Seq(S) /\ c \in Seq(S) /\ A = a \o b \o c
  BY <1>3, <1>5
<1> HIDE DEF a, c, S
<1> DEFINE ab == a \o b
<1>8. IsConcat(ab, S, a, b)
  BY <1>4, <1>7, Concat
<1>9. IsConcat(A, S, ab, c)
  <2>1. ab \in Seq(S)
    BY <1>8 DEF IsConcat
  <2> QED BY <1>7, <2>1, Concat
<1> HIDE DEF ab
<1>10. A \in Seq(ToSet(A))
  BY <1>9, SeqOfItself DEF IsConcat
<1>11. DOMAIN A = 1 .. n + 5
  BY <1>1, <1>4, <1>6, <1>8, <1>9 DEF IsConcat
<1>12. A[1] = a1 /\ A[2] = a2 /\ A[3] = a3
  BY <1>6, <1>8, <1>9 DEF IsConcat
<1>13. \A i \in 1 .. n : A[3 + i] = e(i)
  BY <1>1, <1>4, <1>6, <1>8, <1>9 DEF IsConcat
<1>14. A[n + 4] = c1 /\ A[n + 5] = c2
  BY <1>1, <1>4, <1>6, <1>8, <1>9 DEF IsConcat
<1> QED BY <1>1, <1>10, <1>11, <1>12, <1>13, <1>14 DEF n, a1, a2, a3, c1, c2, e, A

LEMMA CompareIs ==
    ASSUME NEW v, NEW t
    PROVE  /\ Compare(v, "le", t) <=> v <= t
           /\ Compare(v, "lt", t) <=> v < t
           /\ Compare(v, "ge", t) <=> v >= t
           /\ Compare(v, "gt", t) <=> v > t
           /\ Compare(v, "eq", t) <=> v = t
           /\ Compare(v, "in", t) <=> v \in t
BY DEF Compare

\* What a check says of the request.
LEMMA CheckPasses ==
    ASSUME NEW ctx, NEW t
    PROVE  LET F == RequestFacts(ctx)
           IN  /\ SeenAlone(Clause("check", "operation", NoKey, "in", t), F) <=> ctx.operation \in t
               /\ SeenAlone(Clause("check", "current_depth", NoKey, "le", t), F)
                     <=> ctx.current_depth <= t
               /\ SeenAlone(Clause("check", "request_intent", NoKey, "eq", t), F)
                     <=> ctx.request_intent = t
               /\ SeenAlone(Clause("check", "time", NoKey, "ge", t), F) <=> datalog_date(ctx.now) >= t
               /\ SeenAlone(Clause("check", "time", NoKey, "lt", t), F) <=> datalog_date(ctx.now) < t
               /\ \A d \in Dimensions : SeenAlone(Clause("check", "requested", d, "le", t), F)
                     <=> scale(ctx.requested[d]) <= t
<1> DEFINE F == RequestFacts(ctx)
<1>1. /\ F["operation"][NoKey] = {ctx.operation}
      /\ F["current_depth"][NoKey] = {ctx.current_depth}
      /\ F["request_intent"][NoKey] = {ctx.request_intent}
      /\ F["time"][NoKey] = {datalog_date(ctx.now)}
      /\ \A d \in Dimensions : F["requested"][d] = {scale(ctx.requested[d])}
  BY DEF RequestFacts
<1> HIDE DEF F
<1>2. ASSUME NEW fact, NEW key, NEW op, NEW v, F[fact][key] = {v}
      PROVE  SeenAlone(Clause("check", fact, key, op, t), F) <=> Compare(v, op, t)
  BY <1>2 DEF SeenAlone, Clause
<1>3. /\ \A v : (Compare(v, "in", t) <=> v \in t)
      /\ \A v : (Compare(v, "le", t) <=> v <= t)
      /\ \A v : (Compare(v, "lt", t) <=> v < t)
      /\ \A v : (Compare(v, "ge", t) <=> v >= t)
      /\ \A v : (Compare(v, "eq", t) <=> v = t)
  BY DEF Compare
<1>4. SeenAlone(Clause("check", "operation", NoKey, "in", t), F) <=> ctx.operation \in t
  BY <1>1, <1>2, <1>3
<1>5. SeenAlone(Clause("check", "current_depth", NoKey, "le", t), F) <=> ctx.current_depth <= t
  BY <1>1, <1>2, <1>3
<1>6. SeenAlone(Clause("check", "request_intent", NoKey, "eq", t), F) <=> ctx.request_intent = t
  <2>1. F["request_intent"][NoKey] = {ctx.request_intent}
    BY <1>1
  <2>2. SeenAlone(Clause("check", "request_intent", NoKey, "eq", t), F)
            <=> Compare(ctx.request_intent, "eq", t)
    BY <2>1, <1>2
  <2> QED BY <2>2, <1>3
<1>7. SeenAlone(Clause("check", "time", NoKey, "ge", t), F) <=> datalog_date(ctx.now) >= t
  BY <1>1, <1>2, <1>3
<1>8. SeenAlone(Clause("check", "time", NoKey, "lt", t), F) <=> datalog_date(ctx.now) < t
  BY <1>1, <1>2, <1>3
<1>9. \A d \in Dimensions : SeenAlone(Clause("check", "requested", d, "le", t), F)
          <=> scale(ctx.requested[d]) <= t
  BY <1>1, <1>2, <1>3
<1> QED BY <1>4, <1>5, <1>6, <1>7, <1>8, <1>9 DEF F

\* The authority block sees the request and the grant: it states no request.
LEMMA AuthorityPasses ==
    ASSUME NEW m, NEW ctx
    PROVE  LET A == AuthorityStatements(m)
               F == RequestFacts(ctx)
           IN  BlockPasses(A, F, GrantFacts(m)) <=>
                   /\ ctx.operation \in m.scopes /\ ctx.request_intent = m.intent_hash
                   /\ \A i \in DOMAIN A \ {1, 3} : SeenAlone(A[i], F)
<1> DEFINE A == AuthorityStatements(m)
           n == Len(DimensionOrder)
           F == RequestFacts(ctx)
           G == GrantFacts(m)
<1>1. /\ n \in Nat /\ DOMAIN A = 1 .. n + 5
      /\ A[1] = Clause("check", "operation", NoKey, "joins", "scope")
      /\ A[2] = Clause("check", "current_depth", NoKey, "le", m.max_depth)
      /\ A[3] = Clause("check", "request_intent", NoKey, "joins", "intent")
      /\ \A i \in 1 .. n : A[3 + i] = Clause("check", "requested", DimensionOrder[i],
                                   "le", scale(m.budget[DimensionOrder[i]]))
      /\ A[n + 4] = Clause("check", "time", NoKey, "ge", datalog_date(m.not_before))
      /\ A[n + 5] = Clause("check", "time", NoKey, "lt", datalog_date(m.expires_at))
  BY AuthorityBlock
<1>2. /\ F["operation"] = [k \in {NoKey} |-> {ctx.operation}]
      /\ F["request_intent"] = [k \in {NoKey} |-> {ctx.request_intent}]
      /\ DOMAIN F["current_depth"] = {NoKey} /\ DOMAIN F["time"] = {NoKey}
      /\ DOMAIN F["requested"] = Dimensions
  BY DEF RequestFacts
<1>3. Held(G, "scope", NoKey) = m.scopes /\ Held(G, "intent", NoKey) = {m.intent_hash}
  BY DEF Held, GrantFacts
<1>4. Held(F, "scope", NoKey) = {} /\ Held(F, "intent", NoKey) = {}
  BY DEF Held, RequestFacts
<1> HIDE DEF F, G
<1>5. \A i \in 1 .. n + 5 : i \in {1, 2, 3, n + 4, n + 5} \/ \E j \in 1 .. n : i = 3 + j
  <2>1. \A i \in 1 .. n + 5 : i \notin {1, 2, 3, n + 4, n + 5} => i - 3 \in 1 .. n /\ i = 3 + (i - 3)
    BY <1>1
  <2> QED BY <2>1
<1>16. \A form, fact, key, op, term :
           LET c == Clause(form, fact, key, op, term)
           IN  c.form = form /\ c.fact = fact /\ c.key = key /\ c.op = op
  BY DEF Clause
<1>6. \A i \in DOMAIN A : A[i].form = "check"
  <2> HIDE DEF A, n
  <2> SUFFICES ASSUME NEW i \in 1 .. n + 5 PROVE A[i].form = "check"
    BY <1>1
  <2>1. CASE i \in {1, 2, 3, n + 4, n + 5}
    BY <1>1, <1>16, <2>1
  <2>2. ASSUME NEW j \in 1 .. n, i = 3 + j PROVE A[i].form = "check"
    <3>1. A[i] = Clause("check", "requested", DimensionOrder[j], "le",
                        scale(m.budget[DimensionOrder[j]]))
      BY <1>1, <2>2
    <3> QED BY <1>16, <3>1
  <2> QED BY <1>5, <2>1, <2>2
<1>7. ASSUME NEW i \in DOMAIN A \ {1, 3}
      PROVE  Passes(A[i], A, F, G) <=> SeenAlone(A[i], F)
  <2>1. A[i].fact \in REQUEST_FACTS /\ A[i].op # "joins" /\ A[i].key \in DOMAIN F[A[i].fact]
    <3>1. \A j \in 1 .. n : DimensionOrder[j] \in Dimensions
      BY CaveatConstants DEF Dimensions
    <3> HIDE DEF A, n
    <3>2. CASE i = 2
      BY <1>1, <1>2, <3>2 DEF Clause, REQUEST_FACTS
    <3>3. CASE i = n + 4 \/ i = n + 5
      BY <1>1, <1>2, <3>3 DEF Clause, REQUEST_FACTS
    <3>4. ASSUME NEW j \in 1 .. n, i = 3 + j
          PROVE  A[i].fact \in REQUEST_FACTS /\ A[i].op # "joins" /\ A[i].key \in DOMAIN F[A[i].fact]
      <4>1. A[i] = Clause("check", "requested", DimensionOrder[j], "le",
                          scale(m.budget[DimensionOrder[j]]))
        BY <1>1, <3>4
      <4>2. A[i].fact = "requested" /\ A[i].op = "le" /\ A[i].key = DimensionOrder[j]
        BY <1>16, <4>1
      <4> QED BY <1>2, <3>1, <4>2 DEF REQUEST_FACTS
    <3> QED BY <1>1, <1>5, <3>2, <3>3, <3>4
  <2>2. Silent(A)
    BY <1>6 DEF Silent
  <2> HIDE DEF A
  <2> QED BY <2>1, <2>2, PassesAlone DEF F, G
<1>8. \A fact, key : Brought(A, fact, key) = {}
  BY <1>6 DEF Brought
<1>9. /\ Visible(A, F, G, "scope", NoKey) = m.scopes
      /\ Visible(A, F, G, "intent", NoKey) = {m.intent_hash}
  BY <1>3, <1>4, <1>8 DEF Visible
<1>10. /\ Visible(A, F, G, "operation", NoKey) = {ctx.operation}
       /\ Visible(A, F, G, "request_intent", NoKey) = {ctx.request_intent}
  <2>1. Silent(A)
    BY <1>6 DEF Silent
  <2>2. /\ "operation" \in REQUEST_FACTS /\ "request_intent" \in REQUEST_FACTS
        /\ NoKey \in DOMAIN F["operation"] /\ NoKey \in DOMAIN F["request_intent"]
        /\ F["operation"][NoKey] = {ctx.operation}
        /\ F["request_intent"][NoKey] = {ctx.request_intent}
    BY <1>2 DEF REQUEST_FACTS
  <2>3. /\ Visible(A, F, G, "operation", NoKey) = Held(F, "operation", NoKey)
        /\ Visible(A, F, G, "request_intent", NoKey) = Held(F, "request_intent", NoKey)
    BY <2>1, <2>2, SilentSees DEF F, G
  <2>4. /\ Held(F, "operation", NoKey) = F["operation"][NoKey]
        /\ Held(F, "request_intent", NoKey) = F["request_intent"][NoKey]
    BY <2>2, RequestHeld DEF F
  <2> QED BY <2>2, <2>3, <2>4
<1>11. ASSUME NEW fact, NEW term
       PROVE  Passes(Clause("check", fact, NoKey, "joins", term), A, F, G) <=>
                  \E v \in Visible(A, F, G, fact, NoKey) : v \in Visible(A, F, G, term, NoKey)
  BY DEF Passes, Clause
<1>12. Passes(A[1], A, F, G) <=> ctx.operation \in m.scopes
  <2>1. Passes(A[1], A, F, G) <=> Passes(Clause("check", "operation", NoKey, "joins", "scope"), A, F, G)
    BY <1>1
  <2> HIDE DEF A
  <2> QED BY <1>9, <1>10, <1>11, <2>1
<1>13. Passes(A[3], A, F, G) <=> ctx.request_intent = m.intent_hash
  <2>1. Passes(A[3], A, F, G) <=> Passes(Clause("check", "request_intent", NoKey, "joins", "intent"), A, F, G)
    BY <1>1
  <2> HIDE DEF A
  <2> QED BY <1>9, <1>10, <1>11, <2>1
<1>14. 1 \in DOMAIN A /\ 3 \in DOMAIN A
  BY <1>1
<1> HIDE DEF A
<1>15. (\A i \in DOMAIN A : Passes(A[i], A, F, G)) <=>
            /\ Passes(A[1], A, F, G) /\ Passes(A[3], A, F, G)
            /\ \A i \in DOMAIN A \ {1, 3} : SeenAlone(A[i], F)
  BY <1>7, <1>14
<1> QED BY <1>12, <1>13, <1>15 DEF BlockPasses, A, F, G

\* Scaling keeps the order of amounts, and a date is the second an instant is in.
LEMMA ScaleOrder ==
    ASSUME NEW a \in Int, NEW b \in Int, scale(a) <= scale(b)
    PROVE  a <= b
BY CaveatConstants DEF scale

LEMMA DateOrder ==
    ASSUME NEW a \in Int, NEW b \in Int
    PROVE  /\ datalog_date(a) \in Int
           /\ datalog_date(a) * Second <= a /\ a < datalog_date(a) * Second + Second
           /\ datalog_date(a) < datalog_date(b) => a < b
           /\ datalog_date(b) <= datalog_date(a) => b - Second < a
<1>1. Second \in Nat \ {0}
  BY CaveatConstants
<1>2. ASSUME NEW x \in Int
      PROVE  /\ datalog_date(x) \in Int
             /\ datalog_date(x) * Second <= x /\ x < datalog_date(x) * Second + Second
  BY <1>1 DEF datalog_date
<1> DEFINE p == datalog_date(a)
           q == datalog_date(b)
<1>3. /\ p \in Int /\ p * Second <= a /\ a < p * Second + Second
      /\ q \in Int /\ q * Second <= b /\ b < q * Second + Second
  BY <1>2
<1> HIDE DEF p, q
<1>4. p < q => a < b
  <2>1. p < q => p * Second + Second <= q * Second
    BY <1>1, <1>3
  <2>2. p * Second \in Int /\ q * Second \in Int
    BY <1>1, <1>3
  <2> QED BY <1>1, <1>3, <2>1, <2>2
<1>5. q <= p => b - Second < a
  <2>1. q <= p => q * Second <= p * Second
    BY <1>1, <1>3
  <2>2. p * Second \in Int /\ q * Second \in Int
    BY <1>1, <1>3
  <2> QED BY <1>1, <1>3, <2>1, <2>2
<1> QED BY <1>3, <1>4, <1>5 DEF p, q

-----------------------------------------------------------------------------
(* The blocks that attenuation writes *)

\* A statement bounds the depth of the request, if at all, from above.
DepthFromAbove(s) ==
    \/ s.form = "fact"
    \/ s.fact # "current_depth" /\ (s.op = "joins" => s.term # "current_depth")
    \/ /\ s.fact = "current_depth" /\ s.key = NoKey /\ s.term \in Int
       /\ <<s.form, s.op>> \in {<<"check", "le">>, <<"check", "lt">>,
                                <<"reject", "ge">>, <<"reject", "gt">>}

\* The statements of t are among those of st.
Holds(st, t) == \A j \in DOMAIN t : \E i \in DOMAIN st : st[i] = t[j]

ValidCaveats(cs) == cs \in Seq({c \in ToSet(cs) : ValidCaveat(c)})

\* s is one of the clauses that c is compiled to.
CompiledFrom(s, c) ==
    \/ c.kind = "scope_subset" /\ s = Clause("check", "operation", NoKey, "in", c.scopes)
    \/ c.kind = "budget_ceiling" /\ s = Clause("check", "requested", c.dimension, "le", scale(c.value))
    \/ /\ c.kind = "time_window" /\ c.not_before # NoTime
       /\ s = Clause("check", "time", NoKey, "ge", datalog_date(c.not_before))
    \/ /\ c.kind = "time_window" /\ c.not_after # NoTime
       /\ s = Clause("check", "time", NoKey, "lt", datalog_date(c.not_after))
    \/ c.kind = "tool_allow" /\ s = Clause("check", "tool", NoKey, "in", c.tools)
    \/ c.kind = "tool_deny" /\ s = Clause("reject", "tool", NoKey, "in", c.tools)
    \/ /\ c.kind = "arg_predicate"
       /\ s = Clause("reject", "arg", c.path, Negated[c.op],
                     IF c.op \in {"in", "not_in"} THEN c.value ELSE Term(c.value))
    \/ c.kind = "depth_limit" /\ s = Clause("check", "current_depth", NoKey, "le", c.max_depth)
    \/ c.kind = "intent_bound" /\ s = Clause("check", "request_intent", NoKey, "eq", c.intent_hash)
    \/ /\ c.kind = "requires_approval"
       /\ \E x \in c.scopes : s = Clause("fact", "requires_approval", NoKey, "eq", x)

\* What each kind is compiled to.
LEMMA CompiledIs ==
    ASSUME NEW c, ValidCaveat(c)
    PROVE  LET q == ToDatalog(c)
           IN  /\ q \in Seq(ToSet(q))
               /\ \A j \in DOMAIN q : CompiledFrom(q[j], c)
<1> DEFINE q == ToDatalog(c)
<1>1. ASSUME NEW x, q = <<x>>, CompiledFrom(x, c)
      PROVE  q \in Seq(ToSet(q)) /\ \A j \in DOMAIN q : CompiledFrom(q[j], c)
  <2>1. <<x>> \in Seq({x}) /\ DOMAIN <<x>> = 1 .. 1 /\ <<x>>[1] = x
    OBVIOUS
  <2>2. <<x>> \in Seq(ToSet(<<x>>))
    BY <2>1, SeqOfItself
  <2> HIDE DEF q
  <2> QED BY <1>1, <2>1, <2>2
<1>2. CASE c.kind = "scope_subset"
  <2>1. q = <<Clause("check", "operation", NoKey, "in", c.scopes)>>
    BY <1>2 DEF ToDatalog
  <2> QED BY <1>1, <1>2, <2>1, Zenon DEF CompiledFrom
<1>3. CASE c.kind = "budget_ceiling"
  <2>1. q = <<Clause("check", "requested", c.dimension, "le", scale(c.value))>>
    BY <1>3 DEF ToDatalog
  <2> QED BY <1>1, <1>3, <2>1, Zenon DEF CompiledFrom
<1>4. CASE c.kind = "tool_allow"
  <2>1. q = <<Clause("check", "tool", NoKey, "in", c.tools)>>
    BY <1>4 DEF ToDatalog
  <2> QED BY <1>1, <1>4, <2>1, Zenon DEF CompiledFrom
<1>5. CASE c.kind = "tool_deny"
  <2>1. q = <<Clause("reject", "tool", NoKey, "in", c.tools)>>
    BY <1>5 DEF ToDatalog
  <2> QED BY <1>1, <1>5, <2>1, Zenon DEF CompiledFrom
<1>6. CASE c.kind = "arg_predicate"
  <2>1. q = <<Clause("reject", "arg", c.path, Negated[c.op],
                     IF c.op \in {"in", "not_in"} THEN c.value ELSE Term(c.value))>>
    BY <1>6 DEF ToDatalog
  <2> QED BY <1>1, <1>6, <2>1, Zenon DEF CompiledFrom
<1>7. CASE c.kind = "depth_limit"
  <2>1. q = <<Clause("check", "current_depth", NoKey, "le", c.max_depth)>>
    BY <1>7 DEF ToDatalog
  <2> QED BY <1>1, <1>7, <2>1, Zenon DEF CompiledFrom
<1>8. CASE c.kind = "intent_bound"
  <2>1. q = <<Clause("check", "request_intent", NoKey, "eq", c.intent_hash)>>
    BY <1>8 DEF ToDatalog
  <2> QED BY <1>1, <1>8, <2>1, Zenon DEF CompiledFrom
<1>9. CASE c.kind = "time_window"
  <2> DEFINE lower == Clause("check", "time", NoKey, "ge", datalog_date(c.not_before))
             upper == Clause("check", "time", NoKey, "lt", datalog_date(c.not_after))
             a == IF c.not_before = NoTime THEN <<>> ELSE <<lower>>
             b == IF c.not_after = NoTime THEN <<>> ELSE <<upper>>
             V == {x \in {lower, upper} : CompiledFrom(x, c)}
  <2>1. q = a \o b
    BY <1>9 DEF ToDatalog
  <2>2. (c.not_before # NoTime => lower \in V) /\ (c.not_after # NoTime => upper \in V)
    BY <1>9, Zenon DEF CompiledFrom
  <2>3. \A x \in V : CompiledFrom(x, c)
    OBVIOUS
  <2> HIDE DEF q, lower, upper, V
  <2>4. a \o b \in Seq(V)
    <3>1. /\ <<>> \in Seq(V)
          /\ lower \in V => <<lower>> \in Seq(V)
          /\ upper \in V => <<upper>> \in Seq(V)
      OBVIOUS
    <3>2. a \in Seq(V) /\ b \in Seq(V)
      BY <2>2, <3>1, Zenon
    <3> HIDE DEF a, b
    <3> QED BY <3>2
  <2>5. q \in Seq(V)
    BY <2>1, <2>4
  <2>6. q \in Seq(ToSet(q))
    BY <2>5, SeqOfItself
  <2>7. \A j \in DOMAIN q : q[j] \in V
    BY <2>5
  <2> QED BY <2>3, <2>6, <2>7 DEF q
<1>10. CASE c.kind = "requires_approval"
  <2> DEFINE s == SetToSeq(c.scopes)
             e(i) == Clause("fact", "requires_approval", NoKey, "eq", s[i])
  <2>1. q = [i \in DOMAIN s |-> e(i)]
    BY <1>10 DEF ToDatalog
  <2>2. IsFiniteSet(c.scopes)
    BY <1>10 DEF ValidCaveat
  <2>3. s \in Seq(c.scopes)
    BY <2>2, SetToSeqType
  <2>4. \A i \in DOMAIN s : CompiledFrom(e(i), c)
    <3>1. \A i \in DOMAIN s : s[i] \in c.scopes
      BY <2>3
    <3> QED BY <1>10, <3>1, Zenon DEF CompiledFrom
  <2> HIDE DEF q, s, e
  <2>5. q \in Seq({e(i) : i \in DOMAIN s})
    BY <2>1, <2>3
  <2>6. q \in Seq(ToSet(q))
    BY <2>5, SeqOfItself
  <2> QED BY <2>1, <2>4, <2>6 DEF q
<1>11. c.kind \in {"scope_subset", "budget_ceiling", "time_window", "tool_allow", "tool_deny",
                   "arg_predicate", "depth_limit", "intent_bound", "requires_approval"}
  BY DEF ValidCaveat
<1> QED BY <1>2, <1>3, <1>4, <1>5, <1>6, <1>7, <1>8, <1>9, <1>10, <1>11

LEMMA Compiled ==
    ASSUME NEW c, ValidCaveat(c)
    PROVE  LET q == ToDatalog(c)
           IN  /\ q \in Seq(ToSet(q))
               /\ \A j \in DOMAIN q : DepthFromAbove(q[j])
<1> DEFINE q == ToDatalog(c)
<1>1. q \in Seq(ToSet(q)) /\ \A j \in DOMAIN q : CompiledFrom(q[j], c)
  BY CompiledIs
<1>2. c.kind = "depth_limit" => c.max_depth \in Int
  BY DEF ValidCaveat
<1>3. ASSUME NEW s, CompiledFrom(s, c) PROVE DepthFromAbove(s)
  <2>1. c.kind = "arg_predicate" => Negated[c.op] # "joins"
    BY DEF ValidCaveat, Negated
  <2>2. CASE c.kind = "arg_predicate"
    BY <1>3, <2>1, <2>2 DEF CompiledFrom, DepthFromAbove, Clause
  <2>3. CASE c.kind = "depth_limit"
    BY <1>2, <1>3, <2>3 DEF CompiledFrom, DepthFromAbove, Clause
  <2>4. CASE c.kind \notin {"arg_predicate", "depth_limit"}
    BY <1>3, <2>4 DEF CompiledFrom, DepthFromAbove, Clause
  <2> QED BY <2>2, <2>3, <2>4
<1> HIDE DEF q
<1> QED BY <1>1, <1>3 DEF q

\* attenuate() writes all that its caveats are compiled to, and nothing that bounds
\* the depth from below.
LEMMA BlockHolds ==
    ASSUME NEW agent, NEW cs, ValidCaveats(cs)
    PROVE  LET B == BlockStatements(agent, cs)
           IN  /\ \A j \in DOMAIN B : DepthFromAbove(B[j])
               /\ \A k \in DOMAIN cs : Holds(B, ToDatalog(cs[k]))
<1> DEFINE f == Clause("fact", "agent", NoKey, "eq", agent)
           ss == [i \in DOMAIN cs |-> ToDatalog(cs[i])]
           n == Len(cs)
           B == BlockStatements(agent, cs)
           S == {f} \cup UNION {ToSet(ToDatalog(cs[k])) : k \in DOMAIN cs}
           G == {x \in S : DepthFromAbove(x)}
<1>1. n \in Nat /\ DOMAIN cs = 1 .. n /\ \A k \in 1 .. n : ValidCaveat(cs[k])
  BY DEF ValidCaveats
<1>2. DepthFromAbove(f) /\ f \in G
  BY DEF DepthFromAbove, Clause
<1>3. ASSUME NEW k \in 1 .. n PROVE ToDatalog(cs[k]) \in Seq(G)
  <2> DEFINE t == ToDatalog(cs[k])
  <2>1. t \in Seq(ToSet(t)) /\ \A j \in DOMAIN t : DepthFromAbove(t[j])
    BY <1>1, Compiled
  <2>2. ToSet(t) \subseteq S
    BY <1>1
  <2> HIDE DEF t, S
  <2>3. Len(t) \in Nat /\ DOMAIN t = 1 .. Len(t) /\ \A j \in 1 .. Len(t) : t[j] \in ToSet(t)
    BY <2>1
  <2>4. \A j \in 1 .. Len(t) : t[j] \in G
    BY <2>1, <2>2, <2>3
  <2> HIDE DEF G
  <2>5. t \in Seq(G)
    BY <2>1, <2>3, <2>4
  <2> QED BY <2>5 DEF t
<1>4. B = <<f>> \o FlattenSeq(ss)
  BY DEF BlockStatements
<1>5. DOMAIN ss = 1 .. n /\ \A k \in 1 .. n : ss[k] = ToDatalog(cs[k])
  BY <1>1
<1> HIDE DEF G, S, B, f
<1>6. ss \in Seq(Seq(G)) /\ Len(ss) = n
  BY <1>1, <1>3
<1> HIDE DEF ss
<1>7. IsFlat(FlattenSeq(ss), G, ss, n)
  BY <1>6, Flattened
<1> DEFINE q == FlattenSeq(ss)
           p == <<f>>
<1>8. q \in Seq(G) /\ p \in Seq(G) /\ Len(p) = 1 /\ B = p \o q
  BY <1>2, <1>4, <1>7 DEF IsFlat
<1> HIDE DEF q, p
<1>9. IsConcat(B, G, p, q)
  BY <1>8, Concat
<1>10. \A j \in DOMAIN B : DepthFromAbove(B[j])
  <2>1. \A j \in DOMAIN B : B[j] \in G
    BY <1>9 DEF IsConcat
  <2> QED BY <2>1 DEF G
<1>11. ASSUME NEW k \in DOMAIN cs PROVE Holds(B, ToDatalog(cs[k]))
  <2> SUFFICES ASSUME NEW j \in DOMAIN ToDatalog(cs[k])
               PROVE  \E i \in DOMAIN B : B[i] = ToDatalog(cs[k])[j]
    BY DEF Holds
  <2>1. k \in 1 .. n /\ j \in 1 .. Len(ss[k]) /\ ss[k] = ToDatalog(cs[k])
    BY <1>1, <1>3, <1>5
  <2>2. PICK i \in 1 .. Len(q) : q[i] = ss[k][j]
    BY <1>7, <2>1 DEF IsFlat, q
  <2>3. 1 + i \in DOMAIN B /\ B[1 + i] = q[i]
    BY <1>8, <1>9 DEF IsConcat
  <2> QED BY <2>1, <2>2, <2>3
<1> QED BY <1>10, <1>11 DEF B

-----------------------------------------------------------------------------
(* Minted chains *)

\* The mandate passed its validators, for scopes of the system.
MandateOK(m) ==
    /\ {"scopes", "budget", "intent_hash", "max_depth", "not_before", "expires_at"} \subseteq DOMAIN m
    /\ m.budget \in Budget /\ m.max_depth \in Nat /\ m.scopes \subseteq Scopes
    /\ m.not_before \in Int /\ m.expires_at \in Int

\* A token starts with the authority block of its mandate.
ChainOK(t) ==
    /\ MandateOK(t.mandate)
    /\ t.blocks \in Seq(ToSet(t.blocks)) /\ Len(t.blocks) >= 1
    /\ t.blocks[1] = AuthorityStatements(t.mandate)

\* What a token with an authority block for m authorizes was granted by m.
LEMMA ChainAuthorizes ==
    ASSUME NEW t, ChainOK(t), NEW ctx, ValidContext(ctx), Authorizes(t, ctx)
    PROVE  LET m == t.mandate
           IN  /\ ctx.operation \in m.scopes
               /\ \A d \in Dimensions : ctx.requested[d] <= m.budget[d]
               /\ ctx.request_intent = m.intent_hash
               /\ ctx.current_depth <= m.max_depth
               /\ datalog_date(m.not_before) <= datalog_date(ctx.now)
               /\ datalog_date(ctx.now) < datalog_date(m.expires_at)
<1> DEFINE m == t.mandate
           A == AuthorityStatements(m)
           n == Len(DimensionOrder)
           F == RequestFacts(ctx)
<1>1. t.blocks[1] = A /\ 1 \in DOMAIN t.blocks /\ MandateOK(m)
  BY DEF ChainOK
<1>2. /\ ctx.operation \in m.scopes /\ ctx.request_intent = m.intent_hash
      /\ \A i \in DOMAIN A \ {1, 3} : SeenAlone(A[i], F)
  <2>1. BlockPasses(A, F, GrantFacts(m))
    BY <1>1 DEF Authorizes
  <2> QED BY <2>1, AuthorityPasses
<1>3. /\ n \in Nat /\ DOMAIN A = 1 .. n + 5
      /\ A[2] = Clause("check", "current_depth", NoKey, "le", m.max_depth)
      /\ \A i \in 1 .. n : A[3 + i] = Clause("check", "requested", DimensionOrder[i],
                                   "le", scale(m.budget[DimensionOrder[i]]))
      /\ A[n + 4] = Clause("check", "time", NoKey, "ge", datalog_date(m.not_before))
      /\ A[n + 5] = Clause("check", "time", NoKey, "lt", datalog_date(m.expires_at))
  BY AuthorityBlock
<1>4. ctx.requested \in [Dimensions -> Nat] /\ ctx.now \in Int
  BY DEF ValidContext
<1> HIDE DEF A, m, F, n
<1>5. LET D == DOMAIN A \ {1, 3}
      IN  2 \in D /\ n + 4 \in D /\ n + 5 \in D /\ \A i \in 1 .. n : 3 + i \in D
  BY <1>3
<1>7. ctx.current_depth <= m.max_depth
  BY <1>2, <1>3, <1>4, <1>5, CheckPasses DEF F
<1>9. \A d \in Dimensions : ctx.requested[d] <= m.budget[d]
  <2> SUFFICES ASSUME NEW d \in Dimensions PROVE ctx.requested[d] <= m.budget[d]
    OBVIOUS
  <2>1. PICK i \in DOMAIN DimensionOrder : DimensionOrder[i] = d
    BY DEF Dimensions
  <2>2. i \in 1 .. n
    BY <2>1, CaveatConstants DEF n
  <2>3. SeenAlone(Clause("check", "requested", d, "le", scale(m.budget[d])), F)
    BY <1>2, <1>3, <1>5, <2>1, <2>2
  <2>4. scale(ctx.requested[d]) <= scale(m.budget[d])
    BY <2>3, CheckPasses DEF F
  <2>5. ctx.requested[d] \in Int /\ m.budget[d] \in Int
    BY <1>1, <1>4 DEF MandateOK, Budget
  <2> QED BY <2>4, <2>5, ScaleOrder
<1>10. datalog_date(ctx.now) >= datalog_date(m.not_before)
  BY <1>2, <1>3, <1>5, CheckPasses DEF F
<1>11. datalog_date(ctx.now) < datalog_date(m.expires_at)
  BY <1>2, <1>3, <1>5, CheckPasses DEF F
<1>12. datalog_date(ctx.now) \in Int /\ datalog_date(m.not_before) \in Int
  BY <1>1, <1>4, DateOrder DEF MandateOK
<1> QED BY <1>2, <1>7, <1>9, <1>10, <1>11, <1>12 DEF m

\* A finite set of integers has a least and a greatest member.
LEMMA Extrema ==
    ASSUME NEW S \in SUBSET Int, IsFiniteSet(S), S # {}
    PROVE  /\ MinOf(S) \in S /\ MaxOf(S) \in S
           /\ \A y \in S : MinOf(S) <= y /\ y <= MaxOf(S)
<1> DEFINE n == Cardinality(S)
<1>1. n \in Nat /\ ExistsBijection(1 .. n, S)
  BY FS_CardinalityType
<1>2. PICK f \in [1 .. n -> S] : \A s \in S : \E i \in 1 .. n : f[i] = s
  BY <1>1 DEF ExistsBijection, Bijection, Surjection
<1> HIDE DEF n
<1> DEFINE Least(k) == \E i \in 1 .. k : \A j \in 1 .. k : f[i] <= f[j]
           Greatest(k) == \E i \in 1 .. k : \A j \in 1 .. k : f[i] >= f[j]
           T == {k \in 0 .. n : k = 0 \/ (Least(k) /\ Greatest(k))}
<1>3. 0 \in T
  BY <1>1
<1>4. ASSUME NEW k \in 1 .. n, k - 1 \in T PROVE k \in T
  <2>1. \A i \in 1 .. n : f[i] \in Int
    BY <1>2
  <2>2. k \in Nat /\ k - 1 \in Nat /\ k \in 1 .. k
        /\ \A m \in 1 .. k : m \in 1 .. n /\ (m = k \/ m \in 1 .. k - 1)
    BY <1>1
  <2>3. CASE k = 1
    <3>1. \A j \in 1 .. k : f[k] <= f[j] /\ f[k] >= f[j]
      BY <1>1, <2>1, <2>3
    <3>2. Least(k) /\ Greatest(k)
      BY <2>2, <3>1
    <3> HIDE DEF Least, Greatest
    <3> QED BY <1>1, <3>2
  <2>4. CASE k # 1
    <3>1. Least(k - 1) /\ Greatest(k - 1)
      <4> HIDE DEF Least, Greatest
      <4> QED BY <1>4, <2>2, <2>4
    <3>2. PICK i \in 1 .. k - 1 : \A j \in 1 .. k - 1 : f[i] <= f[j]
      BY <3>1
    <3>3. PICK l \in 1 .. k - 1 : \A j \in 1 .. k - 1 : f[l] >= f[j]
      BY <3>1
    <3>4. i \in 1 .. k /\ l \in 1 .. k /\ i \in 1 .. n /\ l \in 1 .. n
      BY <1>1, <2>2
    <3>5. Least(k)
      <4>1. CASE f[i] <= f[k]
        <5>1. \A j \in 1 .. k : f[i] <= f[j]
          BY <2>2, <3>2, <4>1
        <5> QED BY <3>4, <5>1
      <4>2. CASE ~ (f[i] <= f[k])
        <5>1. \A j \in 1 .. k : f[k] <= f[j]
          BY <2>1, <2>2, <3>2, <3>4, <4>2
        <5> QED BY <2>2, <5>1
      <4> QED BY <4>1, <4>2
    <3>6. Greatest(k)
      <4>1. CASE f[l] >= f[k]
        <5>1. \A j \in 1 .. k : f[l] >= f[j]
          BY <2>2, <3>3, <4>1
        <5> QED BY <3>4, <5>1
      <4>2. CASE ~ (f[l] >= f[k])
        <5>1. \A j \in 1 .. k : f[k] >= f[j]
          BY <2>1, <2>2, <3>3, <3>4, <4>2
        <5> QED BY <2>2, <5>1
      <4> QED BY <4>1, <4>2
    <3> HIDE DEF Least, Greatest
    <3> QED BY <1>1, <3>5, <3>6
  <2> QED BY <2>3, <2>4
<1>5. 0 .. n \subseteq T
  <2> HIDE DEF T
  <2> QED BY <1>1, <1>3, <1>4, SetInduction
<1>6. n # 0
  <2>1. PICK s \in S : TRUE
    OBVIOUS
  <2>2. PICK i \in 1 .. n : f[i] = s
    BY <1>2
  <2> QED BY <1>1, <2>2
<1>7. Least(n) /\ Greatest(n)
  <2> HIDE DEF Least, Greatest
  <2> QED BY <1>1, <1>5, <1>6
<1>8. PICK i \in 1 .. n : \A j \in 1 .. n : f[i] <= f[j]
  BY <1>7
<1>9. PICK l \in 1 .. n : \A j \in 1 .. n : f[l] >= f[j]
  BY <1>7
<1>10. f[i] \in S /\ \A y \in S : f[i] <= y
  BY <1>2, <1>8
<1>11. f[l] \in S /\ \A y \in S : f[l] >= y
  BY <1>2, <1>9
<1>12. MinOf(S) \in S /\ \A y \in S : MinOf(S) <= y
  BY <1>10 DEF MinOf
<1>13. MaxOf(S) \in S /\ \A y \in S : MaxOf(S) >= y
  BY <1>11 DEF MaxOf
<1>14. \A y \in S : y <= MaxOf(S)
  BY <1>13
<1> QED BY <1>12, <1>13, <1>14

\* The values at some positions of a list, and the last of these positions.
LEMMA ExtremaOf ==
    ASSUME NEW n \in Nat, NEW K \in SUBSET (1 .. n), K # {}, NEW v \in [K -> Int]
    PROVE  /\ \E i \in K : MinOf({v[j] : j \in K}) = v[i]
           /\ \E i \in K : MaxOf({v[j] : j \in K}) = v[i]
           /\ MaxOf(K) \in K
           /\ \A i \in K : MinOf({v[j] : j \in K}) <= v[i] /\ v[i] <= MaxOf({v[j] : j \in K})
<1>1. IsFiniteSet(K)
  <2>1. IsFiniteSet(1 .. n)
    BY FS_Interval
  <2> QED BY <2>1, FS_Subset
<1> DEFINE S == {v[j] : j \in K}
<1>2. S \in SUBSET Int /\ S # {} /\ v \in Surjection(K, S)
  BY DEF Surjection
<1>3. \A x \in S : \E i \in K : x = v[i]
  OBVIOUS
<1> HIDE DEF S
<1>4. IsFiniteSet(S)
  BY <1>1, <1>2, FS_Surjection
<1>5. MinOf(S) \in S /\ MaxOf(S) \in S /\ \A y \in S : MinOf(S) <= y /\ y <= MaxOf(S)
  BY <1>2, <1>4, Extrema
<1>6. MaxOf(K) \in K
  <2>1. K \in SUBSET Int
    OBVIOUS
  <2> QED BY <1>1, <2>1, Extrema
<1>7. \A i \in K : v[i] \in S
  BY DEF S
<1> QED BY <1>3, <1>5, <1>6, <1>7 DEF S

\* What a passed check or reject of a tool says of the request.
LEMMA ToolPasses ==
    ASSUME NEW ctx, NEW t
    PROVE  LET F == RequestFacts(ctx)
           IN  /\ SeenAlone(Clause("check", "tool", NoKey, "in", t), F) => ctx.tool \in t
               /\ SeenAlone(Clause("reject", "tool", NoKey, "in", t), F)
                     => ctx.tool = NoTool \/ ctx.tool \notin t
<1> DEFINE F == RequestFacts(ctx)
<1>1. F["tool"][NoKey] = {ctx.tool} \ {NoTool}
  BY DEF RequestFacts
<1> HIDE DEF F
<1>2. ASSUME SeenAlone(Clause("check", "tool", NoKey, "in", t), F) PROVE ctx.tool \in t
  <2>1. \E v \in F["tool"][NoKey] : Compare(v, "in", t)
    BY <1>2 DEF SeenAlone, Clause
  <2> QED BY <1>1, <2>1, CompareIs
<1>3. ASSUME SeenAlone(Clause("reject", "tool", NoKey, "in", t), F), ctx.tool # NoTool
      PROVE  ctx.tool \notin t
  <2>1. ~ \E v \in F["tool"][NoKey] : Compare(v, "in", t)
    BY <1>3 DEF SeenAlone, Clause
  <2> QED BY <1>1, <1>3, <2>1, CompareIs
<1> QED BY <1>2, <1>3 DEF F

\* The clauses of a window.
LEMMA WindowClauses ==
    ASSUME NEW c, c.kind = "time_window"
    PROVE  LET q == ToDatalog(c)
           IN  /\ c.not_before # NoTime => \E j \in DOMAIN q :
                    q[j] = Clause("check", "time", NoKey, "ge", datalog_date(c.not_before))
               /\ c.not_after # NoTime => \E j \in DOMAIN q :
                    q[j] = Clause("check", "time", NoKey, "lt", datalog_date(c.not_after))
<1> DEFINE q == ToDatalog(c)
           lower == Clause("check", "time", NoKey, "ge", datalog_date(c.not_before))
           upper == Clause("check", "time", NoKey, "lt", datalog_date(c.not_after))
           a == IF c.not_before = NoTime THEN <<>> ELSE <<lower>>
           b == IF c.not_after = NoTime THEN <<>> ELSE <<upper>>
           S == {lower, upper}
<1>1. q = a \o b
  BY DEF ToDatalog
<1> HIDE DEF q, lower, upper
<1>2. a \in Seq(S) /\ b \in Seq(S)
  <2>1. <<>> \in Seq(S) /\ <<lower>> \in Seq(S) /\ <<upper>> \in Seq(S)
    OBVIOUS
  <2> QED BY <2>1, Zenon
<1>3. c.not_before # NoTime => Len(a) = 1 /\ a[1] = lower
  OBVIOUS
<1>4. c.not_after # NoTime => Len(b) = 1 /\ b[1] = upper
  OBVIOUS
<1> HIDE DEF a, b, S
<1>5. IsConcat(q, S, a, b)
  BY <1>1, <1>2, Concat
<1>6. c.not_before # NoTime => 1 \in DOMAIN q /\ q[1] = lower
  BY <1>3, <1>5 DEF IsConcat
<1>7. c.not_after # NoTime => Len(a) + 1 \in DOMAIN q /\ q[Len(a) + 1] = upper
  BY <1>4, <1>5 DEF IsConcat
<1> QED BY <1>6, <1>7 DEF q, lower, upper

\* The second an instant is in, read back as an instant, is in that second.
LEMMA DateOfDate ==
    ASSUME NEW a \in Int
    PROVE  /\ datalog_date(a) * Second \in Int
           /\ datalog_date(datalog_date(a) * Second) = datalog_date(a)
<1> DEFINE p == datalog_date(a)
           x == p * Second
           q == datalog_date(x)
<1>1. p \in Int /\ Second \in Nat \ {0}
  BY CaveatConstants, DateOrder
<1> HIDE DEF p
<1>2. x \in Int
  BY <1>1
<1>3. q \in Int /\ q * Second <= x /\ x < q * Second + Second
  <2> HIDE DEF x
  <2> QED BY <1>2, DateOrder
<1> HIDE DEF q
<1>4. q * Second <= p * Second /\ p * Second < (q + 1) * Second
  BY <1>1, <1>3
<1>5. ~ (p < q)
  <2>1. p < q => p * Second < q * Second
    BY <1>1, <1>3
  <2>2. p * Second \in Int /\ q * Second \in Int
    BY <1>1, <1>3
  <2> QED BY <1>4, <2>1, <2>2
<1>6. ~ (q + 1 <= p)
  <2>1. q + 1 <= p => (q + 1) * Second <= p * Second
    BY <1>1, <1>3
  <2>2. p * Second \in Int /\ (q + 1) * Second \in Int
    BY <1>1, <1>3
  <2> QED BY <1>4, <2>1, <2>2
<1>7. q = p
  BY <1>1, <1>3, <1>5, <1>6
<1> QED BY <1>2, <1>7 DEF p, q

\* grant_caveats() of a token, item by item.
LEMMA GrantList ==
    ASSUME NEW t, ChainOK(t)
    PROVE  LET g == Grant(t)
               m == t.mandate
               G == GrantCaveats(g)
               n == Len(DimensionOrder)
           IN  /\ n \in Nat /\ DOMAIN G = 1 .. n + 4 /\ G \in Seq(ToSet(G))
               /\ G[1] = ScopeSubset(m.scopes) /\ G[2] = DepthLimit(m.max_depth)
               /\ G[3] = IntentBound(m.intent_hash)
               /\ G[4] = TimeWindow(datalog_date(m.not_before) * Second,
                                    datalog_date(m.expires_at) * Second)
               /\ \A i \in 1 .. n :
                     /\ DimensionOrder[i] \in Dimensions
                     /\ G[4 + i] = BudgetCeiling(DimensionOrder[i], m.budget[DimensionOrder[i]])
<1> DEFINE m == t.mandate
           g == Grant(t)
           n == Len(DimensionOrder)
           a1 == ScopeSubset(g.scopes)
           a2 == DepthLimit(g.max_depth)
           a3 == IntentBound(g.intent_hash)
           a4 == TimeWindow(g.not_before, g.expires_at)
           e(i) == BudgetCeiling(DimensionOrder[i], g.budget[DimensionOrder[i]])
           b == [i \in DOMAIN DimensionOrder |-> e(i)]
           G == GrantCaveats(g)
<1>1. MandateOK(m)
  BY DEF ChainOK
<1>2. /\ g.scopes = m.scopes /\ g.budget = m.budget /\ g.intent_hash = m.intent_hash
      /\ g.max_depth = m.max_depth /\ g.not_before = datalog_date(m.not_before) * Second
      /\ g.expires_at = datalog_date(m.expires_at) * Second
  BY <1>1 DEF Grant, MandateOK
<1>3. G = <<a1, a2, a3, a4>> \o b
  BY DEF GrantCaveats
<1>4. n \in Nat /\ DOMAIN DimensionOrder = 1 .. n /\ \A i \in 1 .. n : DimensionOrder[i] \in Dimensions
  BY CaveatConstants
<1> DEFINE a == <<a1, a2, a3, a4>>
           S == {a1, a2, a3, a4} \cup {e(i) : i \in 1 .. n}
<1> HIDE DEF a1, a2, a3, a4, e, n, m, g
<1>5. b = [i \in 1 .. n |-> e(i)]
  BY <1>4
<1>6. b \in Seq(S) /\ Len(b) = n /\ \A i \in 1 .. n : b[i] = e(i)
  <2> HIDE DEF b
  <2> QED BY <1>4, <1>5
<1>7. a \in Seq(S) /\ Len(a) = 4 /\ a[1] = a1 /\ a[2] = a2 /\ a[3] = a3 /\ a[4] = a4
  OBVIOUS
<1>8. G = a \o b
  BY <1>3
<1> HIDE DEF a, b, G, S
<1>9. IsConcat(G, S, a, b)
  BY <1>6, <1>7, <1>8, Concat
<1>10. G \in Seq(ToSet(G))
  BY <1>9, SeqOfItself DEF IsConcat
<1>11. DOMAIN G = 1 .. n + 4
  BY <1>4, <1>6, <1>7, <1>9 DEF IsConcat
<1>12. G[1] = a1 /\ G[2] = a2 /\ G[3] = a3 /\ G[4] = a4
  BY <1>7, <1>9 DEF IsConcat
<1>13. \A i \in 1 .. n : G[4 + i] = e(i)
  BY <1>6, <1>7, <1>9 DEF IsConcat
<1>14. /\ a1 = ScopeSubset(m.scopes) /\ a2 = DepthLimit(m.max_depth)
       /\ a3 = IntentBound(m.intent_hash)
       /\ a4 = TimeWindow(datalog_date(m.not_before) * Second, datalog_date(m.expires_at) * Second)
       /\ \A i \in 1 .. n : e(i) = BudgetCeiling(DimensionOrder[i], m.budget[DimensionOrder[i]])
  BY <1>2, Zenon DEF a1, a2, a3, a4, e
<1> QED BY <1>4, <1>10, <1>11, <1>12, <1>13, <1>14 DEF G, g, n, m
-----------------------------------------------------------------------------
(* What is read back off a statement *)

\* Rounding a number of parts down to whole units keeps its order among units.
LEMMA WholeUnits ==
    ASSUME NEW K \in Nat \ {0}, NEW x \in Int, NEW t \in Int
    PROVE  /\ t \div K \in Int
           /\ x * K <= t <=> x <= t \div K
           /\ (t % K) = 0 => t = (t \div K) * K
<1> DEFINE q == t \div K
<1>1. q \in Int /\ q * K <= t /\ t < q * K + K /\ t = q * K + (t % K)
  OBVIOUS
<1> HIDE DEF q
<1>2. x <= q => x * K <= q * K
  BY <1>1
<1>3. x > q => x * K >= q * K + K
  BY <1>1
<1>4. x * K \in Int /\ q * K \in Int
  BY <1>1
<1>5. x * K <= t <=> x <= q
  BY <1>1, <1>2, <1>3, <1>4
<1>6. (t % K) = 0 => t = q * K
  BY <1>1, <1>4
<1> QED BY <1>1, <1>5, <1>6 DEF q

LEMMA ScaleAgrees ==
    ASSUME NEW K \in Nat \ {0}, NEW x \in Int, NEW q \in Int
    PROVE  /\ x * K < q * K <=> x < q
           /\ x * K <= q * K <=> x <= q
           /\ x * K > q * K <=> x > q
           /\ x * K >= q * K <=> x >= q
           /\ x * K = q * K <=> x = q
<1>1. x * K \in Int /\ q * K \in Int
  OBVIOUS
<1>2. x < q => x * K < q * K
  OBVIOUS
<1>3. x > q => x * K > q * K
  OBVIOUS
<1> QED BY <1>1, <1>2, <1>3

\* The caveat that is read off a clause is one its constructor accepts, and the number an
\* argument is compared with is one of whole units.
Whole(s) ==
    s.fact = "arg" /\ s.op \notin {"in", "not_in"} /\ s.term \in Int => (s.term % BUDGET_SCALE) = 0
WellFormed(s) == Yields(s) => ValidCaveat(Build(s)) /\ Whole(s)

\* An argument that the statement orders is a number.
Comparable(s, ctx) ==
    /\ s.fact = "arg" /\ s.op \in {"le", "lt", "ge", "gt"} /\ s.term \in Int
    /\ s.key \in DOMAIN ctx.args
    => ctx.args[s.key] \in Int

\* evaluate() denies what does not satisfy a caveat, unless it asks for approval.
LEMMA DenyIsUnsatisfied ==
    ASSUME NEW c, NEW ctx
    PROVE  /\ c.kind # "requires_approval" =>
                 ((Evaluate(c, ctx).outcome # "deny") <=> Satisfied(c, ctx))
           /\ c.kind = "requires_approval" => Evaluate(c, ctx).outcome # "deny"
BY DEF Evaluate

LEMMA Denegation ==
    /\ Denegated("gt") = "le" /\ Denegated("ge") = "lt" /\ Denegated("lt") = "ge"
    /\ Denegated("le") = "gt" /\ Denegated("ne") = "eq" /\ Denegated("eq") = "ne"
    /\ Denegated("not_in") = "in" /\ Denegated("in") = "not_in"
<1>1. DOMAIN Negated = {"le", "lt", "ge", "gt", "eq", "ne", "in", "not_in"}
  BY DEF Negated
<1>2. /\ Negated["le"] = "gt" /\ Negated["lt"] = "ge" /\ Negated["ge"] = "lt"
      /\ Negated["gt"] = "le" /\ Negated["eq"] = "ne" /\ Negated["ne"] = "eq"
      /\ Negated["in"] = "not_in" /\ Negated["not_in"] = "in"
  BY DEF Negated
<1>3. ASSUME NEW o \in DOMAIN Negated, NEW op, Negated[o] = op,
             \A u \in DOMAIN Negated : Negated[u] = op => u = o
      PROVE  Denegated(op) = o
  BY <1>3 DEF Denegated
<1> QED BY <1>1, <1>2, <1>3

\* A reject clause on an argument, with the comparison that is read back off it.
LEMMA ArgAgrees ==
    ASSUME NEW a, NEW op \in DOMAIN Negated, NEW t,
           op \in {"in", "not_in"} => \A x \in t : x \notin Int,
           op \notin {"in", "not_in"} /\ t \in Int => (t % BUDGET_SCALE) = 0,
           op \in {"le", "lt", "ge", "gt"} => t \in Int /\ a \in Int
    PROVE  LET o == Denegated(op)
               v == IF o \in {"in", "not_in"} \/ t \notin Int THEN t ELSE t \div BUDGET_SCALE
           IN  Compare(Term(a), op, t) <=> ~ Compare(a, o, v)
<1> DEFINE K == BUDGET_SCALE
           q == t \div K
           o == Denegated(op)
           v == IF o \in {"in", "not_in"} \/ t \notin Int THEN t ELSE q
<1> SUFFICES Compare(Term(a), op, t) <=> ~ Compare(a, o, v)
  OBVIOUS
<1>1. K \in Nat \ {0}
  BY CaveatConstants
<1>2. op \in {"le", "lt", "ge", "gt", "eq", "ne", "in", "not_in"}
  BY DEF Negated
<1>3. t \in Int => q \in Int
  BY <1>1, WholeUnits
<1>4. t \in Int /\ op \notin {"in", "not_in"} => t = q * K
  BY <1>1, WholeUnits
<1>5. a \in Int => Term(a) = a * K /\ a * K \in Int
  BY <1>1 DEF Term, scale
<1>6. a \notin Int => Term(a) = a
  BY DEF Term
<1> HIDE DEF q, K
<1>7. CASE op \in {"le", "lt", "ge", "gt"}
  <2>1. t \in Int /\ a \in Int /\ q \in Int /\ t = q * K /\ Term(a) = a * K
    BY <1>2, <1>3, <1>4, <1>5, <1>7
  <2>2. /\ a * K < q * K <=> a < q
        /\ a * K <= q * K <=> a <= q
        /\ a * K > q * K <=> a > q
        /\ a * K >= q * K <=> a >= q
    BY <1>1, <2>1, ScaleAgrees
  <2>3. v = q
    BY <1>7, <2>1, Denegation
  <2>8. \A x, y : /\ Compare(x, "le", y) <=> x <= y
                  /\ Compare(x, "lt", y) <=> x < y
                  /\ Compare(x, "ge", y) <=> x >= y
                  /\ Compare(x, "gt", y) <=> x > y
    BY DEF Compare
  <2> HIDE DEF o, v
  <2>4. CASE op = "le"
    <3>1. Compare(Term(a), op, t) <=> a <= q
      BY <2>1, <2>2, <2>4, <2>8
    <3>2. Compare(a, o, v) <=> a > q
      BY <2>3, <2>4, <2>8, Denegation DEF o
    <3> QED BY <2>1, <3>1, <3>2
  <2>5. CASE op = "lt"
    <3>1. Compare(Term(a), op, t) <=> a < q
      BY <2>1, <2>2, <2>5, <2>8
    <3>2. Compare(a, o, v) <=> a >= q
      BY <2>3, <2>5, <2>8, Denegation DEF o
    <3> QED BY <2>1, <3>1, <3>2
  <2>6. CASE op = "ge"
    <3>1. Compare(Term(a), op, t) <=> a >= q
      BY <2>1, <2>2, <2>6, <2>8
    <3>2. Compare(a, o, v) <=> a < q
      BY <2>3, <2>6, <2>8, Denegation DEF o
    <3> QED BY <2>1, <3>1, <3>2
  <2>7. CASE op = "gt"
    <3>1. Compare(Term(a), op, t) <=> a > q
      BY <2>1, <2>2, <2>7, <2>8
    <3>2. Compare(a, o, v) <=> a <= q
      BY <2>3, <2>7, <2>8, Denegation DEF o
    <3> QED BY <2>1, <3>1, <3>2
  <2> QED BY <1>7, <2>4, <2>5, <2>6, <2>7
<1>8. CASE op \in {"eq", "ne"}
  <2>1. Term(a) = t <=> a = v
    <3>1. o \notin {"in", "not_in"}
      BY <1>8, Denegation
    <3>2. CASE t \in Int /\ a \in Int
      BY <1>1, <1>3, <1>4, <1>5, <1>8, <3>1, <3>2, ScaleAgrees
    <3>3. CASE t \notin Int /\ a \in Int
      BY <1>5, <3>3
    <3>4. CASE t \in Int /\ a \notin Int
      BY <1>3, <1>6, <3>1, <3>4
    <3>5. CASE t \notin Int /\ a \notin Int
      BY <1>6, <3>5
    <3> QED BY <3>2, <3>3, <3>4, <3>5
  <2> HIDE DEF v
  <2>2. \A x, y : (Compare(x, "eq", y) <=> x = y) /\ (Compare(x, "ne", y) <=> x # y)
    BY DEF Compare
  <2>3. CASE op = "eq"
    BY <2>1, <2>2, <2>3, Denegation DEF v
  <2>4. CASE op = "ne"
    BY <2>1, <2>2, <2>4, Denegation DEF v
  <2> QED BY <1>8, <2>3, <2>4
<1>9. CASE op \in {"in", "not_in"}
  <2>1. v = t /\ o \in {"in", "not_in"}
    BY <1>9, Denegation
  <2>2. Term(a) \in t <=> a \in t
    BY <1>5, <1>6, <1>9
  <2>3. \A x, y : (Compare(x, "in", y) <=> x \in y) /\ (Compare(x, "not_in", y) <=> x \notin y)
    BY DEF Compare
  <2> HIDE DEF v
  <2>4. CASE op = "in"
    BY <2>1, <2>2, <2>3, <2>4, Denegation DEF v
  <2>5. CASE op = "not_in"
    BY <2>1, <2>2, <2>3, <2>5, Denegation DEF v
  <2> QED BY <1>9, <2>4, <2>5
<1> QED BY <1>2, <1>7, <1>8, <1>9

\* The shapes that yield caveats.
LEMMA YieldsShape ==
    ASSUME NEW s, Yields(s)
    PROVE  /\ s.fact \in REQUEST_FACTS /\ s.op # "joins" /\ s.form # "fact" /\ Recognized(s)
           /\ s.fact # "arg" /\ s.fact # "requested" => s.key = NoKey
           /\ \/ s.form = "check" /\ s.fact = "operation" /\ s.op = "in"
              \/ s.form = "check" /\ s.fact = "requested" /\ s.op = "le" /\ s.key \in Dimensions
                    /\ s.term \in Int
              \/ s.form = "check" /\ s.fact = "time" /\ s.op \in {"ge", "lt"} /\ s.term \in Int
              \/ s.form = "check" /\ s.fact = "tool" /\ s.op = "in"
              \/ s.form = "reject" /\ s.fact = "tool" /\ s.op = "in"
              \/ s.form = "check" /\ s.fact = "current_depth" /\ s.op = "le" /\ s.term \in Nat
              \/ s.form = "check" /\ s.fact = "request_intent" /\ s.op = "eq"
              \/ s.form = "reject" /\ s.fact = "arg" /\ s.op \in DOMAIN Negated
                    /\ (s.op \in {"le", "lt", "ge", "gt"} => s.term \in Int)
<1>1. RecognizedClause(s) /\ s.op # "joins" /\ s.form # "fact" /\ Recognized(s)
  BY DEF Yields, Recognized
<1>2. DOMAIN Negated = {"le", "lt", "ge", "gt", "eq", "ne", "in", "not_in"}
  BY DEF Negated
<1>3. Dates \subseteq Int
  BY CaveatConstants
<1> DEFINE shape == <<s.form, s.fact, s.op>>
<1>4. \/ /\ s.form = "check" /\ s.fact = "operation" /\ s.op = "in" /\ s.key = NoKey
      \/ s.form = "check" /\ s.fact = "tool" /\ s.op = "in" /\ s.key = NoKey
      \/ s.form = "reject" /\ s.fact = "tool" /\ s.op = "in" /\ s.key = NoKey
      \/ /\ s.form = "check" /\ s.fact = "requested" /\ s.op = "le" /\ s.key \in Dimensions
         /\ s.term \in Int
      \/ /\ s.form = "check" /\ s.fact = "time" /\ s.op \in {"ge", "lt"} /\ s.key = NoKey
         /\ s.term \in Dates
      \/ /\ s.form = "check" /\ s.fact = "current_depth" /\ s.op = "le" /\ s.key = NoKey
         /\ s.term \in Nat
      \/ s.form = "check" /\ s.fact = "request_intent" /\ s.op = "eq" /\ s.key = NoKey
      \/ /\ s.form = "reject" /\ s.fact = "arg"
         /\ s.op \in {"le", "lt", "ge", "gt", "eq", "ne", "in", "not_in"}
         /\ s.op \in {"le", "lt", "ge", "gt"} => s.term \in Int
  BY <1>1 DEF RecognizedClause
<1> QED BY <1>1, <1>2, <1>3, <1>4 DEF REQUEST_FACTS

\* A clause on an argument that is read back names a label and compares with texts only.
LEMMA ArgIsRead ==
    ASSUME NEW s, Yields(s), ValidCaveat(Build(s)), s.fact = "arg"
    PROVE  s.key \in Paths /\ (s.op \in {"in", "not_in"} => \A x \in s.term : x \notin Int)
<1> DEFINE o == Denegated(s.op)
           v == IF o \in {"in", "not_in"} \/ s.term \notin Int THEN s.term
                ELSE s.term \div BUDGET_SCALE
<1>1. Build(s) = ArgPredicate(s.key, o, v)
  BY DEF Build
<1>2. s.op \in {"in", "not_in"} => o \in {"in", "not_in"} /\ v = s.term
  BY Denegation
<1> HIDE DEF o, v
<1>3. s.key \in Paths /\ (o \in {"in", "not_in"} => \A x \in v : x \notin Int)
  BY <1>1 DEF ArgPredicate, ValidCaveat
<1> QED BY <1>2, <1>3

\* The request's facts have the fact a clause asks about.
LEMMA YieldsKey ==
    ASSUME NEW ctx, NEW s, Yields(s), ValidCaveat(Build(s))
    PROVE  s.key \in DOMAIN RequestFacts(ctx)[s.fact]
<1> DEFINE F == RequestFacts(ctx)
<1>1. /\ \A f \in {"operation", "current_depth", "request_intent", "time", "tool"} :
            DOMAIN F[f] = {NoKey}
      /\ DOMAIN F["requested"] = Dimensions /\ DOMAIN F["arg"] = Paths
  BY DEF RequestFacts
<1> HIDE DEF F
<1>2. s.fact = "arg" => s.key \in Paths
  BY ArgIsRead
<1>3. /\ s.fact \in {"operation", "current_depth", "request_intent", "time", "tool", "requested", "arg"}
      /\ s.fact # "arg" /\ s.fact # "requested" => s.key = NoKey
      /\ s.fact = "requested" => s.key \in Dimensions
  BY YieldsShape DEF REQUEST_FACTS
<1> QED BY <1>1, <1>2, <1>3 DEF F

\* A clause passes exactly when the caveat that is read off it is not denied.
LEMMA ClauseAgrees ==
    ASSUME NEW ctx, ValidContext(ctx), NEW s, Yields(s), WellFormed(s), Comparable(s, ctx)
    PROVE  /\ SeenAlone(s, RequestFacts(ctx)) <=> Satisfied(Build(s), ctx)
           /\ SeenAlone(s, RequestFacts(ctx)) <=> Evaluate(Build(s), ctx).outcome # "deny"
           /\ Build(s).kind # "requires_approval"
<1> DEFINE F == RequestFacts(ctx)
           hit == \E v \in F[s.fact][s.key] : Compare(v, s.op, s.term)
<1>1. /\ F["operation"][NoKey] = {ctx.operation}
      /\ F["current_depth"][NoKey] = {ctx.current_depth}
      /\ F["request_intent"][NoKey] = {ctx.request_intent}
      /\ F["time"][NoKey] = {datalog_date(ctx.now)}
      /\ F["tool"][NoKey] = {ctx.tool} \ {NoTool}
      /\ \A d \in Dimensions : F["requested"][d] = {scale(ctx.requested[d])}
      /\ \A p \in Paths : F["arg"][p] =
            IF p \in DOMAIN ctx.args THEN {Term(ctx.args[p])} ELSE {}
  BY DEF RequestFacts
<1>2. (s.form = "check" => (SeenAlone(s, F) <=> hit)) /\ (s.form = "reject" => (SeenAlone(s, F) <=> ~hit))
  BY DEF SeenAlone
<1> HIDE DEF F
<1>3. /\ s.fact \in {"operation", "time", "tool", "current_depth", "request_intent"} =>
            s.key = NoKey
      /\ s.fact = "requested" => s.key \in Dimensions /\ s.term \in Int
      /\ s.fact = "time" => s.term \in Int
      /\ s.fact = "arg" =>
            /\ s.key \in Paths /\ s.op \in DOMAIN Negated
            /\ s.op \in {"in", "not_in"} => \A x \in s.term : x \notin Int
            /\ s.op \notin {"in", "not_in"} /\ s.term \in Int => (s.term % BUDGET_SCALE) = 0
  BY YieldsShape, ArgIsRead DEF WellFormed, Whole
<1>4. \/ s.form = "check" /\ s.fact = "operation" /\ s.op = "in"
      \/ s.form = "check" /\ s.fact = "requested" /\ s.op = "le"
      \/ s.form = "check" /\ s.fact = "time" /\ s.op \in {"ge", "lt"}
      \/ s.form = "check" /\ s.fact = "tool" /\ s.op = "in"
      \/ s.form = "reject" /\ s.fact = "tool" /\ s.op = "in"
      \/ s.form = "check" /\ s.fact = "current_depth" /\ s.op = "le"
      \/ s.form = "check" /\ s.fact = "request_intent" /\ s.op = "eq"
      \/ s.form = "reject" /\ s.fact = "arg"
  BY YieldsShape
<1>5. Build(s).kind # "requires_approval"
  BY <1>4 DEF Build, ScopeSubset, BudgetCeiling, TimeWindow, ToolAllow, ToolDeny, ArgPredicate,
              DepthLimit, IntentBound
<1>6. (Evaluate(Build(s), ctx).outcome # "deny") <=> Satisfied(Build(s), ctx)
  BY <1>5, DenyIsUnsatisfied
<1> SUFFICES SeenAlone(s, F) <=> Satisfied(Build(s), ctx)
  BY <1>5, <1>6 DEF F
<1>7. ctx.requested \in [Dimensions -> Nat] /\ ctx.now \in Int /\ ctx.tool \in Tools \cup {NoTool}
  BY DEF ValidContext
<1>8. CASE s.form = "check" /\ s.fact = "operation" /\ s.op = "in"
  <2>1. Satisfied(Build(s), ctx) <=> ctx.operation \in s.term
    BY <1>8 DEF Build, ScopeSubset, Satisfied
  <2>2. hit <=> ctx.operation \in s.term
    BY <1>1, <1>3, <1>8, CompareIs
  <2> QED BY <1>2, <1>8, <2>1, <2>2
<1>9. CASE s.form = "check" /\ s.fact = "requested" /\ s.op = "le"
  <2> DEFINE r == ctx.requested[s.key]
  <2>1. Satisfied(Build(s), ctx) <=> r <= s.term \div BUDGET_SCALE
    BY <1>9 DEF Build, BudgetCeiling, Satisfied
  <2>2. hit <=> scale(r) <= s.term
    BY <1>1, <1>3, <1>9, CompareIs
  <2>3. r \in Int /\ s.term \in Int /\ BUDGET_SCALE \in Nat \ {0} /\ scale(r) = r * BUDGET_SCALE
    BY <1>3, <1>7, <1>9, CaveatConstants DEF scale
  <2> HIDE DEF r
  <2>4. scale(r) <= s.term <=> r <= s.term \div BUDGET_SCALE
    BY <2>3, WholeUnits
  <2> QED BY <1>2, <1>9, <2>1, <2>2, <2>4
<1>10. CASE s.form = "check" /\ s.fact = "time" /\ s.op \in {"ge", "lt"}
  <2>1. s.term \in Int /\ Second \in Nat \ {0} /\ ctx.now \in Int
        /\ datalog_date(ctx.now) = ctx.now \div Second
    BY <1>3, <1>7, <1>10, CaveatConstants DEF datalog_date
  <2>2. s.term * Second <= ctx.now <=> s.term <= datalog_date(ctx.now)
    BY <2>1, WholeUnits
  <2>3. datalog_date(ctx.now) \in Int /\ s.term * Second \in Int
    BY <2>1, DateOrder
  <2>4. s.term * Second # NoTime
    BY <2>3, CaveatConstants
  <2>5. CASE s.op = "ge"
    <3>1. Build(s) = TimeWindow(s.term * Second, NoTime)
      BY <1>10, <2>5 DEF Build
    <3>2. Satisfied(Build(s), ctx) <=> ctx.now >= s.term * Second
      BY <2>4, <3>1 DEF TimeWindow, Satisfied, InWindow
    <3>3. hit <=> datalog_date(ctx.now) >= s.term
      BY <1>1, <1>3, <1>10, <2>5, CompareIs
    <3> QED BY <1>2, <1>10, <2>1, <2>2, <2>3, <3>2, <3>3
  <2>6. CASE s.op = "lt"
    <3>1. Build(s) = TimeWindow(NoTime, s.term * Second)
      BY <1>10, <2>6 DEF Build
    <3>2. Satisfied(Build(s), ctx) <=> ctx.now < s.term * Second
      BY <2>4, <3>1 DEF TimeWindow, Satisfied, InWindow
    <3>3. hit <=> datalog_date(ctx.now) < s.term
      BY <1>1, <1>3, <1>10, <2>6, CompareIs
    <3> QED BY <1>2, <1>10, <2>1, <2>2, <2>3, <3>2, <3>3
  <2> QED BY <1>10, <2>5, <2>6
<1>11. CASE s.form = "check" /\ s.fact = "tool" /\ s.op = "in"
  <2>1. Satisfied(Build(s), ctx) <=> ctx.tool # NoTool /\ ctx.tool \in s.term
    BY <1>11 DEF Build, ToolAllow, Satisfied
  <2>2. hit <=> ctx.tool # NoTool /\ ctx.tool \in s.term
    BY <1>1, <1>3, <1>11, CompareIs
  <2> QED BY <1>2, <1>11, <2>1, <2>2
<1>12. CASE s.form = "reject" /\ s.fact = "tool" /\ s.op = "in"
  <2>1. Satisfied(Build(s), ctx) <=> ctx.tool = NoTool \/ ctx.tool \notin s.term
    BY <1>12 DEF Build, ToolDeny, Satisfied
  <2>2. hit <=> ctx.tool # NoTool /\ ctx.tool \in s.term
    BY <1>1, <1>3, <1>12, CompareIs
  <2> QED BY <1>2, <1>12, <2>1, <2>2
<1>13. CASE s.form = "check" /\ s.fact = "current_depth" /\ s.op = "le"
  <2>1. Satisfied(Build(s), ctx) <=> ctx.current_depth <= s.term
    BY <1>13 DEF Build, DepthLimit, Satisfied
  <2>2. hit <=> ctx.current_depth <= s.term
    BY <1>1, <1>3, <1>13, CompareIs
  <2> QED BY <1>2, <1>13, <2>1, <2>2
<1>14. CASE s.form = "check" /\ s.fact = "request_intent" /\ s.op = "eq"
  <2>1. Satisfied(Build(s), ctx) <=> ctx.request_intent = s.term
    BY <1>14 DEF Build, IntentBound, Satisfied
  <2>2. hit <=> ctx.request_intent = s.term
    BY <1>1, <1>3, <1>14, CompareIs
  <2> QED BY <1>2, <1>14, <2>1, <2>2
<1>15. CASE s.form = "reject" /\ s.fact = "arg"
  <2> DEFINE o == Denegated(s.op)
             v == IF o \in {"in", "not_in"} \/ s.term \notin Int THEN s.term
                  ELSE s.term \div BUDGET_SCALE
             a == ctx.args[s.key]
  <2>1. Build(s) = ArgPredicate(s.key, o, v)
    BY <1>15 DEF Build
  <2>2. Satisfied(Build(s), ctx) <=> (s.key \in DOMAIN ctx.args => Compare(a, o, v))
    <3> HIDE DEF o, v
    <3> QED BY <2>1 DEF ArgPredicate, Satisfied
  <2>3. hit <=> s.key \in DOMAIN ctx.args /\ Compare(Term(a), s.op, s.term)
    <3>1. F["arg"][s.key] = IF s.key \in DOMAIN ctx.args THEN {Term(a)} ELSE {}
      BY <1>1, <1>3, <1>15
    <3> HIDE DEF a
    <3> QED BY <1>15, <3>1
  <2>4. s.op \in {"le", "lt", "ge", "gt"} => s.term \in Int
    BY <1>15, YieldsShape
  <2>5. s.key \in DOMAIN ctx.args /\ s.op \in {"le", "lt", "ge", "gt"} => a \in Int
    BY <1>15, <2>4 DEF Comparable
  <2>6. s.key \in DOMAIN ctx.args => (Compare(Term(a), s.op, s.term) <=> ~ Compare(a, o, v))
    <3> HIDE DEF a
    <3> QED BY <1>3, <1>15, <2>4, <2>5, ArgAgrees
  <2> HIDE DEF a, o, v
  <2> QED BY <1>2, <1>15, <2>2, <2>3, <2>6
<1> QED BY <1>4, <1>8, <1>9, <1>10, <1>11, <1>12, <1>13, <1>14, <1>15

-----------------------------------------------------------------------------
(* What is read back off a block *)

\* A sequence of statements whose texts can be read and that the reader's limit does not cut.
Readable(st) == st \in Seq(ToSet(st)) /\ Len(st) <= MAX_STATEMENTS_PER_BLOCK /\ Legible(st)

\* Rendering moves the facts ahead and neither drops nor adds a statement.
LEMMA ShownWhole ==
    ASSUME NEW st, Readable(st)
    PROVE  LET w == Statements(st)
           IN  w \in Seq(ToSet(st)) /\ Holds(w, st) /\ Holds(st, w)
<1> DEFINE R == ToSet(st)
           facts == {s \in R : s.form = "fact"}
           a == Skipping(st, R \ facts)
           b == Skipping(st, facts)
           all == a \o b
           n == Len(st)
<1>1. st \in Seq(R) /\ n \in Nat /\ n <= MAX_STATEMENTS_PER_BLOCK /\ DOMAIN st = 1 .. n
      /\ MAX_STATEMENTS_PER_BLOCK \in Nat /\ \A i \in 1 .. n : st[i] \in R
  BY CaveatConstants DEF Readable
<1>2. Rendered(st) = all
  BY DEF Rendered
<1> HIDE DEF R
<1>3. \A x \in R : x \in R \ facts <=> x \notin facts
  OBVIOUS
<1> HIDE DEF facts
<1>4. Len(a) \in Nat /\ Len(b) \in Nat /\ Len(a) + Len(b) = n
  <2> DEFINE g == R \ facts
  <2>1. \A x \in R : x \in g <=> x \notin facts
    BY <1>3
  <2> HIDE DEF g
  <2>2. Splits(Skipping(st, g), Skipping(st, facts), n)
    BY <1>1, <2>1, SkippingSplits
  <2> QED BY <2>2 DEF Splits, g
<1>5. Keeps(a, R, st, R \ facts, n) /\ Keeps(b, R, st, facts, n)
  BY <1>1, SkippingKeeps
<1> HIDE DEF a, b
<1>6. a \in Seq(R) /\ b \in Seq(R)
  BY <1>5 DEF Keeps
<1>7. IsConcat(all, R, a, b)
  BY <1>6, Concat
<1> HIDE DEF all
<1>8. all \in Seq(R) /\ Len(all) = n /\ DOMAIN all = 1 .. n
  BY <1>4, <1>7 DEF IsConcat
<1>9. Statements(st) = all
  <2>3. Legible(st)
    BY DEF Readable
  <2>1. Statements(st) = SubSeq(all, 1, Len(all))
    BY <1>1, <1>2, <1>8, <2>3 DEF Statements
  <2> QED BY <1>8, <2>1
<1>10. ASSUME NEW j \in DOMAIN st PROVE \E i \in DOMAIN all : all[i] = st[j]
  <2>1. j \in 1 .. n /\ st[j] \in R
    BY <1>1
  <2>2. CASE st[j] \notin R \ facts
    <3>1. PICK i \in 1 .. Len(a) : a[i] = st[j]
      BY <1>5, <2>1, <2>2 DEF Keeps
    <3>2. i \in DOMAIN all /\ all[i] = a[i]
      BY <1>4, <1>7, <1>8 DEF IsConcat
    <3> QED BY <3>1, <3>2
  <2>3. CASE st[j] \notin facts
    <3>1. PICK i \in 1 .. Len(b) : b[i] = st[j]
      BY <1>5, <2>1, <2>3 DEF Keeps
    <3>2. Len(a) + i \in DOMAIN all /\ all[Len(a) + i] = b[i]
      BY <1>4, <1>7, <1>8 DEF IsConcat
    <3> QED BY <3>1, <3>2
  <2> QED BY <1>3, <2>1, <2>2, <2>3
<1>11. ASSUME NEW i \in DOMAIN all PROVE \E j \in DOMAIN st : st[j] = all[i]
  <2>1. CASE i <= Len(a)
    <3>1. i \in 1 .. Len(a) /\ all[i] = a[i]
      BY <1>4, <1>7, <1>8, <2>1 DEF IsConcat
    <3>2. PICK m \in 1 .. n : st[m] = a[i]
      BY <1>5, <3>1 DEF Keeps
    <3> QED BY <1>1, <3>1, <3>2
  <2>2. CASE i > Len(a)
    <3> DEFINE j == i - Len(a)
    <3>1. j \in 1 .. Len(b) /\ i = Len(a) + j
      BY <1>4, <1>8, <2>2
    <3> HIDE DEF j
    <3>2. all[i] = b[j]
      BY <1>7, <3>1 DEF IsConcat
    <3>3. PICK m \in 1 .. n : st[m] = b[j]
      BY <1>5, <3>1 DEF Keeps
    <3> QED BY <1>1, <3>2, <3>3
  <2> QED BY <1>4, <1>8, <2>1, <2>2
<1> QED BY <1>8, <1>9, <1>10, <1>11 DEF Holds, R

\* What a block is rendered and split into is a list.
ReadsLists == \A q : q \in Seq(ToSet(q)) => Resplit(q) \in Seq(ToSet(Resplit(q)))

LEMMA RenderedList ==
    ASSUME NEW st, st \in Seq(ToSet(st))
    PROVE  Rendered(st) \in Seq(ToSet(Rendered(st)))
<1> DEFINE R == ToSet(st)
           facts == {s \in R : s.form = "fact"}
           a == Skipping(st, R \ facts)
           b == Skipping(st, facts)
<1>1. Rendered(st) = a \o b
  BY DEF Rendered
<1> HIDE DEF R, facts
<1>2. st \in Seq(R)
  BY DEF R
<1>3. a \in Seq(R) /\ b \in Seq(R)
  BY <1>2, SkippingKeeps DEF Keeps
<1>4. a \o b \in Seq(R)
  <2> HIDE DEF a, b
  <2> QED BY <1>3
<1> QED BY <1>1, <1>4, SeqOfItself

\* So a block within the reader's limit, whatever its texts, is shown as a list of statements.
LEMMA ShownList ==
    ASSUME ReadsLists, NEW st, st \in Seq(ToSet(st)), Len(st) <= MAX_STATEMENTS_PER_BLOCK
    PROVE  Statements(st) \in Seq(ToSet(Statements(st)))
<1>1. CASE Legible(st)
  <2>1. Readable(st)
    BY <1>1 DEF Readable
  <2>2. Statements(st) \in Seq(ToSet(st))
    BY <2>1, ShownWhole
  <2> QED BY <2>2, SeqOfItself
<1>2. CASE ~Legible(st)
  <2> DEFINE all == Resplit(Rendered(st))
             m == IF Len(all) <= MAX_STATEMENTS_PER_BLOCK THEN Len(all)
                  ELSE MAX_STATEMENTS_PER_BLOCK
  <2>1. Statements(st) = SubSeq(all, 1, m)
    BY <1>2 DEF Statements
  <2>2. all \in Seq(ToSet(all)) /\ Len(all) \in Nat
    <3>1. Rendered(st) \in Seq(ToSet(Rendered(st)))
      BY RenderedList
    <3>2. all \in Seq(ToSet(all))
      BY <3>1 DEF ReadsLists
    <3> HIDE DEF all
    <3> QED BY <3>2
  <2>3. m \in Nat /\ m <= Len(all)
    <3> HIDE DEF all
    <3> QED BY <2>2, CaveatConstants
  <2> HIDE DEF all, m
  <2>4. SubSeq(all, 1, m) \in Seq(ToSet(all))
    BY <2>2, <2>3
  <2> QED BY <2>1, <2>4, SeqOfItself
<1> QED BY <1>1, <1>2

\* cs is read off the statements st: one caveat for each recognized clause, and at most
\* the approval caveat besides.
ReadOff(cs, st) ==
    /\ cs \in Seq(ToSet(cs)) /\ DOMAIN cs = 1 .. Len(cs)
    /\ \A k \in DOMAIN cs :
          \/ cs[k].kind = "requires_approval"
          \/ \E j \in DOMAIN st : Yields(st[j]) /\ cs[k] = Build(st[j])
    /\ \A j \in DOMAIN st : Yields(st[j]) => \E k \in DOMAIN cs : cs[k] = Build(st[j])

LEMMA BlockReads ==
    ASSUME NEW st, Statements(st) \in Seq(ToSet(Statements(st)))
    PROVE  LET w == Statements(st)
           IN  /\ ReadOff(ParseBlock(st).caveats, w)
               /\ ParseBlock(st).complete <=> \A j \in DOMAIN w : Recognized(w[j])
               /\ ParseBlock(st).raises <=>
                     \E j \in DOMAIN w : Yields(w[j]) /\ ~ValidCaveat(Build(w[j]))
<1> DEFINE w == Statements(st)
           R == ToSet(w)
           others == {s \in ToSet(w) : ~Yields(s)}
           clauses == Skipping(w, others)
           built == [i \in DOMAIN clauses |-> Build(clauses[i])]
           approval == {s.term : s \in {x \in ToSet(w) : /\ x.form = "fact" /\ Recognized(x)
                                                      /\ x.fact = "requires_approval"}}
           last == IF approval = {} THEN <<>> ELSE <<RequiresApproval(approval)>>
           cs == built \o last
           n == Len(w)
<1>1. /\ ParseBlock(st).caveats = cs
      /\ ParseBlock(st).complete <=> \A i \in DOMAIN w : Recognized(w[i])
      /\ ParseBlock(st).raises <=> \E i \in DOMAIN clauses : ~ValidCaveat(Build(clauses[i]))
  BY DEF ParseBlock
<1>2. w \in Seq(R)
  OBVIOUS
<1> HIDE DEF w, R
<1>3. w \in Seq(R) /\ n \in Nat /\ DOMAIN w = 1 .. n /\ \A i \in 1 .. n : w[i] \in ToSet(w)
  BY <1>2 DEF ToSet
<1>4. \A i \in 1 .. n : w[i] \notin others <=> Yields(w[i])
  BY <1>3
<1> HIDE DEF others
<1>5. Keeps(clauses, R, w, others, n)
  BY <1>3, SkippingKeeps
<1> HIDE DEF clauses
<1>6. clauses \in Seq(R) /\ Len(clauses) \in Nat /\ DOMAIN clauses = 1 .. Len(clauses)
  BY <1>5 DEF Keeps
<1> DEFINE S == ToSet(built) \cup {RequiresApproval(approval)}
<1>7. built \in Seq(S) /\ Len(built) = Len(clauses)
      /\ \A i \in 1 .. Len(clauses) : built[i] = Build(clauses[i])
  BY <1>6 DEF ToSet
<1> HIDE DEF built, approval
<1>8. last \in Seq(S) /\ Len(last) \in Nat
      /\ \A i \in 1 .. Len(last) : last[i] = RequiresApproval(approval)
  <2>1. <<>> \in Seq(S) /\ <<RequiresApproval(approval)>> \in Seq(S)
    OBVIOUS
  <2> HIDE DEF S
  <2>2. CASE approval = {}
    BY <2>1, <2>2
  <2>3. CASE approval # {}
    <3>1. last = <<RequiresApproval(approval)>>
      BY <2>3
    <3> DEFINE x == RequiresApproval(approval)
    <3>2. <<x>> \in Seq(S) /\ Len(<<x>>) = 1 /\ \A i \in 1 .. 1 : <<x>>[i] = x
      BY <2>1
    <3> QED BY <3>1, <3>2
  <2> QED BY <2>2, <2>3
<1> HIDE DEF last, S
<1>9. IsConcat(cs, S, built, last)
  BY <1>7, <1>8, Concat
<1> HIDE DEF cs
<1>10. cs \in Seq(S) /\ DOMAIN cs = 1 .. Len(cs) /\ Len(cs) = Len(clauses) + Len(last)
  BY <1>7, <1>9 DEF IsConcat
<1>11. cs \in Seq(ToSet(cs))
  BY <1>10, SeqOfItself
<1>12. ASSUME NEW k \in DOMAIN cs
       PROVE  \/ cs[k].kind = "requires_approval"
              \/ \E j \in DOMAIN w : Yields(w[j]) /\ cs[k] = Build(w[j])
  <2>1. CASE k <= Len(clauses)
    <3>1. k \in 1 .. Len(clauses) /\ cs[k] = Build(clauses[k])
      BY <1>6, <1>7, <1>9, <1>10, <2>1 DEF IsConcat
    <3>2. PICK m \in 1 .. n : w[m] = clauses[k] /\ w[m] \notin others
      BY <1>5, <3>1 DEF Keeps
    <3> QED BY <1>3, <1>4, <3>1, <3>2
  <2>2. CASE k > Len(clauses)
    <3> DEFINE i == k - Len(clauses)
    <3>1. i \in 1 .. Len(last) /\ k = Len(built) + i
      BY <1>6, <1>7, <1>8, <1>10, <2>2
    <3> HIDE DEF i
    <3>2. cs[k] = last[i]
      BY <1>9, <3>1 DEF IsConcat
    <3>3. cs[k] = RequiresApproval(approval)
      BY <1>8, <3>1, <3>2
    <3> QED BY <3>3 DEF RequiresApproval
  <2> QED BY <1>6, <1>8, <1>10, <2>1, <2>2
<1>13. ASSUME NEW j \in DOMAIN w, Yields(w[j])
       PROVE  \E m \in 1 .. Len(clauses) : clauses[m] = w[j]
  <2>1. j \in 1 .. n /\ w[j] \notin others
    BY <1>3, <1>4, <1>13
  <2> QED BY <1>5, <2>1 DEF Keeps
<1>17. ASSUME NEW j \in DOMAIN w, Yields(w[j])
       PROVE  \E k \in DOMAIN cs : cs[k] = Build(w[j])
  <2>3. PICK m \in 1 .. Len(clauses) : clauses[m] = w[j]
    BY <1>13, <1>17
  <2>4. m \in DOMAIN cs /\ cs[m] = built[m]
    BY <1>6, <1>7, <1>8, <1>9, <1>10 DEF IsConcat
  <2> QED BY <1>7, <2>3, <2>4
<1>14. ReadOff(cs, w)
  BY <1>10, <1>11, <1>12, <1>17 DEF ReadOff
<1>15. (\E i \in DOMAIN clauses : ~ValidCaveat(Build(clauses[i]))) <=>
           \E j \in DOMAIN w : Yields(w[j]) /\ ~ValidCaveat(Build(w[j]))
  <2>1. ASSUME NEW i \in 1 .. Len(clauses)
        PROVE  \E j \in DOMAIN w : Yields(w[j]) /\ w[j] = clauses[i]
    <3>1. PICK m \in 1 .. n : w[m] = clauses[i] /\ w[m] \notin others
      BY <1>5 DEF Keeps
    <3> QED BY <1>3, <1>4, <3>1
  <2> QED BY <1>6, <1>13, <2>1
<1> QED BY <1>1, <1>14, <1>15 DEF w

\* Of a block that is read whole, the statements shown are its statements.
LEMMA WholeBlockReads ==
    ASSUME NEW st, Readable(st)
    PROVE  /\ ReadOff(ParseBlock(st).caveats, st)
           /\ ParseBlock(st).complete <=> \A j \in DOMAIN st : Recognized(st[j])
           /\ ParseBlock(st).raises <=>
                 \E j \in DOMAIN st : Yields(st[j]) /\ ~ValidCaveat(Build(st[j]))
<1> DEFINE w == Statements(st)
           cs == ParseBlock(st).caveats
<1>1. w \in Seq(ToSet(st)) /\ Holds(w, st) /\ Holds(st, w)
  BY ShownWhole
<1>2. w \in Seq(ToSet(w))
  BY <1>1, SeqOfItself
<1>3. /\ ReadOff(cs, w)
      /\ ParseBlock(st).complete <=> \A j \in DOMAIN w : Recognized(w[j])
      /\ ParseBlock(st).raises <=> \E j \in DOMAIN w : Yields(w[j]) /\ ~ValidCaveat(Build(w[j]))
  BY <1>2, BlockReads
<1> HIDE DEF w, cs
<1>4. ReadOff(cs, st)
  BY <1>1, <1>3 DEF ReadOff, Holds
<1>5. (\A i \in DOMAIN w : Recognized(w[i])) <=> \A j \in DOMAIN st : Recognized(st[j])
  BY <1>1 DEF Holds
<1>6. (\E j \in DOMAIN w : Yields(w[j]) /\ ~ValidCaveat(Build(w[j]))) <=>
          \E j \in DOMAIN st : Yields(st[j]) /\ ~ValidCaveat(Build(st[j]))
  BY <1>1 DEF Holds
<1> QED BY <1>3, <1>4, <1>5, <1>6 DEF cs

\* The attenuation blocks of a chain are read whole.
ReadableChain(t) ==
    /\ t.blocks \in Seq(ToSet(t.blocks)) /\ Len(t.blocks) >= 1
    /\ \A b \in 2 .. Len(t.blocks) : Readable(t.blocks[b])

\* cs is read off the statements W of the attenuation blocks, n of them with the first.
ReadOffBlocks(cs, W, n) ==
    /\ cs \in Seq(ToSet(cs)) /\ DOMAIN cs = 1 .. Len(cs)
    /\ \A k \in DOMAIN cs :
          \/ cs[k].kind = "requires_approval"
          \/ \E b \in 2 .. n : \E j \in DOMAIN W[b] : Yields(W[b][j]) /\ cs[k] = Build(W[b][j])
    /\ \A b \in 2 .. n : \A j \in DOMAIN W[b] :
          Yields(W[b][j]) => \E k \in DOMAIN cs : cs[k] = Build(W[b][j])

LEMMA BlocksRead ==
    ASSUME NEW t, t.blocks \in Seq(ToSet(t.blocks)), Len(t.blocks) >= 1, NEW W,
           \A b \in 2 .. Len(t.blocks) : ReadOff(ParseBlock(t.blocks[b]).caveats, W[b])
    PROVE  ReadOffBlocks(TokenCaveats(t), W, Len(t.blocks))
<1> DEFINE B == t.blocks
           n == Len(B) - 1
           read(b) == ParseBlock(B[b + 1]).caveats
           ss == [b \in 1 .. n |-> read(b)]
           S == UNION {ToSet(read(b)) : b \in 1 .. n}
           cs == TokenCaveats(t)
<1>1. B \in Seq(ToSet(B)) /\ Len(B) \in Nat /\ Len(B) >= 1 /\ n \in Nat
      /\ \A b \in 1 .. n : b + 1 \in 2 .. Len(B)
  OBVIOUS
<1>11. \A b \in 2 .. Len(B) : \E a \in 1 .. n : a + 1 = b
  <2> SUFFICES ASSUME NEW b \in 2 .. Len(B) PROVE \E a \in 1 .. n : a + 1 = b
    OBVIOUS
  <2>1. b - 1 \in 1 .. n /\ (b - 1) + 1 = b
    BY <1>1
  <2> QED BY <2>1
<1>2. cs = FlattenSeq(ss)
  BY DEF TokenCaveats, Depth
<1>3. \A b \in 1 .. n : ReadOff(read(b), W[b + 1])
  BY <1>1
<1> HIDE DEF B, n, read
<1>4. ASSUME NEW b \in 1 .. n PROVE read(b) \in Seq(S)
  <2>1. ToSet(read(b)) \subseteq S
    OBVIOUS
  <2>2. read(b) \in Seq(ToSet(read(b)))
    BY <1>3 DEF ReadOff
  <2> HIDE DEF S
  <2> QED BY <2>1, <2>2
<1> HIDE DEF S
<1>5. ss \in Seq(Seq(S)) /\ Len(ss) = n /\ \A b \in 1 .. n : ss[b] = read(b)
  BY <1>1, <1>4
<1> HIDE DEF ss, cs
<1>6. IsFlat(cs, S, ss, n)
  BY <1>2, <1>5, Flattened
<1>7. cs \in Seq(S) /\ DOMAIN cs = 1 .. Len(cs)
  BY <1>6 DEF IsFlat
<1>8. cs \in Seq(ToSet(cs))
  BY <1>7, SeqOfItself
<1>9. ASSUME NEW k \in DOMAIN cs
      PROVE  \/ cs[k].kind = "requires_approval"
             \/ \E b \in 2 .. Len(B) : \E j \in DOMAIN W[b] :
                   Yields(W[b][j]) /\ cs[k] = Build(W[b][j])
  <2>1. PICK b \in 1 .. n : \E i \in 1 .. Len(ss[b]) : cs[k] = ss[b][i]
    BY <1>6, <1>7 DEF IsFlat
  <2>3. PICK i \in 1 .. Len(ss[b]) : cs[k] = ss[b][i]
    BY <2>1
  <2>2. i \in DOMAIN read(b) /\ cs[k] = read(b)[i] /\ b + 1 \in 2 .. Len(B)
    BY <1>1, <1>3, <1>5, <2>3 DEF ReadOff
  <2> QED BY <1>3, <2>2 DEF ReadOff
<1>10. ASSUME NEW b \in 2 .. Len(B), NEW j \in DOMAIN W[b], Yields(W[b][j])
       PROVE  \E k \in DOMAIN cs : cs[k] = Build(W[b][j])
  <2>1. PICK a \in 1 .. n : a + 1 = b
    BY <1>11, Zenon
  <2>2. PICK i \in DOMAIN read(a) : read(a)[i] = Build(W[b][j])
    BY <1>3, <1>10, <2>1 DEF ReadOff
  <2>3. i \in 1 .. Len(ss[a]) /\ ss[a][i] = Build(W[b][j])
    BY <1>3, <1>5, <2>1, <2>2 DEF ReadOff
  <2>4. PICK k \in 1 .. Len(cs) : cs[k] = ss[a][i]
    BY <1>6, <2>1, <2>3 DEF IsFlat
  <2> QED BY <1>7, <2>3, <2>4, Zenon
<1> QED BY <1>7, <1>8, <1>9, <1>10 DEF ReadOffBlocks, B, cs

LEMMA ChainReads ==
    ASSUME NEW t, ReadableChain(t)
    PROVE  ReadOffBlocks(TokenCaveats(t), t.blocks, Len(t.blocks))
<1>1. \A b \in 2 .. Len(t.blocks) : ReadOff(ParseBlock(t.blocks[b]).caveats, t.blocks[b])
  BY WholeBlockReads DEF ReadableChain
<1> QED BY <1>1, BlocksRead DEF ReadableChain

\* Whatever the chain, what was read without raising are caveats of a clause each that
\* their constructors accept, and approvals.
ReadOffSome(cs) ==
    /\ cs \in Seq(ToSet(cs)) /\ DOMAIN cs = 1 .. Len(cs)
    /\ \A k \in DOMAIN cs :
          \/ cs[k].kind = "requires_approval"
          \/ \E s : Yields(s) /\ cs[k] = Build(s) /\ ValidCaveat(cs[k])

\* Every block is shown as a sequence of statements.
ShownChain(t) ==
    /\ t.blocks \in Seq(ToSet(t.blocks)) /\ Len(t.blocks) >= 1
    /\ \A b \in 2 .. Len(t.blocks) :
          Statements(t.blocks[b]) \in Seq(ToSet(Statements(t.blocks[b])))

LEMMA ChainReadsSome ==
    ASSUME NEW t, ShownChain(t), ~Raises(t)
    PROVE  ReadOffSome(TokenCaveats(t))
<1> DEFINE n == Len(t.blocks)
           W == [b \in 2 .. n |-> Statements(t.blocks[b])]
           cs == TokenCaveats(t)
<1>1. DOMAIN t.blocks = 1 .. n /\ n \in Nat /\ \A b \in 2 .. n : b \in DOMAIN t.blocks
  BY DEF ShownChain
<1>2. ASSUME NEW b \in 2 .. n
      PROVE  /\ ReadOff(ParseBlock(t.blocks[b]).caveats, W[b])
             /\ \A j \in DOMAIN W[b] : Yields(W[b][j]) => ValidCaveat(Build(W[b][j]))
  <2>1. W[b] = Statements(t.blocks[b]) /\ W[b] \in Seq(ToSet(W[b]))
    BY DEF ShownChain
  <2> HIDE DEF W
  <2>2. ~ParseBlock(t.blocks[b]).raises
    BY <1>1 DEF Raises
  <2> QED BY <2>1, <2>2, BlockReads
<1> HIDE DEF W, cs
<1>3. ReadOffBlocks(cs, W, n)
  BY <1>2, BlocksRead DEF ShownChain, cs
<1>4. ASSUME NEW k \in DOMAIN cs, cs[k].kind # "requires_approval"
      PROVE  \E s : Yields(s) /\ cs[k] = Build(s) /\ ValidCaveat(cs[k])
  <2>1. PICK b \in 2 .. n : \E j \in DOMAIN W[b] : Yields(W[b][j]) /\ cs[k] = Build(W[b][j])
    BY <1>3, <1>4 DEF ReadOffBlocks
  <2>2. PICK j \in DOMAIN W[b] : Yields(W[b][j]) /\ cs[k] = Build(W[b][j])
    BY <2>1
  <2>3. ValidCaveat(cs[k])
    BY <1>2, <2>2
  <2> QED BY <2>2, <2>3
<1> QED BY <1>3, <1>4 DEF ReadOffBlocks, ReadOffSome, cs

\* The statements of the attenuation blocks are as the reader's patterns take them, and
\* order numbers only, for this request.
ComparableChain(t, ctx) ==
    \A b \in 2 .. Len(t.blocks) : \A j \in DOMAIN t.blocks[b] :
        WellFormed(t.blocks[b][j]) /\ Comparable(t.blocks[b][j], ctx)

\* All that the holders added passes, and nothing is denied.
AddedPass(t, ctx) ==
    \A b \in 2 .. Len(t.blocks) : BlockPasses(t.blocks[b], RequestFacts(ctx), GrantFacts(t.mandate))
NotDenied(cs, ctx) == \A k \in DOMAIN cs : Evaluate(cs[k], ctx).outcome # "deny"

\* No holder's block states a request; every statement of one was recognized.
SilentChain(t) == \A b \in 2 .. Len(t.blocks) : Silent(t.blocks[b])
RecognizedChain(t) ==
    \A b \in 2 .. Len(t.blocks) : \A j \in DOMAIN t.blocks[b] : Recognized(t.blocks[b][j])

LEMMA RecognizedIsSilent ==
    ASSUME NEW t, RecognizedChain(t)
    PROVE  SilentChain(t)
<1>1. ASSUME NEW s, Recognized(s), s.form = "fact" PROVE s.fact \notin REQUEST_FACTS
  <2>1. RecognizedFact(s)
    BY <1>1 DEF Recognized
  <2> QED BY <2>1 DEF RecognizedFact, _AUTHORITY_FACTS, REQUEST_FACTS
<1> QED BY <1>1 DEF RecognizedChain, SilentChain, Silent

\* A membership check of the grant passes in any block for what was granted.
LEMMA JoinsPass ==
    ASSUME NEW s, Recognized(s), s.form # "fact", s.op = "joins", NEW own, NEW ctx, NEW m,
           ctx.operation \in m.scopes, ctx.request_intent = m.intent_hash
    PROVE  Passes(s, own, RequestFacts(ctx), GrantFacts(m))
<1> DEFINE F == RequestFacts(ctx)
           G == GrantFacts(m)
           V(fact) == Visible(own, F, G, fact, NoKey)
<1>1. RecognizedClause(s)
  BY DEF Recognized
<1>2. /\ s.form = "check" /\ s.key = NoKey
      /\ \/ s.fact = "operation" /\ s.term = "scope"
         \/ s.fact = "request_intent" /\ s.term = "intent"
  BY <1>1 DEF RecognizedClause
<1>3. /\ Held(F, "operation", NoKey) = {ctx.operation}
      /\ Held(F, "request_intent", NoKey) = {ctx.request_intent}
  BY DEF Held, RequestFacts
<1>4. Held(G, "scope", NoKey) = m.scopes /\ Held(G, "intent", NoKey) = {m.intent_hash}
  BY DEF Held, GrantFacts
<1> HIDE DEF F, G
<1>5. \A fact : Held(F, fact, NoKey) \subseteq V(fact) /\ Held(G, fact, NoKey) \subseteq V(fact)
  BY DEF Visible
<1>6. \E v \in Visible(own, F, G, s.fact, s.key) : v \in Visible(own, F, G, s.term, NoKey)
  <2> HIDE DEF V
  <2>1. \E v \in V(s.fact) : v \in V(s.term)
    BY <1>2, <1>3, <1>4, <1>5
  <2> QED BY <1>2, <2>1 DEF V
<1> QED BY <1>2, <1>6 DEF Passes, F, G

\* What biscuit lets pass, Python does not deny; and the other way round for a chain
\* whose statements were all recognized.
LEMMA ChainVerdicts ==
    ASSUME NEW t, ReadableChain(t), SilentChain(t),
           NEW ctx, ValidContext(ctx), ComparableChain(t, ctx)
    PROVE  /\ AddedPass(t, ctx) => NotDenied(TokenCaveats(t), ctx)
           /\ /\ NotDenied(TokenCaveats(t), ctx) /\ RecognizedChain(t)
              /\ ctx.operation \in t.mandate.scopes /\ ctx.request_intent = t.mandate.intent_hash
              => AddedPass(t, ctx)
<1> DEFINE B == t.blocks
           cs == TokenCaveats(t)
           F == RequestFacts(ctx)
           G == GrantFacts(t.mandate)
<1>1. ReadOffBlocks(cs, B, Len(B))
  BY ChainReads
<1>2. ASSUME NEW b \in 2 .. Len(B), NEW j \in DOMAIN B[b], Yields(B[b][j])
      PROVE  Passes(B[b][j], B[b], F, G) <=> Evaluate(Build(B[b][j]), ctx).outcome # "deny"
  <2> DEFINE s == B[b][j]
  <2>1. WellFormed(s) /\ Comparable(s, ctx) /\ Yields(s)
    BY <1>2 DEF ComparableChain
  <2>2. Silent(B[b])
    BY DEF SilentChain
  <2> HIDE DEF s, B
  <2>3. SeenAlone(s, F) <=> Evaluate(Build(s), ctx).outcome # "deny"
    BY <2>1, ClauseAgrees, Zenon
  <2>4. s.fact \in REQUEST_FACTS /\ s.op # "joins"
    BY <2>1, YieldsShape
  <2>5. s.key \in DOMAIN F[s.fact]
    BY <2>1, YieldsKey DEF WellFormed
  <2>6. Passes(s, B[b], F, G) <=> SeenAlone(s, F)
    BY <2>2, <2>4, <2>5, PassesAlone
  <2> QED BY <2>3, <2>6 DEF s
<1> HIDE DEF cs, F, G
<1>3. ASSUME AddedPass(t, ctx), NEW k \in DOMAIN cs PROVE Evaluate(cs[k], ctx).outcome # "deny"
  <2>1. CASE cs[k].kind = "requires_approval"
    BY <2>1, DenyIsUnsatisfied
  <2>2. CASE cs[k].kind # "requires_approval"
    <3>3. PICK b \in 2 .. Len(B) :
             \E j \in DOMAIN B[b] : Yields(B[b][j]) /\ cs[k] = Build(B[b][j])
      BY <1>1, <2>2 DEF ReadOffBlocks
    <3>1. PICK j \in DOMAIN B[b] : Yields(B[b][j]) /\ cs[k] = Build(B[b][j])
      BY <3>3
    <3>2. Passes(B[b][j], B[b], F, G)
      BY <1>3 DEF AddedPass, BlockPasses, F, G
    <3> QED BY <1>2, <3>1, <3>2
  <2> QED BY <2>1, <2>2
<1>4. ASSUME NotDenied(cs, ctx), NEW b \in 2 .. Len(B), NEW j \in DOMAIN B[b], Recognized(B[b][j]),
             ctx.operation \in t.mandate.scopes, ctx.request_intent = t.mandate.intent_hash
      PROVE  Passes(B[b][j], B[b], F, G)
  <2>1. CASE B[b][j].form = "fact"
    BY <2>1 DEF Passes
  <2>2. CASE B[b][j].form # "fact" /\ B[b][j].op = "joins"
    BY <1>4, <2>2, JoinsPass DEF F, G
  <2>3. CASE Yields(B[b][j])
    <3>2. PICK k \in DOMAIN cs : cs[k] = Build(B[b][j])
      BY <1>1, <2>3 DEF ReadOffBlocks
    <3> QED BY <1>2, <1>4, <2>3, <3>2 DEF NotDenied
  <2> QED BY <1>4, <2>1, <2>2, <2>3 DEF Yields
<1>5. ASSUME NotDenied(cs, ctx), RecognizedChain(t),
             ctx.operation \in t.mandate.scopes, ctx.request_intent = t.mandate.intent_hash
      PROVE  AddedPass(t, ctx)
  BY <1>4, <1>5 DEF RecognizedChain, AddedPass, BlockPasses, F, G
<1> QED BY <1>3, <1>5 DEF NotDenied, cs

-----------------------------------------------------------------------------
(* The blocks of attenuate(), read back *)

\* An argument that the caveat orders is a number.
OrdersNumbers(c, ctx) ==
    /\ c.kind = "arg_predicate" /\ c.op \in {"le", "lt", "ge", "gt"} /\ c.value \in Int
    /\ c.path \in DOMAIN ctx.args
    => ctx.args[c.path] \in Int

\* The statement s is no fact about requests, and comes from a caveat of cs if it is one on
\* an argument or an intent.
WrittenFor(s, cs) ==
    /\ s.form = "fact" => s.fact \notin REQUEST_FACTS
    /\ s.fact = "arg" => \E k \in DOMAIN cs : cs[k].kind = "arg_predicate"
    /\ s.fact = "request_intent" =>
          \E k \in DOMAIN cs : cs[k].kind = "intent_bound" /\ s.term = cs[k].intent_hash

\* Whole units have no fraction.
LEMMA ScaledIsWhole ==
    ASSUME NEW v \in Int
    PROVE  /\ scale(v) \in Int /\ (scale(v) % BUDGET_SCALE) = 0
           /\ scale(v) \div BUDGET_SCALE = v
<1> DEFINE K == BUDGET_SCALE
           t == v * K
           q == t \div K
           r == t % K
<1>1. K \in Nat \ {0} /\ t \in Int
  BY CaveatConstants
<1>2. scale(v) = t
  BY DEF scale
<1>3. q \in Int /\ t = q * K + r /\ r \in 0 .. K - 1
  <2> HIDE DEF t, K
  <2> QED BY <1>1
<1> HIDE DEF q, r, K
<1>4. v > q => v * K >= q * K + K
  BY <1>1, <1>3
<1>5. v < q => v * K < q * K
  BY <1>1, <1>3
<1>6. v * K \in Int /\ q * K \in Int /\ r \in Int /\ 0 <= r /\ r < K /\ v * K = q * K + r
  BY <1>1, <1>3
<1>7. v = q
  BY <1>1, <1>3, <1>4, <1>5, <1>6
<1>8. r = 0
  BY <1>6, <1>7
<1> QED BY <1>1, <1>2, <1>7, <1>8 DEF q, r, K

\* What a caveat is compiled to.
LEMMA CompiledReads ==
    ASSUME NEW c, ValidCaveat(c), NEW s, CompiledFrom(s, c)
    PROVE  /\ Whole(s)
           /\ s.form = "fact" => s.fact \notin REQUEST_FACTS
           /\ s.fact = "arg" => c.kind = "arg_predicate"
           /\ s.fact = "request_intent" => c.kind = "intent_bound" /\ s.term = c.intent_hash
           /\ \A ctx : OrdersNumbers(c, ctx) => Comparable(s, ctx)
<1>1. c.kind = "arg_predicate" => c.op \in DOMAIN Negated
  BY DEF ValidCaveat
<1>2. CASE c.kind # "arg_predicate"
  <2>1. s.fact # "arg" /\ (s.form = "fact" => s.fact \notin REQUEST_FACTS)
    BY <1>2 DEF CompiledFrom, Clause, REQUEST_FACTS
  <2>2. s.fact = "request_intent" => c.kind = "intent_bound" /\ s.term = c.intent_hash
    BY <1>2 DEF CompiledFrom, Clause
  <2>4. \A ctx : Comparable(s, ctx)
    BY <2>1 DEF Comparable
  <2> QED BY <2>1, <2>2, <2>4 DEF Whole
<1>3. CASE c.kind = "arg_predicate"
  <2> DEFINE v == IF c.op \in {"in", "not_in"} THEN c.value ELSE Term(c.value)
  <2>1. /\ s.form = "reject" /\ s.fact = "arg" /\ s.key = c.path /\ s.op = Negated[c.op]
        /\ s.term = v
    BY <1>3 DEF CompiledFrom, Clause
  <2>2. c.op \in {"le", "lt", "ge", "gt", "eq", "ne", "in", "not_in"}
    BY <1>1, <1>3 DEF Negated
  <2>3. /\ c.op = "le" => s.op = "gt"
        /\ c.op = "lt" => s.op = "ge"
        /\ c.op = "ge" => s.op = "lt"
        /\ c.op = "gt" => s.op = "le"
        /\ c.op = "eq" => s.op = "ne"
        /\ c.op = "ne" => s.op = "eq"
        /\ c.op = "in" => s.op = "not_in"
        /\ c.op = "not_in" => s.op = "in"
    BY <2>1 DEF Negated
  <2>4. s.op \in DOMAIN Negated /\ (s.op \in {"in", "not_in"} <=> c.op \in {"in", "not_in"})
        /\ (s.op \in {"le", "lt", "ge", "gt"} => c.op \in {"le", "lt", "ge", "gt"})
    <3>1. DOMAIN Negated = {"le", "lt", "ge", "gt", "eq", "ne", "in", "not_in"}
      BY DEF Negated
    <3> QED BY <2>2, <2>3, <3>1
  <2>5. c.op \notin {"in", "not_in"} =>
           (s.term \in Int => c.value \in Int /\ (s.term % BUDGET_SCALE) = 0)
    <3> SUFFICES ASSUME c.op \notin {"in", "not_in"}, s.term \in Int
                 PROVE  c.value \in Int /\ (s.term % BUDGET_SCALE) = 0
      OBVIOUS
    <3>1. s.term = Term(c.value)
      BY <2>1
    <3>2. c.value \in Int
      BY <3>1 DEF Term
    <3>3. s.term = scale(c.value)
      BY <3>1, <3>2 DEF Term
    <3> QED BY <3>2, <3>3, ScaledIsWhole
  <2>6. Whole(s)
    BY <2>4, <2>5 DEF Whole
  <2>7. ASSUME NEW ctx, OrdersNumbers(c, ctx) PROVE Comparable(s, ctx)
    BY <1>3, <2>1, <2>4, <2>5, <2>7 DEF OrdersNumbers, Comparable
  <2> QED BY <1>3, <2>1, <2>6, <2>7
<1> QED BY <1>2, <1>3

\* A block of attenuate() holds the agent's name and what its caveats are compiled to.
LEMMA BlockIs ==
    ASSUME NEW agent, NEW cs, ValidCaveats(cs)
    PROVE  LET B == BlockStatements(agent, cs)
           IN  /\ B \in Seq(ToSet(B))
               /\ \A j \in DOMAIN B :
                     \/ B[j] = Clause("fact", "agent", NoKey, "eq", agent)
                     \/ \E k \in DOMAIN cs : CompiledFrom(B[j], cs[k])
<1> DEFINE f == Clause("fact", "agent", NoKey, "eq", agent)
           ss == [i \in DOMAIN cs |-> ToDatalog(cs[i])]
           n == Len(cs)
           B == BlockStatements(agent, cs)
           Ok(x) == x = f \/ \E k \in DOMAIN cs : CompiledFrom(x, cs[k])
           S == {f} \cup UNION {ToSet(ToDatalog(cs[k])) : k \in DOMAIN cs}
           G == {x \in S : Ok(x)}
<1>1. n \in Nat /\ DOMAIN cs = 1 .. n /\ \A k \in 1 .. n : ValidCaveat(cs[k])
  BY DEF ValidCaveats
<1>2. f \in G
  OBVIOUS
<1>3. ASSUME NEW k \in 1 .. n PROVE ToDatalog(cs[k]) \in Seq(G)
  <2> DEFINE t == ToDatalog(cs[k])
  <2>1. t \in Seq(ToSet(t)) /\ \A j \in DOMAIN t : CompiledFrom(t[j], cs[k])
    BY <1>1, CompiledIs
  <2>2. ToSet(t) \subseteq S
    BY <1>1
  <2> HIDE DEF t, S
  <2>3. Len(t) \in Nat /\ DOMAIN t = 1 .. Len(t) /\ \A j \in 1 .. Len(t) : t[j] \in ToSet(t)
    BY <2>1
  <2>4. \A j \in 1 .. Len(t) : t[j] \in G
    BY <1>1, <2>1, <2>2, <2>3
  <2> HIDE DEF G
  <2>5. t \in Seq(G)
    BY <2>1, <2>3, <2>4
  <2> QED BY <2>5 DEF t
<1>4. B = <<f>> \o FlattenSeq(ss)
  BY DEF BlockStatements
<1>5. DOMAIN ss = 1 .. n /\ \A k \in 1 .. n : ss[k] = ToDatalog(cs[k])
  BY <1>1
<1>6. \A x \in G : Ok(x)
  OBVIOUS
<1> HIDE DEF G, S, B, f, Ok
<1>7. ss \in Seq(Seq(G)) /\ Len(ss) = n
  BY <1>1, <1>3
<1> HIDE DEF ss
<1> DEFINE q == FlattenSeq(ss)
           p == <<f>>
<1>8. q \in Seq(G)
  <2>1. IsFlat(q, G, ss, n)
    BY <1>7, Flattened
  <2> QED BY <2>1 DEF IsFlat
<1>9. p \in Seq(G) /\ B = p \o q
  BY <1>2, <1>4
<1> HIDE DEF q, p
<1>10. B \in Seq(G)
  BY <1>8, <1>9
<1>11. B \in Seq(ToSet(B)) /\ \A j \in DOMAIN B : B[j] \in G
  BY <1>10, SeqOfItself
<1> QED BY <1>6, <1>11 DEF B, Ok, f

\* What a holder's caveats are written as: in whole units, ordering numbers where they do,
\* and silent on requests.
LEMMA BlockWritten ==
    ASSUME NEW agent, NEW cs, ValidCaveats(cs)
    PROVE  LET B == BlockStatements(agent, cs)
           IN  /\ B \in Seq(ToSet(B))
               /\ \A j \in DOMAIN B : Whole(B[j]) /\ WrittenFor(B[j], cs)
               /\ Silent(B)
               /\ \A ctx : (\A k \in DOMAIN cs : OrdersNumbers(cs[k], ctx)) =>
                     \A j \in DOMAIN B : Comparable(B[j], ctx)
<1> DEFINE f == Clause("fact", "agent", NoKey, "eq", agent)
           B == BlockStatements(agent, cs)
<1>1. /\ B \in Seq(ToSet(B))
      /\ \A j \in DOMAIN B : B[j] = f \/ \E k \in DOMAIN cs : CompiledFrom(B[j], cs[k])
  BY BlockIs
<1>2. \A k \in DOMAIN cs : ValidCaveat(cs[k])
  BY DEF ValidCaveats
<1> HIDE DEF B
<1>3. ASSUME NEW j \in DOMAIN B
      PROVE  /\ Whole(B[j]) /\ WrittenFor(B[j], cs)
             /\ \A ctx : (\A k \in DOMAIN cs : OrdersNumbers(cs[k], ctx)) => Comparable(B[j], ctx)
  <2> DEFINE s == B[j]
  <2>1. CASE s = f
    <3>1. f.form = "fact" /\ f.fact = "agent"
      BY DEF Clause
    <3> QED BY <2>1, <3>1 DEF Whole, WrittenFor, Comparable, REQUEST_FACTS
  <2>2. CASE s # f
    <3>1. PICK k \in DOMAIN cs : CompiledFrom(s, cs[k])
      BY <1>1, <2>2
    <3> HIDE DEF s
    <3> DEFINE c == cs[k]
    <3>2. ValidCaveat(c) /\ CompiledFrom(s, c)
      BY <1>2, <3>1
    <3> HIDE DEF c
    <3>3. /\ Whole(s)
          /\ s.form = "fact" => s.fact \notin REQUEST_FACTS
          /\ s.fact = "arg" => c.kind = "arg_predicate"
          /\ s.fact = "request_intent" => c.kind = "intent_bound" /\ s.term = c.intent_hash
          /\ \A ctx : OrdersNumbers(c, ctx) => Comparable(s, ctx)
      BY <3>2, CompiledReads
    <3> QED BY <3>3, Zenon DEF WrittenFor, c, s
  <2> QED BY <2>1, <2>2
<1>4. Silent(B)
  BY <1>3 DEF Silent, WrittenFor
<1> QED BY <1>1, <1>3, <1>4 DEF B

-----------------------------------------------------------------------------
(* The fold of a chain's caveats *)

LEMMA UnscaledAndDates ==
    ASSUME NEW v \in Int
    PROVE  scale(v) \div BUDGET_SCALE = v /\ datalog_date(v) \in Int /\ datalog_date(v) * Second \in Int
<1> DEFINE q == scale(v) \div BUDGET_SCALE
<1>1. scale(v) \in Int /\ (scale(v) % BUDGET_SCALE) = 0 /\ BUDGET_SCALE \in Nat \ {0}
  BY ScaledIsWhole, CaveatConstants
<1>2. q \in Int /\ scale(v) = q * BUDGET_SCALE
  BY <1>1, WholeUnits
<1>3. v * BUDGET_SCALE = q * BUDGET_SCALE
  BY <1>2 DEF scale
<1> HIDE DEF q
<1>4. v = q
  BY <1>1, <1>2, <1>3, ScaleAgrees
<1>5. datalog_date(v) \in Int /\ datalog_date(v) * Second \in Int
  <2>1. datalog_date(v) \in Int
    BY DateOrder
  <2>2. datalog_date(v) * Second \in Int
    BY DateOfDate
  <2> QED BY <2>1, <2>2
<1> QED BY <1>4, <1>5 DEF q

\* The authority block passes exactly when the grant, read as caveats, is satisfied.
LEMMA GrantAgrees ==
    ASSUME NEW t, ChainOK(t), NEW ctx, ValidContext(ctx)
    PROVE  LET A == AuthorityStatements(t.mandate)
               G == GrantCaveats(Grant(t))
           IN  BlockPasses(A, RequestFacts(ctx), GrantFacts(t.mandate)) <=>
               \A k \in DOMAIN G : Satisfied(G[k], ctx)
<1> DEFINE m == t.mandate
           A == AuthorityStatements(m)
           G == GrantCaveats(Grant(t))
           n == Len(DimensionOrder)
           F == RequestFacts(ctx)
           from == datalog_date(m.not_before)
           to == datalog_date(m.expires_at)
<1>1. /\ n \in Nat /\ DOMAIN A = 1 .. n + 5
      /\ A[2] = Clause("check", "current_depth", NoKey, "le", m.max_depth)
      /\ \A i \in 1 .. n : A[3 + i] = Clause("check", "requested", DimensionOrder[i],
                                   "le", scale(m.budget[DimensionOrder[i]]))
      /\ A[n + 4] = Clause("check", "time", NoKey, "ge", from)
      /\ A[n + 5] = Clause("check", "time", NoKey, "lt", to)
  BY AuthorityBlock
<1>2. /\ DOMAIN G = 1 .. n + 4
      /\ G[1] = ScopeSubset(m.scopes) /\ G[2] = DepthLimit(m.max_depth)
      /\ G[3] = IntentBound(m.intent_hash)
      /\ G[4] = TimeWindow(from * Second, to * Second)
      /\ \A i \in 1 .. n :
            /\ DimensionOrder[i] \in Dimensions
            /\ G[4 + i] = BudgetCeiling(DimensionOrder[i], m.budget[DimensionOrder[i]])
  BY GrantList
<1>3. MandateOK(m)
  BY DEF ChainOK
<1>4. /\ m.max_depth \in Int /\ from \in Int /\ to \in Int
      /\ from * Second \in Int /\ to * Second \in Int
      /\ \A d \in Dimensions : m.budget[d] \in Int
  BY <1>3, UnscaledAndDates DEF MandateOK, Budget
<1> HIDE DEF A, G, F, m, n, from, to
<1>5. ctx.requested \in [Dimensions -> Nat] /\ ctx.now \in Int
  BY DEF ValidContext
<1>6. /\ Satisfied(G[1], ctx) <=> ctx.operation \in m.scopes
      /\ Satisfied(G[3], ctx) <=> ctx.request_intent = m.intent_hash
  BY <1>2 DEF ScopeSubset, IntentBound, Satisfied
<1>7. SeenAlone(A[2], F) <=> Satisfied(G[2], ctx)
  <2>1. SeenAlone(A[2], F) <=> ctx.current_depth <= m.max_depth
    BY <1>1, CheckPasses DEF F
  <2> QED BY <1>2, <2>1 DEF DepthLimit, Satisfied
<1>9. ASSUME NEW i \in 1 .. n PROVE SeenAlone(A[3 + i], F) <=> Satisfied(G[4 + i], ctx)
  <2> DEFINE d == DimensionOrder[i]
             v == m.budget[d]
             r == ctx.requested[d]
  <2>1. /\ A[3 + i] = Clause("check", "requested", d, "le", scale(v)) /\ d \in Dimensions
        /\ G[4 + i] = BudgetCeiling(d, v) /\ v \in Int /\ r \in Int
    BY <1>1, <1>2, <1>4, <1>5
  <2> HIDE DEF d, v
  <2>2. SeenAlone(A[3 + i], F) <=> scale(r) <= scale(v)
    <3>1. ASSUME NEW w PROVE SeenAlone(Clause("check", "requested", d, "le", w), F) <=> scale(r) <= w
      BY <2>1, CheckPasses DEF F
    <3> HIDE DEF r
    <3> QED BY <2>1, <3>1
  <2>3. Satisfied(G[4 + i], ctx) <=> r <= v
    BY <2>1 DEF BudgetCeiling, Satisfied
  <2> HIDE DEF r
  <2>4. scale(r) <= scale(v) <=> r <= v
    BY <2>1, ScaleAgrees, CaveatConstants DEF scale
  <2> QED BY <2>2, <2>3, <2>4
<1>10. SeenAlone(A[n + 4], F) /\ SeenAlone(A[n + 5], F) <=> Satisfied(G[4], ctx)
  <2> DEFINE x == datalog_date(ctx.now)
  <2>1. /\ SeenAlone(A[n + 4], F) <=> x >= from
        /\ SeenAlone(A[n + 5], F) <=> x < to
    BY <1>1, CheckPasses DEF F
  <2>2. /\ from * Second <= ctx.now <=> from <= x
        /\ to * Second <= ctx.now <=> to <= x
    BY <1>4, <1>5, WholeUnits, CaveatConstants DEF datalog_date
  <2>3. x \in Int
    BY <1>5, DateOrder
  <2>4. from * Second # NoTime /\ to * Second # NoTime
    BY <1>4, CaveatConstants
  <2>5. Satisfied(G[4], ctx) <=> ctx.now >= from * Second /\ ctx.now < to * Second
    BY <1>2, <2>4 DEF TimeWindow, Satisfied, InWindow
  <2> HIDE DEF x
  <2> QED BY <1>4, <1>5, <2>1, <2>2, <2>3, <2>5
<1>13. BlockPasses(A, F, GrantFacts(m)) <=>
           /\ ctx.operation \in m.scopes /\ ctx.request_intent = m.intent_hash
           /\ \A i \in DOMAIN A \ {1, 3} : SeenAlone(A[i], F)
  BY AuthorityPasses DEF A, F
<1>11. ASSUME BlockPasses(A, F, GrantFacts(m)), NEW k \in DOMAIN G PROVE Satisfied(G[k], ctx)
  <2>1. LET D == DOMAIN A \ {1, 3}
        IN  2 \in D /\ n + 4 \in D /\ n + 5 \in D /\ \A i \in 1 .. n : 3 + i \in D
    BY <1>1
  <2>2. k \in {1, 2, 3, 4} \/ \E i \in 1 .. n : k = 4 + i
    <3>1. k \in 1 .. n + 4
      BY <1>2
    <3>2. k > 4 => k - 4 \in 1 .. n /\ k = 4 + (k - 4)
      BY <1>1, <3>1
    <3> QED BY <1>1, <3>1, <3>2
  <2> QED BY <1>6, <1>7, <1>9, <1>10, <1>11, <1>13, <2>1, <2>2
<1>12. ASSUME \A k \in DOMAIN G : Satisfied(G[k], ctx) PROVE BlockPasses(A, F, GrantFacts(m))
  <2>1. /\ 1 \in DOMAIN G /\ 2 \in DOMAIN G /\ 3 \in DOMAIN G /\ 4 \in DOMAIN G
        /\ \A j \in 1 .. n : 4 + j \in DOMAIN G
    BY <1>1, <1>2
  <2>3. ASSUME NEW i \in DOMAIN A \ {1, 3} PROVE SeenAlone(A[i], F)
    <3>3. i \in {2, n + 4, n + 5} \/ \E j \in 1 .. n : i = 3 + j
      <4>1. i \in 1 .. n + 5 /\ i # 1 /\ i # 3
        BY <1>1
      <4>2. i > 3 /\ i <= n + 3 => i - 3 \in 1 .. n /\ i = 3 + (i - 3)
        BY <1>1, <4>1
      <4> QED BY <1>1, <4>1, <4>2
    <3> QED BY <1>7, <1>9, <1>10, <1>12, <2>1, <3>3
  <2> QED BY <1>6, <1>12, <1>13, <2>1, <2>3
<1> QED BY <1>11, <1>12 DEF A, G, F, m

\* The bounds of a caveat are numbers.
Numeric(c) ==
    /\ c.kind = "budget_ceiling" => c.value \in Int
    /\ c.kind = "depth_limit" => c.max_depth \in Int
    /\ c.kind = "time_window" =>
          /\ c.not_before # NoTime => c.not_before \in Int
          /\ c.not_after # NoTime => c.not_after \in Int

\* The grant's bounds are numbers.
LEMMA GrantNumeric ==
    ASSUME NEW t, ChainOK(t), NEW i \in DOMAIN GrantCaveats(Grant(t))
    PROVE  Numeric(GrantCaveats(Grant(t))[i])
<1> DEFINE m == t.mandate
           n == Len(DimensionOrder)
           G == GrantCaveats(Grant(t))
           from == datalog_date(m.not_before) * Second
           to == datalog_date(m.expires_at) * Second
<1>1. MandateOK(m)
  BY DEF ChainOK
<1>2. /\ n \in Nat /\ DOMAIN G = 1 .. n + 4
      /\ G[1] = ScopeSubset(m.scopes) /\ G[2] = DepthLimit(m.max_depth)
      /\ G[3] = IntentBound(m.intent_hash) /\ G[4] = TimeWindow(from, to)
      /\ \A k \in 1 .. n :
            \E d \in Dimensions : G[4 + k] = BudgetCeiling(d, m.budget[d])
  BY GrantList
<1> HIDE DEF G, n
<1>3. from \in Int /\ to \in Int
  BY <1>1, DateOfDate DEF MandateOK
<1> HIDE DEF from, to
<1>4. Numeric(G[1]) /\ Numeric(G[2]) /\ Numeric(G[3]) /\ Numeric(G[4])
  BY <1>1, <1>2, <1>3 DEF Numeric, MandateOK, ScopeSubset, DepthLimit, IntentBound, TimeWindow
<1>5. ASSUME NEW k \in 1 .. n PROVE Numeric(G[4 + k])
  <2>1. PICK d \in Dimensions : G[4 + k] = BudgetCeiling(d, m.budget[d])
    BY <1>2
  <2>2. m.budget[d] \in Int
    BY <1>1 DEF MandateOK, Budget
  <2> HIDE DEF m
  <2> QED BY <2>1, <2>2 DEF Numeric, BudgetCeiling
<1>6. i \in {1, 2, 3, 4} \/ \E k \in 1 .. n : i = 4 + k
  <2>1. i \in 1 .. n + 4
    BY <1>2 DEF G
  <2>2. i \notin {1, 2, 3, 4} => i - 4 \in 1 .. n /\ i = 4 + (i - 4)
    BY <1>2, <2>1
  <2> QED BY <2>2
<1> QED BY <1>4, <1>5, <1>6 DEF G

\* The kinds that effective_bound() folds into limits.
Folded == {"scope_subset", "budget_ceiling", "time_window", "tool_allow", "tool_deny",
           "depth_limit", "intent_bound"}

\* A caveat with bounds of the right sorts.
Foldable(c) ==
    /\ Numeric(c)
    /\ c.kind = "budget_ceiling" => c.dimension \in Dimensions
    /\ c.kind = "tool_deny" => NoTool \notin c.tools

\* A list that effective_bound() takes: it holds a depth limit and an intent.
FoldList(cs, n) ==
    /\ n \in Nat /\ DOMAIN cs = 1 .. n /\ \A i \in 1 .. n : Foldable(cs[i])
    /\ \E i \in 1 .. n : cs[i].kind = "depth_limit"
    /\ \E i \in 1 .. n : cs[i].kind = "intent_bound"

\* The least and the greatest of the values at some positions.
IsExtrema(K, v, lo, hi) ==
    /\ lo \in Int /\ hi \in Int /\ (\E i \in K : v[i] = lo) /\ (\E i \in K : v[i] = hi)
    /\ \A i \in K : lo <= v[i] /\ v[i] <= hi

LEMMA ExtremaBound ==
    ASSUME NEW n \in Nat, NEW K \in SUBSET (1 .. n), K # {}, NEW v \in [K -> Int]
    PROVE  IsExtrema(K, v, MinOf({v[j] : j \in K}), MaxOf({v[j] : j \in K}))
<1> DEFINE lo == MinOf({v[j] : j \in K})
           hi == MaxOf({v[j] : j \in K})
<1>1. /\ \E i \in K : lo = v[i]
      /\ \E i \in K : hi = v[i]
      /\ \A i \in K : lo <= v[i] /\ v[i] <= hi
  BY ExtremaOf
<1> HIDE DEF lo, hi
<1>2. lo \in Int /\ hi \in Int
  BY <1>1
<1>3. IsExtrema(K, v, lo, hi)
  BY <1>1, <1>2 DEF IsExtrema
<1> QED BY <1>3 DEF lo, hi

\* A request is permitted by the fold of a list of caveats exactly when it satisfies
\* those of them that fold, if their intents are one.
LEMMA FoldExact ==
    ASSUME NEW n, NEW cs, FoldList(cs, n), NEW ctx, ValidContext(ctx), ctx.current_depth \in Int,
           ctx.operation \in Scopes
    PROVE  /\ (\A i \in 1 .. n : cs[i].kind \in Folded => Satisfied(cs[i], ctx)) =>
                 Permits(EffectiveBound(cs), ctx)
           /\ /\ Permits(EffectiveBound(cs), ctx)
              /\ \A i, j \in 1 .. n : cs[i].kind = "intent_bound" /\ cs[j].kind = "intent_bound" =>
                    cs[i].intent_hash = cs[j].intent_hash
              => \A i \in 1 .. n : cs[i].kind \in Folded => Satisfied(cs[i], ctx)
<1> DEFINE B == EffectiveBound(cs)
           K(k) == Kind(cs, k)
           ceilings(d) == {i \in K("budget_ceiling") : cs[i].dimension = d}
           lower == {i \in K("time_window") : cs[i].not_before # NoTime}
           upper == {i \in K("time_window") : cs[i].not_after # NoTime}
           Sat(k) == \A i \in K(k) : Satisfied(cs[i], ctx)
<1>1. n \in Nat /\ \A k : K(k) = {i \in 1 .. n : cs[i].kind = k} /\ K(k) \in SUBSET (1 .. n)
  BY DEF Kind, FoldList
<1>2. K("depth_limit") # {} /\ K("intent_bound") # {}
  BY DEF Kind, FoldList
<1>3. /\ B.scopes = {s \in Scopes : \A i \in K("scope_subset") : s \in cs[i].scopes}
      /\ B.budget = [d \in {d \in Dimensions : ceilings(d) # {}} |->
                        MinOf({cs[i].value : i \in ceilings(d)})]
      /\ B.not_before = IF lower = {} THEN NoTime ELSE MaxOf({cs[i].not_before : i \in lower})
      /\ B.not_after = IF upper = {} THEN NoTime ELSE MinOf({cs[i].not_after : i \in upper})
      /\ B.tools_allowed =
            IF K("tool_allow") = {} THEN Tools \cup {NoTool}
            ELSE {t \in Tools : \A i \in K("tool_allow") : t \in cs[i].tools}
      /\ B.tools_denied = Denied(cs)
      /\ B.max_depth = MinOf({cs[i].max_depth : i \in K("depth_limit")})
      /\ B.intent_hash = cs[MaxOf(K("intent_bound"))].intent_hash
  BY DEF EffectiveBound
<1>4. Denied(cs) = UNION {cs[i].tools : i \in K("tool_deny")}
  BY DEF Denied
<1>5. /\ ctx.requested \in [Dimensions -> Nat] /\ ctx.now \in Int
      /\ ctx.tool \in Tools \cup {NoTool} /\ NoTool \notin Tools
  BY CaveatConstants DEF ValidContext
<1> HIDE DEF B, K
<1>6. \A k : \A i \in K(k) : i \in 1 .. n /\ cs[i].kind = k /\ Foldable(cs[i])
  BY <1>1 DEF FoldList
<1>7. (ctx.operation \in B.scopes) <=> Sat("scope_subset")
  <2>1. \A i \in K("scope_subset") : Satisfied(cs[i], ctx) <=> ctx.operation \in cs[i].scopes
    BY <1>6 DEF Satisfied
  <2> QED BY <1>3, <2>1
<1>8. (\A d \in DOMAIN B.budget : ctx.requested[d] <= B.budget[d]) <=> Sat("budget_ceiling")
  <2>1. \A i \in K("budget_ceiling") :
           /\ cs[i].dimension \in Dimensions /\ cs[i].value \in Int
           /\ Satisfied(cs[i], ctx) <=> ctx.requested[cs[i].dimension] <= cs[i].value
    BY <1>6 DEF Foldable, Numeric, Satisfied
  <2>2. ASSUME NEW d \in Dimensions, ceilings(d) # {}
        PROVE  (ctx.requested[d] <= B.budget[d]) <=>
               \A i \in ceilings(d) : ctx.requested[d] <= cs[i].value
    <3> DEFINE C == ceilings(d)
               v == [i \in C |-> cs[i].value]
    <3>1. B.budget[d] = MinOf({cs[i].value : i \in C})
      BY <1>3, <2>2
    <3>2. C \in SUBSET (1 .. n) /\ C # {} /\ \A i \in C : cs[i].value \in Int
      BY <1>1, <2>1, <2>2
    <3> HIDE DEF C
    <3>3. v \in [C -> Int] /\ {v[i] : i \in C} = {cs[i].value : i \in C}
          /\ \A i \in C : v[i] = cs[i].value
      BY <3>2
    <3> HIDE DEF v
    <3> DEFINE lo == MinOf({v[j] : j \in C})
               hi == MaxOf({v[j] : j \in C})
    <3>4. IsExtrema(C, v, lo, hi)
      BY <1>1, <3>2, <3>3, ExtremaBound
    <3>5. B.budget[d] = lo
      BY <3>1, <3>3
    <3> HIDE DEF lo, hi
    <3>6. ctx.requested[d] \in Int
      BY <1>5
    <3>7. (ctx.requested[d] <= lo) <=> \A i \in C : ctx.requested[d] <= v[i]
      BY <3>2, <3>3, <3>4, <3>6 DEF IsExtrema
    <3> QED BY <3>3, <3>5, <3>7 DEF C
  <2>3. DOMAIN B.budget = {d \in Dimensions : ceilings(d) # {}}
    BY <1>3
  <2>4. \A i \in K("budget_ceiling") : i \in ceilings(cs[i].dimension)
    OBVIOUS
  <2>5. \A d \in Dimensions : \A i \in ceilings(d) : i \in K("budget_ceiling") /\ cs[i].dimension = d
    OBVIOUS
  <2> HIDE DEF ceilings
  <2> QED BY <2>1, <2>2, <2>3, <2>4, <2>5
<1>9. InWindow(ctx.now, B.not_before, B.not_after) <=> Sat("time_window")
  <2>1. \A i \in K("time_window") :
           /\ cs[i].not_before # NoTime => cs[i].not_before \in Int
           /\ cs[i].not_after # NoTime => cs[i].not_after \in Int
           /\ Satisfied(cs[i], ctx) <=> /\ cs[i].not_before = NoTime \/ ctx.now >= cs[i].not_before
                                        /\ cs[i].not_after = NoTime \/ ctx.now < cs[i].not_after
    BY <1>6 DEF Foldable, Numeric, Satisfied, InWindow
  <2>2. (B.not_before = NoTime \/ ctx.now >= B.not_before) <=>
           \A i \in lower : ctx.now >= cs[i].not_before
    <3>1. CASE lower = {}
      BY <1>3, <3>1
    <3>2. CASE lower # {}
      <4> DEFINE v == [i \in lower |-> cs[i].not_before]
      <4>1. lower \in SUBSET (1 .. n) /\ \A i \in lower : cs[i].not_before \in Int
        BY <1>1, <2>1
      <4>2. B.not_before = MaxOf({cs[i].not_before : i \in lower})
        BY <1>3, <3>2
      <4> HIDE DEF lower
      <4>3. v \in [lower -> Int] /\ {v[i] : i \in lower} = {cs[i].not_before : i \in lower}
            /\ \A i \in lower : v[i] = cs[i].not_before
        BY <4>1
      <4> HIDE DEF v
      <4> DEFINE lo == MinOf({v[j] : j \in lower})
                 hi == MaxOf({v[j] : j \in lower})
      <4>4. IsExtrema(lower, v, lo, hi)
        BY <1>1, <3>2, <4>1, <4>3, ExtremaBound
      <4>5. B.not_before = hi
        BY <4>2, <4>3
      <4> HIDE DEF lo, hi
      <4>6. hi # NoTime
        BY <4>4, CaveatConstants DEF IsExtrema
      <4>7. ctx.now >= hi <=> \A i \in lower : ctx.now >= v[i]
        BY <1>5, <4>3, <4>4 DEF IsExtrema
      <4> QED BY <4>3, <4>5, <4>6, <4>7
    <3> QED BY <3>1, <3>2
  <2>3. (B.not_after = NoTime \/ ctx.now < B.not_after) <=>
           \A i \in upper : ctx.now < cs[i].not_after
    <3>1. CASE upper = {}
      BY <1>3, <3>1
    <3>2. CASE upper # {}
      <4> DEFINE v == [i \in upper |-> cs[i].not_after]
      <4>1. upper \in SUBSET (1 .. n) /\ \A i \in upper : cs[i].not_after \in Int
        BY <1>1, <2>1
      <4>2. B.not_after = MinOf({cs[i].not_after : i \in upper})
        BY <1>3, <3>2
      <4> HIDE DEF upper
      <4>3. v \in [upper -> Int] /\ {v[i] : i \in upper} = {cs[i].not_after : i \in upper}
            /\ \A i \in upper : v[i] = cs[i].not_after
        BY <4>1
      <4> HIDE DEF v
      <4> DEFINE lo == MinOf({v[j] : j \in upper})
                 hi == MaxOf({v[j] : j \in upper})
      <4>4. IsExtrema(upper, v, lo, hi)
        BY <1>1, <3>2, <4>1, <4>3, ExtremaBound
      <4>5. B.not_after = lo
        BY <4>2, <4>3
      <4> HIDE DEF lo, hi
      <4>6. lo # NoTime
        BY <4>4, CaveatConstants DEF IsExtrema
      <4>7. ctx.now < lo <=> \A i \in upper : ctx.now < v[i]
        BY <1>5, <4>3, <4>4 DEF IsExtrema
      <4> QED BY <4>3, <4>5, <4>6, <4>7
    <3> QED BY <3>1, <3>2
  <2>4. InWindow(ctx.now, B.not_before, B.not_after) <=>
           /\ \A i \in lower : ctx.now >= cs[i].not_before
           /\ \A i \in upper : ctx.now < cs[i].not_after
    BY <2>2, <2>3 DEF InWindow
  <2> QED BY <2>1, <2>4
<1>10. ctx.tool \in B.tools_allowed <=> Sat("tool_allow")
  <2>1. \A i \in K("tool_allow") : Satisfied(cs[i], ctx) <=> ctx.tool # NoTool /\ ctx.tool \in cs[i].tools
    BY <1>6 DEF Satisfied
  <2> QED BY <1>3, <1>5, <2>1
<1>11. ctx.tool \notin B.tools_denied <=> Sat("tool_deny")
  <2>1. \A i \in K("tool_deny") : NoTool \notin cs[i].tools
           /\ (Satisfied(cs[i], ctx) <=> ctx.tool = NoTool \/ ctx.tool \notin cs[i].tools)
    BY <1>6 DEF Foldable, Satisfied
  <2> QED BY <1>3, <1>4, <2>1
<1>12. ctx.current_depth <= B.max_depth <=> Sat("depth_limit")
  <2> DEFINE C == K("depth_limit")
             v == [i \in C |-> cs[i].max_depth]
  <2>1. C \in SUBSET (1 .. n) /\ C # {} /\ B.max_depth = MinOf({cs[i].max_depth : i \in C})
        /\ \A i \in C : cs[i].max_depth \in Int
             /\ (Satisfied(cs[i], ctx) <=> ctx.current_depth <= cs[i].max_depth)
    BY <1>1, <1>2, <1>3, <1>6 DEF Foldable, Numeric, Satisfied
  <2> HIDE DEF C
  <2>2. v \in [C -> Int] /\ {v[i] : i \in C} = {cs[i].max_depth : i \in C}
        /\ \A i \in C : v[i] = cs[i].max_depth
    BY <2>1
  <2> HIDE DEF v
  <2> DEFINE lo == MinOf({v[j] : j \in C})
             hi == MaxOf({v[j] : j \in C})
  <2>3. IsExtrema(C, v, lo, hi)
    BY <1>1, <2>1, <2>2, ExtremaBound
  <2>4. B.max_depth = lo
    BY <2>1, <2>2
  <2> HIDE DEF lo, hi
  <2>5. ctx.current_depth <= lo <=> \A i \in C : ctx.current_depth <= v[i]
    BY <2>1, <2>2, <2>3 DEF IsExtrema
  <2> QED BY <2>1, <2>2, <2>4, <2>5 DEF C
<1>13. /\ Sat("intent_bound") => ctx.request_intent = B.intent_hash
       /\ /\ ctx.request_intent = B.intent_hash
          /\ \A i, j \in 1 .. n : cs[i].kind = "intent_bound" /\ cs[j].kind = "intent_bound" =>
                    cs[i].intent_hash = cs[j].intent_hash
          => Sat("intent_bound")
  <2>2. \A i \in K("intent_bound") : Satisfied(cs[i], ctx) <=> ctx.request_intent = cs[i].intent_hash
    <3> SUFFICES ASSUME NEW i \in K("intent_bound")
                 PROVE  Satisfied(cs[i], ctx) <=> ctx.request_intent = cs[i].intent_hash
      OBVIOUS
    <3>1. cs[i].kind = "intent_bound"
      BY <1>6
    <3> HIDE DEF lower, upper, ceilings, Sat
    <3> QED BY <3>1 DEF Satisfied
  <2> DEFINE C == K("intent_bound")
             v == [i \in C |-> 0]
  <2>1. C \in SUBSET (1 .. n) /\ C # {} /\ v \in [C -> Int]
    BY <1>1, <1>2
  <2>3. B.intent_hash = cs[MaxOf(C)].intent_hash
    BY <1>3
  <2> HIDE DEF C, v
  <2>4. MaxOf(C) \in C
    BY <1>1, <2>1, ExtremaOf
  <2>5. \A i \in C : i \in 1 .. n /\ cs[i].kind = "intent_bound"
    BY <1>6 DEF C
  <2> QED BY <2>2, <2>3, <2>4, <2>5 DEF C
<1>14. (\A i \in 1 .. n : cs[i].kind \in Folded => Satisfied(cs[i], ctx)) <=>
          /\ Sat("scope_subset") /\ Sat("budget_ceiling") /\ Sat("time_window") /\ Sat("tool_allow")
          /\ Sat("tool_deny") /\ Sat("depth_limit") /\ Sat("intent_bound")
  BY <1>1 DEF Folded
<1>15. Permits(B, ctx) <=>
          /\ ctx.operation \in B.scopes
          /\ \A d \in DOMAIN B.budget : ctx.requested[d] <= B.budget[d]
          /\ InWindow(ctx.now, B.not_before, B.not_after)
          /\ ctx.tool \in B.tools_allowed /\ ctx.tool \notin B.tools_denied
          /\ ctx.current_depth <= B.max_depth
          /\ ctx.request_intent = B.intent_hash
  BY Zenon DEF Permits
<1> HIDE DEF Sat
<1> QED BY <1>7, <1>8, <1>9, <1>10, <1>11, <1>12, <1>13, <1>14, <1>15 DEF B

\* What its constructor accepts folds.
LEMMA ValidFolds ==
    ASSUME NEW c, ValidCaveat(c)
    PROVE  Foldable(c)
<1>1. CASE c.kind = "budget_ceiling"
  BY <1>1 DEF ValidCaveat, Foldable, Numeric
<1>2. CASE c.kind = "depth_limit"
  BY <1>2 DEF ValidCaveat, Foldable, Numeric
<1>3. CASE c.kind = "time_window"
  BY <1>3 DEF ValidCaveat, Foldable, Numeric
<1>4. CASE c.kind = "tool_deny"
  BY <1>4, CaveatConstants DEF ValidCaveat, Foldable, Numeric
<1>5. CASE c.kind \notin {"budget_ceiling", "depth_limit", "time_window", "tool_deny"}
  BY <1>5 DEF Foldable, Numeric
<1> QED BY <1>1, <1>2, <1>3, <1>4, <1>5

\* What is read off a clause is folded, but for what it says of an argument.
LEMMA BuildFolds ==
    ASSUME NEW s, Yields(s)
    PROVE  /\ s.fact # "arg" <=> Build(s).kind \in Folded
           /\ Build(s).kind # "requires_approval"
           /\ Build(s).kind = "intent_bound" =>
                 s.fact = "request_intent" /\ Build(s).intent_hash = s.term
<1>1. s.fact \in {"operation", "requested", "time", "tool", "arg", "current_depth", "request_intent"}
  BY YieldsShape DEF REQUEST_FACTS
<1>2. CASE s.fact = "operation"
  BY <1>2 DEF Build, ScopeSubset, Folded
<1>3. CASE s.fact = "requested"
  BY <1>3 DEF Build, BudgetCeiling, Folded
<1>4. CASE s.fact = "time"
  BY <1>4 DEF Build, TimeWindow, Folded
<1>5. CASE s.fact = "tool"
  BY <1>5 DEF Build, ToolAllow, ToolDeny, Folded
<1>6. CASE s.fact = "arg"
  <2>1. Build(s).kind = "arg_predicate"
    BY <1>6 DEF Build, ArgPredicate
  <2> QED BY <1>6, <2>1 DEF Folded
<1>7. CASE s.fact = "current_depth"
  BY <1>7 DEF Build, DepthLimit, Folded
<1>8. CASE s.fact = "request_intent"
  BY <1>8 DEF Build, IntentBound, Folded
<1> QED BY <1>1, <1>2, <1>3, <1>4, <1>5, <1>6, <1>7, <1>8

\* The list that effective_authority() folds: the grant, and what is read off the blocks.
IsChainList(cs, n, t) ==
    LET G == GrantCaveats(Grant(t))
        T == TokenCaveats(t)
    IN  /\ FoldList(cs, n)
        /\ \A i \in 1 .. n : (\E k \in DOMAIN G : cs[i] = G[k]) \/ (\E k \in DOMAIN T : cs[i] = T[k])
        /\ \A k \in DOMAIN T : \E i \in 1 .. n : cs[i] = T[k]
        /\ \A k \in DOMAIN G : \E i \in 1 .. n : cs[i] = G[k]

LEMMA GrantFolds ==
    ASSUME NEW t, ChainOK(t), NEW k \in DOMAIN GrantCaveats(Grant(t))
    PROVE  LET c == GrantCaveats(Grant(t))[k]
           IN  /\ Foldable(c) /\ c.kind \in Folded
               /\ c.kind = "intent_bound" => c.intent_hash = t.mandate.intent_hash
<1> DEFINE G == GrantCaveats(Grant(t))
           m == t.mandate
           n == Len(DimensionOrder)
<1>1. Numeric(G[k])
  BY GrantNumeric
<1>3. /\ n \in Nat /\ DOMAIN G = 1 .. n + 4
      /\ G[1] = ScopeSubset(m.scopes) /\ G[2] = DepthLimit(m.max_depth)
      /\ G[3] = IntentBound(m.intent_hash)
      /\ G[4] = TimeWindow(datalog_date(m.not_before) * Second, datalog_date(m.expires_at) * Second)
      /\ \A i \in 1 .. n :
            /\ DimensionOrder[i] \in Dimensions
            /\ G[4 + i] = BudgetCeiling(DimensionOrder[i], m.budget[DimensionOrder[i]])
  BY GrantList
<1>4. k \in DOMAIN G
  OBVIOUS
<1> HIDE DEF G, n
<1>5. CASE k \in {1, 2, 3, 4}
  <2>1. /\ G[k].kind \in {"scope_subset", "depth_limit", "intent_bound", "time_window"}
        /\ G[k].kind = "intent_bound" => G[k].intent_hash = m.intent_hash
    BY <1>3, <1>5 DEF ScopeSubset, DepthLimit, IntentBound, TimeWindow
  <2>2. Foldable(G[k]) /\ G[k].kind \in Folded
    BY <1>1, <2>1 DEF Foldable, Folded
  <2> QED BY <2>1, <2>2 DEF G
<1>6. CASE k \notin {1, 2, 3, 4}
  <2>0. k - 4 \in 1 .. n /\ 4 + (k - 4) = k
    BY <1>3, <1>4, <1>6
  <2>1. PICK i \in 1 .. n : k = 4 + i
    BY <2>0
  <2>2. G[k].kind = "budget_ceiling" /\ G[k].dimension \in Dimensions
    <3>1. DimensionOrder[i] \in Dimensions
          /\ G[k] = BudgetCeiling(DimensionOrder[i], m.budget[DimensionOrder[i]])
      BY <1>3, <2>1
    <3> QED BY <3>1 DEF BudgetCeiling
  <2>3. Foldable(G[k]) /\ G[k].kind \in Folded
    BY <1>1, <2>2 DEF Foldable, Folded
  <2> QED BY <2>2, <2>3 DEF G
<1> QED BY <1>5, <1>6

LEMMA ChainList ==
    ASSUME NEW t, ChainOK(t), ReadOffSome(TokenCaveats(t))
    PROVE  LET cs == GrantCaveats(Grant(t)) \o TokenCaveats(t)
           IN  IsChainList(cs, Len(cs), t)
<1> DEFINE G == GrantCaveats(Grant(t))
           T == TokenCaveats(t)
           r == G \o T
           S == ToSet(G) \cup ToSet(T)
<1>1. ReadOffSome(T)
  OBVIOUS
<1>2. /\ G \in Seq(ToSet(G)) /\ 2 \in DOMAIN G /\ 3 \in DOMAIN G
      /\ G[2].kind = "depth_limit" /\ G[3].kind = "intent_bound"
  <2>1. LET n == Len(DimensionOrder)
            m == t.mandate
        IN  /\ n \in Nat /\ DOMAIN G = 1 .. n + 4 /\ G \in Seq(ToSet(G))
            /\ G[2] = DepthLimit(m.max_depth) /\ G[3] = IntentBound(m.intent_hash)
    BY GrantList
  <2> QED BY <2>1 DEF DepthLimit, IntentBound
<1>3. \A k \in DOMAIN G : Foldable(G[k])
  BY GrantFolds
<1> HIDE DEF G, T
<1>4. \A k \in DOMAIN T : Foldable(T[k])
  <2> SUFFICES ASSUME NEW k \in DOMAIN T PROVE Foldable(T[k])
    OBVIOUS
  <2>1. CASE T[k].kind = "requires_approval"
    BY <2>1 DEF Foldable, Numeric
  <2>2. CASE T[k].kind # "requires_approval"
    BY <1>1, <2>2, ValidFolds DEF ReadOffSome
  <2> QED BY <2>1, <2>2
<1>5. T \in Seq(ToSet(T))
  BY <1>1 DEF ReadOffSome
<1>6. G \in Seq(S) /\ T \in Seq(S)
  <2>1. ToSet(G) \subseteq S /\ ToSet(T) \subseteq S
    OBVIOUS
  <2> HIDE DEF S
  <2> QED BY <1>2, <1>5, <2>1
<1> HIDE DEF S
<1>7. IsConcat(r, S, G, T)
  BY <1>6, Concat
<1>8. DOMAIN G = 1 .. Len(G) /\ DOMAIN T = 1 .. Len(T)
  BY <1>6
<1> HIDE DEF r
<1>9. \A i \in 1 .. Len(r) : \/ \E k \in DOMAIN G : r[i] = G[k]
                             \/ \E k \in DOMAIN T : r[i] = T[k]
  <2> SUFFICES ASSUME NEW i \in 1 .. Len(r)
               PROVE  \/ \E k \in DOMAIN G : r[i] = G[k]
                      \/ \E k \in DOMAIN T : r[i] = T[k]
    OBVIOUS
  <2>1. CASE i <= Len(G)
    BY <1>7, <1>8, <2>1 DEF IsConcat
  <2>2. CASE i > Len(G)
    <3>1. i - Len(G) \in 1 .. Len(T) /\ i = Len(G) + (i - Len(G))
      BY <1>7, <2>2 DEF IsConcat
    <3>2. PICK k \in 1 .. Len(T) : i = Len(G) + k
      BY <3>1
    <3> QED BY <1>7, <1>8, <3>2 DEF IsConcat
  <2> QED BY <1>7, <2>1, <2>2 DEF IsConcat
<1>10. \A k \in DOMAIN G : \E i \in 1 .. Len(r) : r[i] = G[k]
  BY <1>7, <1>8 DEF IsConcat
<1>11. \A k \in DOMAIN T : \E i \in 1 .. Len(r) : r[i] = T[k]
  <2> SUFFICES ASSUME NEW k \in DOMAIN T PROVE \E i \in 1 .. Len(r) : r[i] = T[k]
    OBVIOUS
  <2>1. Len(G) + k \in 1 .. Len(r) /\ r[Len(G) + k] = T[k]
    BY <1>7, <1>8 DEF IsConcat
  <2> QED BY <2>1
<1>12. FoldList(r, Len(r))
  <2>1. Len(r) \in Nat /\ DOMAIN r = 1 .. Len(r)
    BY <1>7 DEF IsConcat
  <2>2. \A i \in 1 .. Len(r) : Foldable(r[i])
    BY <1>3, <1>4, <1>9
  <2>3. /\ \E i \in 1 .. Len(r) : r[i].kind = "depth_limit"
        /\ \E i \in 1 .. Len(r) : r[i].kind = "intent_bound"
    BY <1>2, <1>10
  <2> QED BY <2>1, <2>2, <2>3 DEF FoldList
<1>15. IsChainList(r, Len(r), t)
  BY <1>9, <1>10, <1>11, <1>12 DEF IsChainList, G, T
<1> QED BY <1>15 DEF r, G, T

\* A token authorizes what its authority block and what the holders added let pass.
LEMMA AuthorizesIs ==
    ASSUME NEW t, ChainOK(t), NEW ctx
    PROVE  Authorizes(t, ctx) <=>
               /\ BlockPasses(AuthorityStatements(t.mandate), RequestFacts(ctx), GrantFacts(t.mandate))
               /\ AddedPass(t, ctx)
<1> DEFINE q == t.blocks
           Ok(b) == BlockPasses(q[b], RequestFacts(ctx), GrantFacts(t.mandate))
<1>1. Len(q) \in Nat /\ Len(q) >= 1 /\ DOMAIN q = 1 .. Len(q) /\ q[1] = AuthorityStatements(t.mandate)
  BY DEF ChainOK
<1>2. Authorizes(t, ctx) <=> \A b \in DOMAIN q : Ok(b)
  BY DEF Authorizes
<1>3. AddedPass(t, ctx) <=> \A b \in 2 .. Len(q) : Ok(b)
  BY DEF AddedPass
<1>4. \A b : b \in DOMAIN q <=> b = 1 \/ b \in 2 .. Len(q)
  BY <1>1
<1> HIDE DEF Ok
<1>5. (\A b \in DOMAIN q : Ok(b)) <=> Ok(1) /\ \A b \in 2 .. Len(q) : Ok(b)
  BY <1>4
<1> QED BY <1>1, <1>2, <1>3, <1>5 DEF Ok

\* A request that neither the chain nor what was read off it refuses satisfies all that is
\* folded.
LEMMA ChainBound ==
    ASSUME NEW t, ChainOK(t), NEW ctx, ValidContext(ctx), NEW cs, NEW n, IsChainList(cs, n, t),
           Authorizes(t, ctx), NotDenied(TokenCaveats(t), ctx)
    PROVE  \A i \in 1 .. n : cs[i].kind \in Folded => Satisfied(cs[i], ctx)
<1> DEFINE G == GrantCaveats(Grant(t))
           T == TokenCaveats(t)
<1>1. \A k \in DOMAIN G : Satisfied(G[k], ctx)
  BY AuthorizesIs, GrantAgrees
<1>2. \A k \in DOMAIN T : T[k].kind \in Folded => Satisfied(T[k], ctx)
  <2>1. "requires_approval" \notin Folded
    BY DEF Folded
  <2> QED BY <2>1, DenyIsUnsatisfied DEF NotDenied
<1> HIDE DEF G, T
<1> QED BY <1>1, <1>2 DEF IsChainList, G, T

\* No statement of the attenuation blocks is on an argument; the intents in them are the
\* mandate's.
NoArguments(t) ==
    \A b \in 2 .. Len(t.blocks) : \A j \in DOMAIN t.blocks[b] : t.blocks[b][j].fact # "arg"
OneIntent(t) ==
    \A b \in 2 .. Len(t.blocks) : \A j \in DOMAIN t.blocks[b] :
        t.blocks[b][j].fact = "request_intent" => t.blocks[b][j].term = t.mandate.intent_hash

\* A chain that is read whole and without raising yields caveats that their constructors
\* accept.
LEMMA ReadsValid ==
    ASSUME NEW t, ReadableChain(t), ~Raises(t), NEW b \in 2 .. Len(t.blocks),
           NEW j \in DOMAIN t.blocks[b], Yields(t.blocks[b][j])
    PROVE  ValidCaveat(Build(t.blocks[b][j]))
<1>1. b \in DOMAIN t.blocks /\ Readable(t.blocks[b])
  BY DEF ReadableChain
<1>2. ~ParseBlock(t.blocks[b]).raises
  BY <1>1 DEF Raises
<1> QED BY <1>1, <1>2, WholeBlockReads

\* Where all of the chain is recognized and folds, a request that satisfies what is folded
\* is authorized.
LEMMA ChainExact ==
    ASSUME NEW t, ChainOK(t), ReadableChain(t), ~Raises(t), RecognizedChain(t), NoArguments(t),
           NEW ctx, ValidContext(ctx), NEW cs, NEW n, IsChainList(cs, n, t),
           \A i \in 1 .. n : cs[i].kind \in Folded => Satisfied(cs[i], ctx)
    PROVE  Authorizes(t, ctx)
<1> DEFINE G == GrantCaveats(Grant(t))
           T == TokenCaveats(t)
           q == t.blocks
<1>1. \A k \in DOMAIN G : Satisfied(G[k], ctx)
  <2>1. \A k \in DOMAIN G : G[k].kind \in Folded /\ \E i \in 1 .. n : cs[i] = G[k]
    BY GrantFolds DEF IsChainList
  <2> HIDE DEF G
  <2> QED BY <2>1
<1>2. BlockPasses(AuthorityStatements(t.mandate), RequestFacts(ctx), GrantFacts(t.mandate))
  BY <1>1, GrantAgrees
<1>3. ctx.operation \in t.mandate.scopes /\ ctx.request_intent = t.mandate.intent_hash
  BY <1>2, AuthorityPasses
<1>4. ASSUME NEW k \in DOMAIN T PROVE Evaluate(T[k], ctx).outcome # "deny"
  <2>1. ReadOffBlocks(T, q, Len(q))
    BY ChainReads
  <2>2. PICK i \in 1 .. n : cs[i] = T[k]
    BY DEF IsChainList
  <2> HIDE DEF T
  <2>3. CASE T[k].kind = "requires_approval"
    BY <2>3, DenyIsUnsatisfied
  <2>4. CASE T[k].kind # "requires_approval"
    <3>1. PICK b \in 2 .. Len(q) : \E j \in DOMAIN q[b] : Yields(q[b][j]) /\ T[k] = Build(q[b][j])
      BY <2>1, <2>4 DEF ReadOffBlocks
    <3>2. PICK j \in DOMAIN q[b] : Yields(q[b][j]) /\ T[k] = Build(q[b][j])
      BY <3>1
    <3>3. T[k].kind \in Folded
      BY <3>2, BuildFolds DEF NoArguments
    <3> QED BY <2>2, <2>4, <3>3, DenyIsUnsatisfied
  <2> QED BY <2>3, <2>4
<1>5. ComparableChain(t, ctx)
  <2> SUFFICES ASSUME NEW b \in 2 .. Len(q), NEW j \in DOMAIN q[b]
               PROVE  WellFormed(q[b][j]) /\ Comparable(q[b][j], ctx)
    BY DEF ComparableChain
  <2>1. q[b][j].fact # "arg"
    BY DEF NoArguments
  <2>2. Yields(q[b][j]) => ValidCaveat(Build(q[b][j]))
    BY ReadsValid
  <2> QED BY <2>1, <2>2 DEF WellFormed, Whole, Comparable
<1>6. AddedPass(t, ctx)
  BY <1>3, <1>4, <1>5, RecognizedIsSilent, ChainVerdicts DEF NotDenied
<1> QED BY <1>2, <1>6, AuthorizesIs

\* All intents that are folded are the mandate's.
LEMMA ChainIntents ==
    ASSUME NEW t, ChainOK(t), ReadableChain(t), OneIntent(t), NEW cs, NEW n, IsChainList(cs, n, t)
    PROVE  \A i, j \in 1 .. n : cs[i].kind = "intent_bound" /\ cs[j].kind = "intent_bound" =>
               cs[i].intent_hash = cs[j].intent_hash
<1> DEFINE G == GrantCaveats(Grant(t))
           T == TokenCaveats(t)
           q == t.blocks
           h == t.mandate.intent_hash
<1>1. \A k \in DOMAIN G : G[k].kind = "intent_bound" => G[k].intent_hash = h
  BY GrantFolds
<1>2. ASSUME NEW k \in DOMAIN T, T[k].kind = "intent_bound" PROVE T[k].intent_hash = h
  <2>1. ReadOffBlocks(T, q, Len(q))
    BY ChainReads
  <2> HIDE DEF T
  <2>2. PICK b \in 2 .. Len(q) : \E j \in DOMAIN q[b] : Yields(q[b][j]) /\ T[k] = Build(q[b][j])
    BY <1>2, <2>1 DEF ReadOffBlocks
  <2>3. PICK j \in DOMAIN q[b] : Yields(q[b][j]) /\ T[k] = Build(q[b][j])
    BY <2>2
  <2>4. q[b][j].fact = "request_intent" /\ T[k].intent_hash = q[b][j].term
    BY <1>2, <2>3, BuildFolds
  <2> QED BY <2>4 DEF OneIntent
<1>3. \A i \in 1 .. n : (\E k \in DOMAIN G : cs[i] = G[k]) \/ (\E k \in DOMAIN T : cs[i] = T[k])
  BY DEF IsChainList
<1> HIDE DEF G, T, h
<1>4. \A i \in 1 .. n : cs[i].kind = "intent_bound" => cs[i].intent_hash = h
  BY <1>1, <1>2, <1>3
<1> QED BY <1>4

-----------------------------------------------------------------------------
(* decide() *)

\* The least of a set of positions is one of them.
LEMMA LeastIsMember ==
    ASSUME NEW n \in Nat, NEW S \in SUBSET (1 .. n), S # {}
    PROVE  MinOf(S) \in S /\ \A y \in S : MinOf(S) <= y
<1>1. Min(S) \in S /\ \A y \in S : Min(S) <= y
  BY MinIsMinimal
<1> QED BY <1>1 DEF MinOf

Stopping == {"pass", "deny", "escalate"}

\* v is the verdict on the caveats cs.
CaveatVerdict(v, cs, ctx) ==
    /\ v.outcome \in Stopping /\ DOMAIN v = {"outcome", "reason", "caveat", "drift"}
    /\ v.outcome = "pass" => \A k \in DOMAIN cs : Evaluate(cs[k], ctx).outcome \notin {"deny", "escalate"}
    /\ v.outcome # "pass" =>
          \E k \in DOMAIN cs : /\ Evaluate(cs[k], ctx).outcome = v.outcome
                               /\ Evaluate(cs[k], ctx).reason = v.reason

LEMMA CaveatsVerdict ==
    ASSUME NEW n \in Nat, NEW cs, DOMAIN cs = 1 .. n, NEW ctx
    PROVE  CaveatVerdict(_evaluate_caveats(cs, ctx), cs, ctx)
<1> DEFINE of(outcome) == {i \in DOMAIN cs : Evaluate(cs[i], ctx).outcome = outcome}
           named(outcome) == [Verdict(outcome, Evaluate(cs[MinOf(of(outcome))], ctx).reason)
                                EXCEPT !.caveat = MinOf(of(outcome))]
           v == _evaluate_caveats(cs, ctx)
<1>1. v = IF of("deny") # {} THEN named("deny")
          ELSE IF of("escalate") # {} THEN named("escalate") ELSE Pass
  BY DEF _evaluate_caveats
<1>2. ASSUME NEW outcome \in {"deny", "escalate"}, of(outcome) # {}, v = named(outcome)
      PROVE  CaveatVerdict(v, cs, ctx)
  <2> DEFINE k == MinOf(of(outcome))
  <2>1. k \in of(outcome)
    <3>1. of(outcome) \in SUBSET (1 .. n)
      OBVIOUS
    <3> HIDE DEF of
    <3> QED BY <1>2, <3>1, LeastIsMember
  <2>2. /\ v.outcome = outcome /\ v.reason = Evaluate(cs[k], ctx).reason
        /\ DOMAIN v = {"outcome", "reason", "caveat", "drift"}
    BY <1>2 DEF Verdict
  <2>3. k \in DOMAIN cs /\ Evaluate(cs[k], ctx).outcome = outcome
    BY <2>1
  <2> HIDE DEF k, v
  <2> QED BY <2>2, <2>3 DEF CaveatVerdict, Stopping
<1>3. ASSUME of("deny") = {}, of("escalate") = {} PROVE CaveatVerdict(v, cs, ctx)
  <2>1. v.outcome = "pass" /\ DOMAIN v = {"outcome", "reason", "caveat", "drift"}
    BY <1>1, <1>3 DEF Pass, Verdict
  <2> HIDE DEF v
  <2> QED BY <1>3, <2>1 DEF CaveatVerdict, Stopping
<1> HIDE DEF of, named, v
<1>4. CaveatVerdict(v, cs, ctx)
  BY <1>1, <1>2, <1>3
<1> QED BY <1>4 DEF v

\* A verdict that is no denial says that no caveat denies.
LEMMA NotDenying ==
    ASSUME NEW cs, NEW ctx, _evaluate_caveats(cs, ctx).outcome # "deny"
    PROVE  NotDenied(cs, ctx)
<1> DEFINE of(outcome) == {i \in DOMAIN cs : Evaluate(cs[i], ctx).outcome = outcome}
           named(outcome) == [Verdict(outcome, Evaluate(cs[MinOf(of(outcome))], ctx).reason)
                                EXCEPT !.caveat = MinOf(of(outcome))]
           v == _evaluate_caveats(cs, ctx)
<1>1. v = IF of("deny") # {} THEN named("deny")
          ELSE IF of("escalate") # {} THEN named("escalate") ELSE Pass
  BY DEF _evaluate_caveats
<1>2. named("deny").outcome = "deny"
  BY DEF Verdict
<1> HIDE DEF named
<1>3. of("deny") = {}
  BY <1>1, <1>2
<1> QED BY <1>3 DEF NotDenied

\* The kinds that a verdict has a reason for.
ReasonedKinds == DOMAIN KindReason \cup {"time_window"}

\* The caveats have a reason other than OK to name.
LEMMA EvaluateReason ==
    ASSUME NEW c, c.kind \in ReasonedKinds, NEW ctx, Evaluate(c, ctx).outcome # "allow"
    PROVE  Evaluate(c, ctx).reason # "OK"
BY DEF ReasonedKinds, KindReason, Evaluate, ReasonOf

LEMMA BuildKind ==
    ASSUME NEW s, Yields(s)
    PROVE  Build(s).kind \in ReasonedKinds
<1>1. s.fact \in {"operation", "requested", "time", "tool", "arg", "current_depth", "request_intent"}
  BY YieldsShape DEF REQUEST_FACTS
<1>2. CASE s.fact = "operation"
  BY <1>2 DEF Build, ScopeSubset, ReasonedKinds, KindReason
<1>3. CASE s.fact = "requested"
  BY <1>3 DEF Build, BudgetCeiling, ReasonedKinds, KindReason
<1>4. CASE s.fact = "time"
  BY <1>4 DEF Build, TimeWindow, ReasonedKinds, KindReason
<1>5. CASE s.fact = "tool"
  BY <1>5 DEF Build, ToolAllow, ToolDeny, ReasonedKinds, KindReason
<1>6. CASE s.fact = "arg"
  BY <1>6 DEF Build, ArgPredicate, ReasonedKinds, KindReason
<1>7. CASE s.fact = "current_depth"
  BY <1>7 DEF Build, DepthLimit, ReasonedKinds, KindReason
<1>8. CASE s.fact = "request_intent"
  BY <1>8 DEF Build, IntentBound, ReasonedKinds, KindReason
<1> QED BY <1>1, <1>2, <1>3, <1>4, <1>5, <1>6, <1>7, <1>8

LEMMA TokenCaveatKinds ==
    ASSUME NEW t, ReadOffSome(TokenCaveats(t))
    PROVE  \A k \in DOMAIN TokenCaveats(t) : TokenCaveats(t)[k].kind \in ReasonedKinds
<1> DEFINE T == TokenCaveats(t)
<1>1. ReadOffSome(T)
  OBVIOUS
<1> HIDE DEF T
<1>2. "requires_approval" \in ReasonedKinds
  BY DEF ReasonedKinds, KindReason
<1>3. \A k \in DOMAIN T : T[k].kind \in ReasonedKinds
  BY <1>1, <1>2, BuildKind DEF ReadOffSome
<1> QED BY <1>3 DEF T

\* A gate that stops a request by one of these outcomes names a cause.
Stops(v, outcomes) == v.outcome \in outcomes /\ (v.outcome # "pass" => v.reason # "OK")

\* How each gate may stop a request.  The caveats' refusal is spoken before the Datalog's,
\* their escalation after the policy and the drift score were asked.
GatesOK(g) ==
    /\ DOMAIN g = 1 .. 8
    /\ \A i \in {1, 2, 3, 4, 5, 8} : Stops(g[i], {"pass", "deny"})
    /\ Stops(g[6], {"pass", "escalate"}) /\ Stops(g[7], Stopping)
    /\ g[3].outcome = "pass" => g[7].outcome # "deny"

LEMMA FactReasonNamed ==
    ASSUME NEW fact, NEW block
    PROVE  FactReason(fact, block) # "OK"
BY DEF FactReason

LEMMA GateList ==
    ASSUME NEW t, NEW ids, NEW ctx, NEW cs, NEW o
    PROVE  LET g == Gates(t, ids, ctx, cs, o)
           IN  /\ DOMAIN g = 1 .. 8
               /\ g[1] = RevocationGate(ids, o.revoked) /\ g[2] = GrantGate(Grant(t), ctx)
               /\ g[3] = DenyOnly(_evaluate_caveats(cs, ctx))
               /\ g[4] = DatalogGate(t, ctx, o.limited)
               /\ g[5] = PolicyGate(o.policy) /\ g[6] = DriftGate(ctx, o)
               /\ g[7] = [_evaluate_caveats(cs, ctx) EXCEPT !.drift = DriftScore(ctx, o)]
               /\ g[8] = BudgetGate(o.budget)
BY DEF Gates

LEMMA GatesStop ==
    ASSUME NEW t, NEW ids, NEW ctx, NEW n \in Nat, NEW cs, DOMAIN cs = 1 .. n,
           \A k \in 1 .. n : cs[k].kind \in ReasonedKinds, NEW o
    PROVE  GatesOK(Gates(t, ids, ctx, cs, o))
<1> DEFINE g == Gates(t, ids, ctx, cs, o)
           v == _evaluate_caveats(cs, ctx)
           E == Stops(Pass, {"pass", "deny"}) /\ Stops(FailClosed, {"pass", "deny"})
<1>1. /\ DOMAIN g = 1 .. 8
      /\ g[1] = RevocationGate(ids, o.revoked) /\ g[2] = GrantGate(Grant(t), ctx)
      /\ g[3] = DenyOnly(v) /\ g[4] = DatalogGate(t, ctx, o.limited)
      /\ g[5] = PolicyGate(o.policy) /\ g[6] = DriftGate(ctx, o)
      /\ g[7] = [v EXCEPT !.drift = DriftScore(ctx, o)]
      /\ g[8] = BudgetGate(o.budget)
  BY GateList
<1>2. CaveatVerdict(v, cs, ctx)
  BY CaveatsVerdict
<1>3. Pass.outcome = "pass" /\ Stops(Pass, {"pass", "deny"}) /\ Stops(FailClosed, {"pass", "deny"})
  BY DEF Stops, Pass, FailClosed, _deny, Verdict
<1>4. \A reason : reason # "OK" => Stops(_deny(reason), {"pass", "deny"})
  BY DEF Stops, _deny, Verdict
<1> HIDE DEF g, v
<1>5. Stops(v, Stopping)
  <2>1. \A k \in DOMAIN cs : Evaluate(cs[k], ctx).outcome # "allow" => Evaluate(cs[k], ctx).reason # "OK"
    BY EvaluateReason
  <2>2. CASE v.outcome = "pass"
    BY <2>2 DEF Stops, Stopping
  <2>3. CASE v.outcome # "pass"
    <3>1. PICK k \in DOMAIN cs : /\ Evaluate(cs[k], ctx).outcome = v.outcome
                                 /\ Evaluate(cs[k], ctx).reason = v.reason
      BY <1>2, <2>3 DEF CaveatVerdict
    <3>2. v.outcome # "allow" /\ v.outcome \in Stopping
      BY <1>2 DEF CaveatVerdict, Stopping
    <3> QED BY <2>1, <3>1, <3>2 DEF Stops
  <2> QED BY <2>2, <2>3
<1>6. Stops(g[1], {"pass", "deny"})
  BY <1>1, <1>3, <1>4 DEF RevocationGate
<1>7. Stops(g[2], {"pass", "deny"})
  BY <1>1, <1>3, <1>4 DEF GrantGate
<1>8. Stops(g[3], {"pass", "deny"})
  BY <1>1, <1>3, <1>5 DEF DenyOnly, Stops
<1>9. Stops(g[4], {"pass", "deny"})
  <2>1. FirstFailure(t, ctx) # "OK"
    BY FactReasonNamed, Zenon DEF FirstFailure
  <2> QED BY <1>1, <1>3, <1>4, <2>1 DEF DatalogGate
<1>10. Stops(g[5], {"pass", "deny"})
  BY <1>1, <1>3, <1>4 DEF PolicyGate
<1>11. Stops(g[6], {"pass", "escalate"})
  BY <1>1 DEF DriftGate, Verdict, Pass, Stops
<1>12. g[7].outcome = v.outcome /\ g[7].reason = v.reason
  BY <1>1, <1>2 DEF CaveatVerdict
<1>13. Stops(g[7], Stopping)
  BY <1>5, <1>12 DEF Stops
<1>14. g[3].outcome = "pass" => g[7].outcome # "deny"
  BY <1>1, <1>12 DEF DenyOnly
<1>15. Stops(g[8], {"pass", "deny"})
  BY <1>1, <1>3, <1>4 DEF BudgetGate
<1>16. GatesOK(g)
  BY <1>1, <1>6, <1>7, <1>8, <1>9, <1>10, <1>11, <1>13, <1>14, <1>15 DEF GatesOK
<1> QED BY <1>16 DEF g

\* What each verdict of decide() says of the gates: an allow that all of them let the
\* request by, an escalation that none of steps 3 to 5 refused it.
IsDecision(d, g) ==
    /\ d.outcome \in {"allow", "deny", "escalate"} /\ (d.outcome = "allow" <=> d.reason = "OK")
    /\ d.outcome = "allow" => \A i \in 1 .. 8 : g[i].outcome = "pass"
    /\ d.outcome = "escalate" =>
          /\ \A i \in 1 .. 5 : g[i].outcome = "pass"
          /\ \/ g[6].outcome = "escalate" /\ d.reason = g[6].reason
             \/ g[7].outcome = "escalate"

LEMMA DecideIs ==
    ASSUME NEW g, GatesOK(g), NEW ctx, NEW o
    PROVE  IsDecision(decide(g, ctx, o), g)
<1> DEFINE stops == {i \in DOMAIN g : g[i].outcome # "pass"}
           d == decide(g, ctx, o)
<1>1. d = IF stops = {} THEN [_ALLOW EXCEPT !.drift = DriftScore(ctx, o)] ELSE g[MinOf(stops)]
  BY DEF decide
<1>2. /\ DOMAIN g = 1 .. 8 /\ \A i \in 1 .. 8 : g[i].outcome \in Stopping
      /\ \A i \in 1 .. 8 : g[i].outcome # "pass" => g[i].reason # "OK"
  <2>1. \A i \in 1 .. 8 : i \in {1, 2, 3, 4, 5, 8} \/ i = 6 \/ i = 7
    OBVIOUS
  <2> QED BY <2>1 DEF GatesOK, Stops, Stopping
<1>3. ASSUME stops = {} PROVE IsDecision(d, g)
  <2>1. d.outcome = "allow" /\ d.reason = "OK"
    BY <1>1, <1>3 DEF _ALLOW, Verdict
  <2>2. \A i \in 1 .. 8 : g[i].outcome = "pass"
    BY <1>2, <1>3
  <2> HIDE DEF d
  <2> QED BY <2>1, <2>2 DEF IsDecision
<1>4. ASSUME stops # {} PROVE IsDecision(d, g)
  <2> DEFINE k == MinOf(stops)
  <2>1. k \in stops /\ \A y \in stops : k <= y
    <3>1. stops \in SUBSET (1 .. 8)
      BY <1>2
    <3> HIDE DEF stops
    <3> QED BY <1>4, <3>1, LeastIsMember
  <2>2. d = g[k]
    BY <1>1, <1>4
  <2>3. /\ k \in 1 .. 8 /\ g[k].outcome # "pass"
        /\ \A i \in 1 .. 8 : i < k => g[i].outcome = "pass"
    BY <1>2, <2>1
  <2> HIDE DEF k, d, stops
  <2>4. d.outcome \in {"deny", "escalate"} /\ d.reason # "OK"
    BY <1>2, <2>2, <2>3 DEF Stopping
  <2>5. ASSUME d.outcome = "escalate"
        PROVE  k = 6 \/ k = 7
    <3>1. k \notin {1, 2, 3, 4, 5, 8}
      BY <2>2, <2>5 DEF GatesOK, Stops
    <3> QED BY <2>3, <3>1
  <2> QED BY <2>2, <2>3, <2>4, <2>5 DEF IsDecision
<1> HIDE DEF d
<1>5. IsDecision(d, g)
  BY <1>3, <1>4
<1> QED BY <1>5 DEF d
================================================================================
