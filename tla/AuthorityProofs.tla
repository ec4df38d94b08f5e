--------------------------- MODULE AuthorityProofs ---------------------------
(***************************************************************************)
(* Proofs about the authority of chains of tokens (module Delegation), for *)
(* any number of tokens, tasks, caveats, dimensions and requests.          *)
(***************************************************************************)
EXTENDS Delegation, TokenProofs

-----------------------------------------------------------------------------
(* Chains as they are made *)

NodeFields ==
    {"mandate", "key", "blocks", "parent", "via", "agent", "declared", "known", "chain", "foreign"}

\* A node is a token that starts with the authority block of its mandate.
NodeOK(n) == NodeFields \subseteq DOMAIN n /\ ChainOK(n)

\* The token n, made from ns[n.parent], is that token and one more block.
LinkOK(ns, n) ==
    n.parent # 0 =>
        /\ n.parent \in 1 .. Len(ns) /\ n.mandate = ns[n.parent].mandate
        /\ Len(n.blocks) = Len(ns[n.parent].blocks) + 1
        /\ \A b \in 1 .. Len(ns[n.parent].blocks) : n.blocks[b] = ns[n.parent].blocks[b]

NodesOK(ns) ==
    /\ ns \in Seq(ToSet(ns))
    /\ \A i \in 1 .. Len(ns) : NodeOK(ns[i]) /\ LinkOK(ns, ns[i])

AuthorityInv == NodesOK(nodes) /\ now \in Int

LEMMA AddNode ==
    ASSUME NEW ns, NodesOK(ns), NEW x, NodeOK(x), LinkOK(ns, x)
    PROVE  NodesOK(Append(ns, x))
<1> DEFINE r == Append(ns, x)
<1>1. /\ r \in Seq(ToSet(r)) /\ Len(r) = Len(ns) + 1 /\ r[Len(ns) + 1] = x
      /\ \A i \in 1 .. Len(ns) : r[i] = ns[i]
  <2>1. ns \in Seq(ToSet(ns))
    BY DEF NodesOK
  <2>2. IsAppend(r, ns, x)
    BY <2>1, AppendAny
  <2> QED BY <2>2 DEF IsAppend
<1>2. Len(ns) \in Nat
  BY DEF NodesOK
<1> HIDE DEF r
<1>3. ASSUME NEW y, LinkOK(ns, y) PROVE LinkOK(r, y)
  BY <1>1, <1>2, <1>3 DEF LinkOK
<1>4. ASSUME NEW i \in 1 .. Len(r) PROVE NodeOK(r[i]) /\ LinkOK(r, r[i])
  <2>1. CASE i = Len(ns) + 1
    BY <1>1, <1>3, <2>1
  <2>2. CASE i # Len(ns) + 1
    <3>1. i \in 1 .. Len(ns) /\ r[i] = ns[i]
      BY <1>1, <1>2, <2>2
    <3>2. NodeOK(ns[i]) /\ LinkOK(ns, ns[i])
      BY <3>1 DEF NodesOK
    <3> QED BY <1>3, <3>1, <3>2
  <2> QED BY <2>1, <2>2
<1> QED BY <1>1, <1>4 DEF NodesOK, r

\* What create_task() and the three ways to append a block add.
LEMMA RootNode ==
    ASSUME NEW m, MandateOK(m), NEW k
    PROVE  LET x == Root(MintRoot(m, k))
           IN  /\ NodeOK(x) /\ x.mandate = m /\ x.blocks = <<AuthorityStatements(m)>>
               /\ x.parent = 0 /\ x.known = <<>> /\ x.via = "console" /\ x.chain = <<>>
<1> DEFINE A == AuthorityStatements(m)
           x == Root(MintRoot(m, k))
<1>1. /\ x.mandate = m /\ x.blocks = <<A>> /\ x.parent = 0 /\ x.known = <<>>
      /\ x.via = "console" /\ x.chain = <<>> /\ DOMAIN x = NodeFields
  BY DEF Root, MintRoot, NodeFields
<1> HIDE DEF A, x
<1>2. <<A>> \in Seq({A}) /\ Len(<<A>>) = 1 /\ <<A>>[1] = A
  OBVIOUS
<1>3. <<A>> \in Seq(ToSet(<<A>>))
  BY <1>2, SeqOfItself
<1>4. NodeOK(x)
  BY <1>1, <1>2, <1>3 DEF NodeOK, ChainOK, A
<1> QED BY <1>1, <1>4 DEF A, x

LEMMA UnderNode ==
    ASSUME NodesOK(nodes), NEW p \in DOMAIN nodes, NEW st, NEW via, NEW agent, NEW declared,
           NEW known
    PROVE  LET x == Under(p, st, via, agent, declared, known)
           IN  /\ NodeOK(x) /\ LinkOK(nodes, x)
               /\ x.mandate = nodes[p].mandate /\ x.blocks = Append(nodes[p].blocks, st)
               /\ x.parent = p /\ x.known = known /\ x.via = via /\ x.declared = declared
               /\ x.chain = nodes[p].chain \o declared
               /\ x.foreign = (nodes[p].foreign \/ via = "foreign")
<1> DEFINE q == nodes[p]
           x == Under(p, st, via, agent, declared, known)
<1>1. p \in 1 .. Len(nodes) /\ Len(nodes) \in Nat
  BY DEF NodesOK
<1>2. NodeOK(q)
  BY <1>1 DEF NodesOK
<1>3. NodeFields \subseteq DOMAIN q
  BY <1>2 DEF NodeOK, ChainOK
<1>4. /\ x.mandate = q.mandate /\ x.blocks = Append(q.blocks, st) /\ x.parent = p
      /\ x.known = known /\ x.via = via /\ x.declared = declared /\ DOMAIN x = DOMAIN q
      /\ x.chain = q.chain \o declared /\ x.foreign = (q.foreign \/ via = "foreign")
  BY <1>3 DEF Under, AppendBlock, NodeFields
<1> HIDE DEF x
<1>5. /\ x.blocks \in Seq(ToSet(x.blocks)) /\ Len(x.blocks) = Len(q.blocks) + 1
      /\ \A i \in 1 .. Len(q.blocks) : x.blocks[i] = q.blocks[i]
      /\ Len(q.blocks) \in Nat /\ Len(q.blocks) >= 1
  <2>1. q.blocks \in Seq(ToSet(q.blocks)) /\ Len(q.blocks) >= 1
    BY <1>2 DEF NodeOK, ChainOK
  <2>2. IsAppend(Append(q.blocks, st), q.blocks, st)
    BY <2>1, AppendAny
  <2> QED BY <1>4, <2>1, <2>2 DEF IsAppend
<1>6. NodeOK(x)
  <2>1. x.blocks[1] = q.blocks[1]
    BY <1>5
  <2> HIDE DEF q
  <2> QED BY <1>2, <1>3, <1>4, <1>5, <2>1 DEF NodeOK, ChainOK
<1>7. LinkOK(nodes, x)
  BY <1>1, <1>4, <1>5 DEF LinkOK
<1> QED BY <1>4, <1>6, <1>7 DEF x

\* The mandate that create_task() writes.
LEMMA TaskMandate ==
    ASSUME NEW k \in DOMAIN Tasks, now \in Int,
           NEW m, m = [scopes |-> Tasks[k].scopes, budget |-> Tasks[k].budget,
                       intent_hash |-> Tasks[k].intent_hash, max_depth |-> DEFAULT_MAX_DEPTH,
                       not_before |-> now - Slack, expires_at |-> now + DEFAULT_TTL],
           ValidMandate(m)
    PROVE  MandateOK(m)
<1>1. Tasks[k].scopes \subseteq Scopes
  BY DelegationInputs
<1> QED BY <1>1, DelegationConstants DEF ValidMandate, MandateOK, MAX_DELEGATION_DEPTH

\* A block to a token there is: one of another writer, or one that attenuate() wrote,
\* with what the client then knows of the chain.  Its caveats passed the validators.
NewBlock(p, st, via, agent, declared, known) ==
    \/ /\ via = "foreign" /\ declared = <<>> /\ known = <<>>
       /\ \E k \in DOMAIN ForeignBlocks : st = ForeignBlocks[k]
    \/ /\ via # "foreign" /\ ValidCaveats(declared) /\ st = BlockStatements(agent, declared)
       /\ known = <<>> \/ known = declared \/ known = nodes[p].known \o declared
       /\ \/ via = "sdk" /\ \E j \in DOMAIN CaveatMenu : declared = CaveatMenu[j]
          \/ \A k \in DOMAIN declared :
                declared[k].kind \notin {"arg_predicate", "intent_bound"}

\* A step adds the root of a validated mandate, or a block.
Added(x) ==
    \/ \E m, k : MandateOK(m) /\ x = Root(MintRoot(m, k))
    \/ \E p \in DOMAIN nodes : \E st, via, agent, declared, known :
          /\ NewBlock(p, st, via, agent, declared, known)
          /\ x = Under(p, st, via, agent, declared, known)

LEMMA StepAdds ==
    ASSUME AuthorityInv, Next
    PROVE  now' \in Int /\ (nodes' = nodes \/ \E x : Added(x) /\ nodes' = Append(nodes, x))
<1>0. now \in Int
  BY DEF AuthorityInv
<1>1. ASSUME NEW k \in DOMAIN Tasks, CreateTask(Tasks[k])
      PROVE  now' = now /\ \E x : Added(x) /\ nodes' = Append(nodes, x)
  <2> DEFINE m == [scopes |-> Tasks[k].scopes, budget |-> Tasks[k].budget,
                   intent_hash |-> Tasks[k].intent_hash, max_depth |-> DEFAULT_MAX_DEPTH,
                   not_before |-> now - Slack, expires_at |-> now + DEFAULT_TTL]
  <2>1. ValidMandate(m) /\ nodes' = Append(nodes, Root(MintRoot(m, RootKey))) /\ now' = now
    BY <1>1 DEF CreateTask
  <2> HIDE DEF m
  <2>2. MandateOK(m)
    BY <1>0, <2>1, TaskMandate DEF m
  <2>3. Added(Root(MintRoot(m, RootKey)))
    BY <2>2, Zenon DEF Added
  <2> QED BY <2>1, <2>3
<1>2. ASSUME NEW p \in DOMAIN nodes, NEW st, NEW via, NEW agent, NEW declared, NEW known,
             NewBlock(p, st, via, agent, declared, known),
             nodes' = Append(nodes, Under(p, st, via, agent, declared, known))
      PROVE  \E x : Added(x) /\ nodes' = Append(nodes, x)
  BY <1>2, Zenon DEF Added
<1>3. ASSUME NEW p \in DOMAIN nodes, NEW a \in Agents, NEW s \in SUBSET Scopes,
             NEW c \in Ceilings, SpawnAgent(p, a, s, c)
      PROVE  now' = now /\ \E x : Added(x) /\ nodes' = Append(nodes, x)
  <2> DEFINE c1 == ScopeSubset(s)
             c2 == BudgetCeiling(SpendDimension, c)
             cs == <<c1, c2>>
             st == BlockStatements(a, cs)
  <2>1. /\ nodes' = Append(nodes, Under(p, st, "console", a, cs, <<>>))
        /\ now' = now /\ c >= 0
    BY <1>3, Zenon DEF SpawnAgent
  <2>7. c1.kind = "scope_subset" /\ c2.kind = "budget_ceiling"
    BY DEF ScopeSubset, BudgetCeiling
  <2>2. ValidCaveat(c1)
    BY DEF ValidCaveat, ScopeSubset
  <2>3. ValidCaveat(c2)
    <3>1. c \in Nat /\ SpendDimension \in Dimensions
      BY <2>1, DelegationConstants, DelegationInputs
    <3> QED BY <3>1 DEF ValidCaveat, BudgetCeiling
  <2> HIDE DEF c1, c2
  <2>4. ValidCaveats(cs)
    <3>1. ToSet(cs) = {c1, c2}
      BY DEF ToSet
    <3>2. cs \in Seq({c1, c2})
      OBVIOUS
    <3>3. {x \in ToSet(cs) : ValidCaveat(x)} = {c1, c2}
      BY <2>2, <2>3, <3>1
    <3> QED BY <3>2, <3>3 DEF ValidCaveats
  <2>8. \A k \in DOMAIN cs : cs[k].kind \notin {"arg_predicate", "intent_bound"}
    BY <2>7
  <2> HIDE DEF cs, st
  <2>5. NewBlock(p, st, "console", a, cs, <<>>)
    BY <2>4, <2>8 DEF NewBlock, st
  <2> QED BY <1>2, <2>1, <2>5
<1>4. ASSUME NEW p \in DOMAIN nodes, NEW a \in Agents, NEW k \in DOMAIN CaveatMenu,
             NEW h \in BOOLEAN, Attenuate(p, a, CaveatMenu[k], h)
      PROVE  now' = now /\ \E x : Added(x) /\ nodes' = Append(nodes, x)
  <2> DEFINE cs == CaveatMenu[k]
             known == (IF h THEN <<>> ELSE nodes[p].known) \o cs
             st == BlockStatements(a, cs)
  <2>1. nodes' = Append(nodes, Under(p, st, "sdk", a, cs, known)) /\ now' = now
    BY <1>4, Zenon DEF Attenuate
  <2>6. \E j \in DOMAIN CaveatMenu : cs = CaveatMenu[j]
    OBVIOUS
  <2>2. ValidCaveats(cs)
    BY DelegationInputs DEF ValidCaveats
  <2>3. known = cs \/ known = nodes[p].known \o cs
    <3>1. CASE h
      <4>1. cs \in Seq({c \in ToSet(cs) : ValidCaveat(c)})
        BY <2>2 DEF ValidCaveats
      <4> HIDE DEF cs
      <4>2. <<>> \o cs = cs
        BY <4>1
      <4> QED BY <3>1, <4>2
    <3>2. CASE ~h
      BY <3>2
    <3> QED BY <3>1, <3>2
  <2> HIDE DEF cs, known, st
  <2>4. NewBlock(p, st, "sdk", a, cs, known)
    BY <2>2, <2>3, <2>6 DEF NewBlock, st
  <2> QED BY <1>2, <2>1, <2>4
<1>5. ASSUME NEW p \in DOMAIN nodes, NEW k \in DOMAIN ForeignBlocks,
             AppendForeign(p, ForeignBlocks[k])
      PROVE  now' = now /\ \E x : Added(x) /\ nodes' = Append(nodes, x)
  <2>1. NewBlock(p, ForeignBlocks[k], "foreign", "none", <<>>, <<>>)
    BY Zenon DEF NewBlock
  <2> QED BY <1>2, <1>5, <2>1, Zenon DEF AppendForeign
<1>6. ASSUME Tick PROVE now' \in Int /\ nodes' = nodes
  BY <1>0, <1>6 DEF Tick
<1> QED BY <1>0, <1>1, <1>3, <1>4, <1>5, <1>6 DEF Next

LEMMA AuthorityInit == Init => AuthorityInv
<1> SUFFICES ASSUME Init PROVE AuthorityInv
  OBVIOUS
<1>1. nodes = <<>> /\ now \in Int
  BY DelegationConstants DEF Init
<1>2. Len(nodes) = 0 /\ nodes \in Seq({})
  BY <1>1
<1>3. nodes \in Seq(ToSet(nodes))
  BY <1>2, SeqOfItself
<1> QED BY <1>1, <1>2, <1>3 DEF AuthorityInv, NodesOK

LEMMA AuthorityInductive == Spec => []AuthorityInv
<1>1. Init => AuthorityInv
  BY AuthorityInit
<1>2. AuthorityInv /\ [Next]_vars => AuthorityInv'
  <2> SUFFICES ASSUME AuthorityInv, [Next]_vars PROVE AuthorityInv'
    OBVIOUS
  <2>1. CASE Next
    <3>1. CASE nodes' = nodes
      BY <2>1, <3>1, StepAdds DEF AuthorityInv
    <3>2. ASSUME NEW x, Added(x), nodes' = Append(nodes, x) PROVE NodesOK(nodes')
      <4>1. NodesOK(nodes)
        BY DEF AuthorityInv
      <4>2. ASSUME NEW m, NEW k, MandateOK(m), x = Root(MintRoot(m, k))
            PROVE  NodeOK(x) /\ LinkOK(nodes, x)
        <5>1. NodeOK(x) /\ x.parent = 0
          BY <4>2, RootNode
        <5> QED BY <5>1 DEF LinkOK
      <4>3. ASSUME NEW p \in DOMAIN nodes, NEW st, NEW via, NEW agent, NEW declared,
                   NEW known, x = Under(p, st, via, agent, declared, known)
            PROVE  NodeOK(x) /\ LinkOK(nodes, x)
        BY <4>1, <4>3, UnderNode
      <4>4. NodeOK(x) /\ LinkOK(nodes, x)
        BY <3>2, <4>2, <4>3, Zenon DEF Added
      <4> QED BY <3>2, <4>1, <4>4, AddNode
    <3> QED BY <2>1, <3>1, <3>2, StepAdds DEF AuthorityInv
  <2>2. CASE UNCHANGED vars
    BY <2>2 DEF AuthorityInv, vars
  <2> QED BY <2>1, <2>2
<1> QED BY <1>1, <1>2, PTL DEF Spec

-----------------------------------------------------------------------------
(* Within the mandate *)

\* The context the verifier evaluates against.
LEMMA AtContext ==
    ASSUME NEW c \in Contexts, NEW t
    PROVE  LET x == At(c, t)
           IN  /\ x.operation = c.operation /\ x.requested = c.requested /\ x.now = c.now
               /\ x.request_intent = c.request_intent /\ x.tool = c.tool /\ x.args = c.args
               /\ x.current_depth = Depth(t)
               /\ c.requested \in [Dimensions -> Nat] /\ c.now \in Int
               /\ c.tool \in Tools \cup {NoTool}
<1>1. ValidContext(c)
  BY DelegationInputs
<1> QED BY <1>1 DEF ValidContext, At

LEMMA AtValid ==
    ASSUME NEW c \in Contexts, NEW t
    PROVE  ValidContext(At(c, t)) /\ At(c, t).current_depth = Depth(t)
<1>1. ValidContext(c)
  BY DelegationInputs
<1> QED BY <1>1 DEF ValidContext, At

\* What a token with an authority block for m authorizes was granted by m.
LEMMA AuthorizedIsGranted ==
    ASSUME NEW t, NodeOK(t), NEW c \in Contexts, Authorizes(t, At(c, t))
    PROVE  LET m == t.mandate
               ctx == At(c, t)
           IN  /\ ctx.operation \in m.scopes
               /\ \A d \in Dimensions : ctx.requested[d] <= m.budget[d]
               /\ ctx.request_intent = m.intent_hash
               /\ Depth(t) <= m.max_depth
               /\ datalog_date(m.not_before) <= datalog_date(ctx.now)
               /\ datalog_date(ctx.now) < datalog_date(m.expires_at)
<1>1. ValidContext(At(c, t)) /\ At(c, t).current_depth = Depth(t)
  BY AtValid
<1>2. ChainOK(t)
  BY DEF NodeOK, ChainOK
<1> QED BY <1>1, <1>2, ChainAuthorizes

\* Whatever blocks are appended by whomever, to any number of tokens, a token only
\* authorizes what its mandate granted, in every dimension of the budget
\* (mint_root, authorize_request).
THEOREM DelegationWithinMandate == Spec => []WithinMandate
<1>1. AuthorityInv => WithinMandate
  <2> SUFFICES ASSUME AuthorityInv, NEW i \in DOMAIN nodes, NEW c \in Contexts,
                      Authorizes(nodes[i], At(c, nodes[i]))
               PROVE  LET m == nodes[i].mandate
                          ctx == At(c, nodes[i])
                      IN  /\ ctx.operation \in m.scopes
                          /\ \A d \in Dimensions : ctx.requested[d] <= m.budget[d]
                          /\ ctx.request_intent = m.intent_hash
                          /\ Depth(nodes[i]) <= m.max_depth
                          /\ m.not_before - Second < ctx.now /\ ctx.now < m.expires_at
    BY DEF WithinMandate
  <2> DEFINE t == nodes[i]
             m == t.mandate
             ctx == At(c, t)
  <2>1. NodeOK(t)
    <3>1. i \in 1 .. Len(nodes)
      BY DEF AuthorityInv, NodesOK
    <3> QED BY <3>1 DEF AuthorityInv, NodesOK
  <2>2. m.not_before \in Int /\ m.expires_at \in Int /\ ctx.now \in Int
    <3>1. ctx.now \in Int
      BY AtContext
    <3> QED BY <2>1, <3>1 DEF NodeOK, ChainOK, MandateOK
  <2>3. /\ ctx.operation \in m.scopes
        /\ \A d \in Dimensions : ctx.requested[d] <= m.budget[d]
        /\ ctx.request_intent = m.intent_hash
        /\ Depth(t) <= m.max_depth
        /\ datalog_date(m.not_before) <= datalog_date(ctx.now)
        /\ datalog_date(ctx.now) < datalog_date(m.expires_at)
    BY <2>1, AuthorizedIsGranted
  <2> HIDE DEF ctx, m
  <2>4. m.not_before - Second < ctx.now /\ ctx.now < m.expires_at
    BY <2>2, <2>3, DateOrder
  <2> QED BY <2>3, <2>4 DEF m, ctx
<1> QED BY <1>1, AuthorityInductive, PTL

-----------------------------------------------------------------------------
(* No widening *)

\* Every statement of the chain bounds the depth from above only.
DepthOK(n) ==
    \A b \in DOMAIN n.blocks : \A j \in DOMAIN n.blocks[b] : DepthFromAbove(n.blocks[b][j])

DepthInv == AuthorityInv /\ \A i \in 1 .. Len(nodes) : DepthOK(nodes[i])

\* Blocks of other writers do so.
ForeignDepthFromAbove ==
    \A k \in DOMAIN ForeignBlocks : \A j \in DOMAIN ForeignBlocks[k] :
        DepthFromAbove(ForeignBlocks[k][j])

\* The facts of two verifications of one request differ in the depth only.
LEMMA FactsAgree ==
    ASSUME NEW c \in Contexts, NEW t, NEW u
    PROVE  LET F == RequestFacts(At(c, t))
               G == RequestFacts(At(c, u))
           IN  \A f \in {"operation", "request_intent", "time", "requested", "tool", "arg"} :
                   F[f] = G[f]
<1>1. /\ At(c, t).operation = At(c, u).operation /\ At(c, t).requested = At(c, u).requested
      /\ At(c, t).now = At(c, u).now /\ At(c, t).request_intent = At(c, u).request_intent
      /\ At(c, t).tool = At(c, u).tool /\ At(c, t).args = At(c, u).args
  BY AtContext
<1> DEFINE x == At(c, t)
           y == At(c, u)
<1> HIDE DEF x, y
<1>2. ASSUME x.operation = y.operation, x.requested = y.requested, x.now = y.now,
             x.request_intent = y.request_intent, x.tool = y.tool, x.args = y.args
      PROVE  \A f \in {"operation", "request_intent", "time", "requested", "tool", "arg"} :
                 RequestFacts(x)[f] = RequestFacts(y)[f]
  <2>1. RequestFacts(x).operation = RequestFacts(y).operation
    BY <1>2 DEF RequestFacts
  <2>2. RequestFacts(x).request_intent = RequestFacts(y).request_intent
    BY <1>2 DEF RequestFacts
  <2>3. RequestFacts(x).time = RequestFacts(y).time
    BY <1>2 DEF RequestFacts
  <2>4. RequestFacts(x).requested = RequestFacts(y).requested
    BY <1>2 DEF RequestFacts
  <2>5. RequestFacts(x).tool = RequestFacts(y).tool
    BY <1>2 DEF RequestFacts
  <2>6. RequestFacts(x).arg = RequestFacts(y).arg
    BY <1>2 DEF RequestFacts
  <2> QED BY <2>1, <2>2, <2>3, <2>4, <2>5, <2>6
<1> QED BY <1>1, <1>2 DEF x, y

\* Nor do they differ in what a block sees of any other fact.
LEMMA OtherFactsHeld ==
    ASSUME NEW c \in Contexts, NEW t, NEW u, NEW fact, fact # "current_depth", NEW key
    PROVE  Held(RequestFacts(At(c, t)), fact, key) = Held(RequestFacts(At(c, u)), fact, key)
<1> DEFINE F == RequestFacts(At(c, t))
           G == RequestFacts(At(c, u))
<1>1. DOMAIN F = REQUEST_FACTS /\ DOMAIN G = REQUEST_FACTS
  BY DEF RequestFacts, REQUEST_FACTS
<1>2. \A f \in {"operation", "request_intent", "time", "requested", "tool", "arg"} : F[f] = G[f]
  BY FactsAgree
<1> HIDE DEF F, G
<1>3. fact \in REQUEST_FACTS => F[fact] = G[fact]
  BY <1>2 DEF REQUEST_FACTS
<1>4. Held(F, fact, key) = Held(G, fact, key)
  BY <1>1, <1>3 DEF Held
<1> QED BY <1>4 DEF F, G

\* A statement that bounds the depth from above passes closer to the root too.
LEMMA PassesHigherUp ==
    ASSUME NEW c \in Contexts, NEW t, NEW u, Depth(t) \in Int, Depth(u) \in Int,
           Depth(u) <= Depth(t), NEW s, DepthFromAbove(s), NEW own, NEW g,
           Passes(s, own, RequestFacts(At(c, t)), g)
    PROVE  Passes(s, own, RequestFacts(At(c, u)), g)
<1> DEFINE F == RequestFacts(At(c, t))
           G == RequestFacts(At(c, u))
           v == Depth(t)
           w == Depth(u)
           rest == Held(g, s.fact, s.key) \cup Brought(own, s.fact, s.key)
<1>1. Held(F, "current_depth", NoKey) = {v} /\ Held(G, "current_depth", NoKey) = {w}
  BY AtContext DEF RequestFacts, Held
<1>2. \A fact, key : fact # "current_depth" => Held(F, fact, key) = Held(G, fact, key)
  BY OtherFactsHeld
<1>3. Passes(s, own, F, g) /\ v \in Int /\ w \in Int /\ w <= v
  OBVIOUS
<1> HIDE DEF F, G, v, w
<1>4. CASE s.form = "fact"
  BY <1>4 DEF Passes, G
<1>5. CASE s.fact # "current_depth" /\ (s.op = "joins" => s.term # "current_depth")
  <2>1. Visible(own, F, g, s.fact, s.key) = Visible(own, G, g, s.fact, s.key)
    BY <1>2, <1>5 DEF Visible
  <2>2. s.op = "joins" => Visible(own, F, g, s.term, NoKey) = Visible(own, G, g, s.term, NoKey)
    BY <1>2, <1>5 DEF Visible
  <2> DEFINE hit(H) == \E x \in Visible(own, H, g, s.fact, s.key) :
                          IF s.op = "joins" THEN x \in Visible(own, H, g, s.term, NoKey)
                          ELSE Compare(x, s.op, s.term)
         verdict(b) == CASE s.form = "check" -> b
                         [] s.form = "reject" -> ~b
                         [] s.form = "fact" -> TRUE
  <2>3. hit(F) = hit(G)
    BY <2>1, <2>2
  <2>4. Passes(s, own, F, g) = verdict(hit(F)) /\ Passes(s, own, G, g) = verdict(hit(G))
    BY DEF Passes
  <2> HIDE DEF hit, verdict
  <2>5. Passes(s, own, G, g) = Passes(s, own, F, g)
    BY <2>3, <2>4
  <2> QED BY <1>3, <2>5 DEF G
<1>6. CASE /\ s.fact = "current_depth" /\ s.key = NoKey /\ s.term \in Int
           /\ <<s.form, s.op>> \in {<<"check", "le">>, <<"check", "lt">>,
                                    <<"reject", "ge">>, <<"reject", "gt">>}
  <2>1. /\ Visible(own, F, g, s.fact, s.key) = {v} \cup rest
        /\ Visible(own, G, g, s.fact, s.key) = {w} \cup rest
    BY <1>1, <1>6 DEF Visible
  <2>5. s.op # "joins"
    BY <1>6
  <2> HIDE DEF rest
  <2>6. ASSUME NEW H, NEW x, Visible(own, H, g, s.fact, s.key) = {x} \cup rest
        PROVE  /\ s.form = "check" => (Passes(s, own, H, g) <=>
                      Compare(x, s.op, s.term) \/ \E y \in rest : Compare(y, s.op, s.term))
               /\ s.form = "reject" => (Passes(s, own, H, g) <=>
                      ~Compare(x, s.op, s.term) /\ ~ \E y \in rest : Compare(y, s.op, s.term))
    <3> DEFINE V == Visible(own, H, g, s.fact, s.key)
    <3>1. /\ s.form = "check" => (Passes(s, own, H, g) <=> \E y \in V : Compare(y, s.op, s.term))
          /\ s.form = "reject" => (Passes(s, own, H, g) <=> ~ \E y \in V : Compare(y, s.op, s.term))
      BY <2>5 DEF Passes
    <3> HIDE DEF V
    <3>2. V = {x} \cup rest
      BY <2>6 DEF V
    <3> QED BY <3>1, <3>2
  <2>2. CASE s.form = "check"
    <3>1. s.op = "le" \/ s.op = "lt"
      BY <1>6, <2>2
    <3>2. Compare(v, s.op, s.term) => Compare(w, s.op, s.term)
      BY <1>3, <1>6, <3>1, CompareIs
    <3>4. Passes(s, own, G, g)
      BY <1>3, <2>1, <2>2, <2>6, <3>2
    <3> QED BY <3>4 DEF G
  <2>3. CASE s.form = "reject"
    <3>1. s.op = "ge" \/ s.op = "gt"
      BY <1>6, <2>3
    <3>2. Compare(w, s.op, s.term) => Compare(v, s.op, s.term)
      BY <1>3, <1>6, <3>1, CompareIs
    <3>4. Passes(s, own, G, g)
      BY <1>3, <2>1, <2>3, <2>6, <3>2
    <3> QED BY <3>4 DEF G
  <2> QED BY <1>6, <2>2, <2>3
<1> QED BY <1>4, <1>5, <1>6 DEF DepthFromAbove

\* The authority block bounds the depth from above.
LEMMA AuthorityDepth ==
    ASSUME NEW m, MandateOK(m)
    PROVE  \A j \in DOMAIN AuthorityStatements(m) : DepthFromAbove(AuthorityStatements(m)[j])
<1> DEFINE A == AuthorityStatements(m)
           n == Len(DimensionOrder)
<1>1. /\ n \in Nat /\ DOMAIN A = 1 .. n + 5
      /\ A[1] = Clause("check", "operation", NoKey, "joins", "scope")
      /\ A[2] = Clause("check", "current_depth", NoKey, "le", m.max_depth)
      /\ A[3] = Clause("check", "request_intent", NoKey, "joins", "intent")
      /\ \A i \in 1 .. n : A[3 + i] = Clause("check", "requested", DimensionOrder[i],
                                   "le", scale(m.budget[DimensionOrder[i]]))
      /\ A[n + 4] = Clause("check", "time", NoKey, "ge", datalog_date(m.not_before))
      /\ A[n + 5] = Clause("check", "time", NoKey, "lt", datalog_date(m.expires_at))
  BY AuthorityBlock
<1> HIDE DEF A, n
<1>2. \A form, key, op, term :
        \A fact \in {"operation", "request_intent", "time", "requested", "tool", "arg"} :
          op # "joins" \/ term # "current_depth" => DepthFromAbove(Clause(form, fact, key, op, term))
  BY DEF DepthFromAbove, Clause
<1>3. DepthFromAbove(Clause("check", "current_depth", NoKey, "le", m.max_depth))
  BY DEF DepthFromAbove, Clause, MandateOK
<1> SUFFICES ASSUME NEW j \in 1 .. n + 5 PROVE DepthFromAbove(A[j])
  BY <1>1 DEF A
<1>4. CASE j \in {1, 2, 3, n + 4, n + 5}
  BY <1>1, <1>2, <1>3, <1>4
<1>5. CASE j \notin {1, 2, 3, n + 4, n + 5}
  <2> DEFINE i == j - 3
  <2>1. i \in 1 .. n /\ j = 3 + i
    BY <1>1, <1>5
  <2> HIDE DEF i
  <2>2. A[j] = Clause("check", "requested", DimensionOrder[i], "le",
                      scale(m.budget[DimensionOrder[i]]))
    BY <1>1, <2>1
  <2> QED BY <1>2, <2>2, Zenon
<1> QED BY <1>4, <1>5

\* What is added keeps to that.
LEMMA AddedDepth ==
    ASSUME DepthInv, ForeignDepthFromAbove, NEW x, Added(x)
    PROVE  DepthOK(x)
<1>1. NodesOK(nodes)
  BY DEF DepthInv, AuthorityInv
<1>2. ASSUME NEW m, NEW k, MandateOK(m), x = Root(MintRoot(m, k)) PROVE DepthOK(x)
  <2>1. x.blocks = <<AuthorityStatements(m)>>
    BY <1>2, RootNode
  <2> DEFINE A == AuthorityStatements(m)
  <2>2. \A j \in DOMAIN A : DepthFromAbove(A[j])
    BY <1>2, AuthorityDepth
  <2> HIDE DEF A
  <2>3. DOMAIN <<A>> = {1} /\ <<A>>[1] = A
    OBVIOUS
  <2>4. x.blocks = <<A>>
    BY <2>1 DEF A
  <2> QED BY <2>2, <2>3, <2>4 DEF DepthOK
<1>3. ASSUME NEW p \in DOMAIN nodes, NEW st, NEW via, NEW agent, NEW declared, NEW known,
             NewBlock(p, st, via, agent, declared, known),
             x = Under(p, st, via, agent, declared, known)
      PROVE  DepthOK(x)
  <2> DEFINE q == nodes[p].blocks
  <2>1. x.blocks = Append(q, st)
    BY <1>1, <1>3, UnderNode
  <2>2. p \in 1 .. Len(nodes)
    BY <1>1 DEF NodesOK
  <2>3. NodeOK(nodes[p]) /\ DepthOK(nodes[p])
    BY <1>1, <2>2 DEF DepthInv, NodesOK
  <2>4. q \in Seq(ToSet(q)) /\ DOMAIN q = 1 .. Len(q)
    BY <2>3 DEF NodeOK, ChainOK
  <2>5. \A j \in DOMAIN st : DepthFromAbove(st[j])
    BY <1>3, BlockHolds DEF NewBlock, ForeignDepthFromAbove
  <2>6. \A b \in DOMAIN q : \A j \in DOMAIN q[b] : DepthFromAbove(q[b][j])
    BY <2>3 DEF DepthOK
  <2> HIDE DEF q
  <2>7. IsAppend(x.blocks, q, st)
    BY <2>1, <2>4, AppendAny
  <2>8. ASSUME NEW b \in DOMAIN x.blocks
        PROVE  \A j \in DOMAIN x.blocks[b] : DepthFromAbove(x.blocks[b][j])
    <3>1. CASE b = Len(q) + 1
      BY <2>5, <2>7, <3>1 DEF IsAppend
    <3>2. CASE b # Len(q) + 1
      <4>1. b \in DOMAIN q /\ x.blocks[b] = q[b]
        BY <2>4, <2>7, <3>2 DEF IsAppend
      <4> QED BY <2>6, <4>1
    <3> QED BY <3>1, <3>2
  <2> QED BY <2>8, Zenon DEF DepthOK
<1> QED BY <1>2, <1>3, Zenon DEF Added

LEMMA DepthInductive ==
    ASSUME ForeignDepthFromAbove
    PROVE  Spec => []DepthInv
<1>1. Init => DepthInv
  <2>1. Init => \A i \in 1 .. Len(nodes) : DepthOK(nodes[i])
    BY DEF Init
  <2> QED BY <2>1, AuthorityInit DEF DepthInv
<1>2. DepthInv /\ [Next]_vars /\ AuthorityInv' => DepthInv'
  <2> SUFFICES ASSUME DepthInv, [Next]_vars, AuthorityInv'
               PROVE  DepthInv'
    OBVIOUS
  <2>0. AuthorityInv
    BY DEF DepthInv
  <2>1. CASE nodes' = nodes
    BY <2>1 DEF DepthInv
  <2>2. ASSUME NEW x, Added(x), nodes' = Append(nodes, x) PROVE DepthInv'
    <3>1. DepthOK(x)
      BY <2>2, AddedDepth
    <3>2. nodes \in Seq(ToSet(nodes))
      BY <2>0 DEF AuthorityInv, NodesOK
    <3>3. IsAppend(nodes', nodes, x)
      BY <2>2, <3>2, AppendAny
    <3>4. ASSUME NEW i \in 1 .. Len(nodes') PROVE DepthOK(nodes'[i])
      <4>1. i = Len(nodes) + 1 \/ i \in 1 .. Len(nodes)
        BY <3>3 DEF IsAppend
      <4> QED BY <3>1, <3>3, <4>1 DEF IsAppend, DepthInv
    <3> QED BY <3>4 DEF DepthInv
  <2>3. nodes' = nodes \/ \E x : Added(x) /\ nodes' = Append(nodes, x)
    BY <2>0, StepAdds DEF vars
  <2> QED BY <2>1, <2>2, <2>3
<1> QED BY <1>1, <1>2, AuthorityInductive, PTL DEF Spec

\* INV-1 for any chain and any request: a child never authorizes a request that its
\* parent would refuse, whatever the holder knew, declared or appended, as long as the
\* blocks of other writers do not demand a minimal depth.
THEOREM DelegationNoWidening ==
    ASSUME ForeignDepthFromAbove
    PROVE  Spec => []NoWidening
<1>1. DepthInv => NoWidening
  <2> SUFFICES ASSUME DepthInv, NEW i \in DOMAIN nodes, NEW c \in Contexts,
                      nodes[i].parent # 0, Authorizes(nodes[i], At(c, nodes[i]))
               PROVE  Authorizes(nodes[nodes[i].parent], At(c, nodes[nodes[i].parent]))
    BY Zenon DEF NoWidening
  <2> DEFINE n == nodes[i]
             q == nodes[n.parent]
  <2>1. NodesOK(nodes) /\ i \in 1 .. Len(nodes)
    BY DEF DepthInv, AuthorityInv, NodesOK
  <2>2. NodeOK(n) /\ LinkOK(nodes, n)
    BY <2>1 DEF NodesOK
  <2>3. /\ n.parent \in 1 .. Len(nodes) /\ Len(n.blocks) = Len(q.blocks) + 1
        /\ \A b \in 1 .. Len(q.blocks) : n.blocks[b] = q.blocks[b]
    BY <2>2 DEF LinkOK
  <2>4. NodeOK(q) /\ DepthOK(q)
    BY <2>1, <2>3 DEF NodesOK, DepthInv
  <2>5. /\ DOMAIN n.blocks = 1 .. Len(n.blocks) /\ DOMAIN q.blocks = 1 .. Len(q.blocks)
        /\ Len(n.blocks) \in Nat /\ Len(q.blocks) \in Nat
    BY <2>2, <2>4 DEF NodeOK, ChainOK
  <2>6. Depth(n) \in Int /\ Depth(q) \in Int /\ Depth(q) <= Depth(n)
    BY <2>3, <2>5 DEF Depth
  <2>7. ASSUME NEW b \in DOMAIN q.blocks, NEW j \in DOMAIN q.blocks[b]
        PROVE  Passes(q.blocks[b][j], q.blocks[b], RequestFacts(At(c, q)), GrantFacts(q.mandate))
    <3>1. b \in DOMAIN n.blocks /\ n.blocks[b] = q.blocks[b]
      BY <2>3, <2>5
    <3>2. Passes(q.blocks[b][j], q.blocks[b], RequestFacts(At(c, n)), GrantFacts(q.mandate))
      BY <2>2, <3>1 DEF Authorizes, BlockPasses, LinkOK
    <3>3. DepthFromAbove(q.blocks[b][j])
      BY <2>4 DEF DepthOK
    <3> HIDE DEF n, q
    <3> QED BY <2>6, <3>2, <3>3, PassesHigherUp
  <2> QED BY <2>7, Zenon DEF Authorizes, BlockPasses
<1> QED BY <1>1, DepthInductive, PTL

-----------------------------------------------------------------------------
(* What a holder is shown *)

\* Every caveat the holder knows of is in force in some block of the chain, and that block
\* brings no facts of its own that could satisfy it.
KnownOK(n) ==
    /\ ValidCaveats(n.known)
    /\ \A k \in DOMAIN n.known :
          \E b \in DOMAIN n.blocks :
              Silent(n.blocks[b]) /\ Holds(n.blocks[b], ToDatalog(n.known[k]))

KnownInv == AuthorityInv /\ \A i \in 1 .. Len(nodes) : KnownOK(nodes[i])

\* One list of caveats after another.
AreCaveats(r, a, b) ==
    /\ ValidCaveats(r) /\ DOMAIN r = 1 .. Len(a) + Len(b)
    /\ Len(a) \in Nat /\ Len(b) \in Nat
    /\ DOMAIN a = 1 .. Len(a) /\ DOMAIN b = 1 .. Len(b)
    /\ \A i \in 1 .. Len(a) : r[i] = a[i]
    /\ \A i \in 1 .. Len(b) : r[Len(a) + i] = b[i]

LEMMA ValidConcat ==
    ASSUME NEW a, ValidCaveats(a), NEW b, ValidCaveats(b)
    PROVE  AreCaveats(a \o b, a, b)
<1> DEFINE V == {c \in ToSet(a) \cup ToSet(b) : ValidCaveat(c)}
           r == a \o b
<1>1. ASSUME NEW A, NEW B, NEW q, q \in Seq(A), A \subseteq B PROVE q \in Seq(B)
  BY <1>1
<1>2. a \in Seq(V) /\ b \in Seq(V)
  <2>1. /\ {c \in ToSet(a) : ValidCaveat(c)} \subseteq V
        /\ {c \in ToSet(b) : ValidCaveat(c)} \subseteq V
    OBVIOUS
  <2> HIDE DEF V
  <2> QED BY <1>1, <2>1 DEF ValidCaveats
<1>3. \A x \in V : ValidCaveat(x)
  OBVIOUS
<1> HIDE DEF V
<1>4. IsConcat(r, V, a, b)
  BY <1>2, Concat
<1> HIDE DEF r
<1>5. r \in Seq(ToSet(r)) /\ DOMAIN r = 1 .. Len(r) /\ Len(r) \in Nat
  BY <1>4, SeqOfItself DEF IsConcat
<1>6. \A i \in 1 .. Len(r) : r[i] \in ToSet(r) /\ ValidCaveat(r[i])
  BY <1>3, <1>4, <1>5 DEF IsConcat, ToSet
<1> DEFINE W == {c \in ToSet(r) : ValidCaveat(c)}
<1>7. \A i \in 1 .. Len(r) : r[i] \in W
  BY <1>6
<1>8. r \in Seq(W)
  <2> HIDE DEF W
  <2> QED BY <1>5, <1>7
<1>9. DOMAIN a = 1 .. Len(a) /\ DOMAIN b = 1 .. Len(b)
  BY <1>2
<1> QED BY <1>4, <1>8, <1>9 DEF IsConcat, ValidCaveats, r, AreCaveats

\* What is added is known only if it is in force.
LEMMA AddedKnown ==
    ASSUME KnownInv, NEW x, Added(x)
    PROVE  KnownOK(x)
<1>1. NodesOK(nodes)
  BY DEF KnownInv, AuthorityInv
<1>2. ValidCaveats(<<>>) /\ DOMAIN <<>> = {}
  BY DEF ValidCaveats
<1>3. ASSUME NEW m, NEW k, MandateOK(m), x = Root(MintRoot(m, k)) PROVE KnownOK(x)
  <2>1. x.known = <<>>
    BY <1>3, RootNode
  <2> QED BY <1>2, <2>1 DEF KnownOK
<1>4. ASSUME NEW p \in DOMAIN nodes, NEW st, NEW via, NEW agent, NEW declared, NEW known,
             NewBlock(p, st, via, agent, declared, known),
             x = Under(p, st, via, agent, declared, known)
      PROVE  KnownOK(x)
  <2> DEFINE n == nodes[p]
             q == n.blocks
             In(c) == \E b \in DOMAIN x.blocks : Silent(x.blocks[b]) /\ Holds(x.blocks[b], ToDatalog(c))
  <2>1. x.blocks = Append(q, st) /\ x.known = known
    BY <1>1, <1>4, UnderNode
  <2>2. p \in 1 .. Len(nodes)
    BY <1>1 DEF NodesOK
  <2>3. NodeOK(n) /\ KnownOK(n)
    BY <1>1, <2>2 DEF KnownInv, NodesOK
  <2>4. q \in Seq(ToSet(q)) /\ DOMAIN q = 1 .. Len(q)
    BY <2>3 DEF NodeOK, ChainOK
  <2>5. IsAppend(x.blocks, q, st)
    <3> HIDE DEF q
    <3> QED BY <2>1, <2>4, AppendAny
  <2>6. ASSUME NEW k \in DOMAIN n.known PROVE In(n.known[k])
    <3>1. PICK b \in DOMAIN q : Silent(q[b]) /\ Holds(q[b], ToDatalog(n.known[k]))
      BY <2>3 DEF KnownOK
    <3>2. b \in DOMAIN x.blocks /\ x.blocks[b] = q[b]
      BY <2>4, <2>5 DEF IsAppend
    <3> QED BY <3>1, <3>2
  <2>7. ASSUME ValidCaveats(declared), st = BlockStatements(agent, declared),
               NEW k \in DOMAIN declared
        PROVE  In(declared[k])
    <3>1. Silent(st) /\ Holds(st, ToDatalog(declared[k]))
      BY <2>7, BlockHolds, BlockWritten
    <3>2. Len(q) + 1 \in DOMAIN x.blocks /\ x.blocks[Len(q) + 1] = st
      BY <2>5 DEF IsAppend
    <3> QED BY <3>1, <3>2
  <2>8. CASE known = <<>>
    BY <1>2, <2>1, <2>8 DEF KnownOK
  <2>9. CASE /\ ValidCaveats(declared) /\ st = BlockStatements(agent, declared)
             /\ known = declared
    BY <2>1, <2>7, <2>9, Zenon DEF KnownOK
  <2>10. CASE /\ ValidCaveats(declared) /\ st = BlockStatements(agent, declared)
              /\ known = n.known \o declared
    <3> HIDE DEF In
    <3>1. ValidCaveats(n.known)
      BY <2>3 DEF KnownOK
    <3>2. /\ ValidCaveats(known) /\ DOMAIN known = 1 .. Len(n.known) + Len(declared)
          /\ Len(n.known) \in Nat /\ Len(declared) \in Nat
          /\ DOMAIN n.known = 1 .. Len(n.known) /\ DOMAIN declared = 1 .. Len(declared)
          /\ \A i \in 1 .. Len(n.known) : known[i] = n.known[i]
          /\ \A i \in 1 .. Len(declared) : known[Len(n.known) + i] = declared[i]
      <4>1. AreCaveats(known, n.known, declared)
        BY <2>10, <3>1, ValidConcat
      <4> QED BY <4>1 DEF AreCaveats
    <3>3. ASSUME NEW k \in DOMAIN known PROVE In(known[k])
      <4>1. CASE k \in 1 .. Len(n.known)
        BY <2>6, <3>2, <4>1
      <4>2. CASE k \notin 1 .. Len(n.known)
        <5> DEFINE j == k - Len(n.known)
        <5>1. j \in 1 .. Len(declared) /\ k = Len(n.known) + j
          BY <3>2, <4>2
        <5> HIDE DEF j
        <5>2. In(declared[j])
          BY <2>7, <2>10, <3>2, <5>1
        <5> QED BY <3>2, <5>1, <5>2
      <4> QED BY <4>1, <4>2
    <3> QED BY <2>1, <3>2, <3>3 DEF KnownOK, In
  <2> QED BY <1>4, <2>8, <2>9, <2>10 DEF NewBlock
<1> QED BY <1>3, <1>4, Zenon DEF Added

LEMMA KnownInductive == Spec => []KnownInv
<1>1. Init => KnownInv
  <2>1. Init => \A i \in 1 .. Len(nodes) : KnownOK(nodes[i])
    BY DEF Init
  <2> QED BY <2>1, AuthorityInit DEF KnownInv
<1>2. KnownInv /\ [Next]_vars /\ AuthorityInv' => KnownInv'
  <2> SUFFICES ASSUME KnownInv, [Next]_vars, AuthorityInv'
               PROVE  KnownInv'
    OBVIOUS
  <2>0. AuthorityInv
    BY DEF KnownInv
  <2>1. CASE nodes' = nodes
    BY <2>1 DEF KnownInv
  <2>2. ASSUME NEW x, Added(x), nodes' = Append(nodes, x) PROVE KnownInv'
    <3>1. KnownOK(x)
      BY <2>2, AddedKnown
    <3>2. nodes \in Seq(ToSet(nodes))
      BY <2>0 DEF AuthorityInv, NodesOK
    <3>3. IsAppend(nodes', nodes, x)
      BY <2>2, <3>2, AppendAny
    <3>4. ASSUME NEW i \in 1 .. Len(nodes') PROVE KnownOK(nodes'[i])
      <4>1. i = Len(nodes) + 1 \/ i \in 1 .. Len(nodes)
        BY <3>3 DEF IsAppend
      <4> QED BY <3>1, <3>3, <4>1 DEF IsAppend, KnownInv
    <3> QED BY <3>4 DEF KnownInv
  <2>3. nodes' = nodes \/ \E x : Added(x) /\ nodes' = Append(nodes, x)
    BY <2>0, StepAdds DEF vars
  <2> QED BY <2>1, <2>2, <2>3
<1> QED BY <1>1, <1>2, AuthorityInductive, PTL DEF Spec

\* What a caveat that is in force says of a request that is authorized.
Obeys(ctx, c) ==
    /\ c.kind = "scope_subset" => ctx.operation \in c.scopes
    /\ c.kind = "budget_ceiling" =>
          c.dimension \in Dimensions /\ c.value \in Int /\ ctx.requested[c.dimension] <= c.value
    /\ c.kind = "time_window" =>
          /\ c.not_before # NoTime =>
                c.not_before \in Int /\ datalog_date(c.not_before) <= datalog_date(ctx.now)
          /\ c.not_after # NoTime =>
                c.not_after \in Int /\ datalog_date(ctx.now) < datalog_date(c.not_after)
    /\ c.kind = "tool_allow" => ctx.tool \in c.tools /\ ctx.tool \in Tools
    /\ c.kind = "tool_deny" => ctx.tool \notin c.tools
    /\ c.kind = "depth_limit" => c.max_depth \in Int /\ ctx.current_depth <= c.max_depth
    /\ c.kind = "intent_bound" => ctx.request_intent = c.intent_hash

\* The fold of caveats that a request obeys permits it.
LEMMA BoundPermits ==
    ASSUME NEW n \in Nat, NEW cs, DOMAIN cs = 1 .. n,
           NEW ctx, ctx.now \in Int, ctx.operation \in Scopes, ctx.tool \in Tools \cup {NoTool},
           \A i \in 1 .. n : Obeys(ctx, cs[i]),
           \E i \in 1 .. n : cs[i].kind = "time_window" /\ cs[i].not_before # NoTime,
           \E i \in 1 .. n : cs[i].kind = "depth_limit",
           \E i \in 1 .. n : cs[i].kind = "intent_bound"
    PROVE  Permits([EffectiveBound(cs) EXCEPT !.not_before = datalog_date(@) * Second], ctx)
<1> DEFINE B == EffectiveBound(cs)
           P == [B EXCEPT !.not_before = datalog_date(@) * Second]
           K(k) == Kind(cs, k)
           ceilings(d) == {i \in K("budget_ceiling") : cs[i].dimension = d}
           lower == {i \in K("time_window") : cs[i].not_before # NoTime}
           upper == {i \in K("time_window") : cs[i].not_after # NoTime}
<1>1. \A k : K(k) \in SUBSET (1 .. n) /\ \A i \in K(k) : cs[i].kind = k /\ Obeys(ctx, cs[i])
  BY DEF Kind
<1>2. lower # {} /\ K("depth_limit") # {} /\ K("intent_bound") # {}
  BY DEF Kind
<1>3. /\ P.scopes = {s \in Scopes : \A i \in K("scope_subset") : s \in cs[i].scopes}
      /\ P.budget = [d \in {d \in Dimensions : ceilings(d) # {}} |->
                        MinOf({cs[i].value : i \in ceilings(d)})]
      /\ P.not_before = datalog_date(IF lower = {} THEN NoTime
                                     ELSE MaxOf({cs[i].not_before : i \in lower})) * Second
      /\ P.not_after = IF upper = {} THEN NoTime ELSE MinOf({cs[i].not_after : i \in upper})
      /\ P.tools_allowed =
            IF K("tool_allow") = {} THEN Tools \cup {NoTool}
            ELSE {t \in Tools : \A i \in K("tool_allow") : t \in cs[i].tools}
      /\ P.tools_denied = Denied(cs)
      /\ P.max_depth = MinOf({cs[i].max_depth : i \in K("depth_limit")})
      /\ P.intent_hash = cs[MaxOf(K("intent_bound"))].intent_hash
  BY DEF EffectiveBound
<1>4. Denied(cs) = UNION {cs[i].tools : i \in K("tool_deny")}
  BY DEF Denied
<1> HIDE DEF B, P, K
<1>5. ctx.operation \in P.scopes
  BY <1>1, <1>3 DEF Obeys
<1>6. ASSUME NEW d \in DOMAIN P.budget PROVE ctx.requested[d] <= P.budget[d]
  <2> DEFINE C == ceilings(d)
             v == [i \in C |-> cs[i].value]
  <2>1. d \in Dimensions /\ C # {} /\ P.budget[d] = MinOf({cs[i].value : i \in C})
    BY <1>3
  <2>2. C \in SUBSET (1 .. n) /\ \A i \in C : cs[i].value \in Int /\ ctx.requested[d] <= cs[i].value
    BY <1>1 DEF Obeys
  <2> HIDE DEF C
  <2>3. v \in [C -> Int] /\ {v[i] : i \in C} = {cs[i].value : i \in C}
        /\ \A i \in C : v[i] = cs[i].value
    BY <2>2
  <2> HIDE DEF v
  <2>4. \E i \in C : MinOf({v[j] : j \in C}) = v[i]
    BY <2>1, <2>2, <2>3, ExtremaOf
  <2> QED BY <2>1, <2>2, <2>3, <2>4
<1>7. P.not_before # NoTime /\ ctx.now >= P.not_before
  <2> DEFINE v == [i \in lower |-> cs[i].not_before]
  <2>1. lower \in SUBSET (1 .. n)
        /\ \A i \in lower : /\ cs[i].not_before \in Int
                            /\ datalog_date(cs[i].not_before) <= datalog_date(ctx.now)
    BY <1>1 DEF Obeys
  <2>2. P.not_before = datalog_date(MaxOf({cs[i].not_before : i \in lower})) * Second
    BY <1>2, <1>3
  <2>3. lower # {}
    BY <1>2
  <2> HIDE DEF lower
  <2>4. v \in [lower -> Int] /\ {v[i] : i \in lower} = {cs[i].not_before : i \in lower}
        /\ \A i \in lower : v[i] = cs[i].not_before
    BY <2>1
  <2> HIDE DEF v
  <2>5. PICK i \in lower : MaxOf({v[j] : j \in lower}) = v[i]
    BY <2>1, <2>3, <2>4, ExtremaOf
  <2> DEFINE a == datalog_date(cs[i].not_before)
             b == datalog_date(ctx.now)
  <2>6. P.not_before = a * Second /\ a <= b
    BY <2>1, <2>2, <2>4, <2>5
  <2>7. a \in Int /\ b \in Int /\ b * Second <= ctx.now
    BY <2>1, DateOrder
  <2> HIDE DEF a, b
  <2>8. a * Second \in Int /\ a * Second <= b * Second /\ b * Second \in Int
    BY <2>6, <2>7, CaveatConstants
  <2> QED BY <2>6, <2>7, <2>8, CaveatConstants
<1>8. P.not_after = NoTime \/ ctx.now < P.not_after
  <2> SUFFICES ASSUME upper # {} PROVE ctx.now < P.not_after
    BY <1>3
  <2> DEFINE v == [i \in upper |-> cs[i].not_after]
  <2>1. upper \in SUBSET (1 .. n)
        /\ \A i \in upper : /\ cs[i].not_after \in Int
                            /\ datalog_date(ctx.now) < datalog_date(cs[i].not_after)
    BY <1>1 DEF Obeys
  <2>2. P.not_after = MinOf({cs[i].not_after : i \in upper})
    BY <1>3
  <2> HIDE DEF upper
  <2>3. v \in [upper -> Int] /\ {v[i] : i \in upper} = {cs[i].not_after : i \in upper}
        /\ \A i \in upper : v[i] = cs[i].not_after
    BY <2>1
  <2> HIDE DEF v
  <2>4. PICK i \in upper : MinOf({v[j] : j \in upper}) = v[i]
    BY <2>1, <2>3, ExtremaOf
  <2>5. P.not_after = cs[i].not_after
    BY <2>2, <2>3, <2>4
  <2> QED BY <2>1, <2>5, DateOrder
<1>9. ctx.tool \in P.tools_allowed
  BY <1>1, <1>3 DEF Obeys
<1>10. ctx.tool \notin P.tools_denied
  BY <1>1, <1>3, <1>4 DEF Obeys
<1>11. ctx.current_depth <= P.max_depth
  <2> DEFINE C == K("depth_limit")
             v == [i \in C |-> cs[i].max_depth]
  <2>1. C \in SUBSET (1 .. n) /\ C # {}
        /\ \A i \in C : cs[i].max_depth \in Int /\ ctx.current_depth <= cs[i].max_depth
    BY <1>1, <1>2 DEF Obeys
  <2>2. P.max_depth = MinOf({cs[i].max_depth : i \in C})
    BY <1>3
  <2> HIDE DEF C
  <2>3. v \in [C -> Int] /\ {v[i] : i \in C} = {cs[i].max_depth : i \in C}
        /\ \A i \in C : v[i] = cs[i].max_depth
    BY <2>1
  <2> HIDE DEF v
  <2>4. \E i \in C : MinOf({v[j] : j \in C}) = v[i]
    BY <2>1, <2>3, ExtremaOf
  <2> QED BY <2>1, <2>2, <2>3, <2>4
<1>12. ctx.request_intent = P.intent_hash
  <2> DEFINE C == K("intent_bound")
             v == [i \in C |-> 0]
  <2>1. C \in SUBSET (1 .. n) /\ C # {} /\ v \in [C -> Int]
    BY <1>1, <1>2
  <2>2. \A i \in C : ctx.request_intent = cs[i].intent_hash
    BY <1>1 DEF Obeys
  <2>3. P.intent_hash = cs[MaxOf(C)].intent_hash
    BY <1>3
  <2> HIDE DEF C, v
  <2>4. MaxOf(C) \in C
    BY <2>1, ExtremaOf
  <2> QED BY <2>2, <2>3, <2>4
<1>13. Permits(P, ctx)
  BY <1>5, <1>6, <1>7, <1>8, <1>9, <1>10, <1>11, <1>12 DEF Permits, InWindow
<1> QED BY <1>13 DEF P, B

\* A caveat in force is obeyed.
LEMMA KnownObeyed ==
    ASSUME NEW t, NEW c \in Contexts, Authorizes(t, At(c, t)), NEW b \in DOMAIN t.blocks,
           NEW a, ValidCaveat(a), Silent(t.blocks[b]), Holds(t.blocks[b], ToDatalog(a))
    PROVE  Obeys(At(c, t), a)
<1> DEFINE ctx == At(c, t)
           F == RequestFacts(ctx)
           q == ToDatalog(a)
<1>1. ASSUME NEW j \in DOMAIN q, q[j].fact \in REQUEST_FACTS, q[j].op # "joins",
             q[j].key \in DOMAIN F[q[j].fact]
      PROVE  SeenAlone(q[j], F)
  <2>1. PICK i \in DOMAIN t.blocks[b] : t.blocks[b][i] = q[j]
    BY DEF Holds
  <2>2. Passes(q[j], t.blocks[b], F, GrantFacts(t.mandate))
    BY <2>1 DEF Authorizes, BlockPasses
  <2> HIDE DEF q, ctx
  <2> QED BY <1>1, <2>2, PassesAlone
<1>0. /\ \A fact \in {"operation", "current_depth", "request_intent", "time", "tool"} :
            fact \in REQUEST_FACTS /\ NoKey \in DOMAIN F[fact]
      /\ "requested" \in REQUEST_FACTS /\ DOMAIN F["requested"] = Dimensions
  BY DEF RequestFacts, REQUEST_FACTS
<1>2. ASSUME NEW form, NEW fact \in REQUEST_FACTS, NEW key \in DOMAIN F[fact], NEW op,
             op # "joins", NEW term, NEW j \in DOMAIN q, q[j] = Clause(form, fact, key, op, term)
      PROVE  SeenAlone(Clause(form, fact, key, op, term), F)
  <2>1. q[j].fact = fact /\ q[j].key = key /\ q[j].op = op
    BY <1>2 DEF Clause
  <2> HIDE DEF q, F
  <2> QED BY <1>1, <1>2, <2>1
<1>12. ASSUME NEW x, q = <<x>> PROVE 1 \in DOMAIN q /\ q[1] = x
  <2> HIDE DEF q
  <2> QED BY <1>12
<1>3. /\ c.requested \in [Dimensions -> Nat] /\ c.now \in Int /\ c.tool \in Tools \cup {NoTool}
      /\ ctx.requested = c.requested /\ ctx.now = c.now /\ ctx.tool = c.tool
  BY AtContext
<1>4. ASSUME a.kind = "scope_subset" PROVE ctx.operation \in a.scopes
  <2>1. q = <<Clause("check", "operation", NoKey, "in", a.scopes)>>
    BY <1>4 DEF ToDatalog
  <2>2. SeenAlone(Clause("check", "operation", NoKey, "in", a.scopes), F)
    <3> HIDE DEF q, F
    <3> QED BY <1>0, <1>2, <1>12, <2>1
  <2> QED BY <2>2, CheckPasses
<1>5. ASSUME a.kind = "budget_ceiling"
      PROVE  a.dimension \in Dimensions /\ a.value \in Int /\ ctx.requested[a.dimension] <= a.value
  <2>1. q = <<Clause("check", "requested", a.dimension, "le", scale(a.value))>>
    BY <1>5 DEF ToDatalog
  <2>3. a.dimension \in Dimensions /\ a.value \in Nat
    BY <1>5 DEF ValidCaveat
  <2>2. SeenAlone(Clause("check", "requested", a.dimension, "le", scale(a.value)), F)
    <3> HIDE DEF q, F
    <3> QED BY <1>0, <1>2, <1>12, <2>1, <2>3
  <2>4. scale(ctx.requested[a.dimension]) <= scale(a.value)
    BY <2>2, <2>3, CheckPasses
  <2>5. ctx.requested[a.dimension] \in Int
    BY <1>3, <2>3
  <2> QED BY <2>3, <2>4, <2>5, ScaleOrder
<1>6. ASSUME a.kind = "time_window"
      PROVE  /\ a.not_before # NoTime =>
                   a.not_before \in Int /\ datalog_date(a.not_before) <= datalog_date(ctx.now)
             /\ a.not_after # NoTime =>
                   a.not_after \in Int /\ datalog_date(ctx.now) < datalog_date(a.not_after)
  <2>1. /\ a.not_before # NoTime => a.not_before \in Int
        /\ a.not_after # NoTime => a.not_after \in Int
    BY <1>6 DEF ValidCaveat
  <2>2. ASSUME a.not_before # NoTime PROVE datalog_date(a.not_before) <= datalog_date(ctx.now)
    <3>1. PICK j \in DOMAIN q :
              q[j] = Clause("check", "time", NoKey, "ge", datalog_date(a.not_before))
      BY <1>6, <2>2, WindowClauses
    <3>2. SeenAlone(Clause("check", "time", NoKey, "ge", datalog_date(a.not_before)), F)
      <4> HIDE DEF q, F
      <4> QED BY <1>0, <1>2, <3>1
    <3>3. datalog_date(ctx.now) >= datalog_date(a.not_before)
      BY <3>2, CheckPasses
    <3>4. datalog_date(ctx.now) \in Int /\ datalog_date(a.not_before) \in Int
      BY <1>3, <2>1, <2>2, DateOrder
    <3> QED BY <3>3, <3>4
  <2>3. ASSUME a.not_after # NoTime PROVE datalog_date(ctx.now) < datalog_date(a.not_after)
    <3>1. PICK j \in DOMAIN q :
              q[j] = Clause("check", "time", NoKey, "lt", datalog_date(a.not_after))
      BY <1>6, <2>3, WindowClauses
    <3>2. SeenAlone(Clause("check", "time", NoKey, "lt", datalog_date(a.not_after)), F)
      <4> HIDE DEF q, F
      <4> QED BY <1>0, <1>2, <3>1
    <3> QED BY <3>2, CheckPasses
  <2> QED BY <2>1, <2>2, <2>3
<1>7. ASSUME a.kind = "tool_allow" PROVE ctx.tool \in a.tools /\ ctx.tool \in Tools
  <2>1. q = <<Clause("check", "tool", NoKey, "in", a.tools)>>
    BY <1>7 DEF ToDatalog
  <2>2. SeenAlone(Clause("check", "tool", NoKey, "in", a.tools), F)
    <3> HIDE DEF q, F
    <3> QED BY <1>0, <1>2, <1>12, <2>1
  <2>3. a.tools \subseteq Tools
    BY <1>7 DEF ValidCaveat
  <2>4. ctx.tool \in a.tools
    BY <2>2, ToolPasses
  <2> QED BY <2>3, <2>4
<1>8. ASSUME a.kind = "tool_deny" PROVE ctx.tool \notin a.tools
  <2>1. q = <<Clause("reject", "tool", NoKey, "in", a.tools)>>
    BY <1>8 DEF ToDatalog
  <2>2. SeenAlone(Clause("reject", "tool", NoKey, "in", a.tools), F)
    <3> HIDE DEF q, F
    <3> QED BY <1>0, <1>2, <1>12, <2>1
  <2>3. a.tools \subseteq Tools /\ NoTool \notin Tools
    BY <1>8, CaveatConstants DEF ValidCaveat
  <2>4. ctx.tool = NoTool \/ ctx.tool \notin a.tools
    BY <2>2, ToolPasses
  <2> QED BY <2>3, <2>4
<1>9. ASSUME a.kind = "depth_limit" PROVE a.max_depth \in Int /\ ctx.current_depth <= a.max_depth
  <2>1. q = <<Clause("check", "current_depth", NoKey, "le", a.max_depth)>>
    BY <1>9 DEF ToDatalog
  <2>2. SeenAlone(Clause("check", "current_depth", NoKey, "le", a.max_depth), F)
    <3> HIDE DEF q, F
    <3> QED BY <1>0, <1>2, <1>12, <2>1
  <2>3. a.max_depth \in Int
    BY <1>9 DEF ValidCaveat
  <2> QED BY <2>2, <2>3, CheckPasses
<1>10. ASSUME a.kind = "intent_bound" PROVE ctx.request_intent = a.intent_hash
  <2>1. q = <<Clause("check", "request_intent", NoKey, "eq", a.intent_hash)>>
    BY <1>10 DEF ToDatalog
  <2>2. SeenAlone(Clause("check", "request_intent", NoKey, "eq", a.intent_hash), F)
    <3> HIDE DEF q, F
    <3> QED BY <1>0, <1>2, <1>12, <2>1
  <2> QED BY <2>2, CheckPasses
<1> HIDE DEF ctx, F, q
<1>11. Obeys(ctx, a)
  BY <1>4, <1>5, <1>6, <1>7, <1>8, <1>9, <1>10 DEF Obeys
<1> QED BY <1>11 DEF ctx

\* The grant, as caveats, is obeyed.
LEMMA GrantObeyed ==
    ASSUME NEW t, NodeOK(t), NEW c \in Contexts, Authorizes(t, At(c, t))
    PROVE  LET G == GrantCaveats(Grant(t))
               n == Len(DimensionOrder)
           IN  /\ n \in Nat /\ DOMAIN G = 1 .. n + 4 /\ G \in Seq(ToSet(G))
               /\ \A i \in 1 .. n + 4 : Obeys(At(c, t), G[i])
               /\ G[2].kind = "depth_limit" /\ G[3].kind = "intent_bound"
               /\ G[4].kind = "time_window" /\ G[4].not_before # NoTime
<1> DEFINE m == t.mandate
           ctx == At(c, t)
           n == Len(DimensionOrder)
           G == GrantCaveats(Grant(t))
           d(i) == DimensionOrder[i]
           from == datalog_date(m.not_before) * Second
           to == datalog_date(m.expires_at) * Second
<1>1. MandateOK(m)
  BY DEF NodeOK, ChainOK
<1>2. /\ ctx.operation \in m.scopes
      /\ \A x \in Dimensions : ctx.requested[x] <= m.budget[x]
      /\ ctx.request_intent = m.intent_hash
      /\ Depth(t) <= m.max_depth
      /\ datalog_date(m.not_before) <= datalog_date(ctx.now)
      /\ datalog_date(ctx.now) < datalog_date(m.expires_at)
  BY AuthorizedIsGranted
<1>3. ctx.current_depth = Depth(t)
  BY AtContext
<1>4. /\ n \in Nat /\ DOMAIN G = 1 .. n + 4 /\ G \in Seq(ToSet(G))
      /\ G[1] = ScopeSubset(m.scopes) /\ G[2] = DepthLimit(m.max_depth)
      /\ G[3] = IntentBound(m.intent_hash) /\ G[4] = TimeWindow(from, to)
      /\ \A i \in 1 .. n : d(i) \in Dimensions /\ G[4 + i] = BudgetCeiling(d(i), m.budget[d(i)])
  BY GrantList DEF NodeOK
<1> HIDE DEF ctx, G, n
<1>5. Obeys(ctx, G[1]) /\ Obeys(ctx, G[3])
  BY <1>2, <1>4 DEF Obeys, ScopeSubset, IntentBound
<1>6. Obeys(ctx, G[2])
  BY <1>1, <1>2, <1>3, <1>4 DEF Obeys, DepthLimit, MandateOK
<1>7. Obeys(ctx, G[4]) /\ G[4].not_before # NoTime
  <2>1. m.not_before \in Int /\ m.expires_at \in Int /\ NoTime \notin Int
    BY <1>1, CaveatConstants DEF MandateOK
  <2>2. /\ from \in Int /\ to \in Int
        /\ datalog_date(from) = datalog_date(m.not_before)
        /\ datalog_date(to) = datalog_date(m.expires_at)
    BY <2>1, DateOfDate
  <2> HIDE DEF m, from, to
  <2> QED BY <1>2, <1>4, <2>1, <2>2 DEF Obeys, TimeWindow
<1>8. ASSUME NEW i \in 1 .. n PROVE Obeys(ctx, G[4 + i])
  <2>1. PICK x \in Dimensions : G[4 + i] = BudgetCeiling(x, m.budget[x])
    BY <1>4
  <2>2. m.budget[x] \in Int
    BY <1>1 DEF MandateOK, Budget
  <2> HIDE DEF m
  <2> QED BY <1>2, <2>1, <2>2 DEF Obeys, BudgetCeiling
<1>9. ASSUME NEW i \in 1 .. n + 4 PROVE Obeys(ctx, G[i])
  <2>1. CASE i \in {1, 2, 3, 4}
    BY <1>5, <1>6, <1>7, <2>1
  <2>2. CASE i \notin {1, 2, 3, 4}
    <3> DEFINE j == i - 4
    <3>1. j \in 1 .. n /\ i = 4 + j
      BY <1>4, <2>2
    <3> HIDE DEF j
    <3> QED BY <1>8, <3>1
  <2> QED BY <2>1, <2>2
<1>10. G[2].kind = "depth_limit" /\ G[3].kind = "intent_bound" /\ G[4].kind = "time_window"
  BY <1>4 DEF DepthLimit, IntentBound, TimeWindow
<1> QED BY <1>4, <1>7, <1>9, <1>10 DEF G, n, ctx

\* What an SDK holder is shown is never less than what its token authorizes, for any
\* chain, any caveats and any hand-overs in between (AgentIdentity.authority, "an upper
\* bound, never an understatement").
THEOREM DelegationHolderSeesUpperBound == Spec => []HolderSeesUpperBound
<1>1. KnownInv => HolderSeesUpperBound
  <2> SUFFICES ASSUME KnownInv, NEW i \in DOMAIN nodes, NEW c \in Contexts,
                      Authorizes(nodes[i], At(c, nodes[i]))
               PROVE  Permits([Identity(nodes[i]) EXCEPT !.not_before = datalog_date(@) * Second],
                              At(c, nodes[i]))
    BY Zenon DEF HolderSeesUpperBound
  <2> DEFINE t == nodes[i]
             ctx == At(c, t)
             G == GrantCaveats(Grant(t))
             cs == G \o t.known
             n == Len(DimensionOrder)
  <2>1. NodesOK(nodes) /\ i \in 1 .. Len(nodes)
    BY DEF KnownInv, AuthorityInv, NodesOK
  <2>2. NodeOK(t) /\ KnownOK(t)
    BY <2>1 DEF NodesOK, KnownInv
  <2>3. /\ n \in Nat /\ DOMAIN G = 1 .. n + 4 /\ G \in Seq(ToSet(G))
        /\ \A k \in 1 .. n + 4 : Obeys(ctx, G[k])
        /\ G[2].kind = "depth_limit" /\ G[3].kind = "intent_bound"
        /\ G[4].kind = "time_window" /\ G[4].not_before # NoTime
    BY <2>2, GrantObeyed
  <2>4. \A k \in DOMAIN t.known : Obeys(ctx, t.known[k])
    <3> SUFFICES ASSUME NEW k \in DOMAIN t.known PROVE Obeys(ctx, t.known[k])
      OBVIOUS
    <3>1. PICK b \in DOMAIN t.blocks :
              Silent(t.blocks[b]) /\ Holds(t.blocks[b], ToDatalog(t.known[k]))
      BY <2>2 DEF KnownOK
    <3>2. ValidCaveat(t.known[k])
      BY <2>2 DEF KnownOK, ValidCaveats
    <3> HIDE DEF t
    <3> QED BY <3>1, <3>2, KnownObeyed DEF t
  <2>5. t.known \in Seq(ToSet(t.known))
    <3>1. t.known \in Seq({x \in ToSet(t.known) : ValidCaveat(x)})
      BY <2>2 DEF KnownOK, ValidCaveats
    <3> HIDE DEF t
    <3> QED BY <3>1, SeqOfItself
  <2>6. /\ ctx.now \in Int /\ ctx.tool \in Tools \cup {NoTool}
    BY AtContext
  <2>7. ctx.operation \in Scopes
    <3>1. ctx.operation \in t.mandate.scopes
      BY <2>2, AuthorizedIsGranted
    <3>2. t.mandate.scopes \subseteq Scopes
      BY <2>2 DEF NodeOK, ChainOK, MandateOK
    <3> QED BY <3>1, <3>2
  <2>8. Identity(t) = EffectiveBound(cs)
    BY DEF Identity
  <2> DEFINE k0 == t.known
  <2> HIDE DEF ctx, G, n, t
  <2>9. k0 \in Seq(ToSet(k0)) /\ cs = G \o k0 /\ \A k \in DOMAIN k0 : Obeys(ctx, k0[k])
    BY <2>4, <2>5
  <2> HIDE DEF k0, cs
  <2> DEFINE S == ToSet(G) \cup ToSet(k0)
  <2>10. G \in Seq(S) /\ k0 \in Seq(S)
    <3>1. ASSUME NEW A, NEW B, NEW q, q \in Seq(A), A \subseteq B PROVE q \in Seq(B)
      BY <3>1
    <3>2. ToSet(G) \subseteq S /\ ToSet(k0) \subseteq S
      OBVIOUS
    <3> HIDE DEF S
    <3> QED BY <2>3, <2>9, <3>1, <3>2
  <2> HIDE DEF S
  <2>11. IsConcat(cs, S, G, k0) /\ DOMAIN k0 = 1 .. Len(k0) /\ Len(G) = n + 4
    BY <2>3, <2>9, <2>10, Concat
  <2> DEFINE N == n + 4 + Len(k0)
  <2>12. N \in Nat /\ DOMAIN cs = 1 .. N
    BY <2>3, <2>11 DEF IsConcat
  <2>13. ASSUME NEW k \in 1 .. N PROVE Obeys(ctx, cs[k])
    <3>1. CASE k \in 1 .. n + 4
      BY <2>3, <2>11, <3>1 DEF IsConcat
    <3>2. CASE k \notin 1 .. n + 4
      <4> DEFINE j == k - (n + 4)
      <4>1. j \in 1 .. Len(k0) /\ k = Len(G) + j
        BY <2>3, <2>11, <3>2 DEF IsConcat
      <4> HIDE DEF j
      <4>2. cs[k] = k0[j]
        BY <2>11, <4>1 DEF IsConcat
      <4> QED BY <2>9, <2>11, <4>1, <4>2
    <3> QED BY <3>1, <3>2
  <2>14. /\ 2 \in 1 .. N /\ 3 \in 1 .. N /\ 4 \in 1 .. N
         /\ cs[2] = G[2] /\ cs[3] = G[3] /\ cs[4] = G[4]
    BY <2>3, <2>11, <2>12 DEF IsConcat
  <2> HIDE DEF N
  <2>15. Permits([EffectiveBound(cs) EXCEPT !.not_before = datalog_date(@) * Second], ctx)
    BY <2>3, <2>6, <2>7, <2>12, <2>13, <2>14, BoundPermits
  <2> QED BY <2>8, <2>15 DEF t, ctx
<1> QED BY <1>1, KnownInductive, PTL
-----------------------------------------------------------------------------
(* What attenuate() accepted is in force *)

IsAtomOf(x, c) == \E j \in DOMAIN Atoms(c) : Atoms(c)[j] = x

\* A caveat is its own atom, but for a window with two bounds, which has one for each.
LEMMA AtomsOf ==
    ASSUME NEW c
    PROVE  /\ Atoms(c) \in Seq(ToSet(Atoms(c)))
           /\ c.kind # "time_window" => \A x : IsAtomOf(x, c) <=> x = c
           /\ c.kind = "time_window" /\ c.not_before # NoTime =>
                 \E x : /\ IsAtomOf(x, c) /\ x.kind = "time_window"
                       /\ x.not_before = c.not_before /\ x.not_after = NoTime
           /\ c.kind = "time_window" /\ c.not_after # NoTime =>
                 \E x : /\ IsAtomOf(x, c) /\ x.kind = "time_window"
                       /\ x.not_before = NoTime /\ x.not_after = c.not_after
           /\ c.kind = "time_window" =>
                 \A x : IsAtomOf(x, c) =>
                    /\ x.kind = "time_window"
                    /\ \/ x.not_after = NoTime /\ x.not_before = c.not_before
                       \/ x.not_before = NoTime /\ x.not_after = c.not_after
                    /\ x.not_before = NoTime /\ x.not_after = NoTime =>
                          c.not_before = NoTime /\ c.not_after = NoTime
<1> DEFINE l == TimeWindow(c.not_before, NoTime)
           u == TimeWindow(NoTime, c.not_after)
           two == c.kind = "time_window" /\ c.not_before # NoTime /\ c.not_after # NoTime
<1>1. /\ l.kind = "time_window" /\ l.not_before = c.not_before /\ l.not_after = NoTime
      /\ u.kind = "time_window" /\ u.not_before = NoTime /\ u.not_after = c.not_after
  BY DEF TimeWindow
<1>2. Atoms(c) = IF two THEN <<l, u>> ELSE <<c>>
  <2>1. c.kind = "time_window" => (Slot(c)[2] = "both" <=> two)
    BY DEF Slot
  <2> QED BY <2>1, Zenon DEF Atoms
<1> HIDE DEF l, u
<1>3. CASE two
  <2> DEFINE q == <<l, u>>
  <2>1. q \in Seq({l, u}) /\ DOMAIN q = {1, 2} /\ q[1] = l /\ q[2] = u
    OBVIOUS
  <2>2. q \in Seq(ToSet(q))
    BY <2>1, SeqOfItself
  <2>3. Atoms(c) = q
    BY <1>2, <1>3
  <2> HIDE DEF q
  <2>4. \A x : IsAtomOf(x, c) <=> x \in {l, u}
    BY <2>1, <2>3 DEF IsAtomOf
  <2> QED BY <1>1, <1>3, <2>2, <2>3, <2>4
<1>4. CASE ~two
  <2> DEFINE q == <<c>>
  <2>1. q \in Seq({c}) /\ DOMAIN q = {1} /\ q[1] = c
    OBVIOUS
  <2>2. q \in Seq(ToSet(q))
    BY <2>1, SeqOfItself
  <2>3. Atoms(c) = q
    BY <1>2, <1>4
  <2> HIDE DEF q
  <2>4. \A x : IsAtomOf(x, c) <=> x = c
    BY <2>1, <2>3 DEF IsAtomOf
  <2> QED BY <1>4, <2>2, <2>3, <2>4
<1> QED BY <1>3, <1>4

\* A is the atoms of cs.
AreAtoms(A, cs) ==
    /\ \A i \in DOMAIN A : \E k \in DOMAIN cs : IsAtomOf(A[i], cs[k])
    /\ \A k \in DOMAIN cs : \A x : IsAtomOf(x, cs[k]) => \E i \in DOMAIN A : A[i] = x

LEMMA AllAtomsAre ==
    ASSUME NEW S, NEW cs \in Seq(S)
    PROVE  AreAtoms(AllAtoms(cs), cs)
<1> DEFINE n == Len(cs)
           ss == [i \in DOMAIN cs |-> Atoms(cs[i])]
           T == UNION {ToSet(Atoms(cs[k])) : k \in 1 .. n}
           A == FlattenSeq(ss)
<1>1. n \in Nat /\ DOMAIN cs = 1 .. n
  OBVIOUS
<1>2. ASSUME NEW k \in 1 .. n
      PROVE  /\ Atoms(cs[k]) \in Seq(T) /\ DOMAIN Atoms(cs[k]) = 1 .. Len(Atoms(cs[k]))
  <2> DEFINE q == Atoms(cs[k])
  <2>1. q \in Seq(ToSet(q))
    BY AtomsOf
  <2>2. ToSet(q) \subseteq T
    OBVIOUS
  <2> HIDE DEF q, T
  <2>3. q \in Seq(T) /\ DOMAIN q = 1 .. Len(q)
    BY <2>1, <2>2
  <2> QED BY <2>3 DEF q
<1>3. DOMAIN ss = 1 .. n /\ \A k \in 1 .. n : ss[k] = Atoms(cs[k])
  BY <1>1
<1> HIDE DEF T
<1>4. ss \in Seq(Seq(T)) /\ Len(ss) = n
  BY <1>1, <1>2
<1> HIDE DEF ss, n
<1>5. IsFlat(A, T, ss, n)
  BY <1>4, Flattened
<1>6. AllAtoms(cs) = A
  BY DEF AllAtoms, ss
<1> HIDE DEF A
<1>7. DOMAIN A = 1 .. Len(A)
  BY <1>5 DEF IsFlat
<1>8. ASSUME NEW i \in DOMAIN A PROVE \E k \in DOMAIN cs : IsAtomOf(A[i], cs[k])
  <2>0. PICK k \in 1 .. n : \E j \in 1 .. Len(ss[k]) : A[i] = ss[k][j]
    BY <1>5, <1>7 DEF IsFlat
  <2>1. PICK j \in 1 .. Len(ss[k]) : A[i] = ss[k][j]
    BY <2>0
  <2>2. j \in DOMAIN Atoms(cs[k]) /\ A[i] = Atoms(cs[k])[j]
    BY <1>2, <1>3, <2>1
  <2> QED BY <1>1, <2>2 DEF IsAtomOf
<1>9. ASSUME NEW k \in DOMAIN cs, NEW x, IsAtomOf(x, cs[k]) PROVE \E i \in DOMAIN A : A[i] = x
  <2>1. PICK j \in DOMAIN Atoms(cs[k]) : Atoms(cs[k])[j] = x
    BY <1>9 DEF IsAtomOf
  <2>2. k \in 1 .. n /\ j \in 1 .. Len(ss[k]) /\ ss[k][j] = x
    BY <1>1, <1>2, <1>3, <2>1
  <2> QED BY <1>5, <1>7, <2>2 DEF IsFlat
<1> QED BY <1>6, <1>8, <1>9 DEF AreAtoms

\* A bound that is among the others and beyond none of them.
LEMMA ExtremumIs ==
    ASSUME NEW S \in SUBSET Int, NEW x \in S
    PROVE  /\ (\A y \in S : x <= y) => MinOf(S) = x
           /\ (\A y \in S : x >= y) => MaxOf(S) = x
<1>1. ASSUME \A y \in S : x <= y PROVE MinOf(S) = x
  <2> DEFINE z == MinOf(S)
  <2>1. z \in S /\ \A y \in S : z <= y
    BY <1>1 DEF MinOf
  <2> HIDE DEF z
  <2>2. z = x
    BY <1>1, <2>1
  <2> QED BY <2>2 DEF z
<1>2. ASSUME \A y \in S : x >= y PROVE MaxOf(S) = x
  <2> DEFINE z == MaxOf(S)
  <2>1. z \in S /\ \A y \in S : z >= y
    BY <1>2 DEF MaxOf
  <2> HIDE DEF z
  <2>2. z = x
    BY <1>2, <2>1
  <2> QED BY <2>2 DEF z
<1> QED BY <1>1, <1>2

\* In a list of caveats, the atom a is as narrow as every comparable one.
Narrowest(a, cs) ==
    /\ \E i \in DOMAIN cs : IsAtomOf(a, cs[i])
    /\ \A i \in DOMAIN cs : \A x :
          IsAtomOf(x, cs[i]) /\ Slot(x) = Slot(a) => Narrows(a, x) \/ x = a

\* The narrowest bound of its slot is the one that effective_bound() shows.
LEMMA NarrowestShown ==
    ASSUME NEW n \in Nat, NEW cs, DOMAIN cs = 1 .. n, \A i \in 1 .. n : Numeric(cs[i]),
           NEW a, ValidCaveat(a), Narrowest(a, cs)
    PROVE  Effective(a, EffectiveBound(cs))
<1> DEFINE B == EffectiveBound(cs)
           K(k) == Kind(cs, k)
           ceilings(d) == {i \in K("budget_ceiling") : cs[i].dimension = d}
           lower == {i \in K("time_window") : cs[i].not_before # NoTime}
           upper == {i \in K("time_window") : cs[i].not_after # NoTime}
<1>1. \A k : K(k) = {i \in 1 .. n : cs[i].kind = k}
  BY DEF Kind
<1>2. /\ B.scopes = {s \in Scopes : \A i \in K("scope_subset") : s \in cs[i].scopes}
      /\ B.budget = [d \in {d \in Dimensions : ceilings(d) # {}} |->
                        MinOf({cs[i].value : i \in ceilings(d)})]
      /\ B.not_before = IF lower = {} THEN NoTime ELSE MaxOf({cs[i].not_before : i \in lower})
      /\ B.not_after = IF upper = {} THEN NoTime ELSE MinOf({cs[i].not_after : i \in upper})
      /\ B.tools_allowed =
            IF K("tool_allow") = {} THEN Tools \cup {NoTool}
            ELSE {t \in Tools : \A i \in K("tool_allow") : t \in cs[i].tools}
      /\ B.tools_denied = UNION {cs[i].tools : i \in K("tool_deny")}
      /\ B.max_depth = MinOf({cs[i].max_depth : i \in K("depth_limit")})
      /\ B.intent_hash = cs[MaxOf(K("intent_bound"))].intent_hash
      /\ B.approval_required = UNION {cs[i].scopes : i \in K("requires_approval")}
  BY DEF EffectiveBound, Denied
<1>3. PICK o \in 1 .. n : IsAtomOf(a, cs[o])
  BY DEF Narrowest
<1>4. a.kind # "time_window" => cs[o] = a
  BY <1>3, AtomsOf
<1>5. ASSUME a.kind # "time_window", NEW i \in 1 .. n, Slot(cs[i]) = Slot(a),
             cs[i].kind = a.kind
      PROVE  Narrows(a, cs[i]) \/ cs[i] = a
  <2>1. IsAtomOf(cs[i], cs[i])
    BY <1>5, AtomsOf
  <2> QED BY <1>5, <2>1 DEF Narrowest
<1> HIDE DEF B, K
<1>6. ASSUME a.kind \in {"scope_subset", "tool_allow", "tool_deny", "depth_limit", "intent_bound",
                         "requires_approval"},
             NEW i \in K(a.kind)
      PROVE  i \in 1 .. n /\ (Narrows(a, cs[i]) \/ cs[i] = a)
  <2>1. i \in 1 .. n /\ cs[i].kind = a.kind
    BY <1>1
  <2>2. Slot(cs[i]) = Slot(a)
    BY <1>6, <2>1 DEF Slot
  <2> QED BY <1>5, <1>6, <2>1, <2>2
<1>7. a.kind # "time_window" => o \in K(a.kind)
  BY <1>1, <1>4
<1>8. CASE a.kind = "scope_subset"
  <2>1. \A i \in K("scope_subset") : a.scopes \subseteq cs[i].scopes
    BY <1>6, <1>8 DEF Narrows
  <2>2. a.scopes \subseteq Scopes
    BY <1>8 DEF ValidCaveat
  <2>3. B.scopes = a.scopes
    BY <1>2, <1>4, <1>7, <1>8, <2>1, <2>2
  <2> QED BY <1>8, <2>3 DEF Effective, B
<1>9. CASE a.kind = "requires_approval"
  <2>1. \A i \in K("requires_approval") : cs[i].scopes \subseteq a.scopes
    BY <1>6, <1>9 DEF Narrows
  <2>2. B.approval_required = a.scopes
    BY <1>2, <1>4, <1>7, <1>9, <2>1
  <2> QED BY <1>9, <2>2 DEF Effective, B
<1>10. CASE a.kind = "tool_allow"
  <2>1. \A i \in K("tool_allow") : a.tools \subseteq cs[i].tools
    BY <1>6, <1>10 DEF Narrows
  <2>2. a.tools \subseteq Tools
    BY <1>10 DEF ValidCaveat
  <2>3. B.tools_allowed = a.tools
    BY <1>2, <1>4, <1>7, <1>10, <2>1, <2>2
  <2> QED BY <1>10, <2>3 DEF Effective, B
<1>11. CASE a.kind = "tool_deny"
  <2>1. \A i \in K("tool_deny") : cs[i].tools \subseteq a.tools
    BY <1>6, <1>11 DEF Narrows, DenyNarrows
  <2>2. B.tools_denied = a.tools
    BY <1>2, <1>4, <1>7, <1>11, <2>1
  <2> QED BY <1>11, <2>2 DEF Effective, B
<1>12. CASE a.kind = "intent_bound"
  <2> DEFINE C == K("intent_bound")
             v == [i \in C |-> 0]
  <2>1. \A i \in C : cs[i].intent_hash = a.intent_hash
    BY <1>6, <1>12 DEF Narrows
  <2>2. C \in SUBSET (1 .. n) /\ C # {} /\ v \in [C -> Int]
    BY <1>1, <1>7, <1>12
  <2> HIDE DEF C, v
  <2>3. MaxOf(C) \in C
    BY <2>2, ExtremaOf
  <2>4. B.intent_hash = a.intent_hash
    BY <1>2, <2>1, <2>3 DEF C
  <2> QED BY <1>12, <2>4 DEF Effective, B
<1>13. CASE a.kind = "depth_limit"
  <2> DEFINE S == {cs[i].max_depth : i \in K("depth_limit")}
  <2>1. a.max_depth \in Nat
    BY <1>13 DEF ValidCaveat
  <2>2. \A i \in K("depth_limit") : cs[i].max_depth \in Int /\ a.max_depth <= cs[i].max_depth
    BY <1>1, <1>6, <1>13, <2>1 DEF Narrows, Numeric
  <2>3. S \in SUBSET Int /\ a.max_depth \in S /\ \A y \in S : a.max_depth <= y
    BY <1>4, <1>7, <1>13, <2>2
  <2> HIDE DEF S
  <2>4. MinOf(S) = a.max_depth
    BY <2>3, ExtremumIs
  <2>5. B.max_depth = a.max_depth
    BY <1>2, <2>4 DEF S
  <2> QED BY <1>13, <2>5 DEF Effective, B
<1>14. CASE a.kind = "budget_ceiling"
  <2> DEFINE d == a.dimension
             C == ceilings(d)
             S == {cs[i].value : i \in C}
  <2>1. a.value \in Nat /\ d \in Dimensions
    BY <1>14 DEF ValidCaveat
  <2>2. ASSUME NEW i \in C PROVE cs[i].value \in Int /\ a.value <= cs[i].value
    <3>1. i \in 1 .. n /\ cs[i].kind = a.kind /\ cs[i].dimension = d
      BY <1>1, <1>14
    <3>2. Slot(cs[i]) = Slot(a)
      BY <1>14, <3>1 DEF Slot
    <3>3. Narrows(a, cs[i]) \/ cs[i] = a
      BY <1>5, <1>14, <3>1, <3>2
    <3>4. cs[i].value \in Int
      BY <1>14, <3>1 DEF Numeric
    <3>5. Narrows(a, cs[i]) => a.value <= cs[i].value
      BY <1>14 DEF Narrows
    <3> QED BY <2>1, <3>3, <3>4, <3>5
  <2>3. o \in C
    BY <1>1, <1>4, <1>14
  <2>4. S \in SUBSET Int /\ a.value \in S /\ \A y \in S : a.value <= y
    BY <1>4, <1>14, <2>2, <2>3
  <2>5. B.budget[d] = MinOf(S)
    BY <1>2, <2>1, <2>3
  <2> HIDE DEF S
  <2>6. MinOf(S) = a.value
    BY <2>4, ExtremumIs
  <2> QED BY <1>14, <2>5, <2>6 DEF Effective, B
<1>15. CASE a.kind = "arg_predicate"
  BY <1>15 DEF Effective
<1>16. a.kind \in {"scope_subset", "budget_ceiling", "time_window", "tool_allow", "tool_deny",
                   "arg_predicate", "depth_limit", "intent_bound", "requires_approval"}
  BY DEF ValidCaveat
<1>17. CASE a.kind = "time_window"
  <2>0. /\ a.not_before # NoTime \/ a.not_after # NoTime
        /\ a.not_before # NoTime => a.not_before \in Int
        /\ a.not_after # NoTime => a.not_after \in Int
    BY <1>17 DEF ValidCaveat
  <2>1. /\ cs[o].kind = "time_window"
        /\ \/ a.not_after = NoTime /\ a.not_before = cs[o].not_before
           \/ a.not_before = NoTime /\ a.not_after = cs[o].not_after
    BY <1>3, <1>17, AtomsOf
  <2>2. CASE a.not_after = NoTime
    <3> DEFINE S == {cs[i].not_before : i \in lower}
    <3>1. a.not_before # NoTime /\ a.not_before \in Int /\ o \in lower
          /\ cs[o].not_before = a.not_before
      BY <1>1, <2>0, <2>1, <2>2
    <3>2. ASSUME NEW i \in lower PROVE cs[i].not_before \in Int /\ a.not_before >= cs[i].not_before
      <4>1. i \in 1 .. n /\ cs[i].kind = "time_window" /\ cs[i].not_before # NoTime
        BY <1>1
      <4>2. PICK x : /\ IsAtomOf(x, cs[i]) /\ x.kind = "time_window"
                     /\ x.not_before = cs[i].not_before /\ x.not_after = NoTime
        BY <4>1, AtomsOf
      <4>3. Slot(x) = Slot(a)
        BY <1>17, <2>2, <3>1, <4>1, <4>2 DEF Slot
      <4>4. Narrows(a, x) \/ x = a
        BY <4>1, <4>2, <4>3 DEF Narrowest
      <4>5. Narrows(a, x) => a.not_before >= x.not_before
        BY <1>17, <4>1, <4>2 DEF Narrows
      <4>6. cs[i].not_before \in Int
        BY <4>1 DEF Numeric
      <4> QED BY <3>1, <4>2, <4>4, <4>5, <4>6
    <3>3. S \in SUBSET Int /\ a.not_before \in S /\ \A y \in S : a.not_before >= y
      BY <3>1, <3>2
    <3>4. B.not_before = MaxOf(S)
      BY <1>2, <3>1
    <3> HIDE DEF S
    <3>5. MaxOf(S) = a.not_before
      BY <3>3, ExtremumIs
    <3> QED BY <1>17, <2>2, <3>4, <3>5 DEF Effective, B
  <2>3. CASE a.not_after # NoTime
    <3> DEFINE S == {cs[i].not_after : i \in upper}
    <3>1. a.not_before = NoTime /\ a.not_after \in Int /\ o \in upper
          /\ cs[o].not_after = a.not_after
      BY <1>1, <2>0, <2>1, <2>3
    <3>2. ASSUME NEW i \in upper PROVE cs[i].not_after \in Int /\ a.not_after <= cs[i].not_after
      <4>1. i \in 1 .. n /\ cs[i].kind = "time_window" /\ cs[i].not_after # NoTime
        BY <1>1
      <4>2. PICK x : /\ IsAtomOf(x, cs[i]) /\ x.kind = "time_window"
                     /\ x.not_before = NoTime /\ x.not_after = cs[i].not_after
        BY <4>1, AtomsOf
      <4>3. Slot(x) = Slot(a)
        BY <1>17, <2>3, <3>1, <4>1, <4>2 DEF Slot
      <4>4. Narrows(a, x) \/ x = a
        BY <4>1, <4>2, <4>3 DEF Narrowest
      <4>5. Narrows(a, x) => a.not_after <= x.not_after
        BY <1>17, <4>1, <4>2 DEF Narrows
      <4>6. cs[i].not_after \in Int
        BY <4>1 DEF Numeric
      <4> QED BY <3>1, <4>2, <4>4, <4>5, <4>6
    <3>3. S \in SUBSET Int /\ a.not_after \in S /\ \A y \in S : a.not_after <= y
      BY <3>1, <3>2
    <3>4. B.not_after = MinOf(S)
      BY <1>2, <3>1
    <3> HIDE DEF S
    <3>5. MinOf(S) = a.not_after
      BY <3>3, ExtremumIs
    <3> QED BY <1>17, <2>3, <3>4, <3>5 DEF Effective, B
  <2> QED BY <2>2, <2>3
<1> QED BY <1>8, <1>9, <1>10, <1>11, <1>12, <1>13, <1>14, <1>15, <1>16, <1>17

\* The caveats that an attenuate() was called with, at the client it was called on, were
\* checked against the grant and all that this client knew.
NarrowOK(n) ==
    n.via = "sdk" =>
        \E anc : /\ ValidCaveats(anc) /\ ValidCaveats(n.declared) /\ n.known = anc \o n.declared
                /\ CheckNarrowing(n.declared, GrantCaveats(Grant(n)) \o anc)

NarrowInv == KnownInv /\ \A i \in 1 .. Len(nodes) : NarrowOK(nodes[i])

LEMMA StepNarrows ==
    ASSUME KnownInv, Next
    PROVE  nodes' = nodes \/ \E x : NarrowOK(x) /\ nodes' = Append(nodes, x)
<1>1. NodesOK(nodes)
  BY DEF KnownInv, AuthorityInv
<1>2. ASSUME NEW k \in DOMAIN Tasks, CreateTask(Tasks[k])
      PROVE  \E x : NarrowOK(x) /\ nodes' = Append(nodes, x)
  <2>1. PICK t : nodes' = Append(nodes, Root(t))
    BY <1>2 DEF CreateTask
  <2>2. Root(t).via = "console"
    BY DEF Root
  <2>3. NarrowOK(Root(t))
    BY <2>2 DEF NarrowOK
  <2> QED BY <2>1, <2>3
<1>3. ASSUME NEW p \in DOMAIN nodes, NEW st, NEW via, NEW agent, NEW declared, NEW known,
             via # "sdk",
             nodes' = Append(nodes, Under(p, st, via, agent, declared, known))
      PROVE  \E x : NarrowOK(x) /\ nodes' = Append(nodes, x)
  <2> DEFINE x == Under(p, st, via, agent, declared, known)
  <2>1. x.via = via
    BY <1>1, UnderNode
  <2> HIDE DEF x
  <2>2. NarrowOK(x)
    BY <1>3, <2>1 DEF NarrowOK
  <2> QED BY <1>3, <2>2 DEF x
<1>4. ASSUME NEW p \in DOMAIN nodes, NEW a \in Agents, NEW s \in SUBSET Scopes,
             NEW c \in Ceilings, SpawnAgent(p, a, s, c)
      PROVE  \E x : NarrowOK(x) /\ nodes' = Append(nodes, x)
  <2>1. \E st, cs : nodes' = Append(nodes, Under(p, st, "console", a, cs, <<>>))
    BY <1>4, Zenon DEF SpawnAgent
  <2> QED BY <1>3, <2>1
<1>5. ASSUME NEW p \in DOMAIN nodes, NEW a \in Agents, NEW k \in DOMAIN CaveatMenu,
             NEW h \in BOOLEAN, Attenuate(p, a, CaveatMenu[k], h)
      PROVE  \E x : NarrowOK(x) /\ nodes' = Append(nodes, x)
  <2> DEFINE cs == CaveatMenu[k]
             anc == IF h THEN <<>> ELSE nodes[p].known
             st == BlockStatements(a, cs)
             known == anc \o cs
             x == Under(p, st, "sdk", a, cs, known)
  <2>1. nodes' = Append(nodes, x) /\ Mintable(p, a, cs, anc)
    BY <1>5, Zenon DEF Attenuate
  <2>2. CheckNarrowing(cs, GrantCaveats(Grant(nodes[p])) \o anc)
    BY <2>1, Zenon DEF Mintable
  <2>3. ValidCaveats(cs)
    BY DelegationInputs DEF ValidCaveats
  <2>4. ValidCaveats(anc)
    <3>1. ValidCaveats(<<>>)
      BY DEF ValidCaveats
    <3>2. p \in 1 .. Len(nodes)
      BY <1>1 DEF NodesOK
    <3>3. ValidCaveats(nodes[p].known)
      BY <3>2 DEF KnownInv, KnownOK
    <3> QED BY <3>1, <3>3
  <2> HIDE DEF cs, anc, st, known
  <2>5. x.known = known /\ x.declared = cs /\ x.mandate = nodes[p].mandate
    BY <1>1, UnderNode
  <2>6. Grant(x) = Grant(nodes[p])
    BY <2>5, Zenon DEF Grant
  <2> HIDE DEF x
  <2>7. NarrowOK(x)
    BY <2>2, <2>3, <2>4, <2>5, <2>6, Zenon DEF NarrowOK, known
  <2> QED BY <2>1, <2>7
<1>6. ASSUME NEW p \in DOMAIN nodes, NEW k \in DOMAIN ForeignBlocks,
             AppendForeign(p, ForeignBlocks[k])
      PROVE  \E x : NarrowOK(x) /\ nodes' = Append(nodes, x)
  BY <1>3, <1>6 DEF AppendForeign
<1>7. ASSUME Tick PROVE nodes' = nodes
  BY <1>7 DEF Tick
<1> QED BY <1>2, <1>4, <1>5, <1>6, <1>7 DEF Next

LEMMA NarrowInductive == Spec => []NarrowInv
<1>1. Init => \A i \in 1 .. Len(nodes) : NarrowOK(nodes[i])
  BY DEF Init
<1>2. Init /\ KnownInv => NarrowInv
  BY <1>1 DEF NarrowInv
<1>3. NarrowInv /\ [Next]_vars /\ KnownInv' => NarrowInv'
  <2> SUFFICES ASSUME NarrowInv, [Next]_vars, KnownInv' PROVE NarrowInv'
    OBVIOUS
  <2>1. CASE nodes' = nodes
    BY <2>1 DEF NarrowInv
  <2>2. ASSUME NEW x, NarrowOK(x), nodes' = Append(nodes, x) PROVE NarrowInv'
    <3>1. nodes \in Seq(ToSet(nodes))
      BY DEF NarrowInv, KnownInv, AuthorityInv, NodesOK
    <3>2. IsAppend(nodes', nodes, x)
      BY <2>2, <3>1, AppendAny
    <3>3. ASSUME NEW i \in 1 .. Len(nodes') PROVE NarrowOK(nodes'[i])
      <4>1. i = Len(nodes) + 1 \/ i \in 1 .. Len(nodes)
        BY <3>2 DEF IsAppend
      <4> QED BY <2>2, <3>2, <4>1 DEF IsAppend, NarrowInv
    <3> QED BY <3>3 DEF NarrowInv
  <2>3. nodes' = nodes \/ \E x : NarrowOK(x) /\ nodes' = Append(nodes, x)
    BY StepNarrows DEF vars, NarrowInv
  <2> QED BY <2>1, <2>2, <2>3
<1> QED BY <1>2, <1>3, KnownInductive, PTL DEF Spec

\* A valid caveat and its atoms are numeric, and its atoms are valid.
LEMMA ValidAtoms ==
    ASSUME NEW c, ValidCaveat(c)
    PROVE  Numeric(c) /\ \A x : IsAtomOf(x, c) => ValidCaveat(x)
<1>1. Numeric(c)
  BY DEF ValidCaveat, Numeric
<1>2. ASSUME NEW x, IsAtomOf(x, c) PROVE ValidCaveat(x)
  <2>1. CASE c.kind # "time_window"
    <3>1. x = c
      BY <1>2, <2>1, AtomsOf
    <3> QED BY <3>1
  <2>2. CASE c.kind = "time_window"
    BY <1>2, <2>2, AtomsOf DEF ValidCaveat
  <2> QED BY <2>1, <2>2
<1> QED BY <1>1, <1>2

\* r is three lists one after another, and w the first two.
IsThree(r, w, S, d) ==
    /\ r \in Seq(S) /\ w \in Seq(S)
    /\ \A i \in DOMAIN r :
          \/ \E j \in DOMAIN w : r[i] = w[j]
          \/ \E j \in DOMAIN d : r[i] = d[j]
    /\ \A j \in DOMAIN d : \E i \in DOMAIN r : r[i] = d[j]

LEMMA ThreeLists ==
    ASSUME NEW S, NEW g \in Seq(S), NEW b \in Seq(S), NEW d \in Seq(S)
    PROVE  IsThree(g \o (b \o d), g \o b, S, d)
<1> DEFINE k == b \o d
           w == g \o b
           r == g \o k
<1>1. IsConcat(k, S, b, d) /\ IsConcat(w, S, g, b) /\ DOMAIN d = 1 .. Len(d)
  BY Concat
<1> HIDE DEF k, w
<1>2. IsConcat(r, S, g, k)
  <2>1. k \in Seq(S)
    BY <1>1 DEF IsConcat
  <2> QED BY <2>1, Concat
<1> HIDE DEF r
<1>3. ASSUME NEW i \in DOMAIN r
      PROVE  \/ \E j \in DOMAIN w : r[i] = w[j]
             \/ \E j \in DOMAIN d : r[i] = d[j]
  <2>1. i \in 1 .. Len(g) + Len(b) + Len(d)
    BY <1>1, <1>2 DEF IsConcat
  <2>2. CASE i <= Len(g)
    <3>1. i \in DOMAIN w /\ r[i] = w[i]
      BY <1>1, <1>2, <2>1, <2>2 DEF IsConcat
    <3> QED BY <3>1
  <2>3. CASE i > Len(g)
    <3> DEFINE j == i - Len(g)
    <3>1. j \in 1 .. Len(k) /\ i = Len(g) + j /\ Len(k) = Len(b) + Len(d) /\ r[i] = k[j]
      BY <1>1, <1>2, <2>1, <2>3 DEF IsConcat
    <3> HIDE DEF j
    <3>2. CASE j <= Len(b)
      <4>1. j \in 1 .. Len(b) /\ i \in DOMAIN w
        BY <1>1, <3>1, <3>2 DEF IsConcat
      <4>2. r[i] = b[j] /\ w[i] = b[j]
        BY <1>1, <3>1, <4>1 DEF IsConcat
      <4> QED BY <4>1, <4>2
    <3>3. CASE j > Len(b)
      <4> DEFINE l == j - Len(b)
      <4>1. l \in 1 .. Len(d) /\ j = Len(b) + l
        BY <1>1, <3>1, <3>3 DEF IsConcat
      <4> HIDE DEF l
      <4>2. k[j] = d[l]
        BY <1>1, <4>1 DEF IsConcat
      <4> QED BY <1>1, <3>1, <4>1, <4>2
    <3> QED BY <1>1, <3>1, <3>2, <3>3 DEF IsConcat
  <2> QED BY <1>1, <2>1, <2>2, <2>3 DEF IsConcat
<1>4. ASSUME NEW j \in DOMAIN d PROVE \E i \in DOMAIN r : r[i] = d[j]
  <2>1. Len(b) + j \in 1 .. Len(k) /\ k[Len(b) + j] = d[j]
    BY <1>1 DEF IsConcat
  <2>2. Len(g) + (Len(b) + j) \in DOMAIN r /\ r[Len(g) + (Len(b) + j)] = k[Len(b) + j]
    BY <1>2, <2>1 DEF IsConcat
  <2> QED BY <2>1, <2>2
<1> QED BY <1>1, <1>2, <1>3, <1>4 DEF IsConcat, IsThree, r, k, w

\* For a holder that knows the chain, a restriction that attenuate() accepted is the one
\* its identity shows, whatever else the chain holds (check_narrowing, effective_bound).
\* Two caveats of one slot in the same call are not compared with each other.
THEOREM DelegationDeclaredIsEffective == Spec => []DeclaredIsEffective
<1>1. NarrowInv => DeclaredIsEffective
  <2> SUFFICES ASSUME NarrowInv, NEW i \in DOMAIN nodes, nodes[i].via = "sdk",
                      NEW k \in DOMAIN AllAtoms(nodes[i].declared),
                      ~ \E l \in DOMAIN AllAtoms(nodes[i].declared) \ {k} :
                            Slot(AllAtoms(nodes[i].declared)[l]) =
                            Slot(AllAtoms(nodes[i].declared)[k])
               PROVE  Effective(AllAtoms(nodes[i].declared)[k], Identity(nodes[i]))
    BY Zenon DEF DeclaredIsEffective, KnowsChain
  <2> DEFINE t == nodes[i]
             G == GrantCaveats(Grant(t))
             D == t.declared
             A == AllAtoms(D)
  <2>1. NodesOK(nodes) /\ i \in 1 .. Len(nodes)
    BY DEF NarrowInv, KnownInv, AuthorityInv, NodesOK
  <2>2. NodeOK(t) /\ NarrowOK(t)
    BY <2>1 DEF NodesOK, NarrowInv
  <2>3. PICK anc : /\ ValidCaveats(anc) /\ ValidCaveats(D) /\ t.known = anc \o D
                   /\ CheckNarrowing(D, G \o anc)
    BY <2>2 DEF NarrowOK
  <2>4. G \in Seq(ToSet(G)) /\ \A j \in DOMAIN G : Numeric(G[j])
    BY <2>2, GrantList, GrantNumeric DEF NodeOK
  <2> DEFINE w == G \o anc
             cs == G \o (anc \o D)
  <2>5. Identity(t) = EffectiveBound(cs)
    BY <2>3, Zenon DEF Identity
  <2> HIDE DEF G, D, A, t
  <2> DEFINE S == {c \in ToSet(G) \cup ToSet(anc) \cup ToSet(D) : Numeric(c)}
  <2>6. G \in Seq(S) /\ anc \in Seq(S) /\ D \in Seq(S)
    <3>1. ASSUME NEW q, NEW T, q \in Seq(T),
                 \A j \in DOMAIN q : q[j] \in S
          PROVE  q \in Seq(S)
      <4> HIDE DEF S
      <4> QED BY <3>1
    <3>2. ASSUME NEW q, ValidCaveats(q), ToSet(q) \subseteq ToSet(anc) \cup ToSet(D)
          PROVE  q \in Seq(S)
      <4>1. q \in Seq({c \in ToSet(q) : ValidCaveat(c)})
        BY <3>2 DEF ValidCaveats
      <4>2. \A j \in DOMAIN q : q[j] \in ToSet(q) /\ ValidCaveat(q[j])
        BY <4>1
      <4>3. \A j \in DOMAIN q : Numeric(q[j])
        BY <4>2, ValidAtoms
      <4>4. \A j \in DOMAIN q : q[j] \in S
        BY <3>2, <4>2, <4>3
      <4> HIDE DEF S
      <4> QED BY <3>1, <4>1, <4>4
    <3>3. \A j \in DOMAIN G : G[j] \in S
      <4>1. \A j \in DOMAIN G : G[j] \in ToSet(G)
        BY <2>4
      <4> QED BY <2>4, <4>1
    <3> HIDE DEF S
    <3> QED BY <2>3, <2>4, <3>1, <3>2, <3>3
  <2>7. \A c \in S : Numeric(c)
    OBVIOUS
  <2> HIDE DEF S
  <2>8. IsThree(cs, w, S, D)
    BY <2>6, ThreeLists
  <2> HIDE DEF cs, w
  <2>9. Len(cs) \in Nat /\ DOMAIN cs = 1 .. Len(cs) /\ \A j \in 1 .. Len(cs) : Numeric(cs[j])
    BY <2>7, <2>8 DEF IsThree
  <2>10. AreAtoms(A, D) /\ AreAtoms(AllAtoms(w), w)
    BY <2>6, <2>8, AllAtomsAre DEF IsThree, A
  <2>11. /\ k \in DOMAIN A /\ \A l \in DOMAIN A : Slot(A[l]) = Slot(A[k]) => l = k
    BY DEF A, D, t
  <2>12. \A j \in DOMAIN AllAtoms(w) :
            Slot(A[k]) = Slot(AllAtoms(w)[j]) => Narrows(A[k], AllAtoms(w)[j])
    BY <2>3, <2>11, Zenon DEF CheckNarrowing, w, A
  <2>13. PICK o \in DOMAIN D : IsAtomOf(A[k], D[o])
    BY <2>10, <2>11 DEF AreAtoms
  <2>14. ValidCaveat(A[k])
    <3>1. ValidCaveat(D[o])
      BY <2>3, <2>13 DEF ValidCaveats
    <3> QED BY <2>13, <3>1, ValidAtoms
  <2>15. Narrowest(A[k], cs)
    <3>1. \E j \in DOMAIN cs : IsAtomOf(A[k], cs[j])
      BY <2>8, <2>13 DEF IsThree
    <3>2. ASSUME NEW j \in DOMAIN cs, NEW x, IsAtomOf(x, cs[j]), Slot(x) = Slot(A[k])
          PROVE  Narrows(A[k], x) \/ x = A[k]
      <4>1. ASSUME NEW v \in DOMAIN w, cs[j] = w[v] PROVE Narrows(A[k], x)
        <5>1. \E l \in DOMAIN AllAtoms(w) : AllAtoms(w)[l] = x
          BY <2>10, <3>2, <4>1 DEF AreAtoms
        <5> QED BY <2>12, <3>2, <5>1
      <4>2. ASSUME NEW v \in DOMAIN D, cs[j] = D[v] PROVE x = A[k]
        <5>1. \E l \in DOMAIN A : A[l] = x
          BY <2>10, <3>2, <4>2 DEF AreAtoms
        <5> QED BY <2>11, <3>2, <5>1
      <4> QED BY <2>8, <4>1, <4>2 DEF IsThree
    <3> QED BY <3>1, <3>2 DEF Narrowest
  <2>16. Effective(A[k], EffectiveBound(cs))
    BY <2>9, <2>14, <2>15, NarrowestShown
  <2> QED BY <2>5, <2>16, Zenon DEF A, D, t
<1> QED BY <1>1, NarrowInductive, PTL

-----------------------------------------------------------------------------
(* The two evaluations *)

\* Requests bring numbers for the arguments that a holder or another writer orders.
NumbersOrdered ==
    \A c \in Contexts :
        /\ \A k \in DOMAIN ForeignBlocks : \A j \in DOMAIN ForeignBlocks[k] :
              Comparable(ForeignBlocks[k][j], c)
        /\ \A k \in DOMAIN CaveatMenu : \A j \in DOMAIN CaveatMenu[k] :
              OrdersNumbers(CaveatMenu[k][j], c)

\* A block in whole units that orders numbers only.
BlockOK(st) ==
    /\ st \in Seq(ToSet(st))
    /\ \A j \in DOMAIN st : Whole(st[j]) /\ \A c \in Contexts : Comparable(st[j], c)

ReadOK(n) == \A b \in 2 .. Len(n.blocks) : BlockOK(n.blocks[b])

ReadInv == AuthorityInv /\ \A i \in 1 .. Len(nodes) : ReadOK(nodes[i])

\* The size limit of a token keeps its blocks within the reader's limit.
LEMMA BlocksFit ==
    ASSUME NEW n, NodeOK(n), ReadOK(n), Size(n) <= HARD_SIZE_LIMIT
    PROVE  \A b \in 2 .. Len(n.blocks) : Len(n.blocks[b]) <= MAX_STATEMENTS_PER_BLOCK
<1> DEFINE r == n.blocks
           S == UNION {ToSet(r[b]) : b \in 1 .. Len(r)}
<1>1. r \in Seq(ToSet(r)) /\ Len(r) \in Nat /\ Len(r) >= 1 /\ r[1] = AuthorityStatements(n.mandate)
  BY DEF NodeOK, ChainOK
<1>2. Len(FlattenSeq(r)) <= HARD_SIZE_LIMIT
  BY DEF Size
<1>3. \A b \in 2 .. Len(r) : r[b] \in Seq(ToSet(r[b]))
  BY DEF ReadOK, BlockOK
<1>4. r[1] \in Seq(ToSet(r[1]))
  BY <1>1, AuthorityBlock
<1> HIDE DEF r
<1>5. ASSUME NEW b \in 1 .. Len(r) PROVE r[b] \in Seq(S)
  <2>1. b = 1 \/ b \in 2 .. Len(r)
    BY <1>1
  <2>2. r[b] \in Seq(ToSet(r[b]))
    BY <1>3, <1>4, <2>1
  <2>3. ToSet(r[b]) \subseteq S
    OBVIOUS
  <2> HIDE DEF S
  <2> QED BY <2>2, <2>3
<1> HIDE DEF S
<1>6. r \in Seq(Seq(S))
  BY <1>1, <1>5
<1>7. IsFlat(FlattenSeq(r), S, r, Len(r))
  BY <1>6, Flattened
<1>8. \A b \in 1 .. Len(r) : Len(r[b]) <= Len(FlattenSeq(r)) /\ Len(r[b]) \in Nat
  BY <1>5, <1>7 DEF IsFlat
<1>9. Len(FlattenSeq(r)) \in Nat
  BY <1>7 DEF IsFlat
<1>10. \A b \in 2 .. Len(r) : b \in 1 .. Len(r)
  BY <1>1
<1>11. \A b \in 2 .. Len(r) : Len(r[b]) <= MAX_STATEMENTS_PER_BLOCK
  BY <1>2, <1>8, <1>9, <1>10, TokenConstants, CaveatConstants
<1> QED BY <1>11 DEF r

LEMMA AddedReads ==
    ASSUME ReadInv, NumbersOrdered, NEW x, Added(x)
    PROVE  ReadOK(x)
<1>1. NodesOK(nodes)
  BY DEF ReadInv, AuthorityInv
<1>2. ASSUME NEW m, NEW k, MandateOK(m), x = Root(MintRoot(m, k)) PROVE ReadOK(x)
  <2>1. x.blocks = <<AuthorityStatements(m)>>
    BY <1>2, RootNode
  <2> DEFINE A == AuthorityStatements(m)
  <2> HIDE DEF A
  <2>2. Len(<<A>>) = 1 /\ 2 .. 1 = {}
    OBVIOUS
  <2>3. x.blocks = <<A>>
    BY <2>1 DEF A
  <2> QED BY <2>2, <2>3 DEF ReadOK
<1>3. ASSUME NEW p \in DOMAIN nodes, NEW st, NEW via, NEW agent, NEW declared, NEW known,
             NewBlock(p, st, via, agent, declared, known),
             x = Under(p, st, via, agent, declared, known)
      PROVE  ReadOK(x)
  <2> DEFINE n == nodes[p]
             q == n.blocks
  <2>1. x.blocks = Append(q, st)
    BY <1>1, <1>3, UnderNode
  <2>2. p \in 1 .. Len(nodes)
    BY <1>1 DEF NodesOK
  <2>3. NodeOK(n) /\ ReadOK(n)
    BY <1>1, <2>2 DEF ReadInv, NodesOK
  <2>4. q \in Seq(ToSet(q)) /\ DOMAIN q = 1 .. Len(q)
    BY <2>3 DEF NodeOK, ChainOK
  <2>5. BlockOK(st)
    <3>1. CASE \E k \in DOMAIN ForeignBlocks : st = ForeignBlocks[k]
      <4>1. PICK k \in DOMAIN ForeignBlocks : st = ForeignBlocks[k]
        BY <3>1
      <4>2. /\ st \in Seq(ToSet(st))
            /\ \A s \in ToSet(st) :
                  s.fact = "arg" /\ s.op \notin {"in", "not_in"} /\ s.term \in Int =>
                      s.term % BUDGET_SCALE = 0
        BY <4>1, DelegationInputs
      <4>3. \A j \in DOMAIN st : st[j] \in ToSet(st)
        BY <4>2
      <4>4. \A j \in DOMAIN st : Whole(st[j])
        BY <4>2, <4>3 DEF Whole
      <4>5. \A j \in DOMAIN st : \A c \in Contexts : Comparable(st[j], c)
        BY <4>1, Zenon DEF NumbersOrdered
      <4> QED BY <4>2, <4>4, <4>5 DEF BlockOK
    <3>2. CASE /\ ValidCaveats(declared) /\ st = BlockStatements(agent, declared)
               /\ \/ \E j \in DOMAIN CaveatMenu : declared = CaveatMenu[j]
                  \/ \A k \in DOMAIN declared :
                        declared[k].kind \notin {"arg_predicate", "intent_bound"}
      <4>1. /\ st \in Seq(ToSet(st))
            /\ \A j \in DOMAIN st : Whole(st[j])
            /\ \A c \in Contexts : (\A k \in DOMAIN declared : OrdersNumbers(declared[k], c)) =>
                  \A j \in DOMAIN st : Comparable(st[j], c)
        BY <3>2, BlockWritten
      <4>2. \A c \in Contexts : \A k \in DOMAIN declared : OrdersNumbers(declared[k], c)
        <5>1. CASE \E j \in DOMAIN CaveatMenu : declared = CaveatMenu[j]
          BY <5>1, Zenon DEF NumbersOrdered
        <5>2. CASE \A k \in DOMAIN declared :
                      declared[k].kind \notin {"arg_predicate", "intent_bound"}
          BY <5>2 DEF OrdersNumbers
        <5> QED BY <3>2, <5>1, <5>2
      <4> QED BY <4>1, <4>2 DEF BlockOK
    <3> QED BY <1>3, <3>1, <3>2 DEF NewBlock
  <2>6. \A b \in 2 .. Len(q) : BlockOK(q[b])
    BY <2>3 DEF ReadOK
  <2> HIDE DEF q
  <2>7. IsAppend(x.blocks, q, st)
    BY <2>1, <2>4, AppendAny
  <2>8. ASSUME NEW b \in 2 .. Len(x.blocks) PROVE BlockOK(x.blocks[b])
    <3>1. CASE b = Len(q) + 1
      BY <2>5, <2>7, <3>1 DEF IsAppend
    <3>2. CASE b # Len(q) + 1
      <4>1. b \in 2 .. Len(q) /\ x.blocks[b] = q[b]
        BY <2>4, <2>7, <3>2 DEF IsAppend
      <4> QED BY <2>6, <4>1
    <3> QED BY <3>1, <3>2
  <2> QED BY <2>8 DEF ReadOK
<1> QED BY <1>2, <1>3, Zenon DEF Added

LEMMA ReadInductive ==
    ASSUME NumbersOrdered
    PROVE  Spec => []ReadInv
<1>1. Init => ReadInv
  <2>1. Init => \A i \in 1 .. Len(nodes) : ReadOK(nodes[i])
    BY DEF Init
  <2> QED BY <2>1, AuthorityInit DEF ReadInv
<1>2. ReadInv /\ [Next]_vars /\ AuthorityInv' => ReadInv'
  <2> SUFFICES ASSUME ReadInv, [Next]_vars, AuthorityInv'
               PROVE  ReadInv'
    OBVIOUS
  <2>0. AuthorityInv
    BY DEF ReadInv
  <2>1. CASE nodes' = nodes
    BY <2>1 DEF ReadInv
  <2>2. ASSUME NEW x, Added(x), nodes' = Append(nodes, x) PROVE ReadInv'
    <3>1. ReadOK(x)
      BY <2>2, AddedReads
    <3>2. nodes \in Seq(ToSet(nodes))
      BY <2>0 DEF AuthorityInv, NodesOK
    <3>3. IsAppend(nodes', nodes, x)
      BY <2>2, <3>2, AppendAny
    <3>4. ASSUME NEW i \in 1 .. Len(nodes') PROVE ReadOK(nodes'[i])
      <4>1. i = Len(nodes) + 1 \/ i \in 1 .. Len(nodes)
        BY <3>3 DEF IsAppend
      <4> QED BY <3>1, <3>3, <4>1 DEF IsAppend, ReadInv
    <3> QED BY <3>4 DEF ReadInv
  <2>3. nodes' = nodes \/ \E x : Added(x) /\ nodes' = Append(nodes, x)
    BY <2>0, StepAdds DEF vars
  <2> QED BY <2>1, <2>2, <2>3
<1> QED BY <1>1, <1>2, AuthorityInductive, PTL DEF Spec

\* The blocks of a node whose texts can be read are read whole.
LEMMA NodeReads ==
    ASSUME NEW t, NodeOK(t), ReadOK(t), IsRead(t), LegibleChain(t)
    PROVE  /\ ReadableChain(t) /\ ShownChain(t) /\ ReadOffSome(TokenCaveats(t))
           /\ \A c \in Contexts : ComparableChain(t, At(c, t))
           /\ StatesNoRequest(t) => SilentChain(t)
           /\ EffectiveAuthority(t).complete => RecognizedChain(t)
<1> DEFINE q == t.blocks
<1>1. /\ q \in Seq(ToSet(q)) /\ Len(q) \in Nat /\ Len(q) >= 1 /\ DOMAIN q = 1 .. Len(q)
      /\ \A b \in 2 .. Len(q) : b \in DOMAIN q
  BY DEF NodeOK, ChainOK
<1>2. \A b \in 2 .. Len(q) : Readable(q[b])
  <2>1. \A b \in 2 .. Len(q) : Len(q[b]) <= MAX_STATEMENTS_PER_BLOCK
    BY BlocksFit DEF IsRead
  <2>2. \A b \in 2 .. Len(q) : q[b] \in Seq(ToSet(q[b])) /\ Legible(q[b])
    BY <1>1 DEF ReadOK, BlockOK, LegibleChain
  <2> QED BY <2>1, <2>2 DEF Readable
<1>3. ReadableChain(t)
  BY <1>1, <1>2 DEF ReadableChain
<1>4. ShownChain(t)
  <2>1. ASSUME NEW b \in 2 .. Len(q) PROVE Statements(q[b]) \in Seq(ToSet(Statements(q[b])))
    <3>1. Statements(q[b]) \in Seq(ToSet(q[b]))
      BY <1>2, ShownWhole
    <3> HIDE DEF q
    <3> QED BY <3>1, SeqOfItself
  <2> QED BY <1>1, <2>1 DEF ShownChain
<1>5. ReadOffSome(TokenCaveats(t))
  BY <1>4, ChainReadsSome DEF IsRead
<1>6. ASSUME NEW c \in Contexts PROVE ComparableChain(t, At(c, t))
  <2>1. At(c, t).args = c.args
    BY AtContext
  <2>2. \A s : Comparable(s, c) => Comparable(s, At(c, t))
    BY <2>1 DEF Comparable
  <2>3. \A b \in 2 .. Len(q) : \A j \in DOMAIN q[b] : Whole(q[b][j]) /\ Comparable(q[b][j], c)
    BY DEF ReadOK, BlockOK
  <2>4. \A b \in 2 .. Len(q) : \A j \in DOMAIN q[b] :
            Yields(q[b][j]) => ValidCaveat(Build(q[b][j]))
    BY <1>3, ReadsValid DEF IsRead
  <2> QED BY <2>2, <2>3, <2>4 DEF ComparableChain, WellFormed
<1>7. StatesNoRequest(t) => SilentChain(t)
  BY <1>1 DEF StatesNoRequest, SilentChain, Silent
<1>8. ASSUME EffectiveAuthority(t).complete PROVE RecognizedChain(t)
  <2>1. \A b \in DOMAIN q : ParseBlock(q[b]).complete
    BY <1>8 DEF EffectiveAuthority
  <2>2. \A b \in 2 .. Len(q) : \A j \in DOMAIN q[b] : Recognized(q[b][j])
    BY <1>1, <1>2, <2>1, WholeBlockReads
  <2> QED BY <2>2 DEF RecognizedChain
<1> QED BY <1>3, <1>4, <1>5, <1>6, <1>7, <1>8

\* The folded list denies nothing exactly when the grant is satisfied and what is read off
\* the blocks does not deny.
LEMMA ListDenies ==
    ASSUME NEW t, ChainOK(t), ReadOffSome(TokenCaveats(t)), NEW ctx, ValidContext(ctx)
    PROVE  NoneDenies(GrantCaveats(Grant(t)) \o TokenCaveats(t), ctx) <=>
               /\ BlockPasses(AuthorityStatements(t.mandate), RequestFacts(ctx), GrantFacts(t.mandate))
               /\ NotDenied(TokenCaveats(t), ctx)
<1> DEFINE G == GrantCaveats(Grant(t))
           T == TokenCaveats(t)
           cs == G \o T
           n == Len(cs)
           ok(c) == Evaluate(c, ctx).outcome # "deny"
<1>1. IsChainList(cs, n, t)
  BY ChainList
<1>2. BlockPasses(AuthorityStatements(t.mandate), RequestFacts(ctx), GrantFacts(t.mandate)) <=>
          \A k \in DOMAIN G : Satisfied(G[k], ctx)
  BY GrantAgrees
<1>3. \A k \in DOMAIN G : ok(G[k]) <=> Satisfied(G[k], ctx)
  <2>1. \A k \in DOMAIN G : G[k].kind \in Folded
    BY GrantFolds
  <2>2. \A k \in DOMAIN G : G[k].kind # "requires_approval"
    BY <2>1 DEF Folded
  <2> QED BY <2>2, DenyIsUnsatisfied
<1>4. /\ DOMAIN cs = 1 .. n
      /\ \A i \in 1 .. n : (\E k \in DOMAIN G : cs[i] = G[k]) \/ (\E k \in DOMAIN T : cs[i] = T[k])
      /\ \A k \in DOMAIN T : \E i \in 1 .. n : cs[i] = T[k]
      /\ \A k \in DOMAIN G : \E i \in 1 .. n : cs[i] = G[k]
  BY <1>1 DEF IsChainList, FoldList
<1> HIDE DEF G, T, cs, n, ok
<1>5. (\A i \in DOMAIN cs : ok(cs[i])) <=>
          (\A k \in DOMAIN G : ok(G[k])) /\ (\A k \in DOMAIN T : ok(T[k]))
  BY <1>4
<1>6. /\ NoneDenies(cs, ctx) <=> \A i \in DOMAIN cs : ok(cs[i])
      /\ NotDenied(T, ctx) <=> \A k \in DOMAIN T : ok(T[k])
  BY Zenon DEF NoneDenies, NotDenied, ok
<1>7. (\A k \in DOMAIN G : ok(G[k])) <=> \A k \in DOMAIN G : Satisfied(G[k], ctx)
  BY <1>3
<1> QED BY <1>2, <1>5, <1>6, <1>7 DEF cs, G, T

\* Of a node whose texts can be read: what biscuit authorizes the caveats do not deny,
\* unless some block states requests, and what they do not deny it authorizes, where every
\* statement was recognized.
LEMMA NodeVerdicts ==
    ASSUME NEW t, NodeOK(t), ReadOK(t), IsRead(t), LegibleChain(t), NEW c \in Contexts
    PROVE  LET ctx == At(c, t)
               cs == GrantCaveats(Grant(t)) \o TokenCaveats(t)
           IN  /\ Authorizes(t, ctx) /\ StatesNoRequest(t) =>
                     NoneDenies(cs, ctx) /\ NotDenied(TokenCaveats(t), ctx)
               /\ NoneDenies(cs, ctx) /\ EffectiveAuthority(t).complete => Authorizes(t, ctx)
<1> DEFINE ctx == At(c, t)
           cs == GrantCaveats(Grant(t)) \o TokenCaveats(t)
           T == TokenCaveats(t)
           granted == BlockPasses(AuthorityStatements(t.mandate), RequestFacts(ctx), GrantFacts(t.mandate))
<1>1. ChainOK(t)
  BY DEF NodeOK
<1>2. ValidContext(ctx)
  BY AtValid
<1>3. /\ ReadableChain(t) /\ ReadOffSome(T) /\ ComparableChain(t, ctx)
      /\ StatesNoRequest(t) => SilentChain(t)
      /\ EffectiveAuthority(t).complete => RecognizedChain(t)
  BY NodeReads
<1> HIDE DEF ctx
<1>4. NoneDenies(cs, ctx) <=> granted /\ NotDenied(T, ctx)
  BY <1>1, <1>2, <1>3, ListDenies
<1>5. Authorizes(t, ctx) <=> granted /\ AddedPass(t, ctx)
  BY <1>1, AuthorizesIs
<1>6. granted => ctx.operation \in t.mandate.scopes /\ ctx.request_intent = t.mandate.intent_hash
  BY AuthorityPasses
<1>7. RecognizedChain(t) => SilentChain(t)
  BY RecognizedIsSilent
<1>8. SilentChain(t) =>
        /\ AddedPass(t, ctx) => NotDenied(T, ctx)
        /\ /\ NotDenied(T, ctx) /\ RecognizedChain(t)
           /\ ctx.operation \in t.mandate.scopes /\ ctx.request_intent = t.mandate.intent_hash
           => AddedPass(t, ctx)
  BY <1>2, <1>3, ChainVerdicts
<1> HIDE DEF granted, cs, T
<1>9. /\ Authorizes(t, ctx) /\ StatesNoRequest(t) => NoneDenies(cs, ctx) /\ NotDenied(T, ctx)
      /\ NoneDenies(cs, ctx) /\ EffectiveAuthority(t).complete => Authorizes(t, ctx)
  BY <1>3, <1>4, <1>5, <1>6, <1>7, <1>8, Zenon
<1> QED BY <1>9 DEF ctx, cs, T

\* For any chain of tokens that can be read, with blocks of any writers, and any request:
\* what the caveats read back off the chain deny, biscuit refuses, unless some block states
\* facts about requests itself, and biscuit refuses nothing else where every statement was
\* recognized (evaluate, to_datalog, parse_block_source).
THEOREM DelegationVerdictsAgree ==
    ASSUME NumbersOrdered
    PROVE  Spec => []VerdictsAgree
<1>1. ReadInv => VerdictsAgree
  <2> SUFFICES ASSUME ReadInv, NEW i \in DOMAIN nodes, IsRead(nodes[i]), LegibleChain(nodes[i]),
                      NEW c \in Contexts
               PROVE  LET t == nodes[i]
                          cs == GrantCaveats(Grant(t)) \o TokenCaveats(t)
                          ctx == At(c, t)
                      IN  IF Authorizes(t, ctx) THEN StatesNoRequest(t) => NoneDenies(cs, ctx)
                          ELSE EffectiveAuthority(t).complete => ~NoneDenies(cs, ctx)
    BY Zenon DEF VerdictsAgree
  <2> DEFINE t == nodes[i]
             cs == GrantCaveats(Grant(t)) \o TokenCaveats(t)
             ctx == At(c, t)
  <2>1. i \in 1 .. Len(nodes)
    BY DEF ReadInv, AuthorityInv, NodesOK
  <2>2. NodeOK(t) /\ ReadOK(t)
    BY <2>1 DEF ReadInv, AuthorityInv, NodesOK
  <2>3. IsRead(t) /\ LegibleChain(t)
    OBVIOUS
  <2> HIDE DEF t
  <2>4. /\ Authorizes(t, ctx) /\ StatesNoRequest(t) => NoneDenies(cs, ctx)
        /\ NoneDenies(cs, ctx) /\ EffectiveAuthority(t).complete => Authorizes(t, ctx)
    BY <2>2, <2>3, NodeVerdicts
  <2> HIDE DEF cs, ctx
  <2>5. IF Authorizes(t, ctx) THEN StatesNoRequest(t) => NoneDenies(cs, ctx)
        ELSE EffectiveAuthority(t).complete => ~NoneDenies(cs, ctx)
    BY <2>4
  <2> QED BY <2>5 DEF t, cs, ctx
<1> QED BY <1>1, ReadInductive, PTL

-----------------------------------------------------------------------------
(* The bound of a chain *)

\* In a chain of attenuate()'s own blocks: statements on arguments come from a caveat of the
\* chain, and the intent is the mandate's.
ExactOK(n) ==
    /\ ValidCaveats(n.chain)
    /\ ~n.foreign => \A b \in 2 .. Len(n.blocks) : \A j \in DOMAIN n.blocks[b] :
          LET s == n.blocks[b][j]
          IN  /\ s.fact = "arg" => Kind(n.chain, "arg_predicate") # {}
              /\ s.fact = "request_intent" => s.term = n.mandate.intent_hash

\* An intent that attenuate() accepted is the mandate's.
LEMMA IntentKept ==
    ASSUME NEW x, NodeOK(x), NarrowOK(x), x.via = "sdk",
           NEW k \in DOMAIN x.declared, x.declared[k].kind = "intent_bound"
    PROVE  x.declared[k].intent_hash = x.mandate.intent_hash
<1> DEFINE G == GrantCaveats(Grant(x))
           d == x.declared
<1>1. PICK anc : ValidCaveats(anc) /\ ValidCaveats(d) /\ CheckNarrowing(d, G \o anc)
  BY DEF NarrowOK
<1>2. G \in Seq(ToSet(G)) /\ 3 \in DOMAIN G /\ G[3] = IntentBound(x.mandate.intent_hash)
  <2>1. LET n == Len(DimensionOrder)
        IN  /\ n \in Nat /\ DOMAIN G = 1 .. n + 4 /\ G \in Seq(ToSet(G))
            /\ G[3] = IntentBound(x.mandate.intent_hash)
    BY GrantList DEF NodeOK
  <2> QED BY <2>1
<1> HIDE DEF G, d
<1> DEFINE S == ToSet(G) \cup ToSet(anc)
           r == G \o anc
<1>3. G \in Seq(S) /\ anc \in Seq(S)
  <2>1. ToSet(G) \subseteq S /\ {c \in ToSet(anc) : ValidCaveat(c)} \subseteq S
    OBVIOUS
  <2> HIDE DEF S
  <2> QED BY <1>1, <1>2, <2>1 DEF ValidCaveats
<1> HIDE DEF S
<1>4. IsConcat(r, S, G, anc)
  BY <1>3, Concat
<1> HIDE DEF r
<1>5. r \in Seq(S) /\ 3 \in DOMAIN r /\ r[3] = G[3]
  BY <1>2, <1>3, <1>4 DEF IsConcat
<1>6. AreAtoms(AllAtoms(r), r)
  BY <1>5, AllAtomsAre
<1>7. AreAtoms(AllAtoms(d), d)
  BY <1>1, AllAtomsAre DEF ValidCaveats
<1>8. IsAtomOf(r[3], r[3]) /\ IsAtomOf(d[k], d[k])
  <2>1. r[3].kind # "time_window" /\ d[k].kind # "time_window"
    BY <1>2, <1>5 DEF IntentBound, d
  <2>2. ASSUME NEW c, c.kind # "time_window" PROVE IsAtomOf(c, c)
    BY <2>2, AtomsOf
  <2> QED BY <2>1, <2>2
<1>9. PICK i \in DOMAIN AllAtoms(d) : AllAtoms(d)[i] = d[k]
  BY <1>7, <1>8 DEF AreAtoms, d
<1>10. PICK j \in DOMAIN AllAtoms(r) : AllAtoms(r)[j] = r[3]
  BY <1>5, <1>6, <1>8 DEF AreAtoms
<1>11. CheckNarrowing(d, r)
  BY <1>1 DEF r
<1>12. Slot(d[k]) = Slot(r[3]) => Narrows(d[k], r[3])
  BY <1>9, <1>10, <1>11 DEF CheckNarrowing
<1>13. /\ d[k].kind = "intent_bound" /\ r[3].kind = "intent_bound"
       /\ r[3].intent_hash = x.mandate.intent_hash
  BY <1>2, <1>5 DEF IntentBound, d
<1>14. Slot(d[k]) = Slot(r[3])
  BY <1>13 DEF Slot
<1>15. Narrows(d[k], r[3])
  BY <1>12, <1>14
<1>16. d[k].intent_hash = r[3].intent_hash
  BY <1>13, <1>15 DEF Narrows
<1> QED BY <1>13, <1>16 DEF d

ExactInv == ReadInv /\ \A i \in 1 .. Len(nodes) : ExactOK(nodes[i])

LEMMA AddedExact ==
    ASSUME ExactInv, NEW x, Added(x), NarrowOK(x)
    PROVE  ExactOK(x)
<1>1. NodesOK(nodes)
  BY DEF ExactInv, ReadInv, AuthorityInv
<1>2. ASSUME NEW m, NEW k, MandateOK(m), x = Root(MintRoot(m, k)) PROVE ExactOK(x)
  <2>1. x.blocks = <<AuthorityStatements(m)>> /\ x.chain = <<>>
    BY <1>2, RootNode
  <2> DEFINE A == AuthorityStatements(m)
  <2> HIDE DEF A
  <2>2. Len(<<A>>) = 1 /\ 2 .. 1 = {}
    OBVIOUS
  <2>3. x.blocks = <<A>>
    BY <2>1 DEF A
  <2>4. ValidCaveats(<<>>)
    BY DEF ValidCaveats
  <2> QED BY <2>1, <2>2, <2>3, <2>4 DEF ExactOK
<1>3. ASSUME NEW p \in DOMAIN nodes, NEW st, NEW via, NEW agent, NEW declared, NEW known,
             NewBlock(p, st, via, agent, declared, known),
             x = Under(p, st, via, agent, declared, known)
      PROVE  ExactOK(x)
  <2> DEFINE n == nodes[p]
             q == n.blocks
  <2>1. /\ NodeOK(x) /\ x.blocks = Append(q, st) /\ x.mandate = n.mandate
        /\ x.via = via /\ x.declared = declared /\ x.chain = n.chain \o declared
    BY <1>1, <1>3, UnderNode
  <2>2. ~x.foreign => ~n.foreign /\ via # "foreign"
    <3>1. x.foreign = (nodes[p].foreign \/ via = "foreign")
      BY <1>1, <1>3, UnderNode
    <3> QED BY <3>1, Zenon
  <2>3. p \in 1 .. Len(nodes)
    BY <1>1 DEF NodesOK
  <2>4. NodeOK(n) /\ ExactOK(n)
    BY <1>1, <2>3 DEF ExactInv, NodesOK
  <2>5. q \in Seq(ToSet(q)) /\ DOMAIN q = 1 .. Len(q)
    BY <2>4 DEF NodeOK, ChainOK
  <2>6. ValidCaveats(declared)
    <3>1. ValidCaveats(<<>>)
      BY DEF ValidCaveats
    <3> QED BY <1>3, <3>1, Zenon DEF NewBlock
  <2>7. ValidCaveats(n.chain)
    BY <2>4 DEF ExactOK
  <2> HIDE DEF n, q
  <2>8. AreCaveats(x.chain, n.chain, declared)
    BY <2>1, <2>6, <2>7, ValidConcat
  <2>9. IsAppend(x.blocks, q, st)
    BY <2>1, <2>5, AppendAny
  <2>10. \A k \in DOMAIN n.chain : \E i \in DOMAIN x.chain : x.chain[i] = n.chain[k]
    BY <2>8 DEF AreCaveats
  <2>11. \A k \in DOMAIN declared : \E i \in DOMAIN x.chain : x.chain[i] = declared[k]
    <3> SUFFICES ASSUME NEW k \in DOMAIN declared
                 PROVE  \E i \in DOMAIN x.chain : x.chain[i] = declared[k]
      OBVIOUS
    <3>1. Len(n.chain) + k \in DOMAIN x.chain /\ x.chain[Len(n.chain) + k] = declared[k]
      BY <2>8 DEF AreCaveats
    <3> QED BY <3>1
  <2>12. ASSUME ~x.foreign, NEW b \in 2 .. Len(x.blocks), NEW j \in DOMAIN x.blocks[b]
         PROVE  LET s == x.blocks[b][j]
                IN  /\ s.fact = "arg" => Kind(x.chain, "arg_predicate") # {}
                    /\ s.fact = "request_intent" => s.term = x.mandate.intent_hash
    <3> DEFINE s == x.blocks[b][j]
    <3>1. CASE b = Len(q) + 1
      <4>1. j \in DOMAIN st /\ s = st[j]
        BY <2>9, <3>1 DEF IsAppend
      <4>2. st = BlockStatements(agent, declared)
        BY <1>3, <2>2, <2>12, Zenon DEF NewBlock
      <4>3. WrittenFor(s, declared)
        <5> HIDE DEF s
        <5> QED BY <2>6, <4>1, <4>2, BlockWritten
      <4> HIDE DEF s
      <4>4. s.fact = "arg" => Kind(x.chain, "arg_predicate") # {}
        BY <2>11, <4>3 DEF WrittenFor, Kind
      <4>5. ASSUME s.fact = "request_intent" PROVE s.term = x.mandate.intent_hash
        <5>1. PICK k \in DOMAIN declared : declared[k].kind = "intent_bound"
                                          /\ s.term = declared[k].intent_hash
          BY <4>3, <4>5 DEF WrittenFor
        <5>2. via = "sdk"
          <6>1. declared[k].kind \in {"arg_predicate", "intent_bound"}
            BY <5>1
          <6> QED BY <1>3, <2>2, <2>12, <6>1, Zenon DEF NewBlock
        <5> QED BY <2>1, <5>1, <5>2, IntentKept
      <4> QED BY <4>4, <4>5 DEF s
    <3>2. CASE b # Len(q) + 1
      <4>1. b \in 2 .. Len(q) /\ x.blocks[b] = q[b]
        BY <2>5, <2>9, <3>2 DEF IsAppend
      <4>2. /\ s.fact = "arg" => Kind(n.chain, "arg_predicate") # {}
            /\ s.fact = "request_intent" => s.term = n.mandate.intent_hash
        BY <2>2, <2>4, <2>12, <4>1 DEF ExactOK, q
      <4>3. Kind(n.chain, "arg_predicate") # {} => Kind(x.chain, "arg_predicate") # {}
        BY <2>10 DEF Kind
      <4> HIDE DEF s
      <4> QED BY <2>1, <4>2, <4>3 DEF s
    <3> QED BY <3>1, <3>2
  <2>13. ValidCaveats(x.chain)
    BY <2>8 DEF AreCaveats
  <2> QED BY <2>12, <2>13, Zenon DEF ExactOK
<1> QED BY <1>2, <1>3, Zenon DEF Added

LEMMA ExactInductive ==
    ASSUME NumbersOrdered
    PROVE  Spec => []ExactInv
<1>1. Init /\ ReadInv => ExactInv
  <2>1. Init => \A i \in 1 .. Len(nodes) : ExactOK(nodes[i])
    BY DEF Init
  <2> QED BY <2>1 DEF ExactInv
<1>2. ExactInv /\ [Next]_vars /\ ReadInv' /\ NarrowInv' => ExactInv'
  <2> SUFFICES ASSUME ExactInv, [Next]_vars, ReadInv', NarrowInv'
               PROVE  ExactInv'
    OBVIOUS
  <2>0. AuthorityInv
    BY DEF ExactInv, ReadInv
  <2>1. CASE nodes' = nodes
    BY <2>1 DEF ExactInv
  <2>2. ASSUME NEW x, Added(x), nodes' = Append(nodes, x) PROVE ExactInv'
    <3>1. nodes \in Seq(ToSet(nodes))
      BY <2>0 DEF AuthorityInv, NodesOK
    <3>2. IsAppend(nodes', nodes, x)
      BY <2>2, <3>1, AppendAny
    <3>3. Len(nodes) + 1 \in 1 .. Len(nodes') /\ nodes'[Len(nodes) + 1] = x
      BY <3>2 DEF IsAppend
    <3>4. \A i \in 1 .. Len(nodes') : NarrowOK(nodes'[i])
      BY DEF NarrowInv
    <3>5. NarrowOK(x)
      BY <3>3, <3>4
    <3>6. ExactOK(x)
      BY <2>2, <3>5, AddedExact
    <3>7. ASSUME NEW i \in 1 .. Len(nodes') PROVE ExactOK(nodes'[i])
      <4>1. i = Len(nodes) + 1 \/ i \in 1 .. Len(nodes)
        BY <3>2 DEF IsAppend
      <4> QED BY <3>2, <3>6, <4>1 DEF IsAppend, ExactInv
    <3> QED BY <3>7 DEF ExactInv
  <2>3. nodes' = nodes \/ \E x : Added(x) /\ nodes' = Append(nodes, x)
    BY <2>0, StepAdds DEF vars
  <2> QED BY <2>1, <2>2, <2>3
<1> QED BY <1>1, <1>2, ReadInductive, NarrowInductive, PTL DEF Spec

\* So every block, whatever its texts, is shown as a list of statements.
LEMMA NodeShown ==
    ASSUME ReadsLists, NEW t, NodeOK(t), ReadOK(t), IsRead(t)
    PROVE  ShownChain(t) /\ ReadOffSome(TokenCaveats(t))
<1> DEFINE q == t.blocks
<1>1. q \in Seq(ToSet(q)) /\ Len(q) >= 1
  BY DEF NodeOK, ChainOK
<1>2. ASSUME NEW b \in 2 .. Len(q) PROVE Statements(q[b]) \in Seq(ToSet(Statements(q[b])))
  <2>1. Len(q[b]) <= MAX_STATEMENTS_PER_BLOCK
    BY BlocksFit DEF IsRead
  <2>2. q[b] \in Seq(ToSet(q[b]))
    BY DEF ReadOK, BlockOK
  <2> QED BY <2>1, <2>2, ShownList
<1>3. ShownChain(t)
  BY <1>1, <1>2 DEF ShownChain
<1> QED BY <1>3, ChainReadsSome DEF IsRead

\* What effective_authority() shows of any chain that is read is an upper bound of what the
\* token authorizes and the caveats read back do not deny, of what it authorizes by itself
\* where the chain's texts can be read and no block states requests, and is exact where the
\* blocks are all attenuate()'s own, read completely and free of argument predicates
\* (effective_bound, parse_block_source, authorize_request).
THEOREM DelegationBoundIsExact ==
    ASSUME NumbersOrdered, ReadsLists
    PROVE  Spec => []BoundIsExact
<1>1. ExactInv => BoundIsExact
  <2> SUFFICES ASSUME ExactInv, NEW i \in DOMAIN nodes, IsRead(nodes[i]), NEW c \in Contexts
               PROVE  LET t == nodes[i]
                          bound == EffectiveAuthority(t).bound
                          readable == LegibleChain(t) /\ StatesNoRequest(t)
                          exact == /\ ~t.foreign /\ Kind(t.chain, "arg_predicate") = {}
                                   /\ LegibleChain(t) /\ EffectiveAuthority(t).complete
                          ctx == At(c, t)
                      IN  /\ Authorizes(t, ctx) /\ (readable \/ NoneDenies(TokenCaveats(t), ctx)) =>
                                Permits(bound, ctx)
                          /\ exact /\ Permits(bound, ctx) => Authorizes(t, ctx)
    BY Zenon DEF BoundIsExact
  <2> DEFINE t == nodes[i]
             ctx == At(c, t)
             cs == GrantCaveats(Grant(t)) \o TokenCaveats(t)
             B == EffectiveBound(cs)
             readable == LegibleChain(t) /\ StatesNoRequest(t)
             exact == /\ ~t.foreign /\ Kind(t.chain, "arg_predicate") = {}
                      /\ LegibleChain(t) /\ EffectiveAuthority(t).complete
  <2>1. i \in 1 .. Len(nodes)
    BY DEF ExactInv, ReadInv, AuthorityInv, NodesOK
  <2>2. NodeOK(t) /\ ReadOK(t) /\ ExactOK(t) /\ IsRead(t)
    BY <2>1 DEF ExactInv, ReadInv, AuthorityInv, NodesOK
  <2> HIDE DEF t
  <2>3. ChainOK(t) /\ ~Raises(t)
    BY <2>2 DEF NodeOK, IsRead
  <2>4. ValidContext(ctx) /\ ctx.current_depth = Depth(t)
    BY AtValid
  <2>5. ctx.current_depth \in Int
    <3>1. Len(t.blocks) \in Nat
      BY <2>2 DEF NodeOK, ChainOK
    <3> QED BY <2>4, <3>1 DEF Depth
  <2>6. EffectiveAuthority(t).bound = B
    BY DEF EffectiveAuthority
  <2>7. Authorizes(t, ctx) => ctx.operation \in Scopes
    <3> SUFFICES ASSUME Authorizes(t, ctx) PROVE ctx.operation \in Scopes
      OBVIOUS
    <3>1. ctx.operation \in t.mandate.scopes
      BY <2>2, AuthorizedIsGranted
    <3>2. t.mandate.scopes \subseteq Scopes
      BY <2>2 DEF NodeOK, ChainOK, MandateOK
    <3> QED BY <3>1, <3>2
  <2>8. Permits(B, ctx) => ctx.operation \in Scopes
    <3>1. B.scopes \subseteq Scopes
      BY DEF EffectiveBound
    <3> HIDE DEF B, ctx
    <3> QED BY <3>1 DEF Permits
  <2>9. ReadOffSome(TokenCaveats(t))
    BY <2>2, NodeShown
  <2>10. IsChainList(cs, Len(cs), t)
    BY <2>3, <2>9, ChainList
  <2>11. readable /\ Authorizes(t, ctx) => NotDenied(TokenCaveats(t), ctx)
    BY <2>2, NodeVerdicts
  <2>12. NoneDenies(TokenCaveats(t), ctx) <=> NotDenied(TokenCaveats(t), ctx)
    BY Zenon DEF NoneDenies, NotDenied
  <2> HIDE DEF ctx
  <2> DEFINE n == Len(cs)
             Sat == \A k \in 1 .. n : cs[k].kind \in Folded => Satisfied(cs[k], ctx)
             One == \A k, j \in 1 .. n : cs[k].kind = "intent_bound" /\ cs[j].kind = "intent_bound" =>
                        cs[k].intent_hash = cs[j].intent_hash
  <2> HIDE DEF cs
  <2>13. Authorizes(t, ctx) /\ NotDenied(TokenCaveats(t), ctx) => Sat
    BY <2>3, <2>4, <2>10, ChainBound
  <2>14. exact => ReadableChain(t) /\ RecognizedChain(t) /\ NoArguments(t) /\ OneIntent(t)
    <3>1. exact => ReadableChain(t) /\ RecognizedChain(t)
      BY <2>2, NodeReads
    <3>2. exact => NoArguments(t) /\ OneIntent(t)
      BY <2>2 DEF ExactOK, NoArguments, OneIntent
    <3> QED BY <3>1, <3>2
  <2>15. exact => One /\ (Sat => Authorizes(t, ctx))
    <3>1. exact => One
      BY <2>3, <2>10, <2>14, ChainIntents
    <3>2. exact /\ Sat => Authorizes(t, ctx)
      BY <2>3, <2>4, <2>10, <2>14, ChainExact
    <3> QED BY <3>1, <3>2
  <2>16. FoldList(cs, n)
    BY <2>10 DEF IsChainList
  <2>17. ctx.operation \in Scopes => (Sat => Permits(B, ctx)) /\ (Permits(B, ctx) /\ One => Sat)
    BY <2>4, <2>5, <2>16, FoldExact
  <2> HIDE DEF B, n, Sat, One, readable, exact
  <2>18. /\ Authorizes(t, ctx) /\ (readable \/ NoneDenies(TokenCaveats(t), ctx)) => Permits(B, ctx)
         /\ exact /\ Permits(B, ctx) => Authorizes(t, ctx)
    BY <2>7, <2>8, <2>11, <2>12, <2>13, <2>15, <2>17
  <2> QED BY <2>6, <2>18 DEF t, ctx, readable, exact
<1> QED BY <1>1, ExactInductive, PTL
================================================================================
