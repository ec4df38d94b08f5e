----------------------------- MODULE Delegation -----------------------------
(***************************************************************************)
(* Chains of tokens as they are made: the console's TaskRegistry mints a   *)
(* task's root token and spawns agents under it (tasks.py), an SDK client  *)
(* attenuates the token it holds (agentiam_sdk/client.py, identity.py),    *)
(* and any holder may append a block of its own with the biscuit library.  *)
(* Authority is only ever added to by appending, so the module's question  *)
(* is what each token of the tree still authorizes, and what its holder    *)
(* and the enforcement point believe it authorizes.                        *)
(*                                                                         *)
(* A node is a token with its parent's index (0 for a root), who wrote its *)
(* last block, the caveats that block was written from, the caveats the    *)
(* client that attenuate() returned knows of, and, as history, all that    *)
(* were written into the chain and whether other code wrote into it.       *)
(***************************************************************************)
EXTENDS Tokens

CONSTANTS
    Tasks,             \* sequence of what an operator may start: scopes, budget, intent_hash
    CaveatMenu,        \* sequence of caveat lists an SDK holder may propose
    ForeignBlocks,     \* sequence of blocks another writer may append
    Ceilings,          \* ceilings typed into the console
    SpendDimension,    \* BudgetDimension.SPEND_BDT
    RootKey,
    Slack,             \* create_task()'s minute before now
    DEFAULT_TTL, DEFAULT_MAX_DEPTH,
    Contexts,          \* requests, but for current_depth, which the verifier counts
    MaxTokens, MaxTime \* bounds of the model

ASSUME DelegationConstants ==
    /\ SpendDimension \in Dimensions /\ RootKey \in AcceptedKeys
    /\ Slack \in Nat /\ DEFAULT_TTL \in Nat \ {0} /\ DEFAULT_MAX_DEPTH \in Nat
    /\ MaxTokens \in Nat /\ MaxTime \in Nat

\* What operators, holders and requests bring has passed its validators.  Of a foreign
\* block no more is asked than that its amounts are of whole units.
ASSUME DelegationInputs ==
    /\ \A k \in DOMAIN Tasks : Tasks[k].scopes \subseteq Scopes
    /\ \A k \in DOMAIN CaveatMenu :
          CaveatMenu[k] \in Seq({c \in ToSet(CaveatMenu[k]) : ValidCaveat(c)})
    /\ \A k \in DOMAIN ForeignBlocks :
          /\ ForeignBlocks[k] \in Seq(ToSet(ForeignBlocks[k]))
          /\ \A s \in ToSet(ForeignBlocks[k]) :
                s.fact = "arg" /\ s.op \notin {"in", "not_in"} /\ s.term \in Int =>
                    s.term % BUDGET_SCALE = 0
    /\ Ceilings \subseteq Int
    /\ \A c \in Contexts : ValidContext(c)

VARIABLES nodes, now

vars == <<nodes, now>>

----------------------------------------------------------------------------
Root(t) ==
    [mandate |-> t.mandate, key |-> t.key, blocks |-> t.blocks, parent |-> 0, via |-> "console",
     agent |-> "root", declared |-> <<>>, known |-> <<>>, chain |-> <<>>, foreign |-> FALSE]

Under(p, statements, via, agent, declared, known) ==
    [AppendBlock(nodes[p], statements) EXCEPT
        !.parent = p, !.via = via, !.agent = agent, !.declared = declared, !.known = known,
        !.chain = @ \o declared, !.foreign = @ \/ via = "foreign"]

Room == Len(nodes) < MaxTokens

Init == nodes = <<>> /\ now = Slack

\* create_task(): the task's ceiling becomes the mandate's budget.
CreateTask(task) ==
    LET m == [scopes |-> task.scopes, budget |-> task.budget, intent_hash |-> task.intent_hash,
              max_depth |-> DEFAULT_MAX_DEPTH,
              not_before |-> now - Slack, expires_at |-> now + DEFAULT_TTL]
        t == MintRoot(m, RootKey)
    IN  /\ Room
        /\ task.budget[SpendDimension] > 0 /\ task.scopes # {}
        /\ ValidMandate(m)
        /\ Size(t) <= HARD_SIZE_LIMIT
        /\ nodes' = Append(nodes, Root(t))
        /\ UNCHANGED now

\* The name is taken by another agent of the same task.
Named(p, agent) ==
    \E i \in DOMAIN nodes :
        /\ nodes[i].via = "console" /\ nodes[i].agent = agent
        /\ nodes[i].blocks[1] = nodes[p].blocks[1]

\* The child that core attenuate() mints from p, checked against the caveats in
\* `ancestors` besides the grant.
Child(p, agent, cs) == AppendBlock(nodes[p], BlockStatements(agent, cs))
Mintable(p, agent, cs, ancestors) ==
    /\ agent \in Agents
    /\ CheckNarrowing(cs, GrantCaveats(Grant(nodes[p])) \o ancestors)
    /\ Size(Child(p, agent, cs)) <= HARD_SIZE_LIMIT

\* spawn_agent(): the parent is verified, the child is not; the registry does not know
\* what the chain's other blocks say.
SpawnAgent(p, agent, scopes, ceiling) ==
    LET cs == <<ScopeSubset(scopes), BudgetCeiling(SpendDimension, ceiling)>>
    IN  /\ Room
        /\ nodes[p].via = "console" /\ ~ Named(p, agent)
        /\ scopes # {} /\ ceiling >= 0
        /\ Verify(nodes[p], now) = "OK"
        /\ Mintable(p, agent, cs, <<>>)
        /\ nodes' = Append(nodes, Under(p, BlockStatements(agent, cs), "console", agent, cs, <<>>))
        /\ UNCHANGED now

\* AgentIAM.attenuate().  The client is the one that attenuate() returned, which knows
\* what it proposed and what its parent knew, or one constructed on a token that was
\* handed over without the caveats.  The child's own constructor verifies it.
Attenuate(p, agent, cs, handedOver) ==
    LET known == IF handedOver THEN <<>> ELSE nodes[p].known
    IN  /\ Room
        /\ handedOver \/ nodes[p].via = "sdk"
        /\ cs # <<>>
        /\ Depth(nodes[p]) + 1 <= Grant(nodes[p]).max_depth
        /\ Mintable(p, agent, cs, known)
        /\ Verify(Child(p, agent, cs), now) = "OK"
        /\ nodes' = Append(nodes, Under(p, BlockStatements(agent, cs), "sdk", agent, cs,
                                        known \o cs))
        /\ UNCHANGED now

\* Biscuit.append by other code: no check at all.
AppendForeign(p, statements) ==
    /\ Room
    /\ nodes' = Append(nodes, Under(p, statements, "foreign", "none", <<>>, <<>>))
    /\ UNCHANGED now

Tick == now < MaxTime /\ now' = now + 1 /\ UNCHANGED nodes

Next ==
    \/ \E k \in DOMAIN Tasks : CreateTask(Tasks[k])
    \/ \E p \in DOMAIN nodes, a \in Agents, s \in SUBSET Scopes, c \in Ceilings :
            SpawnAgent(p, a, s, c)
    \/ \E p \in DOMAIN nodes, a \in Agents, k \in DOMAIN CaveatMenu, h \in BOOLEAN :
            Attenuate(p, a, CaveatMenu[k], h)
    \/ \E p \in DOMAIN nodes, k \in DOMAIN ForeignBlocks : AppendForeign(p, ForeignBlocks[k])
    \/ Tick

Spec == Init /\ [][Next]_vars

----------------------------------------------------------------------------
(* What holders and verifiers read off a node.                              *)

\* The verifier counts the blocks.
At(ctx, t) == [ctx EXCEPT !.current_depth = Depth(t)]

\* AgentIdentity.authority: the grant folded with what the holder knows.
Identity(n) == EffectiveBound(GrantCaveats(Grant(n)) \o n.known)

\* Only a chain that verify() did not find too large is read, and the reader may raise.
IsRead(t) == Size(t) <= HARD_SIZE_LIMIT /\ ~Raises(t)

\* No text of the chain ends its own literal, and no appended block states facts of the
\* kinds that describe a request.
LegibleChain(t) == \A b \in DOMAIN t.blocks : Legible(t.blocks[b])
StatesNoRequest(t) ==
    \A b \in DOMAIN t.blocks : \A k \in DOMAIN t.blocks[b] :
        t.blocks[b][k].form = "fact" => t.blocks[b][k].fact \notin REQUEST_FACTS

\* The caveat gate lets the request through or asks a human.
NoneDenies(cs, ctx) == \A k \in DOMAIN cs : Evaluate(cs[k], ctx).outcome # "deny"

\* Every caveat of the chain is known to the holder.
KnowsChain(n) == n.via = "sdk" /\ ~n.foreign /\ Len(n.known) = Len(n.chain)

\* The bound a caveat sets is the one the fold shows.
Effective(a, bound) ==
    CASE a.kind = "scope_subset" -> bound.scopes = a.scopes
      [] a.kind = "budget_ceiling" -> bound.budget[a.dimension] = a.value
      [] a.kind = "time_window" ->
            IF a.not_after = NoTime THEN bound.not_before = a.not_before
            ELSE bound.not_after = a.not_after
      [] a.kind = "tool_allow" -> bound.tools_allowed = a.tools
      [] a.kind = "tool_deny" -> bound.tools_denied = a.tools
      [] a.kind = "depth_limit" -> bound.max_depth = a.max_depth
      [] a.kind = "intent_bound" -> bound.intent_hash = a.intent_hash
      [] a.kind = "requires_approval" -> bound.approval_required = a.scopes
      [] OTHER -> TRUE

----------------------------------------------------------------------------
(* Properties                                                               *)

\* Whatever blocks were appended by whomever, a token authorizes only what its mandate
\* granted, in every dimension of the budget at once (mint_root, authorize_request).
\* The window opens at the whole second that holds not_before.
WithinMandate ==
    \A i \in DOMAIN nodes, c \in Contexts :
        LET m == nodes[i].mandate
            ctx == At(c, nodes[i])
        IN  Authorizes(nodes[i], ctx) =>
                /\ ctx.operation \in m.scopes
                /\ \A d \in Dimensions : ctx.requested[d] <= m.budget[d]
                /\ ctx.request_intent = m.intent_hash
                /\ Depth(nodes[i]) <= m.max_depth
                /\ m.not_before - Second < ctx.now /\ ctx.now < m.expires_at

\* A child never authorizes a request its parent would refuse (INV-1), even where the
\* holder knew nothing of the chain and declared wider caveats, or bypassed attenuate().
NoWidening ==
    \A i \in DOMAIN nodes, c \in Contexts :
        LET p == nodes[i].parent
        IN  p # 0 /\ Authorizes(nodes[i], At(c, nodes[i])) =>
                Authorizes(nodes[p], At(c, nodes[p]))

\* The two evaluations agree, on a chain whose texts can be read: the caveats read back
\* off it, evaluated in Python, refuse a request only if biscuit refuses it, unless some
\* block states facts about requests itself, and do refuse it when every statement was
\* recognized (evaluate, to_datalog, parse_block_source).
VerdictsAgree ==
    \A i \in DOMAIN nodes :
        LET t == nodes[i]
            cs == GrantCaveats(Grant(t)) \o TokenCaveats(t)
            complete == EffectiveAuthority(t).complete
        IN  IsRead(t) /\ LegibleChain(t) =>
                \A c \in Contexts :
                    LET ctx == At(c, t)
                    IN  IF Authorizes(t, ctx) THEN StatesNoRequest(t) => NoneDenies(cs, ctx)
                        ELSE complete => ~NoneDenies(cs, ctx)

\* effective_authority() is an upper bound of what is let through, and is exact for a
\* chain of attenuate()'s own blocks that was read completely and holds no argument
\* predicates.  Let through by both evaluations, as decide() asks both, whatever the
\* chain; by biscuit alone, as TokenAuthority says, where its texts can be read and no
\* block states facts about requests.
BoundIsExact ==
    \A i \in DOMAIN nodes :
        LET t == nodes[i]
            bound == EffectiveAuthority(t).bound
            readable == LegibleChain(t) /\ StatesNoRequest(t)
            exact == /\ ~t.foreign /\ Kind(t.chain, "arg_predicate") = {}
                     /\ LegibleChain(t) /\ EffectiveAuthority(t).complete
        IN  IsRead(t) =>
                \A c \in Contexts :
                    LET ctx == At(c, t)
                    IN  /\ Authorizes(t, ctx) /\ (readable \/ NoneDenies(TokenCaveats(t), ctx)) =>
                                Permits(bound, ctx)
                        /\ exact /\ Permits(bound, ctx) => Authorizes(t, ctx)

\* What an SDK holder is shown is never less than its token authorizes (AgentIdentity,
\* "an upper bound, never an understatement"), to the second of not_before.
HolderSeesUpperBound ==
    \A i \in DOMAIN nodes :
        LET t == nodes[i]
            shown == [Identity(t) EXCEPT !.not_before = datalog_date(@) * Second]
        IN  \A c \in Contexts : Authorizes(t, At(c, t)) => Permits(shown, At(c, t))

\* For a holder that knows the whole chain, a restriction that attenuate() accepted is
\* the one in force: no accepted value is misleading.  Two caveats of one slot in the
\* same call are not compared with each other and are left out.
DeclaredIsEffective ==
    \A i \in DOMAIN nodes :
        LET a == AllAtoms(nodes[i].declared)
        IN  KnowsChain(nodes[i]) =>
                \A k \in DOMAIN a :
                    \/ \E l \in DOMAIN a \ {k} : Slot(a[l]) = Slot(a[k])
                    \/ Effective(a[k], Identity(nodes[i]))
=============================================================================
