-------------------------------- MODULE Tokens --------------------------------
(***************************************************************************)
(* Tokens as chains of blocks: minting, attenuation, verify() and          *)
(* authorize_request() (agentiam_core/tokens.py, attenuation.py), and what *)
(* is read back off a chain (datalog.py).                                  *)
(*                                                                         *)
(* A token is the mandate it was minted for, the root key that signed it   *)
(* and its blocks, each a sequence of statements; block 1 is the authority *)
(* block (number 0 in the code).  That blocks can be appended and not      *)
(* changed is biscuit's signature chain.  The facts of the authority block *)
(* are the mandate's fields, in the form Datalog holds them.               *)
(***************************************************************************)
EXTENDS Attenuation

CONSTANTS
    AcceptedKeys,     \* RootKeySet.keys
    Agents,           \* agent ids and roles that validate_label() accepts
    HARD_SIZE_LIMIT   \* 8192 base64 characters in the code; statements here

\* The size limit bounds a chain long before the reader's limit on statements does.
\* RootKeySet refuses to be empty.
ASSUME TokenConstants ==
    /\ HARD_SIZE_LIMIT \in Nat /\ HARD_SIZE_LIMIT <= MAX_STATEMENTS_PER_BLOCK
    /\ AcceptedKeys # {}
    /\ Agents \cap Quoted = {}

\* Budget: an amount or a count in every dimension, in whole units and not below zero.
Budget == [Dimensions -> Nat]

\* The validators of Mandate, but for those on the form of its texts.
ValidMandate(m) ==
    /\ m.budget \in Budget
    /\ m.max_depth \in 1 .. MAX_DELEGATION_DEPTH
    /\ m.not_before < m.expires_at

\* Mutant: one check that some dimension satisfies.
BudgetChecks_RangingDimension(m) ==
    <<Clause("check", "requested", DimensionOrder[1], "le", scale(m.budget[DimensionOrder[1]]))>>
\* One check for each dimension, naming it.
BudgetChecks(m) ==
    [i \in DOMAIN DimensionOrder |->
        Clause("check", "requested", DimensionOrder[i], "le", scale(m.budget[DimensionOrder[i]]))]

\* mint_root(): the grant as facts, of which these are the ones a clause may ask about.
GrantFacts(m) ==
    [scope |-> [k \in {NoKey} |-> m.scopes],
     intent |-> [k \in {NoKey} |-> {m.intent_hash}],
     max_depth |-> [k \in {NoKey} |-> {m.max_depth}],
     budget |-> [d \in Dimensions |-> {scale(m.budget[d])}],
     not_before |-> [k \in {NoKey} |-> {datalog_date(m.not_before)}],
     expires_at |-> [k \in {NoKey} |-> {datalog_date(m.expires_at)}]]

\* mint_root(): the grant's membership checks, the budget checks, and the window, whose
\* end is exclusive.
AuthorityStatements(m) ==
    <<Clause("check", "operation", NoKey, "joins", "scope"),
      Clause("check", "current_depth", NoKey, "le", m.max_depth),
      Clause("check", "request_intent", NoKey, "joins", "intent")>>
    \o BudgetChecks(m)
    \o <<Clause("check", "time", NoKey, "ge", datalog_date(m.not_before)),
         Clause("check", "time", NoKey, "lt", datalog_date(m.expires_at))>>

MintRoot(m, k) == [mandate |-> m, key |-> k, blocks |-> <<AuthorityStatements(m)>>]

\* Mutant: only the first caveat is compiled.
BlockStatements_FirstCaveat(agent, cs) ==
    <<Clause("fact", "agent", NoKey, "eq", agent)>> \o ToDatalog(cs[1])
\* attenuate(): identity facts, then the caveats.  Of `role` and `declared_depth`, which
\* are read for display only, nothing is kept.
BlockStatements(agent, cs) ==
    <<Clause("fact", "agent", NoKey, "eq", agent)>> \o
    FlattenSeq([i \in DOMAIN cs |-> ToDatalog(cs[i])])

\* BiscuitBuilder.append: one more block, the others as they were.
AppendBlock(t, statements) == [t EXCEPT !.blocks = Append(@, statements)]

Size(t) == Len(FlattenSeq(t.blocks))
Depth(t) == Len(t.blocks) - 1

\* The grant that verify() reads back out of the authority facts.
Grant(t) ==
    [t.mandate EXCEPT !.not_before = datalog_date(@) * Second,
                      !.expires_at = datalog_date(@) * Second]

\* _parse(): some accepted key verifies the chain.
_parse(t) == \E k \in AcceptedKeys : t.key = k

\* verify(): the reason it raises with, or OK.
Verify(t, now) ==
    CASE Size(t) > HARD_SIZE_LIMIT -> "TOKEN_TOO_LARGE"
      [] Size(t) <= HARD_SIZE_LIMIT /\ ~_parse(t) -> "TOKEN_INVALID_SIGNATURE"
      [] OTHER ->
            IF now < Grant(t).not_before THEN "TOKEN_NOT_YET_VALID"
            ELSE IF now >= Grant(t).expires_at THEN "TOKEN_EXPIRED"
            ELSE IF Depth(t) > Grant(t).max_depth THEN "DEPTH_EXCEEDED"
            ELSE "OK"

\* All statements of a block pass, with the facts of the request, of the grant and its own.
BlockPasses(block, request, grant) ==
    \A i \in DOMAIN block : Passes(block[i], block, request, grant)

\* Mutant: only the block the holder's parent wrote.
Authorizes_LastBlock(t, ctx) ==
    BlockPasses(t.blocks[Len(t.blocks)], RequestFacts(ctx), GrantFacts(t.mandate))
\* authorize_request(): every block must pass.
Authorizes(t, ctx) ==
    LET request == RequestFacts(ctx)
        grant == GrantFacts(t.mandate)
    IN  \A b \in DOMAIN t.blocks : BlockPasses(t.blocks[b], request, grant)

\* The code of the fact a failed check is about; the mandate's own scope and budget
\* checks have codes of their own, and one on another fact counts as an attenuation.
FactReason(fact, block) ==
    CASE fact = "operation" -> IF block = 1 THEN "SCOPE_NOT_GRANTED" ELSE "SCOPE_ATTENUATED_AWAY"
      [] fact = "requested" ->
            IF block = 1 THEN "BUDGET_EXHAUSTED_MANDATE" ELSE "BUDGET_EXHAUSTED_CAVEAT"
      [] fact = "tool" -> "TOOL_DENIED"
      [] fact = "arg" -> "ARG_PREDICATE_FAILED"
      [] fact = "current_depth" -> "DEPTH_EXCEEDED"
      [] fact = "request_intent" -> "INTENT_MISMATCH"
      [] fact = "time" -> "TOKEN_EXPIRED"
      [] OTHER -> "SCOPE_ATTENUATED_AWAY"

\* _first_failure(), when some statement does not pass.
FirstFailure(t, ctx) ==
    LET request == RequestFacts(ctx)
        grant == GrantFacts(t.mandate)
        fails(b) == {i \in DOMAIN t.blocks[b] :
                        ~Passes(t.blocks[b][i], t.blocks[b], request, grant)}
        block == MinOf({b \in DOMAIN t.blocks : fails(b) # {}})
    IN  FactReason(t.blocks[block][MinOf(fails(block))].fact, block)

----------------------------------------------------------------------------
(* Read back off the chain.                                                 *)

\* token_caveats(): what the attenuation blocks added, root first.
TokenCaveats(t) ==
    FlattenSeq([b \in 1 .. Depth(t) |-> ParseBlock(t.blocks[b + 1]).caveats])

\* It raises on some block.
Raises(t) == \E b \in DOMAIN t.blocks : ParseBlock(t.blocks[b]).raises

\* effective_authority()
EffectiveAuthority(t) ==
    [bound |-> EffectiveBound(GrantCaveats(Grant(t)) \o TokenCaveats(t)),
     complete |-> \A b \in DOMAIN t.blocks : ParseBlock(t.blocks[b]).complete]

\* A block's agent: one fact with a label that validate_label() accepts, or the
\* name of the slot.
BlockAgent(statements, index) ==
    LET shown == Statements(statements)
        named == {i \in DOMAIN shown : /\ shown[i].form = "fact" /\ Recognized(shown[i])
                                       /\ shown[i].fact = "agent"}
    IN  IF Cardinality(named) = 1 /\ \A i \in named : shown[i].term \in Agents
        THEN shown[CHOOSE i \in named : TRUE].term
        ELSE <<"agt-depth", index>>

\* chain_identity(): one agent for each attenuation block.
ChainPath(t) == [b \in 1 .. Depth(t) |-> BlockAgent(t.blocks[b + 1], b)]
=============================================================================
