------------------------------- MODULE Caveats -------------------------------
(***************************************************************************)
(* The caveat language (agentiam_core/caveats.py, models.py) and its       *)
(* reader (datalog.py): what a caveat says of a request in Python, the     *)
(* Datalog clauses it is compiled to, what biscuit makes of them, and the  *)
(* caveats that are recognized in a rendered block.                        *)
(*                                                                         *)
(* A quantity is a number of whole units, and `scale` turns it into        *)
(* 1/BUDGET_SCALE units.  An instant is a number of ticks, Second of them  *)
(* to a second, and a Datalog date is a number of seconds: datalog_date()  *)
(* formats without fractions.  Text is a model value, of which the module  *)
(* knows what the reader's patterns tell apart: biscuit renders a text     *)
(* without escaping it, so one that holds a quotation mark ends its own    *)
(* literal, and what the reader then sees is an arbitrary function of the  *)
(* block.                                                                  *)
(***************************************************************************)
EXTENDS Integers, Sequences, FiniteSets, SequencesExt, Filtering

CONSTANTS
    Scopes, Tools, Intents,  \* texts of the form each must have; a tool may be any
    Quoted,                  \* texts with a quotation mark
    Unlisted,                \* texts with a comma or a bracket, that no set pattern reads
    NoTool,                  \* RequestContext.tool is None
    DimensionOrder,          \* BudgetDimension, as sorted() gives it
    Paths,                   \* labels of arguments: any text but the empty one
    Dates,                   \* seconds that a datetime can hold
    NoTime,                  \* a bound of a TimeWindow that is None
    BUDGET_SCALE,            \* 10_000 in the code
    Second,                  \* ticks to a second
    MAX_STATEMENTS_PER_BLOCK,\* 512 in the code
    TooLong(_),              \* statements over MAX_STATEMENT_LENGTH
    Resplit(_)               \* what a block with a quoted text is rendered and split into

Dimensions == {DimensionOrder[i] : i \in DOMAIN DimensionOrder}

ASSUME CaveatConstants ==
    /\ DimensionOrder \in Seq(Dimensions)
    /\ NoTool \notin Tools /\ NoTime \notin Int /\ Dates \subseteq Int
    /\ (Scopes \cup Intents) \cap (Quoted \cup Unlisted) = {}
    /\ BUDGET_SCALE \in Nat \ {0} /\ Second \in Nat \ {0}
    /\ MAX_STATEMENTS_PER_BLOCK \in Nat \ {0}

----------------------------------------------------------------------------
(* The nine kinds (models.py).                                              *)

ScopeSubset(s) == [kind |-> "scope_subset", scopes |-> s]
BudgetCeiling(d, v) == [kind |-> "budget_ceiling", dimension |-> d, value |-> v]
TimeWindow(nb, na) == [kind |-> "time_window", not_before |-> nb, not_after |-> na]
ToolAllow(s) == [kind |-> "tool_allow", tools |-> s]
ToolDeny(s) == [kind |-> "tool_deny", tools |-> s]
ArgPredicate(p, o, v) == [kind |-> "arg_predicate", path |-> p, op |-> o, value |-> v]
DepthLimit(n) == [kind |-> "depth_limit", max_depth |-> n]
IntentBound(h) == [kind |-> "intent_bound", intent_hash |-> h]
RequiresApproval(s) == [kind |-> "requires_approval", scopes |-> s]

\* The operators of an ArgPredicate, each with its negation.
Negated ==
    [le |-> "gt", lt |-> "ge", ge |-> "lt", gt |-> "le", eq |-> "ne", ne |-> "eq",
     in |-> "not_in", not_in |-> "in"]

MAX_DELEGATION_DEPTH == 8

\* Their validators.
ValidCaveat(c) ==
    CASE c.kind = "scope_subset" -> c.scopes \subseteq Scopes
      [] c.kind = "requires_approval" -> IsFiniteSet(c.scopes)
      [] c.kind = "budget_ceiling" -> c.dimension \in Dimensions /\ c.value \in Nat
      [] c.kind = "time_window" ->
            /\ c.not_before # NoTime \/ c.not_after # NoTime
            /\ c.not_before # NoTime => c.not_before \in Int /\ c.not_before \div Second \in Dates
            /\ c.not_after # NoTime => c.not_after \in Int /\ c.not_after \div Second \in Dates
            /\ c.not_before # NoTime /\ c.not_after # NoTime => c.not_before < c.not_after
      [] c.kind \in {"tool_allow", "tool_deny"} -> c.tools \subseteq Tools
      [] c.kind = "arg_predicate" ->
            /\ c.path \in Paths /\ c.op \in DOMAIN Negated
            /\ c.op \in {"in", "not_in"} => \A x \in c.value : x \notin Int
      [] c.kind = "depth_limit" -> c.max_depth \in 0 .. MAX_DELEGATION_DEPTH
      [] c.kind = "intent_bound" -> c.intent_hash \in Intents
      [] OTHER -> FALSE

\* The fields of a RequestContext and the validators of their values.
ValidContext(ctx) ==
    /\ {"operation", "requested", "current_depth", "request_intent", "now", "tool", "args"}
          \subseteq DOMAIN ctx
    /\ ctx.requested \in [Dimensions -> Nat]
    /\ ctx.now \in Int /\ ctx.tool \in Tools \cup {NoTool}

\* The comparison `v op t`; LE .. NE of ArgOperator and their Datalog spelling.
Compare(v, op, t) ==
    CASE op = "le" -> v <= t
      [] op = "lt" -> v < t
      [] op = "ge" -> v >= t
      [] op = "gt" -> v > t
      [] op = "eq" -> v = t
      [] op = "ne" -> v # t
      [] op = "in" -> v \in t
      [] op = "not_in" -> v \notin t

----------------------------------------------------------------------------
(* evaluate()                                                               *)

InWindow(t, nb, na) ==
    /\ nb = NoTime \/ t >= nb
    /\ na = NoTime \/ t < na

\* An absent argument leaves an ArgPredicate vacuous; an absent tool satisfies no
\* ToolAllow.  RequestContext.args is a function whose domain may be any of Paths.
Satisfied(c, ctx) ==
    CASE c.kind = "scope_subset" -> ctx.operation \in c.scopes
      [] c.kind = "budget_ceiling" -> ctx.requested[c.dimension] <= c.value
      [] c.kind = "time_window" -> InWindow(ctx.now, c.not_before, c.not_after)
      [] c.kind = "tool_allow" -> ctx.tool # NoTool /\ ctx.tool \in c.tools
      [] c.kind = "tool_deny" -> ctx.tool = NoTool \/ ctx.tool \notin c.tools
      [] c.kind = "arg_predicate" ->
            c.path \in DOMAIN ctx.args => Compare(ctx.args[c.path], c.op, c.value)
      [] c.kind = "depth_limit" -> ctx.current_depth <= c.max_depth
      [] c.kind = "intent_bound" -> ctx.request_intent = c.intent_hash
      [] c.kind = "requires_approval" -> ctx.operation \notin c.scopes

KindReason ==
    [scope_subset |-> "SCOPE_ATTENUATED_AWAY", budget_ceiling |-> "BUDGET_EXHAUSTED_CAVEAT",
     tool_allow |-> "TOOL_DENIED", tool_deny |-> "TOOL_DENIED",
     arg_predicate |-> "ARG_PREDICATE_FAILED", depth_limit |-> "DEPTH_EXCEEDED",
     intent_bound |-> "INTENT_MISMATCH", requires_approval |-> "APPROVAL_REQUIRED"]

ReasonOf(c, ctx) ==
    IF c.kind # "time_window" THEN KindReason[c.kind]
    ELSE IF c.not_before # NoTime /\ ctx.now < c.not_before THEN "TOKEN_NOT_YET_VALID"
    ELSE "TOKEN_EXPIRED"

Evaluate(c, ctx) ==
    IF Satisfied(c, ctx) THEN [outcome |-> "allow", reason |-> "OK"]
    ELSE [outcome |-> IF c.kind = "requires_approval" THEN "escalate" ELSE "deny",
          reason |-> ReasonOf(c, ctx)]

----------------------------------------------------------------------------
(* to_datalog() and request_context_datalog()                               *)

scale(v) == v * BUDGET_SCALE
datalog_date(t) == t \div Second

\* A statement of a block.  `key` is the first term of a binary fact.
Clause(form, fact, key, op, term) ==
    [form |-> form, fact |-> fact, key |-> key, op |-> op, term |-> term]
NoKey == "-"

\* Numbers are scaled, text and sets of text are not.
Term(v) == IF v \in Int THEN scale(v) ELSE v

\* One clause for each bound of a window; one fact for each scope to be approved.
ToDatalog(c) ==
    CASE c.kind = "scope_subset" ->
            <<Clause("check", "operation", NoKey, "in", c.scopes)>>
      [] c.kind = "budget_ceiling" ->
            <<Clause("check", "requested", c.dimension, "le", scale(c.value))>>
      [] c.kind = "time_window" ->
            (IF c.not_before = NoTime THEN <<>>
             ELSE <<Clause("check", "time", NoKey, "ge", datalog_date(c.not_before))>>)
            \o
            (IF c.not_after = NoTime THEN <<>>
             ELSE <<Clause("check", "time", NoKey, "lt", datalog_date(c.not_after))>>)
      [] c.kind = "tool_allow" -> <<Clause("check", "tool", NoKey, "in", c.tools)>>
      [] c.kind = "tool_deny" -> <<Clause("reject", "tool", NoKey, "in", c.tools)>>
      [] c.kind = "arg_predicate" ->
            <<Clause("reject", "arg", c.path, Negated[c.op],
                     IF c.op \in {"in", "not_in"} THEN c.value ELSE Term(c.value))>>
      [] c.kind = "depth_limit" ->
            <<Clause("check", "current_depth", NoKey, "le", c.max_depth)>>
      [] c.kind = "intent_bound" ->
            <<Clause("check", "request_intent", NoKey, "eq", c.intent_hash)>>
      [] c.kind = "requires_approval" ->
            LET s == SetToSeq(c.scopes)
            IN  [i \in DOMAIN s |-> Clause("fact", "requires_approval", NoKey, "eq", s[i])]

\* The facts that describe a request.
REQUEST_FACTS ==
    {"operation", "current_depth", "request_intent", "time", "requested", "tool", "arg"}

\* Every budget dimension is present; `tool` and `arg` only when the request has them.
RequestFacts(ctx) ==
    [operation |-> [k \in {NoKey} |-> {ctx.operation}],
     current_depth |-> [k \in {NoKey} |-> {ctx.current_depth}],
     request_intent |-> [k \in {NoKey} |-> {ctx.request_intent}],
     time |-> [k \in {NoKey} |-> {datalog_date(ctx.now)}],
     requested |-> [d \in Dimensions |-> {scale(ctx.requested[d])}],
     tool |-> [k \in {NoKey} |-> {ctx.tool} \ {NoTool}],
     arg |-> [p \in Paths |-> IF p \in DOMAIN ctx.args THEN {Term(ctx.args[p])} ELSE {}]]

\* The terms of the facts that a table of facts holds, and that a block states itself.
Held(facts, fact, key) ==
    IF fact \in DOMAIN facts /\ key \in DOMAIN facts[fact] THEN facts[fact][key] ELSE {}
Brought(own, fact, key) ==
    {own[i].term : i \in {j \in DOMAIN own : /\ own[j].form = "fact" /\ own[j].fact = fact
                                             /\ own[j].key = key}}

\* biscuit: what a block's clauses see of a fact, never what another block states.
Visible(own, request, grant, fact, key) ==
    Held(request, fact, key) \cup Held(grant, fact, key) \cup Brought(own, fact, key)

\* A check needs some fact that satisfies it, a reject none that does.  A clause that
\* "joins" asks for the value as a term of another fact.
Passes(clause, own, request, grant) ==
    LET hit == \E v \in Visible(own, request, grant, clause.fact, clause.key) :
                    IF clause.op = "joins" THEN v \in Visible(own, request, grant, clause.term, NoKey)
                    ELSE Compare(v, clause.op, clause.term)
    IN  CASE clause.form = "check" -> hit
          [] clause.form = "reject" -> ~hit
          [] clause.form = "fact" -> TRUE

----------------------------------------------------------------------------
(* Reading a block back (datalog.py).                                       *)

_AUTHORITY_FACTS ==
    {"budget", "expires_at", "intent", "issued_at", "mandate", "max_depth", "not_before",
     "principal", "scope", "task"}

\* The facts of a grant, of an identity and of an approval.
RecognizedFact(s) ==
    \/ s.fact \in _AUTHORITY_FACTS \cup {"declared_depth"}
    \/ s.fact \in {"agent", "role", "requires_approval"} /\ s.key = NoKey /\ s.term \notin Int

\* _CLAUSE_RES and what _build() refuses: the shapes that caveats.py and attenuate() emit,
\* with terms that can be read.
RecognizedClause(s) ==
    LET shape == <<s.form, s.fact, s.op>>
    IN  \/ /\ shape \in {<<"check", "operation", "in">>, <<"check", "tool", "in">>,
                         <<"reject", "tool", "in">>}
           /\ s.key = NoKey /\ s.term \cap Unlisted = {}
        \/ shape = <<"check", "requested", "le">> /\ s.key \in Dimensions /\ s.term \in Int
        \/ /\ shape \in {<<"check", "time", "ge">>, <<"check", "time", "lt">>}
           /\ s.key = NoKey /\ s.term \in Dates
        \/ shape = <<"check", "current_depth", "le">> /\ s.key = NoKey /\ s.term \in Nat
        \/ shape = <<"check", "request_intent", "eq">> /\ s.key = NoKey /\ s.term \notin Int
        \/ shape = <<"check", "operation", "joins">> /\ s.key = NoKey /\ s.term = "scope"
        \/ shape = <<"check", "request_intent", "joins">> /\ s.key = NoKey /\ s.term = "intent"
        \/ /\ s.form = "reject" /\ s.fact = "arg" /\ s.key # NoKey
           /\ \/ s.op \in {"in", "not_in"} /\ s.term \cap Unlisted = {}
              \/ s.op \in {"eq", "ne"}
              \/ s.op \in {"le", "lt", "ge", "gt"} /\ s.term \in Int

Recognized(s) ==
    ~TooLong(s) /\ IF s.form = "fact" THEN RecognizedFact(s) ELSE RecognizedClause(s)

\* Of these, the clauses that are caveats: the grant's own membership checks are not.
Yields(s) == Recognized(s) /\ s.form # "fact" /\ s.op # "joins"

\* Mutant: the comparison is read as it stands.
Denegated_AsWritten(op) == op
\* _DENEGATED, and the two set patterns: a reject clause holds the negation.
Denegated(op) == CHOOSE o \in DOMAIN Negated : Negated[o] = op

\* _build(): undo the negation, the scaling and the date format.
Build(clause) ==
    CASE clause.fact = "operation" -> ScopeSubset(clause.term)
      [] clause.fact = "requested" -> BudgetCeiling(clause.key, clause.term \div BUDGET_SCALE)
      [] clause.fact = "time" ->
            IF clause.op = "ge" THEN TimeWindow(clause.term * Second, NoTime)
            ELSE TimeWindow(NoTime, clause.term * Second)
      [] clause.fact = "tool" ->
            IF clause.form = "check" THEN ToolAllow(clause.term) ELSE ToolDeny(clause.term)
      [] clause.fact = "arg" ->
            LET op == Denegated(clause.op)
            IN  ArgPredicate(clause.key, op,
                    IF op \in {"in", "not_in"} \/ clause.term \notin Int THEN clause.term
                    ELSE clause.term \div BUDGET_SCALE)
      [] clause.fact = "current_depth" -> DepthLimit(clause.term)
      [] clause.fact = "request_intent" -> IntentBound(clause.term)

\* biscuit renders facts ahead of checks.
Rendered(statements) ==
    LET facts == {s \in ToSet(statements) : s.form = "fact"}
    IN  Skipping(statements, ToSet(statements) \ facts) \o Skipping(statements, facts)

\* No text of the block ends its own literal.
HasQuote(s) ==
    \/ s.key \in Quoted
    \/ IF s.op \in {"in", "not_in"} THEN s.term \cap Quoted # {} ELSE s.term \in Quoted
Legible(statements) == \A i \in DOMAIN statements : ~HasQuote(statements[i])

\* _statements() stops at the limit.
Statements(statements) ==
    LET all == IF Legible(statements) THEN Rendered(statements) ELSE Resplit(Rendered(statements))
    IN  SubSeq(all, 1, IF Len(all) <= MAX_STATEMENTS_PER_BLOCK THEN Len(all)
                       ELSE MAX_STATEMENTS_PER_BLOCK)

\* parse_block_source(): the approval facts make one caveat, after the others.  It raises
\* when the constructor of a caveat does.
ParseBlock(statements) ==
    LET shown == Statements(statements)
        clauses == Skipping(shown, {s \in ToSet(shown) : ~Yields(s)})
        approval == {s.term : s \in {x \in ToSet(shown) : /\ x.form = "fact" /\ Recognized(x)
                                                          /\ x.fact = "requires_approval"}}
    IN  [caveats |-> [i \in DOMAIN clauses |-> Build(clauses[i])] \o
                     (IF approval = {} THEN <<>> ELSE <<RequiresApproval(approval)>>),
         complete |-> \A i \in DOMAIN shown : Recognized(shown[i]),
         raises |-> \E i \in DOMAIN clauses : ~ValidCaveat(Build(clauses[i]))]
=============================================================================
