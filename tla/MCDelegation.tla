---------------------------- MODULE MCDelegation ----------------------------
(* Model-checking instance of Delegation: one task, a holder's menu with one   *)
(* or two caveats of each kind, and blocks that other code may append.  Two    *)
(* tools have names that the reader cannot take: `quote` ends its literal, and *)
(* leaves a clause behind that looks like a caveat, `comma` splits in a set.   *)
(* An allow list of both others is too long a statement.                       *)
EXTENDS Delegation, TLC

CONSTANTS read, pay, bank, mail, h1, h2, amount, rob, bad, good, quote, comma

MCDimensionOrder == <<"spend", "calls">>
MCTasks == << [scopes |-> {read, pay}, budget |-> [spend |-> 2, calls |-> 1],
               intent_hash |-> h1] >>
MCMenu ==
    << <<ScopeSubset({read})>>,
       <<ScopeSubset({pay}), ScopeSubset({read})>>,
       <<BudgetCeiling("spend", 1), ToolAllow({bank})>>,
       <<TimeWindow(1, 3)>>,
       <<TimeWindow(NoTime, 2), ToolDeny({bank, mail})>>,
       <<ToolDeny({bank})>>,
       <<ToolAllow({bank, mail})>>,
       <<ArgPredicate(amount, "le", 1)>>,
       <<ArgPredicate(amount, "lt", 1), RequiresApproval({pay})>>,
       <<ArgPredicate(rob, "in", {bad})>>,
       <<ArgPredicate(rob, "ne", bad)>>,
       <<DepthLimit(1), IntentBound(h1)>>,
       <<IntentBound(h2)>>,
       <<ToolDeny({quote})>>,
       <<ToolAllow({bank, comma})>> >>
MCForeign ==
    << <<Clause("check", "operation", NoKey, "not_in", {pay})>>,
       <<Clause("fact", "agent", NoKey, "eq", good), Clause("fact", "agent", NoKey, "eq", bad),
         Clause("check", "request_intent", NoKey, "eq", h2)>>,
       <<Clause("fact", "operation", NoKey, "eq", pay),
         Clause("check", "operation", NoKey, "in", {pay})>>,
       <<Clause("fact", "scope", NoKey, "eq", good),
         Clause("check", "operation", NoKey, "joins", "scope"),
         Clause("check", "request_intent", NoKey, "joins", "intent"),
         Clause("check", "requested", "spend", "le", scale(2))>>,
       <<Clause("check", "tool", NoKey, "in", {quote, bank}),
         Clause("reject", "arg", rob, "eq", bad)>>,
       <<Clause("check", "requested", "fuel", "le", scale(1)),
         Clause("check", "time", NoKey, "lt", 99)>>,
       <<Clause("check", "current_depth", NoKey, "le", 9)>> >>

\* A statement with a quoted text falls apart.
MCResplit(b) ==
    Skipping(b, {s \in ToSet(b) : HasQuote(s)}) \o
    <<Clause("other", "tool", NoKey, "eq", quote), Clause("check", "tool", NoKey, "in", {mail})>>
MCTooLong(s) == s.form = "check" /\ s.fact = "tool" /\ s.term = {bank, mail}

Ctx(op, s, n, tool, args, intent, t) ==
    [operation |-> op, requested |-> [spend |-> s, calls |-> n], tool |-> tool, args |-> args,
     request_intent |-> intent, now |-> t, current_depth |-> 0]
NoArgs == [p \in {} |-> 0]
MCContexts ==
    {Ctx(op, 1, 1, tool, NoArgs, h1, 1) : op \in Scopes, tool \in {bank, mail, NoTool}}
    \cup {Ctx(read, 1, 1, tool, NoArgs, h1, 1) : tool \in {quote, comma}}
    \cup {Ctx(pay, s, n, bank, NoArgs, h1, 1) : s \in 2 .. 3, n \in 1 .. 2}
    \cup {Ctx(read, 1, 1, bank, [p \in {amount} |-> x], h1, 1) : x \in 0 .. 2}
    \cup {Ctx(read, 1, 1, bank, [p \in {rob} |-> x], h1, 1) : x \in {bad, good}}
    \cup {Ctx(read, 1, 1, bank, NoArgs, h1, t) : t \in 0 .. MaxTime + DEFAULT_TTL}
    \cup {Ctx(read, 1, 1, bank, NoArgs, h2, 1)}
AgentSymmetry == Permutations(Agents)
=============================================================================
