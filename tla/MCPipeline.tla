----------------------------- MODULE MCPipeline -----------------------------
(* Model-checking instance of Pipeline: a route for payments and one for       *)
(* reading, a root token, a payer's and a reader's under it, two with blocks   *)
(* that other code wrote, and requests that are refused, escalated and allowed *)
(* at each step.  The label `both` holds a slash.                              *)
EXTENDS Pipeline, TLC

CONSTANTS read, pay, bank, h1, h2, amount, note, agent, other, both, t1, t2, t3, v1, r0, r1, r2

MCDimensionOrder == <<"calls", "spend">>
MCWordsOf == (t1 :> {"pay", "invoice"}) @@ (t2 :> {"pay"}) @@ (t3 :> {"sing"})
MCOrthogonal == {<<t1, t3>>}
MCIntentHash == (t1 :> h1) @@ (t2 :> h2) @@ (t3 :> h2)
MCText == (v1 :> v1)
MCSegments(label) == IF label = both THEN <<agent, other>> ELSE <<label>>
Never(s) == FALSE
AsRendered(b) == b

\* A number with one digit too many.
Long == 2 * BUDGET_SCALE + 1
MCRounded(n) == IF n = Long THEN 2 * BUDGET_SCALE ELSE n

Num(n) == Value("number", v1, 2 * BUDGET_SCALE * n)
Source(kind, keys, numeric) == [kind |-> kind, keys |-> keys, numeric |-> numeric]
MCRoutes ==
    [rules |-> << [method |-> "POST", paths |-> {"/pay"}, scope |-> pay, tool |-> bank,
                   drift_mode |-> "strict", params |-> {},
                   sources |-> (amount :> Source("body", <<"payment", "amount">>, TRUE))],
                  [method |-> "ANY", paths |-> {"/pay", "/read"}, scope |-> read, tool |-> bank,
                   drift_mode |-> "log_only", params |-> {},
                   sources |-> (amount :> Source("query", <<"cap">>, TRUE)) @@
                               (note :> Source("query", <<"note">>, FALSE))] >>,
     deny_unmapped |-> TRUE, max_extract_body_bytes |-> 2]

Mandate ==
    [scopes |-> {read, pay}, budget |-> [spend |-> 2, calls |-> 1], intent_hash |-> h1,
     max_depth |-> 1, not_before |-> 0, expires_at |-> 1]
Rooted == MintRoot(Mandate, "k1")
Under(agt, cs) == AppendBlock(Rooted, BlockStatements(agt, cs))
MCCredentials ==
    << [token |-> Rooted, ids |-> <<r0>>],
       [token |-> Under(agent, <<BudgetCeiling("spend", 1)>>), ids |-> <<r0, r1>>],
       [token |-> Under(both, <<RequiresApproval({pay}), ScopeSubset({read, pay})>>),
        ids |-> <<r0, r2>>],
       [token |-> MintRoot(Mandate, "k2"), ids |-> <<r0>>],
       [token |-> AppendBlock(Rooted, <<Clause("fact", "operation", NoKey, "eq", read),
                                        Clause("check", "operation", NoKey, "in", {read})>>),
        ids |-> <<r0, r1>>],
       [token |-> AppendBlock(Rooted, <<Clause("check", "current_depth", NoKey, "le", 9)>>),
        ids |-> <<r0, r1>>] >>

Header(c) == <<"authorization", [scheme |-> "bearer", token |-> c]>>
Body(pairs) == [size |-> 1, json |-> TRUE, root |-> Object(<< <<"payment", Object(pairs)>> >>)]
Post(c, headers, pairs) ==
    [method |-> "POST", path |-> "/pay", params |-> <<>>, query |-> <<>>,
     headers |-> <<Header(c)>> \o headers, body |-> Body(pairs), content_type |-> "json"]
Get(c, headers, query) ==
    [method |-> "GET", path |-> "/read", params |-> <<>>, query |-> query,
     headers |-> <<Header(c)>> \o headers, body |-> Absent, content_type |-> "none"]
Pays(c, n) == Post(c, <<>>, << <<"amount", Num(n)>> >>)
MCRequests ==
    << Pays(1, 1), Pays(2, 2), Pays(2, 1), Pays(3, 1), Pays(4, 1), Pays(5, 1), Pays(6, 1),
       Pays(1, -1),
       Post(1, <<>>, << <<"amount", Num(1)>>, <<"amount", Num(2)>> >>),
       Post(1, <<<<"agentiam-task-intent", t1>>, <<"agentiam-action-intent", t3>>>>,
            << <<"amount", Num(1)>> >>),
       Post(1, <<<<"agentiam-task-intent", t2>>>>, << <<"amount", Num(1)>> >>),
       Get(1, <<>>, << <<"cap", Value("text", v1, 1)>> >>),
       Get(2, <<>>, << <<"note", Value("text", v1, NotANumber)>> >>),
       Post(1, <<>>, << <<"amount", Value("number", v1, Long)>> >>),
       [Pays(1, 1) EXCEPT !.path = "/other"] >>

Statement(ops, rs, max) ==
    [operations |-> ops, roles |-> rs, sensitivities |-> {"low", "high"}, amount |-> max]
MCBundle(signer) ==
    [serial |-> 1, signer |-> signer, parses |-> TRUE,
     tools |-> (bank :> [sensitivity |-> "high"]),
     permits |-> {Statement({read}, {"agent", "senior"}, 9), Statement({pay}, {"senior"}, 9)},
     forbids |-> {Statement({pay}, {"senior", "agent"}, -1)}]
MCAssemblies ==
    {[bundle |-> MCBundle("pk"), roles |-> rs] :
        rs \in {(<<>> :> "senior") @@ (<<agent, other>> :> "senior"),
                (<<agent>> :> "agent") @@ (<<agent, other>> :> "senior")}}
    \cup {[bundle |-> MCBundle(NoSigner), roles |-> <<>>]}
Usual == [fresh |-> TRUE, limited |-> FALSE, embeds |-> TRUE]
MCWorlds == {Usual, [Usual EXCEPT !.fresh = FALSE], [Usual EXCEPT !.limited = TRUE],
             [Usual EXCEPT !.embeds = FALSE]}
=============================================================================
