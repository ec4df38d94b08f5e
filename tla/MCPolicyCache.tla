---------------------------- MODULE MCPolicyCache ----------------------------
(* Model-checking instance of PolicyCache: six candidates, of which one is     *)
(* not signed by the service, one does not parse and one fails its test, over  *)
(* the serials 1 to 3.  One misnames an attribute of its catalogue and another *)
(* calls the tool sensitive, which the cache, having tools of its own, does    *)
(* not look at.                                                                *)
EXTENDS PolicyCache, TLC

CONSTANTS read, pay, bank, h1, agent, r0

MCDimensionOrder == <<"spend">>
MCWordsOf == <<>>
Whole(label) == <<label>>
Never(s) == FALSE
AsRendered(b) == b
MCCacheTools == bank :> [sensitivity |-> "low", is_external |-> FALSE]

Statement(ops, rs) ==
    [operations |-> ops, roles |-> rs, sensitivities |-> {"low"}, amount |-> 9]
Bundle(n, permits) ==
    [serial |-> n, signer |-> "pk", parses |-> TRUE,
     tools |-> (bank :> [sensitivity |-> "low"]), permits |-> permits, forbids |-> {}]
Wide == {Statement({read, pay}, {"agent", "senior"})}
Narrow == {Statement({read}, {"agent"})}
MCBundles ==
    { Bundle(1, Narrow), Bundle(2, Wide),
      [Bundle(3, Narrow) EXCEPT !.tools = bank :> [sensitivity |-> "high"]],
      [Bundle(3, Wide) EXCEPT !.signer = NoSigner],
      [Bundle(3, Wide) EXCEPT !.parses = FALSE],
      [Bundle(2, Narrow) EXCEPT !.tools = bank :> [sensitivty |-> "low"]] }

Mandate ==
    [scopes |-> {read, pay}, budget |-> [spend |-> 2], intent_hash |-> h1,
     max_depth |-> 1, not_before |-> 0, expires_at |-> 9]
Context(op) ==
    [operation |-> op, requested |-> [spend |-> 1], current_depth |-> 0, request_intent |-> h1,
     now |-> 0, tool |-> bank, args |-> <<>>, task_intent_text |-> NoText,
     action_intent_text |-> NoText, drift_mode |-> "log_only"]
MCSamples ==
    {[token |-> MintRoot(Mandate, "k1"), ids |-> <<r0>>, role |-> role, ctx |-> Context(op)] :
        role \in {"agent", "senior"}, op \in {read, pay}}
MCTestCases ==
    << [valid |-> TRUE, role |-> "agent", context |-> Context(pay), expected |-> FALSE] >>
=============================================================================
