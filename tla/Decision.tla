------------------------------- MODULE Decision -------------------------------
(***************************************************************************)
(* The decision function (agentiam_core/decision.py): steps 3 to 7 over a  *)
(* verified token, a request context and what the local oracles answer,    *)
(* and the drift score behind step 6 (agentiam_pep/drift.py).              *)
(*                                                                         *)
(* decide() is a chain of early returns, so it is a sequence of gates, and *)
(* the first that does not pass is the verdict.  An oracle's answer is the *)
(* field of `o` named after it; Unavailable is an OracleUnavailable raised *)
(* by it.  Scores are counted in tenths.                                   *)
(***************************************************************************)
EXTENDS Tokens

CONSTANTS
    Unavailable,
    NoScore,         \* a score of None
    NoText,          \* an intent text that is None or empty
    WordsOf,         \* the words of a text, lower-cased
    Orthogonal,      \* pairs of texts whose cosine is below _SIMILARITY_THRESHOLD
    _CACHE_MAX       \* 2048 in the code

ASSUME DecisionConstants ==
    /\ _CACHE_MAX \in Nat \ {0}
    /\ NoScore \notin Int
    /\ NoText \notin DOMAIN WordsOf

DRIFT_ESCALATION_THRESHOLD == 7

Verdict(outcome, reason) == [outcome |-> outcome, reason |-> reason, caveat |-> 0, drift |-> NoScore]
_ALLOW == Verdict("allow", "OK")
_deny(reason) == Verdict("deny", reason)
FailClosed == _deny("CONTROL_PLANE_UNAVAILABLE_FAIL_CLOSED")

\* Gates[i] = Pass: step i returns nothing.
Pass == Verdict("pass", "OK")

----------------------------------------------------------------------------
(* Steps 3 to 5                                                             *)

\* Mutant: only the token's own id is looked up.
RevocationGate_SelfOnly(ids, revoked) ==
    IF revoked = Unavailable THEN FailClosed
    ELSE IF ids[Len(ids)] \in revoked THEN _deny("TOKEN_REVOKED") ELSE Pass
\* The last id is the token's own, the others are its ancestors'.
RevocationGate(ids, revoked) ==
    IF revoked = Unavailable THEN FailClosed
    ELSE LET hit == {i \in DOMAIN ids : ids[i] \in revoked}
         IN  IF hit = {} THEN Pass
             ELSE _deny(IF MinOf(hit) = Len(ids) THEN "TOKEN_REVOKED" ELSE "ANCESTOR_REVOKED")

\* What verify() does not enforce of the grant.
GrantGate(grant, ctx) ==
    IF ctx.operation \notin grant.scopes THEN _deny("SCOPE_NOT_GRANTED")
    ELSE IF ctx.request_intent # grant.intent_hash THEN _deny("INTENT_MISMATCH")
    ELSE IF ctx.current_depth > grant.max_depth THEN _deny("DEPTH_EXCEEDED")
    ELSE Pass

\* _evaluate_caveats(): the whole list is scanned, a deny outranks any escalation, and
\* within a rank the caveat nearest the root is named.
_evaluate_caveats(cs, ctx) ==
    LET of(outcome) == {i \in DOMAIN cs : Evaluate(cs[i], ctx).outcome = outcome}
        named(outcome) ==
            [Verdict(outcome, Evaluate(cs[MinOf(of(outcome))], ctx).reason)
                EXCEPT !.caveat = MinOf(of(outcome))]
    IN  IF of("deny") # {} THEN named("deny")
        ELSE IF of("escalate") # {} THEN named("escalate")
        ELSE Pass

DenyOnly(v) == IF v.outcome = "deny" THEN v ELSE Pass

\* authorize_request(), which biscuit's run limits may stop.
DatalogGate(t, ctx, limited) ==
    IF limited THEN _deny("VERIFICATION_LIMIT_EXCEEDED")
    ELSE IF Authorizes(t, ctx) THEN Pass
    ELSE _deny(FirstFailure(t, ctx))

\* Mutant: a stale bundle's answer is taken for an answer.
PolicyGate_StaleAllows(policy) ==
    IF policy = Unavailable THEN FailClosed
    ELSE IF policy.allowed THEN Pass
    ELSE IF policy.stale THEN _deny("POLICY_BUNDLE_STALE")
    ELSE _deny("POLICY_DENIED")
PolicyGate(policy) ==
    IF policy = Unavailable THEN FailClosed
    ELSE IF policy.stale THEN _deny("POLICY_BUNDLE_STALE")
    ELSE IF ~policy.allowed THEN _deny("POLICY_DENIED")
    ELSE Pass

----------------------------------------------------------------------------
(* Steps 6 and 7                                                            *)

\* _compute(): cached vectors are used when the model does not answer.
Computable(cache, task, action, answers) ==
    \/ task = action \/ (WordsOf[action] # {} /\ WordsOf[action] \subseteq WordsOf[task])
    \/ answers \/ {task, action} \subseteq ToSet(cache.vectors)
_compute(task, action) ==
    IF task = action THEN 0
    ELSE IF WordsOf[action] # {} /\ WordsOf[action] \subseteq WordsOf[task] THEN 1
    ELSE IF <<task, action>> \in Orthogonal THEN DRIFT_ESCALATION_THRESHOLD + 1
    ELSE DRIFT_ESCALATION_THRESHOLD

\* score_for(): a pair that was scored keeps its score.  The embeddings are asked in
\* order, and the first that fails ends it.
score_for(cache, ctx, answers) ==
    LET pair == <<ctx.task_intent_text, ctx.action_intent_text>>
    IN  IF NoText \in {pair[1], pair[2]} THEN NoScore
        ELSE IF pair \in ToSet(cache.scores) \/ Computable(cache, pair[1], pair[2], answers)
        THEN _compute(pair[1], pair[2])
        ELSE NoScore

\* The oldest entry makes room.
Cached(entries, x) ==
    IF x \in ToSet(entries) THEN entries
    ELSE Append(IF Len(entries) >= _CACHE_MAX THEN Tail(entries) ELSE entries, x)

\* What score_for() leaves in the caches; a failure is not remembered.
DriftCaches(cache, ctx, answers) ==
    LET task == ctx.task_intent_text
        action == ctx.action_intent_text
        lexical == task = action \/ (WordsOf[action] # {} /\ WordsOf[action] \subseteq WordsOf[task])
        first == Cached(cache.vectors, task)
    IN  IF NoText \in {task, action} \/ <<task, action>> \in ToSet(cache.scores) THEN cache
        ELSE [vectors |-> IF lexical \/ ~answers THEN cache.vectors ELSE Cached(first, action),
              scores |-> IF Computable(cache, task, action, answers)
                         THEN Cached(cache.scores, <<task, action>>) ELSE cache.scores]

\* Not consulted when the route turns drift off; no answer is no score.
DriftScore(ctx, o) == IF ctx.drift_mode = "off" THEN NoScore ELSE o.drift

DriftGate(ctx, o) ==
    LET score == DriftScore(ctx, o)
    IN  IF /\ score # NoScore /\ ctx.drift_mode = "strict"
           /\ score > DRIFT_ESCALATION_THRESHOLD
        THEN [Verdict("escalate", "DRIFT_ESCALATION") EXCEPT !.drift = score]
        ELSE Pass

BudgetGate(budget) ==
    IF budget = Unavailable THEN FailClosed
    ELSE IF budget.ok THEN Pass
    ELSE _deny(IF budget.mandate_exhausted THEN "BUDGET_EXHAUSTED_MANDATE"
               ELSE "LEASE_UNAVAILABLE")

----------------------------------------------------------------------------
\* The escalation of step 4 stands when no later step denies; it comes before the
\* budget is asked.
Gates(t, ids, ctx, cs, o) ==
    LET caveats == _evaluate_caveats(cs, ctx)
    IN  <<RevocationGate(ids, o.revoked),
          GrantGate(Grant(t), ctx),
          DenyOnly(caveats),
          DatalogGate(t, ctx, o.limited),
          PolicyGate(o.policy),
          DriftGate(ctx, o),
          [caveats EXCEPT !.drift = DriftScore(ctx, o)],
          BudgetGate(o.budget)>>

\* The gates of steps 3 to 5 pass, and the route does not turn drift off.
AsksForDrift(gates, ctx) ==
    ctx.drift_mode # "off" /\ \A i \in 1 .. 5 : gates[i].outcome = "pass"

\* decide()
decide(gates, ctx, o) ==
    LET stops == {i \in DOMAIN gates : gates[i].outcome # "pass"}
    IN  IF stops = {} THEN [_ALLOW EXCEPT !.drift = DriftScore(ctx, o)]
        ELSE gates[MinOf(stops)]
=============================================================================
