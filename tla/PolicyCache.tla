----------------------------- MODULE PolicyCache -----------------------------
(***************************************************************************)
(* The cache of the current policy bundle (agentiam_pep/policy_cache.py):  *)
(* the gates a candidate passes, the further gate of activate_bundle()     *)
(* (activation.py, agentiam_core/policy_testing.py), the bundle's age, and *)
(* what decide() makes of it.  A restarted process begins empty.  The      *)
(* engine is always built with the cache's own tools: the catalogue that a *)
(* bundle carries is neither parsed nor asked.                             *)
(***************************************************************************)
EXTENDS Policy

CONSTANTS
    Bundles,         \* candidates the policy service may hand over
    NoBundle,
    CacheTools,      \* PolicyCache._tools: facts by tool, empty by default
    TestCases,       \* the corpus attached to a bundle: role, context, expected
    MaxStaleness,    \* PolicyCache._max_staleness
    Samples,         \* token, ids, context and role of requests put to the cache
    MaxCandidates, MaxTime   \* bounds of the model

ASSUME CacheConstants ==
    /\ NoBundle \notin Bundles
    /\ \A t \in DOMAIN CacheTools : DOMAIN CacheTools[t] = DOMAIN _UNKNOWN_TOOL
    /\ MaxStaleness \in Nat /\ MaxCandidates \in Nat /\ MaxTime \in Nat

VARIABLES
    engine, serial, loaded_at,   \* of the held bundle
    rejected, loaded,            \* counters of /readyz
    now

cacheVars == <<engine, serial, loaded_at, rejected, loaded>>
vars == <<cacheVars, now>>

Empty == engine = NoBundle

Init ==
    /\ engine = NoBundle /\ serial = 0 /\ loaded_at = 0
    /\ rejected = 0 /\ loaded = 0 /\ now = 0

stale == ~Empty /\ now - loaded_at > MaxStaleness

\* The serial of the first bundle is free.
Advances(bundle) == Empty \/ bundle.serial > serial

Gates3(bundle) == verify_bundle(bundle) /\ Advances(bundle) /\ CedarEngine(bundle)

Offered == loaded + rejected < MaxCandidates

MakeCurrent(bundle) ==
    /\ engine' = bundle /\ serial' = bundle.serial /\ loaded_at' = now
    /\ loaded' = loaded + 1
    /\ UNCHANGED rejected

\* load()
Load(bundle) ==
    /\ Offered /\ Gates3(bundle)
    /\ MakeCurrent(bundle)
    /\ UNCHANGED now

\* Mutant: a refused candidate counts as a refresh.
Reject_Refreshes(bundle) ==
    /\ Offered /\ ~Gates3(bundle)
    /\ rejected' = rejected + 1
    /\ loaded_at' = now
    /\ UNCHANGED <<engine, serial, loaded, now>>
\* load() or activate_bundle(): BundleRejected, the previous bundle keeps serving.
Reject(bundle) ==
    /\ Offered /\ ~Gates3(bundle)
    /\ rejected' = rejected + 1
    /\ UNCHANGED <<engine, serial, loaded_at, loaded, now>>

\* run_policy_tests() and summarize(): a case that raises fails; no cases, no failure.
all_passed(bundle) ==
    \A i \in DOMAIN TestCases :
        /\ TestCases[i].valid
        /\ evaluate(bundle, CacheTools, FALSE, TestCases[i].role, TestCases[i].context).allowed
              = TestCases[i].expected

\* activate_bundle(): ActivationFailed changes nothing.
Activate(bundle) ==
    /\ Offered /\ Gates3(bundle) /\ all_passed(bundle)
    /\ MakeCurrent(bundle)
    /\ UNCHANGED now

Tick == now < MaxTime /\ now' = now + 1 /\ UNCHANGED cacheVars

\* The process is started anew.
RestartEmpty ==
    /\ engine' = NoBundle /\ serial' = 0 /\ loaded_at' = 0
    /\ rejected' = 0 /\ loaded' = 0
    /\ UNCHANGED now

Next ==
    \/ \E b \in Bundles : Load(b) \/ Reject(b) \/ Activate(b)
    \/ Tick
    \/ RestartEmpty

Spec == Init /\ [][Next]_vars

----------------------------------------------------------------------------
\* bound(): an empty cache cannot be asked.
bound(role, ctx) ==
    IF Empty THEN Unavailable ELSE evaluate(engine, CacheTools, stale, role, ctx)

\* A request that everything but the policy lets through.
Decided(s) ==
    LET o == [revoked |-> {}, limited |-> FALSE, policy |-> bound(s.role, s.ctx), drift |-> NoScore,
              budget |-> [ok |-> TRUE, mandate_exhausted |-> FALSE]]
    IN  decide(Gates(s.token, s.ids, s.ctx, TokenCaveats(s.token), o), s.ctx, o)

\* Nothing is allowed on the word of a bundle that is past its staleness limit or does
\* not authorize it with the tools the cache was given, and no bundle is ever asked that
\* was not signed or whose source does not parse, whatever was offered, refused and
\* loaded before (PolicyCache.bound, decide step 5).
OnlyFreshVouched ==
    /\ ~Empty => verify_bundle(engine) /\ CedarEngine(engine)
    /\ \A s \in Samples :
        Decided(s).outcome = "allow" =>
            /\ ~Empty /\ now - loaded_at <= MaxStaleness
            /\ is_authorized(engine, s.role, s.ctx, _facts_for(CacheTools, s.ctx.tool))

\* While the process lives, a bundle is replaced only by one of a higher serial, and its
\* age starts again only then: a candidate that some gate or some test refuses leaves the
\* served bundle and its age alone (load(), activate_bundle()).
ServedOnlyAdvances ==
    [][~Empty /\ engine' # NoBundle =>
        \/ UNCHANGED <<engine, serial, loaded_at>>
        \/ serial' > serial /\ serial' = engine'.serial]_vars
=============================================================================
