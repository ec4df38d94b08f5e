------------------------------- MODULE Pipeline -------------------------------
(***************************************************************************)
(* A policy enforcement point at work: the proxy handler (agentiam_pep/    *)
(* app.py) and the ten steps of Pipeline.authorize() and settle()          *)
(* (pipeline.py) over the parts the other modules describe: extraction,    *)
(* tokens, decide(), policy and roles, the lease, the audit buffer and the *)
(* escalation queue (scripts/pep_service.py builds this assembly).         *)
(*                                                                         *)
(* A request runs alone between two awaits.  authorize() awaits only the   *)
(* escalation sink, the proxy only the upstream; so a request that is      *)
(* neither escalated nor forwarded is one step, and the others one step    *)
(* for each await.  The lease, the buffer and the revocation set keep here *)
(* only what a request reads and writes: modules LeasePool, Emitter and    *)
(* Revocation say how each is kept.                                        *)
(***************************************************************************)
EXTENDS Policy, Extraction, UnitSums

CONSTANTS
    Requests,          \* sequence of requests that agents send
    Credentials,       \* sequence of tokens with the revocation ids of their blocks
    Worlds,            \* what happens beyond the process during a request
    Assemblies,        \* what the process may be started with: bundle, roles
    IntentHash,        \* intent_hash(): the intents of texts
    AmountPath,        \* the label "payment.amount"
    BufferSize,        \* EmitterSettings: records the buffer holds
    Grants,            \* what an ACQUIRE may bring
    MaxRequests, MaxLeases, MaxRevoked, MaxTime  \* bounds of the model

ASSUME PipelineConstants ==
    /\ BufferSize \in Nat \ {0} /\ Grants \subseteq Nat \ {0}
    /\ {MaxRequests, MaxLeases, MaxRevoked, MaxTime} \subseteq Nat
    /\ SpendDimension \in Dimensions
    /\ \A i \in DOMAIN Routes.rules : Routes.rules[i].tool \in Tools \cup {Absent}

Ids == UNION {ToSet(Credentials[c].ids) : c \in DOMAIN Credentials}

VARIABLES
    up, policy, roles,   \* the running process and what it was built from
    lease,               \* the held spend lease
    buffered,            \* records waiting in the audit buffer
    drift,               \* caches of the drift oracle
    revoked,             \* ids the PEP knows to be revoked
    flights,             \* requests of this process, in the order they arrived
    records,             \* flight -> the decision record that was accepted for it
    escalations,         \* flights for which a queue entry was opened
    now

vars == <<up, policy, roles, lease, buffered, drift, revoked, flights, records, escalations, now>>

NoLease == [id |-> 0, granted |-> 0, remaining |-> 0, live |-> FALSE, exhausted |-> FALSE]
NoDrift == [vectors |-> <<>>, scores |-> <<>>]

Init ==
    /\ up = FALSE /\ policy = Absent /\ roles = <<>>
    /\ lease = NoLease /\ buffered = 0 /\ drift = NoDrift
    /\ flights = <<>> /\ records = <<>>
    /\ revoked = {} /\ escalations = {} /\ now = 0

----------------------------------------------------------------------------
(* Steps 1 and 2                                                            *)

\* authorize() makes a dict of the headers: of a name that repeats, the last value.
HeaderMap(headers) ==
    [name \in {headers[i][1] : i \in DOMAIN headers} |->
        headers[CHOOSE i \in DOMAIN headers :
                    headers[i][1] = name /\ \A j \in i + 1 .. Len(headers) : headers[j][1] # name][2]]
AsPairs(map) ==
    LET names == SetToSeq(DOMAIN map)
    IN  [i \in DOMAIN names |-> <<names[i], map[names[i]]>>]

\* The Bearer credential that verify() is given; 0 is text that is no token.
Bearer(map) ==
    IF "authorization" \in DOMAIN map /\ map["authorization"].scheme = "bearer"
    THEN map["authorization"].token ELSE Absent

\* What authorize() reads off the k-th request, which no state has a part in.
HeadersOf == [k \in DOMAIN Requests |-> HeaderMap(Requests[k].headers)]
Extracted == [k \in DOMAIN Requests |-> extract(Requests[k], AsPairs(HeadersOf[k]))]
CredentialOf == [k \in DOMAIN Requests |-> Bearer(HeadersOf[k])]
\* A header that names a token is one of the credentials'; None is no scope and no number.
ASSUME RequestsPresent ==
    /\ \A k \in DOMAIN Requests : CredentialOf[k] \in DOMAIN Credentials \cup {Absent, 0}
    /\ Absent \notin Scopes /\ Absent \notin Int

CaveatsOf == [c \in DOMAIN Credentials |-> TokenCaveats(Credentials[c].token)]
PathOf == [c \in DOMAIN Credentials |-> ChainPath(Credentials[c].token)]
Unreadable == [c \in DOMAIN Credentials |-> Raises(Credentials[c].token)]

\* _authority(): the fold of what the token's chain permits, for the record.
RecordedAuthority(bound) ==
    [scopes |-> bound.scopes, ceilings |-> bound.budget, not_after |-> bound.not_after,
     max_depth |-> bound.max_depth]
_authority ==
    [c \in DOMAIN Credentials |->
        RecordedAuthority(EffectiveBound(GrantCaveats(Grant(Credentials[c].token)) \o CaveatsOf[c]))]

\* The reason a request is refused with before its token is verified, or OK.
Entry(k) ==
    IF ~Extracted[k].ok \/ CredentialOf[k] \in {Absent, 0} THEN "MALFORMED_REQUEST"
    ELSE Verify(Credentials[CredentialOf[k]].token, now)

----------------------------------------------------------------------------
(* Steps 3 to 7                                                             *)

\* headers.get(...) or ...: an empty text is none.
HeaderOr(map, name, other) == IF name \in DOMAIN map THEN map[name] ELSE other

\* The amount is scaled by the extractor and back here, if it is an int: one that the route
\* reads as text is none.  Money has no negative values.
Amount(args) ==
    IF AmountPath \in DOMAIN args /\ args[AmountPath] \in Int
    THEN args[AmountPath] \div BUDGET_SCALE ELSE 0

\* _context_for(), over the headers, the extraction and the token.
_context_for(map, e, t) ==
    LET task == HeaderOr(map, "agentiam-task-intent", NoText)
    IN  [operation |-> e.scope,
         requested |-> [d \in Dimensions |-> IF d = SpendDimension THEN Amount(e.args) ELSE 0],
         current_depth |-> Depth(t),
         request_intent |-> IF task # NoText THEN IntentHash[task]
                            ELSE HeaderOr(map, "x-agentiam-intent", Grant(t).intent_hash),
         now |-> now,
         tool |-> IF e.tool = Absent THEN NoTool ELSE e.tool,
         args |-> e.args,
         task_intent_text |-> task,
         action_intent_text |-> HeaderOr(map, "agentiam-action-intent", NoText),
         drift_mode |-> e.drift_mode]

Presented(k) == Credentials[CredentialOf[k]]
AuthorityOf(k) == _authority[CredentialOf[k]]
ContextOf(k) == _context_for(HeadersOf[k], Extracted[k].value, Presented(k).token)

Spend(k) == Amount(Extracted[k].value.args)

\* LeasePool.check(): a request for nothing needs no lease.
Check(amount) ==
    [ok |-> amount = 0 \/ (lease.live /\ lease.remaining >= amount),
     mandate_exhausted |-> lease.exhausted]

\* What the oracles answer to decide().  `world` is what those beyond this process do
\* meanwhile: whether the revocation set is fresh enough to be asked, biscuit's limits,
\* and whether the embedding model answers.
Answers(c, ctx, world) ==
    [revoked |-> IF world.fresh THEN revoked ELSE Unavailable,
     limited |-> world.limited,
     policy |-> evaluate(policy, tool_catalogue(policy.tools), FALSE, RoleOf(roles, PathOf[c]), ctx),
     drift |-> score_for(drift, ctx, world.embeds),
     budget |-> Check(ctx.requested[SpendDimension])]

----------------------------------------------------------------------------
(* Answers                                                                  *)

\* A request of this process.  `id` and `escalation` say whether the answer carries a
\* decision_id and an escalation_id.
Flight(k, phase, reason, amount) ==
    [request |-> k, phase |-> phase, reason |-> reason, id |-> FALSE, escalation |-> FALSE,
     amount |-> amount, lease |-> 0]

Room == up /\ Len(flights) < MaxRequests
Here == Len(flights) + 1
Answer(k, reason, told) ==
    flights' = Append(flights, [Flight(k, "answered", reason, 0) EXCEPT !.id = told])

\* _record() and DecisionRecord, as far as an answer is held against it.  A record that
\* is written before the caveats were read, as _record_and_refuse() does, has no authority.
Record(outcome, reason, authority) ==
    [outcome |-> outcome, reason |-> reason, authority |-> authority]
Refusal(reason) == Record("deny", reason, Absent)

\* _outcome_matches_reason(): every deny names a cause, every allow none.
_outcome_matches_reason(record) == (record.outcome = "allow") = (record.reason = "OK")

Full == buffered >= BufferSize
Emit(i, record) ==
    /\ records' = [j \in DOMAIN records \cup {i} |-> IF j = i THEN record ELSE records[j]]
    /\ buffered' = buffered + 1
Unrecorded == UNCHANGED <<records, buffered>>

\* _record_and_refuse(): recorded if the buffer takes it; the caller gets no id.
EmitIfRoom(i, record) == IF Full THEN Unrecorded ELSE Emit(i, record)

FAIL_CLOSED == "CONTROL_PLANE_UNAVAILABLE_FAIL_CLOSED"

Elsewhere == UNCHANGED <<up, policy, roles, revoked, now>>

----------------------------------------------------------------------------
(* authorize()                                                              *)

\* Refused before there is a token to speak of.  An amount below zero raises in
\* RequestContext, and a clause that is no valid caveat in the reader of the chain: nothing
\* catches either.
RefuseEarly(k) ==
    LET reason == Entry(k)
    IN  /\ Room
        /\ \/ reason # "OK" /\ Answer(k, reason, FALSE)
           \/ /\ reason = "OK" /\ (Spend(k) < 0 \/ Unreadable[CredentialOf[k]])
              /\ Answer(k, "500", FALSE)
        /\ Unrecorded /\ UNCHANGED <<lease, drift, escalations>> /\ Elsewhere

Reserved(amount) == [lease EXCEPT !.remaining = @ - amount]
\* Mutant: the hold is forgotten.
GivenBack_Nothing(l, amount) == l
\* commit() of a reservation at zero.
GivenBack(l, amount) == [l EXCEPT !.remaining = @ + amount]

\* decide() denies.
Deny(k, d) ==
    /\ IF Full THEN Unrecorded /\ Answer(k, FAIL_CLOSED, FALSE)
       ELSE Emit(Here, Record("deny", d.reason, AuthorityOf(k))) /\ Answer(k, d.reason, TRUE)
    /\ UNCHANGED lease

\* decide() escalates: authorize() awaits the sink.
Escalate(k, d) ==
    /\ flights' = Append(flights, Flight(k, "escalating", d.reason, 0))
    /\ Unrecorded /\ UNCHANGED lease

\* decide() allows: the amount is held, the record goes out before the request does, and
\* what was held for a request that cannot be recorded is given back.
Allow(k, amount) ==
    IF Full
    THEN /\ lease' = IF amount = 0 THEN lease ELSE GivenBack(Reserved(amount), amount)
         /\ Unrecorded /\ Answer(k, FAIL_CLOSED, FALSE)
    ELSE /\ lease' = IF amount = 0 THEN lease ELSE Reserved(amount)
         /\ Emit(Here, Record("allow", "OK", AuthorityOf(k)))
         /\ flights' = Append(flights, [Flight(k, "upstream", "OK", amount)
                                            EXCEPT !.lease = IF amount = 0 THEN 0 ELSE lease.id])

\* The lease ages out between check() and reserve(), which read the clock each.
AllowTooLate(k, amount) ==
    /\ amount > 0
    /\ lease' = [lease EXCEPT !.live = FALSE]
    /\ EmitIfRoom(Here, Refusal("LEASE_UNAVAILABLE"))
    /\ Answer(k, "LEASE_UNAVAILABLE", FALSE)

\* What follows the decision, up to the request's answer or its first await.
Follow(k, d, amount) ==
    \/ d.outcome = "deny" /\ Deny(k, d)
    \/ d.outcome = "escalate" /\ Escalate(k, d)
    \/ d.outcome = "allow" /\ Allow(k, amount)
    \/ d.outcome = "allow" /\ AllowTooLate(k, amount)

\* Steps 3 to 7 in the context ctx, with the answers o.
Decide(k, ctx, o, world) ==
    \E gates \in {Gates(Presented(k).token, Presented(k).ids, ctx, CaveatsOf[CredentialOf[k]], o)} :
        /\ Follow(k, decide(gates, ctx, o), ctx.requested[SpendDimension])
        /\ drift' = IF AsksForDrift(gates, ctx) THEN DriftCaches(drift, ctx, world.embeds) ELSE drift

\* The proxy's request, with a token that verifies.
Authorize(k, world) ==
    /\ Room /\ Entry(k) = "OK" /\ Spend(k) >= 0 /\ ~Unreadable[CredentialOf[k]]
    /\ \E ctx \in {ContextOf(k)} : Decide(k, ctx, Answers(CredentialOf[k], ctx, world), world)
    /\ UNCHANGED escalations /\ Elsewhere

\* Mutant: the agent is told of the entry though the decision was not recorded.
EscalationOpened_TellsFirst(i) ==
    /\ up /\ flights[i].phase = "escalating"
    /\ escalations' = escalations \cup {i}
    /\ EmitIfRoom(i, Record("escalate", flights[i].reason, AuthorityOf(flights[i].request)))
    /\ flights' = [flights EXCEPT ![i].phase = "answered", ![i].id = TRUE, ![i].escalation = TRUE]
    /\ UNCHANGED <<lease, drift>> /\ Elsewhere
\* The sink has opened the entry; then the decision is recorded, or the request refused.
EscalationOpened(i) ==
    /\ up /\ flights[i].phase = "escalating"
    /\ escalations' = escalations \cup {i}
    /\ IF Full
       THEN /\ Unrecorded
            /\ flights' = [flights EXCEPT ![i].phase = "answered", ![i].reason = FAIL_CLOSED]
       ELSE /\ Emit(i, Record("escalate", flights[i].reason, AuthorityOf(flights[i].request)))
            /\ flights' = [flights EXCEPT ![i].phase = "answered", ![i].id = TRUE,
                                          ![i].escalation = TRUE]
    /\ UNCHANGED <<lease, drift>> /\ Elsewhere

\* The sink raises, before or after its transaction was committed.
EscalationFails(i, committed) ==
    /\ up /\ flights[i].phase = "escalating"
    /\ escalations' = IF committed THEN escalations \cup {i} ELSE escalations
    /\ EmitIfRoom(i, Refusal(FAIL_CLOSED))
    /\ flights' = [flights EXCEPT ![i].phase = "answered", ![i].reason = FAIL_CLOSED]
    /\ UNCHANGED <<lease, drift>> /\ Elsewhere

\* The upstream begins to answer and settle() commits what was held: the local lease
\* stays as it is, and module SettlementQueue takes the outcome over.
UpstreamAnswers(i) ==
    /\ up /\ flights[i].phase = "upstream"
    /\ flights' = [flights EXCEPT ![i].phase = "settled"]
    /\ UNCHANGED <<lease, drift, buffered, records, escalations>> /\ Elsewhere

\* 504 or 502: nothing is settled and nothing given back.
UpstreamFails(i) ==
    /\ up /\ flights[i].phase = "upstream"
    /\ flights' = [flights EXCEPT ![i].phase = "failed"]
    /\ UNCHANGED <<lease, drift, buffered, records, escalations>> /\ Elsewhere

----------------------------------------------------------------------------
(* Around the requests                                                      *)

\* The drain task writes a batch.
Drain ==
    /\ up /\ buffered > 0 /\ buffered' = 0
    /\ UNCHANGED <<up, policy, roles, lease, drift, flights, records, revoked, escalations, now>>

\* prime() or a top-up brings a lease in place of the held one; the ledger has nothing
\* left; or the lease gets within its skew of the end.
LeaseChanges ==
    /\ up
    /\ \/ \E g \in Grants :
            /\ lease.id < MaxLeases
            /\ lease' = [id |-> lease.id + 1, granted |-> g, remaining |-> g, live |-> TRUE,
                         exhausted |-> FALSE]
       \/ lease.id > 0 /\ ~lease.exhausted /\ lease' = [lease EXCEPT !.exhausted = TRUE]
       \/ lease.live /\ lease' = [lease EXCEPT !.live = FALSE]
    /\ UNCHANGED <<up, policy, roles, buffered, drift, flights, records, revoked, escalations, now>>

\* The revocation set learns of a block id.
Learn(r) ==
    /\ up /\ r \notin revoked /\ Cardinality(revoked) < MaxRevoked
    /\ revoked' = revoked \cup {r}
    /\ UNCHANGED <<up, policy, roles, lease, buffered, drift, flights, records, escalations, now>>

\* build_service() refuses to start on what it cannot vouch for.
Start(a) ==
    /\ ~up /\ Starts(a.bundle, a.roles)
    /\ up' = TRUE /\ policy' = a.bundle /\ roles' = a.roles
    /\ UNCHANGED <<lease, buffered, drift, flights, records, revoked, escalations, now>>

\* The process ends; what it held in memory goes with it.
Stop ==
    /\ up /\ up' = FALSE /\ policy' = Absent /\ roles' = <<>>
    /\ lease' = NoLease /\ buffered' = 0 /\ drift' = NoDrift /\ revoked' = {}
    /\ flights' = <<>> /\ records' = <<>> /\ escalations' = {}
    /\ UNCHANGED now

Tick ==
    /\ now < MaxTime /\ now' = now + 1
    /\ UNCHANGED <<up, policy, roles, lease, buffered, drift, revoked, flights, records, escalations>>

Next ==
    \/ \E k \in DOMAIN Requests : RefuseEarly(k)
    \/ \E k \in DOMAIN Requests, world \in Worlds : Authorize(k, world)
    \/ \E i \in DOMAIN flights :
        \/ EscalationOpened(i) \/ UpstreamAnswers(i) \/ UpstreamFails(i)
        \/ \E committed \in BOOLEAN : EscalationFails(i, committed)
    \/ Drain \/ LeaseChanges \/ Stop \/ Tick
    \/ \E a \in Assemblies : Start(a)
    \/ \E r \in Ids : Learn(r)

Spec == Init /\ [][Next]_vars

----------------------------------------------------------------------------
(* Properties                                                               *)

Forwarded(f) == f.phase \in {"upstream", "settled", "failed"}

\* The authority on the record covers the request: the fold "is an upper bound".
Covers(authority, f) ==
    /\ Extracted[f.request].value.scope \in authority.scopes
    /\ SpendDimension \in DOMAIN authority.ceilings => f.amount <= authority.ceilings[SpendDimension]

\* Nothing is forwarded that was not recorded as allowed, and nothing is recorded as
\* allowed that was not forwarded; an answer that names a decision names one that was
\* recorded with that answer's reason, and an answer that names an escalation one that
\* is in the queue and on the record, wherever the buffer fills up or the sink fails;
\* and what was forwarded is within the authority its record shows
\* (authorize(), ADR-026: "a system that cannot record what it authorized must not
\* authorize", and must not say that a human was asked).
ToldIsRecorded ==
    \A i \in DOMAIN flights :
        LET f == flights[i]
            recorded == i \in DOMAIN records
        IN  /\ recorded => _outcome_matches_reason(records[i])
            /\ Forwarded(f) <=> recorded /\ records[i].outcome = "allow"
            /\ Forwarded(f) => Covers(records[i].authority, f)
            /\ f.id => recorded /\ records[i].reason = f.reason
            /\ f.escalation => i \in escalations /\ f.id /\ records[i].outcome = "escalate"

\* What is missing from the lease was forwarded on it: requests that were refused,
\* escalated or could not be recorded hold nothing of it (authorize(), the commit at
\* zero when the buffer is full).
MissingWasForwarded ==
    LET onLease == {i \in DOMAIN flights : flights[i].lease = lease.id /\ Forwarded(flights[i])}
    IN  lease.id > 0 =>
            lease.granted - lease.remaining = SumOver(onLease, [i \in onLease |-> flights[i].amount])

\* The two intents are far apart and were scored: the cache of scores holds them after
\* the step.
Drifted(ctx) ==
    LET task == ctx.task_intent_text
        action == ctx.action_intent_text
    IN  /\ ctx.drift_mode = "strict" /\ NoText \notin {task, action}
        /\ <<task, action>> \in ToSet(drift'.scores)
        /\ _compute(task, action) > DRIFT_ESCALATION_THRESHOLD

\* A human is asked for by the token or by the drift score.
Asked(t, ctx) == ctx.operation \in EffectiveAuthority(t).bound.approval_required \/ Drifted(ctx)

Sound(f, presented, ctx) ==
    /\ Verify(presented.token, now) = "OK"
    /\ ToSet(presented.ids) \cap revoked = {}
    /\ Authorizes(presented.token, ctx)
    /\ is_authorized(policy, RoleOf(roles, ChainPath(presented.token)), ctx,
                     _facts_for(tool_catalogue(policy.tools), ctx.tool))
    /\ (f.phase = "escalating") = Asked(presented.token, ctx)
    /\ f.phase = "upstream" =>
        /\ f.amount = ctx.requested[SpendDimension]
        /\ f.amount > 0 => lease.live /\ lease.remaining >= f.amount

\* A request goes to the upstream or to a human only with a valid token, no block of
\* which is revoked, whose every check passes, under a policy that permits it for the
\* role the organization gave its path; to the upstream only when no human must be asked
\* and the lease holds the amount (decide(): "deny beats escalate", INV-8; INV-10: a
\* revoked ancestor kills the chain).
DecisionsSound ==
    [][\A i \in DOMAIN flights' \ DOMAIN flights :
        flights'[i].phase \in {"upstream", "escalating"} =>
            Sound(flights'[i], Presented(flights'[i].request), ContextOf(flights'[i].request))]_vars

\* The values of an argument that an upstream may pick out of the request: whichever of
\* the repeated parameters or keys it prefers.
Named(pairs, name) == {p[2] : p \in {q \in ToSet(pairs) : q[1] = name}} \ {Absent}
Readings(req, source) ==
    LET found[i \in 0 .. Len(source.keys)] ==
            IF i = 0 THEN {_parse_body(req)} \ {Absent}
            ELSE UNION {Named(v.pairs, source.keys[i]) :
                            v \in {w \in found[i - 1] : w.type = "object"}}
    IN  CASE source.kind = "path" -> {req.params[Name(source)]}
          [] source.kind = "query" -> Named(req.query, Name(source))
          [] source.kind = "body" -> found[Len(source.keys)]

\* The amount held for a request that was forwarded is the one its upstream reads,
\* whichever of several it would take, when the amount is in the path, the query or a
\* JSON body that the route reads as a number (extractor.py, TM-26: "the upstream would
\* choose one and this gateway cannot know which"), to the 28 digits the gateway keeps.
\* Headers are not in it: authorize() collapses them first.
HeldAsRead ==
    \A i \in DOMAIN flights :
        LET req == Requests[flights[i].request]
            sources == RuleFor(req).sources
        IN  /\ Forwarded(flights[i]) /\ AmountPath \in DOMAIN sources
            /\ sources[AmountPath].kind # "header" /\ sources[AmountPath].numeric
            => \A v \in Readings(req, sources[AmountPath]) :
                v.type # "null" => Rounded(v.number) = 2 * BUDGET_SCALE * flights[i].amount
=============================================================================
