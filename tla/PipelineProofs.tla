--------------------------- MODULE PipelineProofs ---------------------------
(***************************************************************************)
(* What a policy enforcement point promises for any requests, credentials, *)
(* policies, leases and buffer size: every answer is backed by a record,   *)
(* nothing leaves the lease but what was forwarded, nothing is forwarded   *)
(* or escalated that some step refuses, and the amount that is held is the *)
(* one the upstream reads.                                                 *)
(***************************************************************************)
EXTENDS Pipeline, TokenProofs

\* Every token that an agent presents was minted for some mandate and then attenuated.  What
\* the blocks say, who wrote them and how many there are is free, and so is what the reader
\* makes of texts that it cannot tell apart, as long as it is a list of statements.
CredentialsMinted ==
    /\ ReadsLists
    /\ \A c \in DOMAIN Credentials :
        LET t == Credentials[c].token
        IN  /\ ChainOK(t)
            /\ \A b \in DOMAIN t.blocks : t.blocks[b] \in Seq(ToSet(t.blocks[b]))

-----------------------------------------------------------------------------
(* What a verified request brings *)

\* What is read off a token within the size limit, if nothing raises.
LEMMA VerifiedReads ==
    ASSUME ReadsLists, NEW t, ChainOK(t), ~Raises(t),
           \A b \in DOMAIN t.blocks : t.blocks[b] \in Seq(ToSet(t.blocks[b])),
           NEW time, Verify(t, time) = "OK"
    PROVE  ReadOffSome(TokenCaveats(t))
<1> DEFINE q == t.blocks
           n == Len(q)
           S == UNION {ToSet(q[b]) : b \in 1 .. n}
<1>1. q \in Seq(ToSet(q)) /\ n \in Nat /\ n >= 1 /\ DOMAIN q = 1 .. n
  BY DEF ChainOK
<1>2. \A b \in 1 .. n : q[b] \in Seq(S)
  <2> SUFFICES ASSUME NEW b \in 1 .. n PROVE q[b] \in Seq(S)
    OBVIOUS
  <2>1. q[b] \in Seq(ToSet(q[b])) /\ ToSet(q[b]) \subseteq S
    BY <1>1
  <2> HIDE DEF S
  <2> QED BY <2>1
<1> HIDE DEF S
<1>3. q \in Seq(Seq(S))
  BY <1>1, <1>2
<1>4. IsFlat(FlattenSeq(q), S, q, n)
  BY <1>3, Flattened
<1>5. Size(t) <= HARD_SIZE_LIMIT
  <2>1. Size(t) \in Int /\ HARD_SIZE_LIMIT \in Int
    BY <1>4, TokenConstants DEF Size, IsFlat
  <2>2. Size(t) > HARD_SIZE_LIMIT => Verify(t, time) = "TOKEN_TOO_LARGE"
    BY <2>1 DEF Verify
  <2> QED BY <2>1, <2>2
<1>6. \A b \in 1 .. n : Len(q[b]) \in Nat /\ Len(q[b]) <= MAX_STATEMENTS_PER_BLOCK
  <2>1. \A b \in 1 .. n : Len(q[b]) \in Nat /\ Len(q[b]) <= Len(FlattenSeq(q))
    BY <1>2, <1>4 DEF IsFlat
  <2>2. Len(FlattenSeq(q)) \in Nat
    BY <1>4 DEF IsFlat
  <2> QED BY <1>5, <2>1, <2>2, TokenConstants, CaveatConstants DEF Size
<1>7. ASSUME NEW b \in 2 .. n PROVE Statements(q[b]) \in Seq(ToSet(Statements(q[b])))
  <2>1. q[b] \in Seq(ToSet(q[b])) /\ Len(q[b]) <= MAX_STATEMENTS_PER_BLOCK
    BY <1>1, <1>6
  <2> QED BY <2>1, ShownList
<1>8. ShownChain(t)
  BY <1>1, <1>7 DEF ShownChain
<1> QED BY <1>8, ChainReadsSome

\* The first rule that matches is one of the table's.
LEMMA FirstMatches ==
    ASSUME NEW req, Matching(req) # {}
    PROVE  \E i \in DOMAIN Routes.rules : i \in Matching(req) /\ RuleFor(req) = Routes.rules[i]
<1>1. PICK n \in Nat : DOMAIN Routes.rules = 1 .. n
  BY RouteTableLoads
<1>2. Matching(req) \in SUBSET (1 .. n)
  BY <1>1 DEF Matching
<1>3. Min(Matching(req)) \in Matching(req) /\ \A j \in Matching(req) : Min(Matching(req)) <= j
  BY <1>2, MinIsMinimal
<1> DEFINE m == CHOOSE i \in Matching(req) : \A j \in Matching(req) : i <= j
<1>4. m \in Matching(req)
  BY <1>3
<1>5. RuleFor(req) = Routes.rules[m]
  BY DEF RuleFor
<1> QED BY <1>1, <1>2, <1>4, <1>5

LEMMA ExtractedTool ==
    ASSUME NEW req, NEW headers, extract(req, headers).ok
    PROVE  extract(req, headers).value.tool \in Tools \cup {Absent}
<1> DEFINE e == extract(req, headers)
           rule == RuleFor(req)
           found == [l \in DOMAIN rule.sources |-> Argument(req, headers, rule.sources[l])]
<1>1. CASE Matching(req) # {}
  <2>1. e = Extraction(req, rule, found)
    BY <1>1 DEF extract
  <2>2. e.value.tool = rule.tool
    <3> HIDE DEF rule, found
    <3> QED BY <2>1 DEF Extraction, Refused, Read
  <2>3. rule.tool \in Tools \cup {Absent}
    BY <1>1, FirstMatches, PipelineConstants
  <2> QED BY <2>2, <2>3
<1>2. CASE Matching(req) = {}
  BY <1>2 DEF extract, Refused, Read
<1> QED BY <1>1, <1>2

LEMMA AmountIsInt ==
    ASSUME NEW args
    PROVE  Amount(args) \in Int
BY CaveatConstants DEF Amount

\* A request with a token that verifies and that can be read.
Presents(k) ==
    k \in DOMAIN Requests /\ Entry(k) = "OK" /\ Spend(k) >= 0 /\ ~Unreadable[CredentialOf[k]]

LEMMA PresentedIs ==
    ASSUME NEW k, Presents(k)
    PROVE  /\ CredentialOf[k] \in DOMAIN Credentials /\ Extracted[k].ok
           /\ Verify(Presented(k).token, now) = "OK" /\ ~Raises(Presented(k).token)
<1>1. k \in DOMAIN Requests /\ Entry(k) = "OK" /\ ~Unreadable[CredentialOf[k]]
  BY DEF Presents
<1>2. CredentialOf[k] \in DOMAIN Credentials \cup {Absent, 0}
  BY <1>1, RequestsPresent
<1>3. CredentialOf[k] \in DOMAIN Credentials /\ Extracted[k].ok
      /\ Verify(Presented(k).token, now) = "OK"
  BY <1>1, <1>2 DEF Entry, Presented
<1> QED BY <1>1, <1>3 DEF Unreadable, Presented

\* What is read off a token that is presented.
LEMMA PresentedReads ==
    ASSUME CredentialsMinted, NEW k, Presents(k)
    PROVE  LET t == Presented(k).token
           IN  ChainOK(t) /\ ReadOffSome(TokenCaveats(t))
<1> DEFINE c == CredentialOf[k]
           t == Presented(k).token
<1>1. c \in DOMAIN Credentials /\ t = Credentials[c].token /\ Verify(t, now) = "OK" /\ ~Raises(t)
  BY PresentedIs DEF Presented
<1>2. ReadsLists /\ ChainOK(t) /\ \A b \in DOMAIN t.blocks : t.blocks[b] \in Seq(ToSet(t.blocks[b]))
  BY <1>1 DEF CredentialsMinted
<1> HIDE DEF c, t
<1>3. ReadOffSome(TokenCaveats(t))
  BY <1>1, <1>2, VerifiedReads
<1> QED BY <1>2, <1>3 DEF t

LEMMA ContextIsValid ==
    ASSUME NEW k, Presents(k), now \in Nat
    PROVE  /\ ValidContext(ContextOf(k))
           /\ ContextOf(k).operation = Extracted[k].value.scope
           /\ ContextOf(k).requested[SpendDimension] = Spend(k) /\ Spend(k) \in Nat
           /\ ContextOf(k).current_depth = Depth(Presented(k).token)
           /\ ContextOf(k).now = now
<1> DEFINE e == Extracted[k].value
           ctx == ContextOf(k)
<1>1. Spend(k) \in Nat
  BY AmountIsInt DEF Presents, Spend
<1>2. /\ ctx.operation = e.scope /\ ctx.now = now
      /\ ctx.requested = [d \in Dimensions |-> IF d = SpendDimension THEN Spend(k) ELSE 0]
      /\ ctx.current_depth = Depth(Presented(k).token)
      /\ ctx.tool = IF e.tool = Absent THEN NoTool ELSE e.tool
      /\ {"operation", "requested", "current_depth", "request_intent", "now", "tool", "args"}
            \subseteq DOMAIN ctx
  BY DEF ContextOf, _context_for, Spend
<1>3. e.tool \in Tools \cup {Absent}
  <2>1. Extracted[k].ok
    BY PresentedIs
  <2>2. Extracted[k] = extract(Requests[k], AsPairs(HeadersOf[k]))
    BY DEF Presents, Extracted
  <2> QED BY <2>1, <2>2, ExtractedTool
<1> HIDE DEF ctx, e
<1>4. ValidContext(ctx)
  BY <1>1, <1>2, <1>3 DEF ValidContext
<1>5. ctx.requested[SpendDimension] = Spend(k)
  BY <1>2, PipelineConstants
<1> QED BY <1>1, <1>2, <1>4, <1>5 DEF ctx, e

-----------------------------------------------------------------------------
(* What authorize() decides *)

\* No step refuses the request: the token verifies, no block of it is revoked, all of its
\* checks pass, none of its caveats denies, and the policy permits it for the role of its
\* path.
Cleared(k) ==
    LET presented == Presented(k)
        ctx == ContextOf(k)
    IN  /\ Verify(presented.token, now) = "OK"
        /\ ToSet(presented.ids) \cap revoked = {}
        /\ Authorizes(presented.token, ctx) /\ NotDenied(TokenCaveats(presented.token), ctx)
        /\ is_authorized(policy, RoleOf(roles, ChainPath(presented.token)), ctx,
                         _facts_for(tool_catalogue(policy.tools), ctx.tool))

\* Some block asks for a human.
NeedsApproval(k) ==
    ContextOf(k).operation \in EffectiveAuthority(Presented(k).token).bound.approval_required

\* The two intents are far apart, and the caches hold their score.
DriftedIn(caches, ctx) ==
    LET task == ctx.task_intent_text
        action == ctx.action_intent_text
    IN  /\ ctx.drift_mode = "strict" /\ NoText \notin {task, action}
        /\ <<task, action>> \in ToSet(caches.scores)
        /\ _compute(task, action) > DRIFT_ESCALATION_THRESHOLD

\* d is a decision on the k-th request that its token, the policy, the scores that are left
\* in the caches and the lease bear out.
DecisionOK(d, k, caches) ==
    /\ d.outcome \in {"allow", "deny", "escalate"} /\ (d.outcome = "allow" <=> d.reason = "OK")
    /\ d.outcome # "deny" => Cleared(k)
    /\ d.outcome = "allow" =>
          /\ ~ NeedsApproval(k) /\ ~ DriftedIn(caches, ContextOf(k))
          /\ Spend(k) = 0 \/ (lease.live /\ lease.remaining >= Spend(k))
    /\ d.outcome = "escalate" => NeedsApproval(k) \/ DriftedIn(caches, ContextOf(k))

\* The cache of scores, after it was asked, holds the pair of a request exactly if it was
\* given a score.
CachesOK(caches) == \E S : caches.scores \in Seq(S)

LEMMA CachedHolds ==
    ASSUME NEW S, NEW q \in Seq(S), NEW x
    PROVE  Cached(q, x) \in Seq(S \cup {x}) /\ x \in ToSet(Cached(q, x))
<1> DEFINE kept == IF Len(q) >= _CACHE_MAX THEN Tail(q) ELSE q
           R == S \cup {x}
<1>1. CASE x \in ToSet(q)
  <2>1. Cached(q, x) = q
    BY <1>1 DEF Cached
  <2> QED BY <1>1, <2>1
<1>2. CASE x \notin ToSet(q)
  <2>1. Cached(q, x) = Append(kept, x)
    BY <1>2 DEF Cached
  <2>2. kept \in Seq(S)
    <3>1. Len(q) >= _CACHE_MAX => q # <<>>
      BY DecisionConstants
    <3> QED BY <3>1
  <2>3. kept \in Seq(R) /\ x \in R
    BY <2>2
  <2> HIDE DEF kept, R
  <2>4. /\ Append(kept, x) \in Seq(R)
        /\ Len(kept) + 1 \in DOMAIN Append(kept, x) /\ Append(kept, x)[Len(kept) + 1] = x
    BY <2>3
  <2> QED BY <2>1, <2>4 DEF R, ToSet
<1> QED BY <1>1, <1>2

LEMMA ScoreIsKept ==
    ASSUME NEW caches, CachesOK(caches), NEW ctx, NEW answers
    PROVE  LET task == ctx.task_intent_text
               action == ctx.action_intent_text
               kept == DriftCaches(caches, ctx, answers)
           IN  /\ CachesOK(kept)
               /\ NoText \notin {task, action} /\ <<task, action>> \in ToSet(kept.scores)
                     => score_for(caches, ctx, answers) = _compute(task, action)
               /\ ~ (NoText \notin {task, action} /\ <<task, action>> \in ToSet(kept.scores))
                     => score_for(caches, ctx, answers) = NoScore
<1> DEFINE task == ctx.task_intent_text
           action == ctx.action_intent_text
           pair == <<task, action>>
           some == NoText \notin {task, action}
           known == pair \in ToSet(caches.scores)
           able == Computable(caches, task, action, answers)
           kept == DriftCaches(caches, ctx, answers)
           score == score_for(caches, ctx, answers)
<1>1. pair[1] = task /\ pair[2] = action
  OBVIOUS
<1>2. score = IF ~some THEN NoScore ELSE IF known \/ able THEN _compute(task, action) ELSE NoScore
  BY <1>1, Zenon DEF score_for
<1>3. /\ ~some \/ known => kept = caches
      /\ some /\ ~known => kept.scores = IF able THEN Cached(caches.scores, pair) ELSE caches.scores
  BY DEF DriftCaches
<1>4. PICK S : caches.scores \in Seq(S)
  BY DEF CachesOK
<1>5. Cached(caches.scores, pair) \in Seq(S \cup {pair}) /\ pair \in ToSet(Cached(caches.scores, pair))
  BY <1>4, CachedHolds
<1> HIDE DEF kept, score, able, task, action, pair
<1>6. CachesOK(kept)
  BY <1>3, <1>4, <1>5 DEF CachesOK
<1>7. some /\ pair \in ToSet(kept.scores) => score = _compute(task, action)
  BY <1>2, <1>3
<1>8. ~ (some /\ pair \in ToSet(kept.scores)) => score = NoScore
  BY <1>2, <1>3, <1>5
<1> QED BY <1>6, <1>7, <1>8 DEF kept, score, task, action, pair

\* Step 6 escalates exactly what has drifted, where it is reached.
LEMMA DriftIsAsked ==
    ASSUME NEW caches, CachesOK(caches), NEW ctx, NEW answers, NEW o,
           o.drift = score_for(caches, ctx, answers)
    PROVE  /\ DriftGate(ctx, o).outcome \in {"pass", "escalate"}
           /\ ctx.drift_mode # "strict" => DriftGate(ctx, o).outcome = "pass"
           /\ ctx.drift_mode = "strict" =>
                 (DriftGate(ctx, o).outcome = "escalate" <=>
                     DriftedIn(DriftCaches(caches, ctx, answers), ctx))
<1> DEFINE task == ctx.task_intent_text
           action == ctx.action_intent_text
           kept == DriftCaches(caches, ctx, answers)
           held == NoText \notin {task, action} /\ <<task, action>> \in ToSet(kept.scores)
           score == score_for(caches, ctx, answers)
           far == /\ DriftScore(ctx, o) # NoScore /\ ctx.drift_mode = "strict"
                  /\ DriftScore(ctx, o) > DRIFT_ESCALATION_THRESHOLD
<1>1. held => score = _compute(task, action)
  BY ScoreIsKept
<1>2. ~held => score = NoScore
  BY ScoreIsKept
<1>3. DriftGate(ctx, o).outcome = IF far THEN "escalate" ELSE "pass"
  BY DEF DriftGate, Verdict, Pass
<1>4. _compute(task, action) \in Int /\ NoScore \notin Int
  BY DecisionConstants DEF _compute, DRIFT_ESCALATION_THRESHOLD
<1>5. ctx.drift_mode = "strict" => DriftScore(ctx, o) = score
  BY DEF DriftScore
<1>6. DriftedIn(kept, ctx) <=> /\ ctx.drift_mode = "strict" /\ held
                               /\ _compute(task, action) > DRIFT_ESCALATION_THRESHOLD
  BY Zenon DEF DriftedIn
<1> HIDE DEF task, action, kept, held, score
<1>7. ctx.drift_mode = "strict" => (far <=> DriftedIn(kept, ctx))
  BY <1>1, <1>2, <1>4, <1>5, <1>6
<1> HIDE DEF far
<1>8. ctx.drift_mode = "strict" => (DriftGate(ctx, o).outcome = "escalate" <=> DriftedIn(kept, ctx))
  BY <1>3, <1>7
<1>9. ctx.drift_mode # "strict" => ~far
  BY DEF far
<1> QED BY <1>3, <1>8, <1>9 DEF kept

\* Approval is asked for exactly when the caveats escalate.
LEMMA ApprovalIsAsked ==
    ASSUME NEW t, ChainOK(t), ReadOffSome(TokenCaveats(t)), NEW ctx
    PROVE  LET T == TokenCaveats(t)
           IN  ctx.operation \in EffectiveAuthority(t).bound.approval_required <=>
                  \E j \in DOMAIN T : Evaluate(T[j], ctx).outcome = "escalate"
<1> DEFINE G == GrantCaveats(Grant(t))
           T == TokenCaveats(t)
           cs == G \o T
           n == Len(cs)
           A == EffectiveAuthority(t).bound.approval_required
<1>1. IsChainList(cs, n, t)
  BY ChainList
<1>2. A = UNION {cs[i].scopes : i \in Kind(cs, "requires_approval")}
  BY Zenon DEF EffectiveAuthority, EffectiveBound
<1>3. \A j \in DOMAIN G : G[j].kind \in Folded
  BY GrantFolds
<1>4. \A c : Evaluate(c, ctx).outcome = "escalate" <=>
                c.kind = "requires_approval" /\ ctx.operation \in c.scopes
  BY DEF Evaluate, Satisfied
<1> HIDE DEF G, T, cs, n, A
<1>5. /\ DOMAIN cs = 1 .. n
      /\ \A i \in 1 .. n : (\E j \in DOMAIN G : cs[i] = G[j]) \/ (\E j \in DOMAIN T : cs[i] = T[j])
      /\ \A j \in DOMAIN T : \E i \in 1 .. n : cs[i] = T[j]
  BY <1>1 DEF IsChainList, FoldList, G, T
<1>6. ASSUME ctx.operation \in A
      PROVE  \E j \in DOMAIN T : Evaluate(T[j], ctx).outcome = "escalate"
  <2>1. PICK i \in 1 .. n : cs[i].kind = "requires_approval" /\ ctx.operation \in cs[i].scopes
    BY <1>2, <1>5, <1>6 DEF Kind
  <2>2. PICK j \in DOMAIN T : cs[i] = T[j]
    BY <1>3, <1>5, <2>1 DEF Folded
  <2> QED BY <1>4, <2>1, <2>2
<1>7. ASSUME NEW j \in DOMAIN T, Evaluate(T[j], ctx).outcome = "escalate"
      PROVE  ctx.operation \in A
  <2>1. PICK i \in 1 .. n : cs[i] = T[j]
    BY <1>5
  <2>2. cs[i].kind = "requires_approval" /\ ctx.operation \in cs[i].scopes
    BY <1>4, <1>7, <2>1
  <2>3. i \in Kind(cs, "requires_approval")
    BY <1>5, <2>2 DEF Kind
  <2> QED BY <1>2, <2>2, <2>3
<1>8. ctx.operation \in A <=> \E j \in DOMAIN T : Evaluate(T[j], ctx).outcome = "escalate"
  BY <1>6, <1>7
<1> QED BY <1>8 DEF A, T

\* What each gate of steps 3 to 7 says when it lets the request by.
LEMMA GatePasses ==
    ASSUME NEW ids, NEW known, NEW t, NEW ctx, NEW limited, NEW answer, NEW budget
    PROVE  /\ RevocationGate(ids, known).outcome = "pass" =>
                 known # Unavailable /\ ToSet(ids) \cap known = {}
           /\ DatalogGate(t, ctx, limited).outcome = "pass" => Authorizes(t, ctx)
           /\ PolicyGate(answer).outcome = "pass" => answer.allowed
           /\ BudgetGate(budget).outcome = "pass" => budget.ok
<1>1. Pass.outcome = "pass" /\ FailClosed.outcome = "deny" /\ \A r : _deny(r).outcome = "deny"
  BY DEF Pass, FailClosed, _deny, Verdict
<1>2. RevocationGate(ids, known).outcome = "pass" =>
         known # Unavailable /\ {i \in DOMAIN ids : ids[i] \in known} = {}
  BY <1>1 DEF RevocationGate
<1>3. {i \in DOMAIN ids : ids[i] \in known} = {} => ToSet(ids) \cap known = {}
  BY DEF ToSet
<1> QED BY <1>1, <1>2, <1>3 DEF DatalogGate, PolicyGate, BudgetGate

\* The decision that Authorize follows.
LEMMA AuthorizeDecides ==
    ASSUME CredentialsMinted, CachesOK(drift), now \in Nat, NEW k, Presents(k), NEW world,
           NEW o, o = Answers(CredentialOf[k], ContextOf(k), world),
           NEW g, g = Gates(Presented(k).token, Presented(k).ids, ContextOf(k),
                            CaveatsOf[CredentialOf[k]], o)
    PROVE  DecisionOK(decide(g, ContextOf(k), o), k,
                      IF AsksForDrift(g, ContextOf(k))
                      THEN DriftCaches(drift, ContextOf(k), world.embeds) ELSE drift)
<1> DEFINE c == CredentialOf[k]
           t == Presented(k).token
           ids == Presented(k).ids
           ctx == ContextOf(k)
           T == TokenCaveats(t)
           v == _evaluate_caveats(T, ctx)
           d == decide(g, ctx, o)
           caches == IF AsksForDrift(g, ctx) THEN DriftCaches(drift, ctx, world.embeds) ELSE drift
<1>1. c \in DOMAIN Credentials /\ t = Credentials[c].token /\ Verify(t, now) = "OK"
  BY PresentedIs DEF Presented
<1>2. ChainOK(t) /\ ReadOffSome(T)
  BY PresentedReads
<1>3. CaveatsOf[c] = T /\ PathOf[c] = ChainPath(t)
  BY <1>1 DEF CaveatsOf, PathOf
<1>4. /\ o.revoked = IF world.fresh THEN revoked ELSE Unavailable
      /\ o.policy = evaluate(policy, tool_catalogue(policy.tools), FALSE,
                             RoleOf(roles, ChainPath(t)), ctx)
      /\ o.drift = score_for(drift, ctx, world.embeds)
      /\ o.budget = Check(ctx.requested[SpendDimension])
  BY <1>3 DEF Answers
<1>5. ctx.requested[SpendDimension] = Spend(k) /\ Spend(k) \in Nat
  BY ContextIsValid
<1>6. AsksForDrift(g, ctx) <=>
         (ctx.drift_mode # "off" /\ \A i \in 1 .. 5 : g[i].outcome = "pass")
  BY DEF AsksForDrift
<1> HIDE DEF c, t, ids, ctx, T, v, d
<1>7. PICK n \in Nat : DOMAIN T = 1 .. n
  <2>1. T \in Seq(ToSet(T)) /\ Len(T) \in Nat
    BY <1>2 DEF ReadOffSome
  <2> QED BY <2>1
<1>8. \A j \in 1 .. n : T[j].kind \in ReasonedKinds
  BY <1>2, <1>7, TokenCaveatKinds DEF T
<1>9. g = Gates(t, ids, ctx, T, o)
  BY <1>3 DEF t, ids, ctx, c
<1>10. GatesOK(g)
  BY <1>7, <1>8, <1>9, GatesStop
<1>11. IsDecision(d, g)
  BY <1>10, DecideIs DEF d
<1>12. CaveatVerdict(v, T, ctx)
  BY <1>7, CaveatsVerdict DEF v
<1>13. /\ g[1] = RevocationGate(ids, o.revoked) /\ g[3] = DenyOnly(v)
       /\ g[4] = DatalogGate(t, ctx, o.limited)
       /\ g[5] = PolicyGate(o.policy) /\ g[6] = DriftGate(ctx, o)
       /\ g[7] = [v EXCEPT !.drift = DriftScore(ctx, o)] /\ g[8] = BudgetGate(o.budget)
  BY <1>9, GateList DEF v
<1>14. g[7].outcome = v.outcome
  BY <1>12, <1>13 DEF CaveatVerdict
<1>15. NeedsApproval(k) <=> \E j \in DOMAIN T : Evaluate(T[j], ctx).outcome = "escalate"
  BY <1>2, ApprovalIsAsked DEF NeedsApproval, t, ctx, T
<1>16. ASSUME d.outcome # "deny" PROVE Cleared(k)
  <2>1. /\ g[1].outcome = "pass" /\ g[3].outcome = "pass"
        /\ g[4].outcome = "pass" /\ g[5].outcome = "pass"
    BY <1>11, <1>16 DEF IsDecision
  <2>6. NotDenied(T, ctx)
    <3>1. v.outcome # "deny"
      BY <1>13, <2>1 DEF DenyOnly
    <3> QED BY <3>1, NotDenying DEF v
  <2>2. o.revoked # Unavailable /\ ToSet(ids) \cap o.revoked = {}
    BY <1>13, <2>1, GatePasses
  <2>3. ToSet(ids) \cap revoked = {}
    BY <1>4, <2>2
  <2>4. Authorizes(t, ctx)
    BY <1>13, <2>1, GatePasses
  <2>5. is_authorized(policy, RoleOf(roles, ChainPath(t)), ctx,
                      _facts_for(tool_catalogue(policy.tools), ctx.tool))
    <3>1. o.policy.allowed
      BY <1>13, <2>1, GatePasses
    <3> QED BY <1>4, <3>1 DEF evaluate
  <2> QED BY <1>1, <2>3, <2>4, <2>5, <2>6 DEF Cleared, t, ids, ctx, T
<1>20. ASSUME d.outcome # "deny"
       PROVE  g[6].outcome = "escalate" <=> DriftedIn(caches, ctx)
  <2>1. CASE ctx.drift_mode = "strict"
    <3>3. \A i \in 1 .. 5 : g[i].outcome = "pass"
      BY <1>11, <1>20 DEF IsDecision
    <3>1. AsksForDrift(g, ctx)
      BY <1>6, <2>1, <3>3, Zenon
    <3>2. caches = DriftCaches(drift, ctx, world.embeds)
      BY <3>1
    <3> QED BY <1>4, <1>13, <2>1, <3>2, DriftIsAsked
  <2>2. CASE ctx.drift_mode # "strict"
    <3>1. ~ DriftedIn(caches, ctx)
      BY <2>2 DEF DriftedIn
    <3>2. g[6].outcome = "pass"
      BY <1>4, <1>13, <2>2, DriftIsAsked
    <3> QED BY <3>1, <3>2
  <2> QED BY <2>1, <2>2
<1>17. ASSUME d.outcome = "allow"
       PROVE  /\ ~ NeedsApproval(k) /\ ~ DriftedIn(caches, ctx)
              /\ Spend(k) = 0 \/ (lease.live /\ lease.remaining >= Spend(k))
  <2>1. g[6].outcome = "pass" /\ g[7].outcome = "pass" /\ g[8].outcome = "pass"
    BY <1>11, <1>17 DEF IsDecision
  <2>2. ~ NeedsApproval(k)
    BY <1>12, <1>14, <1>15, <2>1 DEF CaveatVerdict
  <2>3. o.budget.ok
    BY <1>13, <2>1, GatePasses
  <2>4. Check(Spend(k)).ok
    BY <1>4, <1>5, <2>3
  <2>5. Spend(k) = 0 \/ (lease.live /\ lease.remaining >= Spend(k))
    BY <2>4, Zenon DEF Check
  <2>6. ~ DriftedIn(caches, ctx)
    BY <1>17, <1>20, <2>1
  <2> QED BY <2>2, <2>5, <2>6
<1>18. ASSUME d.outcome = "escalate"
       PROVE  NeedsApproval(k) \/ DriftedIn(caches, ctx)
  <2>1. CASE g[6].outcome = "escalate"
    BY <1>18, <1>20, <2>1
  <2>2. CASE g[7].outcome = "escalate"
    BY <1>12, <1>14, <1>15, <2>2 DEF CaveatVerdict
  <2> QED BY <1>11, <1>18, <2>1, <2>2 DEF IsDecision
<1> HIDE DEF caches
<1>19. DecisionOK(d, k, caches)
  BY <1>11, <1>16, <1>17, <1>18 DEF DecisionOK, IsDecision, ctx
<1> QED BY <1>19 DEF d, ctx, caches

\* The k-th request was read, and the authority on its record covers a flight that holds
\* what was read.
Covered(k) ==
    /\ Extracted[k].ok /\ Extracted[k].value.scope \in Scopes
    /\ \A f : f.request = k /\ f.amount = Spend(k) => Covers(AuthorityOf(k), f)

\* The authority on the record is an upper bound of what was cleared.
LEMMA ClearedIsCovered ==
    ASSUME CredentialsMinted, now \in Nat, NEW k, Presents(k), Cleared(k)
    PROVE  Covered(k)
<1> DEFINE c == CredentialOf[k]
           t == Presented(k).token
           ctx == ContextOf(k)
           cs == GrantCaveats(Grant(t)) \o TokenCaveats(t)
           E == EffectiveBound(cs)
<1>1. c \in DOMAIN Credentials /\ t = Credentials[c].token /\ Verify(t, now) = "OK"
  BY PresentedIs DEF Presented
<1>2. ChainOK(t) /\ ReadOffSome(TokenCaveats(t))
  BY PresentedReads
<1>4. IsChainList(cs, Len(cs), t)
  BY <1>2, ChainList
<1>5. /\ ValidContext(ctx) /\ ctx.operation = Extracted[k].value.scope
      /\ ctx.requested[SpendDimension] = Spend(k) /\ Spend(k) \in Nat
      /\ ctx.current_depth = Depth(t)
  BY ContextIsValid
<1>6. AuthorityOf(k) = RecordedAuthority(E)
  BY <1>1 DEF AuthorityOf, _authority, CaveatsOf
<1>7. Authorizes(t, ctx) /\ NotDenied(TokenCaveats(t), ctx)
  BY DEF Cleared
<1> HIDE DEF c, t, ctx, cs, E
<1>8. ctx.current_depth \in Int
  BY <1>2, <1>5 DEF ChainOK, Depth
<1>9. ctx.operation \in Scopes
  <2>1. ctx.operation \in t.mandate.scopes
    BY <1>2, <1>5, <1>7, ChainAuthorizes
  <2> QED BY <1>2, <2>1 DEF ChainOK, MandateOK
<1>10. \A i \in 1 .. Len(cs) : cs[i].kind \in Folded => Satisfied(cs[i], ctx)
  BY <1>2, <1>4, <1>5, <1>7, ChainBound
<1>11. Permits(E, ctx)
  <2>1. FoldList(cs, Len(cs))
    BY <1>4 DEF IsChainList
  <2> QED BY <1>5, <1>8, <1>9, <1>10, <2>1, FoldExact DEF E
<1>12. AuthorityOf(k).scopes = E.scopes /\ AuthorityOf(k).ceilings = E.budget
  BY <1>6 DEF RecordedAuthority
<1>13. ASSUME NEW f, f.request = k, f.amount = Spend(k)
       PROVE  Covers(AuthorityOf(k), f)
  BY <1>5, <1>11, <1>12, <1>13 DEF Covers, Permits
<1>14. Extracted[k].ok
  BY PresentedIs
<1> QED BY <1>5, <1>9, <1>13, <1>14 DEF Covered

-----------------------------------------------------------------------------
(* The inductive invariant *)

Phases == {"answered", "escalating", "upstream", "settled", "failed"}

FlightOK(f) ==
    /\ DOMAIN f = {"request", "phase", "reason", "id", "escalation", "amount", "lease"}
    /\ f.request \in DOMAIN Requests /\ f.phase \in Phases
    /\ f.amount \in Nat /\ f.lease \in Nat /\ f.id \in BOOLEAN /\ f.escalation \in BOOLEAN

LeaseType == [id : Nat, granted : Nat, remaining : Int, live : BOOLEAN, exhausted : BOOLEAN]

\* What the flight f was told and what is on record about it: `has` whether a record r was
\* accepted, `queued` whether an entry was opened.  Nothing was told while the sink is
\* awaited, and what is held for a forwarded request is what was read off it.
Told(f, has, r, queued) ==
    /\ has => _outcome_matches_reason(r)
    /\ Forwarded(f) <=> has /\ r.outcome = "allow"
    /\ Forwarded(f) => /\ Covers(r.authority, f)
                       /\ Extracted[f.request].ok /\ Extracted[f.request].value.scope \in Scopes
                       /\ f.amount = Spend(f.request)
    /\ f.id => has /\ r.reason = f.reason
    /\ f.escalation => queued /\ f.id /\ r.outcome = "escalate"
    /\ f.phase = "escalating" => ~ has /\ ~ f.id /\ ~ f.escalation /\ f.reason # "OK"

PipeInv ==
    /\ flights \in Seq(ToSet(flights)) /\ lease \in LeaseType /\ now \in Nat
    /\ DOMAIN records \subseteq DOMAIN flights
    /\ \A i \in DOMAIN flights :
          /\ FlightOK(flights[i]) /\ flights[i].lease <= lease.id
          /\ Told(flights[i], i \in DOMAIN records, records[i], i \in escalations)
    /\ MissingWasForwarded

\* The flights whose amounts are missing from the lease.
OnLease(q, l) == {i \in DOMAIN q : q[i].lease = l.id /\ Forwarded(q[i])}
Missing(q, l) == SumOver(OnLease(q, l), [i \in OnLease(q, l) |-> q[i].amount])

LEMMA MissingIs == MissingWasForwarded <=> (lease.id > 0 => lease.granted - lease.remaining = Missing(flights, lease))
BY DEF MissingWasForwarded, Missing, OnLease

LEMMA MissingIsPrimed ==
    MissingWasForwarded' <=>
        (lease'.id > 0 => lease'.granted - lease'.remaining = Missing(flights', lease'))
BY DEF MissingWasForwarded, Missing, OnLease

\* A flight that is forwarded on the lease adds its amount, and any other adds nothing.
LEMMA MissingAppend ==
    ASSUME NEW S, NEW q \in Seq(S), NEW l, NEW f, f.amount \in Nat,
           \A i \in DOMAIN q : q[i].amount \in Nat
    PROVE  Missing(Append(q, f), l) =
              Missing(q, l) + (IF f.lease = l.id /\ Forwarded(f) THEN f.amount ELSE 0)
<1> DEFINE r == Append(q, f)
           n == Len(q)
           A == OnLease(q, l)
           B == OnLease(r, l)
           a == [i \in A |-> q[i].amount]
           b == [i \in B |-> r[i].amount]
<1>1. IsAppend(r, q, f)
  BY AppendAny
<1>2. n \in Nat /\ DOMAIN q = 1 .. n
  OBVIOUS
<1> HIDE DEF r
<1>3. DOMAIN r = 1 .. n + 1 /\ r[n + 1] = f /\ \A i \in 1 .. n : r[i] = q[i]
  BY <1>1 DEF IsAppend
<1>4. A \subseteq 1 .. n /\ IsFiniteSet(A) /\ n + 1 \notin A
  <2>1. A \subseteq 1 .. n
    BY <1>2 DEF OnLease
  <2>2. IsFiniteSet(1 .. n)
    <3>1. n \in Int /\ 1 \in Int
      BY <1>2
    <3> HIDE DEF n
    <3> QED BY <3>1, FS_Interval
  <2> HIDE DEF A
  <2>3. IsFiniteSet(A)
    BY <2>1, <2>2, FS_Subset
  <2>4. n + 1 \notin 1 .. n
    BY <1>2
  <2> QED BY <2>1, <2>3, <2>4
<1>5. B = A \cup {i \in {n + 1} : f.lease = l.id /\ Forwarded(f)}
  BY <1>2, <1>3 DEF OnLease
<1>6. \A i \in A : q[i].amount \in Nat /\ r[i] = q[i]
  BY <1>2, <1>3, <1>4
<1>7. CASE f.lease = l.id /\ Forwarded(f)
  <2>1. B = A \cup {n + 1}
    BY <1>5, <1>7
  <2>2. b[n + 1] = f.amount /\ \A i \in A : b[i] = a[i] /\ b[i] \in Nat
    BY <1>3, <1>6, <2>1
  <2> HIDE DEF A, B, a, b
  <2>3. SumOver(A \cup {n + 1}, b) = SumOver(A, b) + b[n + 1]
    BY <1>4, <2>2, SumAdd
  <2>4. SumOver(A, b) = SumOver(A, a)
    BY <2>2, SumAgree
  <2>5. Missing(r, l) = Missing(q, l) + f.amount
    BY <2>1, <2>2, <2>3, <2>4 DEF Missing, A, B, a, b
  <2> QED BY <1>7, <2>5 DEF r
<1>8. CASE ~ (f.lease = l.id /\ Forwarded(f))
  <2>1. B = A
    BY <1>5, <1>8
  <2>2. \A i \in A : b[i] = a[i] /\ a[i] \in Nat
    BY <1>6, <2>1
  <2> HIDE DEF A, B, a, b
  <2>3. SumOver(A, b) = SumOver(A, a) /\ SumOver(A, a) \in Nat
    BY <1>4, <2>2, SumAgree, SumType
  <2>4. Missing(r, l) = Missing(q, l) + 0
    BY <2>1, <2>3 DEF Missing, A, B, a, b
  <2> QED BY <1>8, <2>4 DEF r
<1> QED BY <1>7, <1>8

\* Flights that move on within what is forwarded, or outside it, change nothing.
MovedOn(r, q) ==
    /\ DOMAIN r = DOMAIN q
    /\ \A i \in DOMAIN q : /\ r[i].lease = q[i].lease /\ r[i].amount = q[i].amount
                           /\ Forwarded(r[i]) <=> Forwarded(q[i])

LEMMA MissingSame ==
    ASSUME NEW q, NEW r, MovedOn(r, q), NEW l, NEW m, l.id = m.id
    PROVE  Missing(r, m) = Missing(q, l)
<1> DEFINE A == OnLease(q, l)
           a == [i \in A |-> q[i].amount]
           b == [i \in A |-> r[i].amount]
<1>1. OnLease(r, m) = A
  BY DEF OnLease, MovedOn
<1>2. \A i \in A : b[i] = a[i]
  BY DEF OnLease, MovedOn
<1>3. Missing(q, l) = SumOver(A, a) /\ Missing(r, m) = SumOver(A, b)
  BY <1>1 DEF Missing
<1> HIDE DEF A, a, b
<1> QED BY <1>2, <1>3, SumAgree

-----------------------------------------------------------------------------
(* Steps *)

\* The record of the flight i, or none, is added to the others.
Records(i) ==
    \/ UNCHANGED records
    \/ /\ DOMAIN records' = DOMAIN records \cup {i}
       /\ \A j \in DOMAIN records \ {i} : records'[j] = records[j]

LEMMA EmitRecords ==
    ASSUME NEW i, NEW r, Emit(i, r)
    PROVE  /\ DOMAIN records' = DOMAIN records \cup {i} /\ records'[i] = r
           /\ Records(i)
BY DEF Emit, Records

\* A request arrives.
LEMMA ArrivalInv ==
    ASSUME PipeInv, NEW f, flights' = Append(flights, f), FlightOK(f), f.lease <= lease.id,
           Records(Here), now' = now, UNCHANGED escalations,
           lease' \in LeaseType, lease'.id = lease.id, lease'.granted = lease.granted,
           lease'.remaining =
              lease.remaining - (IF f.lease = lease.id /\ Forwarded(f) THEN f.amount ELSE 0)
              \/ lease.id = 0,
           Told(f, Here \in DOMAIN records', records'[Here], Here \in escalations)
    PROVE  PipeInv'
<1> DEFINE n == Len(flights)
<1>1. /\ flights \in Seq(ToSet(flights)) /\ n \in Nat /\ DOMAIN flights = 1 .. n /\ Here = n + 1
      /\ lease \in LeaseType /\ now \in Nat /\ DOMAIN records \subseteq 1 .. n
  BY DEF PipeInv, Here
<1>2. IsAppend(flights', flights, f)
  BY <1>1, AppendAny
<1>3. /\ flights' \in Seq(ToSet(flights')) /\ DOMAIN flights' = 1 .. n + 1
      /\ flights'[n + 1] = f /\ \A i \in 1 .. n : flights'[i] = flights[i]
  BY <1>2 DEF IsAppend
<1>4. DOMAIN records' \subseteq DOMAIN flights'
  BY <1>1, <1>3 DEF Records
<1>5. ASSUME NEW i \in DOMAIN flights'
      PROVE  /\ FlightOK(flights'[i]) /\ flights'[i].lease <= lease'.id
             /\ Told(flights'[i], i \in DOMAIN records', records'[i], i \in escalations')
  <2>1. CASE i = n + 1
    BY <1>1, <1>3, <2>1
  <2>2. CASE i \in 1 .. n
    <3>1. flights'[i] = flights[i] /\ i # Here
      BY <1>1, <1>3, <2>2
    <3>2. (i \in DOMAIN records' <=> i \in DOMAIN records) /\ (i \in DOMAIN records => records'[i] = records[i])
      BY <3>1 DEF Records
    <3>3. /\ FlightOK(flights[i]) /\ flights[i].lease <= lease.id
          /\ Told(flights[i], i \in DOMAIN records, records[i], i \in escalations)
      BY <1>1, <2>2 DEF PipeInv
    <3>4. Told(flights[i], i \in DOMAIN records', records'[i], i \in escalations)
      BY <3>2, <3>3 DEF Told
    <3> QED BY <3>1, <3>3, <3>4
  <2> QED BY <1>1, <1>3, <2>1, <2>2
<1>6. MissingWasForwarded'
  <2>1. \A i \in DOMAIN flights : flights[i].amount \in Nat
    BY DEF PipeInv, FlightOK
  <2> DEFINE added == IF f.lease = lease.id /\ Forwarded(f) THEN f.amount ELSE 0
  <2>2. Missing(flights', lease) = Missing(flights, lease) + added
    <3>1. f.amount \in Nat
      BY DEF FlightOK
    <3> QED BY <1>1, <2>1, <3>1, MissingAppend
  <2>3. Missing(flights', lease') = Missing(flights', lease)
    <3>1. MovedOn(flights', flights')
      BY DEF MovedOn
    <3> QED BY <3>1, MissingSame
  <2>4. lease.id > 0 => lease.granted - lease.remaining = Missing(flights, lease)
    BY MissingIs DEF PipeInv
  <2>5. added \in Nat
    BY DEF FlightOK
  <2> HIDE DEF added
  <2>6. lease'.remaining = lease.remaining - added \/ lease.id = 0
    BY DEF added
  <2>7. lease.granted \in Int /\ lease.remaining \in Int /\ lease.id \in Nat
    BY <1>1 DEF LeaseType
  <2>8. lease'.id > 0 => lease'.granted - lease'.remaining = Missing(flights', lease')
    <3> SUFFICES ASSUME lease.id > 0
                 PROVE  lease'.granted - lease'.remaining = Missing(flights', lease')
      OBVIOUS
    <3>1. lease'.remaining = lease.remaining - added
      BY <2>6, <2>7
    <3>2. Missing(flights', lease') = lease.granted - lease.remaining + added
      BY <2>2, <2>3, <2>4
    <3> QED BY <2>5, <2>7, <3>1, <3>2
  <2> QED BY <2>8, MissingIsPrimed
<1> QED BY <1>1, <1>3, <1>4, <1>5, <1>6 DEF PipeInv

LEMMA ExceptIsSeq ==
    ASSUME NEW S, NEW q \in Seq(S), NEW i \in DOMAIN q, NEW f
    PROVE  LET r == [q EXCEPT ![i] = f]
           IN  /\ r \in Seq(ToSet(r)) /\ DOMAIN r = DOMAIN q /\ r[i] = f
               /\ \A j \in DOMAIN q : j # i => r[j] = q[j]
<1> DEFINE r == [q EXCEPT ![i] = f]
<1>1. PICK n \in Nat : DOMAIN q = 1 .. n
  OBVIOUS
<1>2. r \in [1 .. n -> S \cup {f}]
  BY <1>1
<1>3. r[i] = f /\ \A j \in DOMAIN q : j # i => r[j] = q[j]
  OBVIOUS
<1> HIDE DEF r
<1>4. r \in Seq(ToSet(r))
  <2>1. r \in [1 .. n -> ToSet(r)]
    BY <1>2 DEF ToSet
  <2> QED BY <2>1
<1> QED BY <1>1, <1>2, <1>3, <1>4 DEF r

\* A request gets on.
LEMMA ProgressInv ==
    ASSUME PipeInv, NEW i \in DOMAIN flights, NEW f, flights' = [flights EXCEPT ![i] = f],
           FlightOK(f), f.lease = flights[i].lease, f.amount = flights[i].amount,
           Forwarded(f) <=> Forwarded(flights[i]),
           Records(i), now' = now, escalations \subseteq escalations', UNCHANGED lease,
           Told(f, i \in DOMAIN records', records'[i], i \in escalations')
    PROVE  PipeInv'
<1>1. /\ flights \in Seq(ToSet(flights)) /\ lease \in LeaseType /\ now \in Nat
      /\ DOMAIN records \subseteq DOMAIN flights
  BY DEF PipeInv
<1>2. /\ flights' \in Seq(ToSet(flights')) /\ DOMAIN flights' = DOMAIN flights /\ flights'[i] = f
      /\ \A j \in DOMAIN flights : j # i => flights'[j] = flights[j]
  BY <1>1, ExceptIsSeq
<1>3. DOMAIN records' \subseteq DOMAIN flights'
  BY <1>1, <1>2 DEF Records
<1>4. ASSUME NEW j \in DOMAIN flights'
      PROVE  /\ FlightOK(flights'[j]) /\ flights'[j].lease <= lease'.id
             /\ Told(flights'[j], j \in DOMAIN records', records'[j], j \in escalations')
  <2>1. /\ FlightOK(flights[j]) /\ flights[j].lease <= lease.id
        /\ Told(flights[j], j \in DOMAIN records, records[j], j \in escalations)
    BY <1>2 DEF PipeInv
  <2>2. CASE j = i
    BY <1>2, <2>1, <2>2
  <2>3. CASE j # i
    <3>1. flights'[j] = flights[j]
      BY <1>2, <2>3
    <3>2. /\ j \in DOMAIN records' <=> j \in DOMAIN records
          /\ j \in DOMAIN records => records'[j] = records[j]
      BY <2>3 DEF Records
    <3>3. Told(flights[j], j \in DOMAIN records', records'[j], j \in escalations')
      BY <2>1, <3>2 DEF Told
    <3> QED BY <2>1, <3>1, <3>3
  <2> QED BY <2>2, <2>3
<1>5. MissingWasForwarded'
  <2>1. \A j \in DOMAIN flights :
           /\ flights'[j].lease = flights[j].lease /\ flights'[j].amount = flights[j].amount
           /\ Forwarded(flights'[j]) <=> Forwarded(flights[j])
    BY <1>2
  <2>2. Missing(flights', lease') = Missing(flights, lease)
    <3>1. MovedOn(flights', flights) /\ lease.id = lease'.id
      BY <1>2, <2>1 DEF MovedOn
    <3> QED BY <3>1, MissingSame
  <2>3. lease.id > 0 => lease.granted - lease.remaining = Missing(flights, lease)
    BY MissingIs DEF PipeInv
  <2> QED BY <2>2, <2>3, MissingIsPrimed
<1> QED BY <1>1, <1>2, <1>3, <1>4, <1>5 DEF PipeInv

\* Nothing but the time and what the requests read moves, or the lease's age.
LEMMA AsideInv ==
    ASSUME PipeInv, UNCHANGED <<flights, records, escalations>>, now' \in Nat,
           lease' \in LeaseType, lease'.id = lease.id, lease'.granted = lease.granted,
           lease'.remaining = lease.remaining
    PROVE  PipeInv'
<1>1. MissingWasForwarded'
  <2>1. Missing(flights', lease') = Missing(flights, lease)
    <3>1. MovedOn(flights', flights)
      BY DEF MovedOn
    <3> QED BY <3>1, MissingSame
  <2>2. lease.id > 0 => lease.granted - lease.remaining = Missing(flights, lease)
    BY MissingIs DEF PipeInv
  <2> QED BY <2>1, <2>2, MissingIsPrimed
<1> QED BY <1>1 DEF PipeInv

\* No flight is on a lease that was just acquired.
LEMMA AcquiredInv ==
    ASSUME PipeInv, UNCHANGED <<flights, records, escalations, now>>,
           lease' \in LeaseType, lease'.id = lease.id + 1, lease'.granted = lease'.remaining
    PROVE  PipeInv'
<1>1. lease \in LeaseType /\ lease.id \in Nat
  BY DEF PipeInv, LeaseType
<1>2. \A i \in DOMAIN flights : flights[i].lease \in Nat /\ flights[i].lease <= lease.id
  BY DEF PipeInv, FlightOK
<1>3. OnLease(flights', lease') = {}
  BY <1>1, <1>2 DEF OnLease
<1>4. Missing(flights', lease') = 0
  <2> DEFINE a == [i \in OnLease(flights', lease') |-> flights'[i].amount]
  <2>1. \A i \in OnLease(flights', lease') : a[i] = 0
    BY <1>3
  <2> HIDE DEF a
  <2>2. SumOver(OnLease(flights', lease'), a) = 0
    BY <2>1, SumZero
  <2> QED BY <2>2 DEF Missing, a
<1>5. MissingWasForwarded'
  <2>1. lease'.granted - lease'.remaining = 0
    BY DEF LeaseType
  <2> QED BY <1>4, <2>1, MissingIsPrimed
<1>6. \A i \in DOMAIN flights : flights[i].lease <= lease'.id
  BY <1>1, <1>2
<1> QED BY <1>5, <1>6 DEF PipeInv

-----------------------------------------------------------------------------
(* The actions *)

LEMMA HereIsNew ==
    ASSUME PipeInv
    PROVE  Here \notin DOMAIN records /\ Here \notin DOMAIN flights
BY DEF PipeInv, Here

\* f is a flight that was told nothing yet and holds no lease.
IsFlight(f, k, phase, reason, amount) ==
    /\ FlightOK(f) /\ f.request = k /\ f.phase = phase /\ f.reason = reason
    /\ f.amount = amount /\ ~ f.id /\ ~ f.escalation /\ f.lease = 0

LEMMA FlightIs ==
    ASSUME NEW k \in DOMAIN Requests, NEW phase \in Phases, NEW reason, NEW amount \in Nat
    PROVE  IsFlight(Flight(k, phase, reason, amount), k, phase, reason, amount)
BY DEF Flight, FlightOK, IsFlight

\* A request that is answered at once holds nothing; it was told of a decision only if
\* that was recorded.
LEMMA AnsweredInv ==
    ASSUME PipeInv, NEW k \in DOMAIN Requests, NEW reason, NEW told \in BOOLEAN,
           Answer(k, reason, told), Records(Here), now' = now, UNCHANGED escalations,
           lease' \in LeaseType, lease'.id = lease.id, lease'.granted = lease.granted,
           lease'.remaining = lease.remaining,
           Here \in DOMAIN records' =>
              _outcome_matches_reason(records'[Here]) /\ records'[Here].outcome # "allow",
           told => Here \in DOMAIN records' /\ records'[Here].reason = reason
    PROVE  PipeInv'
<1> DEFINE f0 == Flight(k, "answered", reason, 0)
           f == [f0 EXCEPT !.id = told]
<1>1. IsFlight(f0, k, "answered", reason, 0)
  <2>1. "answered" \in Phases /\ 0 \in Nat
    BY DEF Phases
  <2> QED BY <2>1, FlightIs
<1>2. flights' = Append(flights, f)
  BY DEF Answer
<1> HIDE DEF f0
<1>3. /\ FlightOK(f) /\ f.phase = "answered" /\ f.reason = reason /\ f.id = told
      /\ ~ f.escalation /\ f.lease = 0 /\ f.amount = 0
  BY <1>1 DEF FlightOK, IsFlight
<1> HIDE DEF f
<1>4. ~ Forwarded(f)
  BY <1>3 DEF Forwarded
<1>5. Told(f, Here \in DOMAIN records', records'[Here], Here \in escalations)
  BY <1>3, <1>4 DEF Told
<1>6. lease.id \in Nat /\ lease.remaining \in Int
  BY DEF PipeInv, LeaseType
<1>7. f.lease <= lease.id
  BY <1>3, <1>6
<1>8. lease'.remaining =
         lease.remaining - (IF f.lease = lease.id /\ Forwarded(f) THEN f.amount ELSE 0)
  BY <1>4, <1>6
<1> QED BY <1>2, <1>3, <1>5, <1>7, <1>8, ArrivalInv

LEMMA LeaseIsType ==
    ASSUME PipeInv
    PROVE  lease \in LeaseType /\ lease.id \in Nat /\ lease.remaining \in Int
BY DEF PipeInv, LeaseType

LEMMA RefuseEarlyInv ==
    ASSUME PipeInv, NEW k \in DOMAIN Requests, RefuseEarly(k)
    PROVE  PipeInv'
<1>1. PICK reason : Answer(k, reason, FALSE)
  BY DEF RefuseEarly
<1>2. UNCHANGED <<records, lease, escalations, now>>
  BY DEF RefuseEarly, Unrecorded, Elsewhere
<1>3. Records(Here) /\ Here \notin DOMAIN records'
  BY <1>2, HereIsNew DEF Records
<1> QED BY <1>1, <1>2, <1>3, LeaseIsType, AnsweredInv

LEMMA DenyInv ==
    ASSUME PipeInv, NEW k \in DOMAIN Requests, NEW d, d.outcome = "deny", d.reason # "OK",
           Deny(k, d), UNCHANGED <<escalations, now>>
    PROVE  PipeInv'
<1>1. CASE Full
  <2>1. Answer(k, FAIL_CLOSED, FALSE) /\ UNCHANGED <<records, lease>>
    BY <1>1 DEF Deny, Unrecorded
  <2>2. Records(Here) /\ Here \notin DOMAIN records'
    BY <2>1, HereIsNew DEF Records
  <2> QED BY <2>1, <2>2, LeaseIsType, AnsweredInv
<1>2. CASE ~ Full
  <2> DEFINE r == Record("deny", d.reason, AuthorityOf(k))
  <2>1. Answer(k, d.reason, TRUE) /\ Emit(Here, r) /\ UNCHANGED lease
    BY <1>2 DEF Deny
  <2>2. r.outcome = "deny" /\ r.reason = d.reason
    BY DEF Record
  <2>3. _outcome_matches_reason(r)
    BY <2>2 DEF _outcome_matches_reason
  <2> HIDE DEF r
  <2>4. Records(Here) /\ Here \in DOMAIN records' /\ records'[Here] = r
    <3>1. Emit(Here, r)
      BY <2>1
    <3>2. DOMAIN records' = DOMAIN records \cup {Here} /\ records'[Here] = r /\ Records(Here)
      BY <3>1, EmitRecords, Zenon
    <3> QED BY <3>2, Zenon
  <2> QED BY <2>1, <2>2, <2>3, <2>4, LeaseIsType, AnsweredInv
<1> QED BY <1>1, <1>2

LEMMA EscalateInv ==
    ASSUME PipeInv, NEW k \in DOMAIN Requests, NEW d, d.reason # "OK",
           Escalate(k, d), UNCHANGED <<escalations, now>>
    PROVE  PipeInv'
<1> DEFINE f == Flight(k, "escalating", d.reason, 0)
<1>1. IsFlight(f, k, "escalating", d.reason, 0)
  <2>1. "escalating" \in Phases /\ 0 \in Nat
    BY DEF Phases
  <2> QED BY <2>1, FlightIs
<1>2. flights' = Append(flights, f) /\ UNCHANGED <<records, lease>>
  BY DEF Escalate, Unrecorded
<1>3. Records(Here) /\ Here \notin DOMAIN records'
  BY <1>2, HereIsNew DEF Records
<1> HIDE DEF f
<1>4. ~ Forwarded(f)
  BY <1>1 DEF Forwarded, IsFlight
<1>5. Told(f, Here \in DOMAIN records', records'[Here], Here \in escalations)
  BY <1>1, <1>3, <1>4 DEF Told, IsFlight
<1>6. f.lease <= lease.id /\ FlightOK(f)
  BY <1>1, LeaseIsType DEF IsFlight
<1>7. lease'.remaining =
         lease.remaining - (IF f.lease = lease.id /\ Forwarded(f) THEN f.amount ELSE 0)
  BY <1>2, <1>4, LeaseIsType
<1> QED BY <1>1, <1>2, <1>3, <1>5, <1>6, <1>7, LeaseIsType, ArrivalInv

\* The hold of a request that cannot be recorded is given back; one that can be is the
\* flight's amount.
LEMMA AllowInv ==
    ASSUME PipeInv, NEW k \in DOMAIN Requests, NEW amount \in Nat, amount = Spend(k),
           Covered(k), Allow(k, amount), UNCHANGED <<escalations, now>>
    PROVE  PipeInv'
<1>1. CASE Full
  <2>1. Answer(k, FAIL_CLOSED, FALSE) /\ UNCHANGED records
    BY <1>1 DEF Allow, Unrecorded
  <2>2. /\ lease' \in LeaseType /\ lease'.id = lease.id /\ lease'.granted = lease.granted
        /\ lease'.remaining = lease.remaining
    <3>1. lease' = IF amount = 0 THEN lease ELSE GivenBack(Reserved(amount), amount)
      BY <1>1 DEF Allow
    <3> DEFINE l == Reserved(amount)
    <3>2. /\ l \in LeaseType /\ l.id = lease.id /\ l.granted = lease.granted
          /\ l.remaining = lease.remaining - amount
      BY LeaseIsType DEF Reserved, LeaseType
    <3> HIDE DEF l
    <3>3. /\ GivenBack(l, amount) \in LeaseType /\ GivenBack(l, amount).id = lease.id
          /\ GivenBack(l, amount).granted = lease.granted
          /\ GivenBack(l, amount).remaining = lease.remaining
      BY <3>2, LeaseIsType DEF GivenBack, LeaseType
    <3> QED BY <3>1, <3>3, LeaseIsType DEF l
  <2>3. Records(Here) /\ Here \notin DOMAIN records'
    BY <2>1, HereIsNew DEF Records
  <2> QED BY <2>1, <2>2, <2>3, AnsweredInv
<1>2. CASE ~ Full
  <2> DEFINE r == Record("allow", "OK", AuthorityOf(k))
             f0 == Flight(k, "upstream", "OK", amount)
             f == [f0 EXCEPT !.lease = IF amount = 0 THEN 0 ELSE lease.id]
  <2>1. /\ lease' = IF amount = 0 THEN lease ELSE Reserved(amount)
        /\ Emit(Here, r) /\ flights' = Append(flights, f)
    BY <1>2 DEF Allow
  <2>2. r.outcome = "allow" /\ r.reason = "OK" /\ r.authority = AuthorityOf(k)
    BY DEF Record
  <2>3. IsFlight(f0, k, "upstream", "OK", amount)
    <3>1. "upstream" \in Phases
      BY DEF Phases
    <3> QED BY <3>1, FlightIs
  <2> HIDE DEF r, f0
  <2>4. /\ FlightOK(f) /\ f.request = k /\ f.phase = "upstream" /\ f.reason = "OK"
        /\ f.amount = amount /\ ~ f.id /\ ~ f.escalation
        /\ f.lease = IF amount = 0 THEN 0 ELSE lease.id
    BY <2>3, LeaseIsType DEF FlightOK, IsFlight
  <2> HIDE DEF f
  <2>5. Records(Here) /\ Here \in DOMAIN records' /\ records'[Here] = r
    <3>1. Emit(Here, r)
      BY <2>1
    <3>2. DOMAIN records' = DOMAIN records \cup {Here} /\ records'[Here] = r /\ Records(Here)
      BY <3>1, EmitRecords, Zenon
    <3> QED BY <3>2, Zenon
  <2>6. Forwarded(f)
    BY <2>4 DEF Forwarded
  <2>7. Told(f, Here \in DOMAIN records', records'[Here], Here \in escalations)
    <3>1. Covers(r.authority, f)
      BY <2>2, <2>4 DEF Covered
    <3>2. _outcome_matches_reason(r)
      BY <2>2 DEF _outcome_matches_reason
    <3>3. Extracted[k].ok /\ Extracted[k].value.scope \in Scopes
      BY DEF Covered
    <3> QED BY <2>2, <2>4, <2>5, <2>6, <3>1, <3>2, <3>3 DEF Told
  <2>8. f.lease <= lease.id
    BY <2>4, LeaseIsType
  <2>9. /\ lease' \in LeaseType /\ lease'.id = lease.id /\ lease'.granted = lease.granted
        /\ lease'.remaining = lease.remaining - amount
    BY <2>1, LeaseIsType, SMTT(30) DEF Reserved, LeaseType
  <2>10. lease'.remaining =
            lease.remaining - (IF f.lease = lease.id /\ Forwarded(f) THEN f.amount ELSE 0)
            \/ lease.id = 0
    BY <2>4, <2>6, <2>9, LeaseIsType
  <2> QED BY <2>1, <2>4, <2>5, <2>7, <2>8, <2>9, <2>10, ArrivalInv
<1> QED BY <1>1, <1>2

LEMMA AllowTooLateInv ==
    ASSUME PipeInv, NEW k \in DOMAIN Requests, NEW amount,
           AllowTooLate(k, amount), UNCHANGED <<escalations, now>>
    PROVE  PipeInv'
<1> DEFINE r == Refusal("LEASE_UNAVAILABLE")
<1>1. Answer(k, "LEASE_UNAVAILABLE", FALSE) /\ lease' = [lease EXCEPT !.live = FALSE]
  BY DEF AllowTooLate
<1>2. \/ UNCHANGED records
      \/ Emit(Here, r)
  BY DEF AllowTooLate, EmitIfRoom, Unrecorded
<1>3. /\ lease' \in LeaseType /\ lease'.id = lease.id /\ lease'.granted = lease.granted
      /\ lease'.remaining = lease.remaining
  BY <1>1, LeaseIsType DEF LeaseType
<1>4. r.outcome = "deny" /\ _outcome_matches_reason(r)
  BY DEF Refusal, Record, _outcome_matches_reason
<1> HIDE DEF r
<1>5. /\ Records(Here)
      /\ Here \in DOMAIN records' =>
            _outcome_matches_reason(records'[Here]) /\ records'[Here].outcome # "allow"
  BY <1>2, <1>4, EmitRecords, HereIsNew DEF Records
<1> QED BY <1>1, <1>3, <1>5, AnsweredInv

LEMMA FollowInv ==
    ASSUME CredentialsMinted, PipeInv, NEW k, Presents(k), NEW d, DecisionOK(d, k, drift'),
           Follow(k, d, Spend(k)), UNCHANGED <<escalations, now>>
    PROVE  PipeInv'
<1>1. k \in DOMAIN Requests /\ now \in Nat
  BY DEF Presents, PipeInv
<1>2. d.outcome = "allow" <=> d.reason = "OK"
  BY DEF DecisionOK
<1>3. CASE d.outcome = "deny" /\ Deny(k, d)
  BY <1>1, <1>2, <1>3, DenyInv
<1>4. CASE d.outcome = "escalate" /\ Escalate(k, d)
  BY <1>1, <1>2, <1>4, EscalateInv
<1>5. CASE d.outcome = "allow" /\ Allow(k, Spend(k))
  <2>1. Cleared(k)
    BY <1>5 DEF DecisionOK
  <2>2. Covered(k)
    BY <1>1, <2>1, ClearedIsCovered
  <2>3. Spend(k) \in Nat
    BY <1>1, ContextIsValid
  <2> QED BY <1>1, <1>5, <2>2, <2>3, AllowInv
<1>6. CASE d.outcome = "allow" /\ AllowTooLate(k, Spend(k))
  BY <1>1, <1>6, AllowTooLateInv
<1> QED BY <1>3, <1>4, <1>5, <1>6 DEF Follow

\* The decision that a step of Authorize follows.
LEMMA AuthorizeFollows ==
    ASSUME CredentialsMinted, CachesOK(drift), now \in Nat, NEW k \in DOMAIN Requests, NEW world,
           Authorize(k, world)
    PROVE  /\ Presents(k) /\ UNCHANGED <<escalations, now>>
           /\ \E d : DecisionOK(d, k, drift') /\ Follow(k, d, Spend(k))
<1>1. Presents(k) /\ UNCHANGED <<escalations, now>>
  BY DEF Authorize, Presents, Elsewhere
<1> DEFINE ctx == ContextOf(k)
           o == Answers(CredentialOf[k], ctx, world)
           g == Gates(Presented(k).token, Presented(k).ids, ctx, CaveatsOf[CredentialOf[k]], o)
           d == decide(g, ctx, o)
<1>2. Follow(k, d, ctx.requested[SpendDimension])
  BY DEF Authorize, Decide
<1>3. ctx.requested[SpendDimension] = Spend(k)
  BY <1>1, ContextIsValid
<1>4. drift' = IF AsksForDrift(g, ctx) THEN DriftCaches(drift, ctx, world.embeds) ELSE drift
  BY DEF Authorize, Decide
<1>5. DecisionOK(d, k, drift')
  BY <1>1, <1>4, AuthorizeDecides
<1> HIDE DEF d, ctx
<1> QED BY <1>1, <1>2, <1>3, <1>5

LEMMA AuthorizeInv ==
    ASSUME CredentialsMinted, PipeInv, CachesOK(drift), NEW k \in DOMAIN Requests, NEW world,
           Authorize(k, world)
    PROVE  PipeInv'
<1>1. now \in Nat
  BY DEF PipeInv
<1>2. Presents(k) /\ UNCHANGED <<escalations, now>>
  BY <1>1, AuthorizeFollows
<1>3. PICK d : DecisionOK(d, k, drift') /\ Follow(k, d, Spend(k))
  BY <1>1, AuthorizeFollows
<1> QED BY <1>2, <1>3, FollowInv

\* What is known of a flight.
LEMMA FlightKnown ==
    ASSUME PipeInv, NEW i \in DOMAIN flights
    PROVE  /\ FlightOK(flights[i])
           /\ Told(flights[i], i \in DOMAIN records, records[i], i \in escalations)
BY DEF PipeInv

LEMMA EscalationOpenedInv ==
    ASSUME PipeInv, NEW i \in DOMAIN flights, EscalationOpened(i)
    PROVE  PipeInv'
<1> DEFINE f == flights[i]
<1>1. FlightOK(f) /\ Told(f, i \in DOMAIN records, records[i], i \in escalations)
  BY FlightKnown
<1>2. f.phase = "escalating" /\ escalations' = escalations \cup {i} /\ UNCHANGED <<lease, now>>
  BY DEF EscalationOpened, Elsewhere
<1>3. flights \in Seq(ToSet(flights))
  BY DEF PipeInv
<1>4. i \notin DOMAIN records /\ ~ f.id /\ ~ f.escalation /\ f.reason # "OK" /\ ~ Forwarded(f)
  BY <1>1, <1>2 DEF Told, Forwarded
<1>5. CASE Full
  <2> DEFINE h == [f EXCEPT !.phase = "answered", !.reason = FAIL_CLOSED]
  <2>1. UNCHANGED records /\ flights' = [flights EXCEPT ![i] = h]
    BY <1>5 DEF EscalationOpened, Unrecorded
  <2>2. /\ FlightOK(h) /\ h.lease = f.lease /\ h.amount = f.amount /\ h.phase = "answered"
        /\ ~ h.id /\ ~ h.escalation
    BY <1>1, <1>4 DEF FlightOK, Phases
  <2> HIDE DEF h
  <2>3. ~ Forwarded(h)
    BY <2>2 DEF Forwarded
  <2>4. Records(i) /\ i \notin DOMAIN records'
    BY <1>4, <2>1 DEF Records
  <2>5. Told(h, i \in DOMAIN records', records'[i], i \in escalations')
    BY <2>2, <2>3, <2>4 DEF Told
  <2> QED BY <1>2, <1>4, <2>1, <2>2, <2>3, <2>4, <2>5, ProgressInv
<1>6. CASE ~ Full
  <2> DEFINE h == [f EXCEPT !.phase = "answered", !.id = TRUE, !.escalation = TRUE]
             r == Record("escalate", f.reason, AuthorityOf(f.request))
  <2>1. Emit(i, r) /\ flights' = [flights EXCEPT ![i] = h]
    BY <1>6 DEF EscalationOpened
  <2>2. /\ FlightOK(h) /\ h.lease = f.lease /\ h.amount = f.amount /\ h.phase = "answered"
        /\ h.id /\ h.escalation /\ h.reason = f.reason
    BY <1>1, <1>4 DEF FlightOK, Phases
  <2>3. r.outcome = "escalate" /\ r.reason = f.reason /\ _outcome_matches_reason(r)
    BY <1>4 DEF Record, _outcome_matches_reason
  <2> HIDE DEF h, r
  <2>4. ~ Forwarded(h)
    BY <2>2 DEF Forwarded
  <2>5. Records(i) /\ i \in DOMAIN records' /\ records'[i] = r
    BY <2>1, EmitRecords
  <2>6. Told(h, i \in DOMAIN records', records'[i], i \in escalations')
    BY <1>2, <2>2, <2>3, <2>4, <2>5 DEF Told
  <2> QED BY <1>2, <1>4, <2>1, <2>2, <2>4, <2>5, <2>6, ProgressInv
<1> QED BY <1>5, <1>6

LEMMA EscalationFailsInv ==
    ASSUME PipeInv, NEW i \in DOMAIN flights, NEW committed, EscalationFails(i, committed)
    PROVE  PipeInv'
<1> DEFINE f == flights[i]
           h == [f EXCEPT !.phase = "answered", !.reason = FAIL_CLOSED]
           r == Refusal(FAIL_CLOSED)
<1>1. FlightOK(f) /\ Told(f, i \in DOMAIN records, records[i], i \in escalations)
  BY FlightKnown
<1>2. /\ f.phase = "escalating" /\ escalations \subseteq escalations' /\ UNCHANGED <<lease, now>>
      /\ flights' = [flights EXCEPT ![i] = h]
  BY DEF EscalationFails, Elsewhere
<1>3. UNCHANGED records \/ Emit(i, r)
  BY DEF EscalationFails, EmitIfRoom, Unrecorded
<1>4. i \notin DOMAIN records /\ ~ f.id /\ ~ f.escalation /\ ~ Forwarded(f)
  BY <1>1, <1>2 DEF Told, Forwarded
<1>5. /\ FlightOK(h) /\ h.lease = f.lease /\ h.amount = f.amount /\ h.phase = "answered"
      /\ ~ h.id /\ ~ h.escalation
  BY <1>1, <1>4 DEF FlightOK, Phases
<1>6. r.outcome = "deny" /\ _outcome_matches_reason(r)
  BY DEF Refusal, Record, _outcome_matches_reason, FAIL_CLOSED
<1> HIDE DEF h, r
<1>7. ~ Forwarded(h)
  BY <1>5 DEF Forwarded
<1>8. Records(i) /\ (i \notin DOMAIN records' \/ records'[i] = r)
  BY <1>3, <1>4, EmitRecords DEF Records
<1>9. Told(h, i \in DOMAIN records', records'[i], i \in escalations')
  BY <1>5, <1>6, <1>7, <1>8 DEF Told
<1> QED BY <1>2, <1>4, <1>5, <1>7, <1>8, <1>9, ProgressInv

\* The answer of the upstream, or none, leaves the hold as it is.
LEMMA UpstreamInv ==
    ASSUME PipeInv, NEW i \in DOMAIN flights, UpstreamAnswers(i) \/ UpstreamFails(i)
    PROVE  PipeInv'
<1>1. PICK phase \in {"settled", "failed"} : flights' = [flights EXCEPT ![i].phase = phase]
  BY DEF UpstreamAnswers, UpstreamFails
<1> DEFINE f == flights[i]
           h == [f EXCEPT !.phase = phase]
<1>2. FlightOK(f) /\ Told(f, i \in DOMAIN records, records[i], i \in escalations)
  BY FlightKnown
<1>3. /\ f.phase = "upstream" /\ UNCHANGED <<lease, now, records, escalations>>
      /\ flights' = [flights EXCEPT ![i] = h]
  BY <1>1 DEF UpstreamAnswers, UpstreamFails, Elsewhere
<1>4. /\ FlightOK(h) /\ h.lease = f.lease /\ h.amount = f.amount /\ h.phase = phase
      /\ h.id = f.id /\ h.escalation = f.escalation /\ h.reason = f.reason
      /\ h.request = f.request
  BY <1>2 DEF FlightOK, Phases
<1> HIDE DEF h, f
<1>5. Forwarded(f) /\ Forwarded(h)
  BY <1>3, <1>4 DEF Forwarded
<1>6. Records(i)
  BY <1>3 DEF Records
<1>7. Told(h, i \in DOMAIN records', records'[i], i \in escalations')
  BY <1>2, <1>3, <1>4, <1>5 DEF Told, Covers
<1> QED BY <1>3, <1>4, <1>5, <1>6, <1>7, ProgressInv DEF f

LEMMA LeaseChangesInv ==
    ASSUME PipeInv, LeaseChanges
    PROVE  PipeInv'
<1>1. lease \in LeaseType /\ lease.id \in Nat /\ now \in Nat
  BY DEF PipeInv, LeaseType
<1>2. UNCHANGED <<flights, records, escalations, now>>
  BY DEF LeaseChanges
<1>3. ASSUME NEW g \in Grants,
             lease' = [id |-> lease.id + 1, granted |-> g, remaining |-> g, live |-> TRUE,
                       exhausted |-> FALSE]
      PROVE  PipeInv'
  <2>1. lease' \in LeaseType /\ lease'.id = lease.id + 1 /\ lease'.granted = lease'.remaining
    BY <1>1, <1>3, PipelineConstants DEF LeaseType
  <2> QED BY <1>2, <2>1, AcquiredInv
<1>4. ASSUME lease' = [lease EXCEPT !.exhausted = TRUE] \/ lease' = [lease EXCEPT !.live = FALSE]
      PROVE  PipeInv'
  <2>1. /\ lease' \in LeaseType /\ lease'.id = lease.id /\ lease'.granted = lease.granted
        /\ lease'.remaining = lease.remaining
    BY <1>1, <1>4 DEF LeaseType
  <2> QED BY <1>1, <1>2, <2>1, AsideInv
<1> QED BY <1>3, <1>4 DEF LeaseChanges

LEMMA EmptyInv ==
    ASSUME flights = <<>>, records = <<>>, lease = NoLease, now \in Nat
    PROVE  PipeInv
<1>1. lease \in LeaseType /\ lease.id = 0
  BY DEF LeaseType, NoLease
<1>2. DOMAIN flights = {} /\ DOMAIN records = {} /\ flights \in Seq(ToSet(flights))
  OBVIOUS
<1>3. MissingWasForwarded
  BY <1>1 DEF MissingWasForwarded
<1> QED BY <1>1, <1>2, <1>3 DEF PipeInv

LEMMA StopInv ==
    ASSUME PipeInv, Stop
    PROVE  PipeInv'
<1>1. flights' = <<>> /\ records' = <<>> /\ lease' = NoLease /\ now' \in Nat
  BY DEF PipeInv, Stop
<1>2. lease' \in LeaseType /\ lease'.id = 0
  BY <1>1 DEF LeaseType, NoLease
<1>3. DOMAIN flights' = {} /\ DOMAIN records' = {} /\ flights' \in Seq(ToSet(flights'))
  BY <1>1
<1>4. MissingWasForwarded'
  BY <1>2 DEF MissingWasForwarded
<1> QED BY <1>1, <1>2, <1>3, <1>4 DEF PipeInv

LEMMA AsideActionsInv ==
    ASSUME PipeInv,
           \/ Drain \/ Tick \/ (\E a \in Assemblies : Start(a)) \/ (\E r \in Ids : Learn(r))
           \/ UNCHANGED vars
    PROVE  PipeInv'
<1>1. UNCHANGED <<flights, records, escalations, lease>> /\ (now' = now \/ now' = now + 1)
  BY DEF Drain, Tick, Start, Learn, vars
<1>2. now' \in Nat /\ lease \in LeaseType
  BY <1>1 DEF PipeInv
<1> QED BY <1>1, <1>2, AsideInv

\* The scores are kept in a list: only a request that is decided on adds to it.
LEMMA CachesHold == Spec => []CachesOK(drift)
<1>1. Init => CachesOK(drift)
  <2> SUFFICES ASSUME Init PROVE CachesOK(drift)
    OBVIOUS
  <2>1. drift.scores = <<>>
    BY DEF Init, NoDrift
  <2>2. drift.scores \in Seq({})
    BY <2>1
  <2> QED BY <2>2 DEF CachesOK
<1>2. CachesOK(drift) /\ [Next]_vars => CachesOK(drift)'
  <2> SUFFICES ASSUME CachesOK(drift), [Next]_vars PROVE CachesOK(drift')
    BY DEF CachesOK
  <2>1. ASSUME NEW k \in DOMAIN Requests, NEW world \in Worlds, Authorize(k, world)
        PROVE  CachesOK(drift')
    <3>1. drift' = DriftCaches(drift, ContextOf(k), world.embeds) \/ drift' = drift
      BY <2>1, Zenon DEF Authorize, Decide
    <3>2. CachesOK(DriftCaches(drift, ContextOf(k), world.embeds))
      BY ScoreIsKept
    <3> QED BY <3>1, <3>2
  <2>2. CASE Stop
    <3>1. drift'.scores = <<>>
      BY <2>2 DEF Stop, NoDrift
    <3>2. drift'.scores \in Seq({})
      BY <3>1
    <3> QED BY <3>2 DEF CachesOK
  <2>3. ASSUME UNCHANGED drift PROVE CachesOK(drift')
    BY <2>3
  <2>4. CASE \/ \E k \in DOMAIN Requests : RefuseEarly(k)
             \/ Drain \/ LeaseChanges \/ Tick \/ UNCHANGED vars
             \/ (\E a \in Assemblies : Start(a)) \/ (\E r \in Ids : Learn(r))
    BY <2>3, <2>4 DEF RefuseEarly, Drain, LeaseChanges, Tick, Start, Learn, vars
  <2>5. ASSUME NEW i \in DOMAIN flights,
               \/ EscalationOpened(i) \/ UpstreamAnswers(i) \/ UpstreamFails(i)
               \/ \E committed \in BOOLEAN : EscalationFails(i, committed)
        PROVE  CachesOK(drift')
    BY <2>3, <2>5 DEF EscalationOpened, UpstreamAnswers, UpstreamFails, EscalationFails
  <2> QED BY <2>1, <2>2, <2>4, <2>5, Zenon DEF Next
<1> QED BY <1>1, <1>2, PTL DEF Spec

LEMMA PipeInvHolds ==
    ASSUME CredentialsMinted
    PROVE  Spec => []PipeInv
<1>1. Init => PipeInv
  BY EmptyInv DEF Init
<1>2. PipeInv /\ CachesOK(drift) /\ [Next]_vars => PipeInv'
  <2> SUFFICES ASSUME PipeInv, CachesOK(drift), [Next]_vars PROVE PipeInv'
    OBVIOUS
  <2>1. ASSUME NEW k \in DOMAIN Requests, RefuseEarly(k) PROVE PipeInv'
    BY <2>1, RefuseEarlyInv
  <2>2. ASSUME NEW k \in DOMAIN Requests, NEW world \in Worlds, Authorize(k, world) PROVE PipeInv'
    BY <2>2, AuthorizeInv
  <2>3. ASSUME NEW i \in DOMAIN flights, EscalationOpened(i) PROVE PipeInv'
    BY <2>3, EscalationOpenedInv
  <2>4. ASSUME NEW i \in DOMAIN flights, UpstreamAnswers(i) \/ UpstreamFails(i) PROVE PipeInv'
    BY <2>4, UpstreamInv
  <2>5. ASSUME NEW i \in DOMAIN flights, NEW committed \in BOOLEAN, EscalationFails(i, committed)
        PROVE  PipeInv'
    BY <2>5, EscalationFailsInv
  <2>6. CASE LeaseChanges
    BY <2>6, LeaseChangesInv
  <2>7. CASE Stop
    BY <2>7, StopInv
  <2>8. CASE \/ Drain \/ Tick \/ (\E a \in Assemblies : Start(a)) \/ (\E r \in Ids : Learn(r))
             \/ UNCHANGED vars
    BY <2>8, AsideActionsInv
  <2> QED BY <2>1, <2>2, <2>3, <2>4, <2>5, <2>6, <2>7, <2>8, Zenon DEF Next
<1> QED BY <1>1, <1>2, CachesHold, PTL DEF Spec

-----------------------------------------------------------------------------
(* Theorems *)

\* Every request that is forwarded was recorded as allowed and is within the authority on
\* its record, every decision and escalation an agent is told of was recorded (authorize()),
\* whatever the buffer holds and the sink answers.
THEOREM PipelineToldIsRecorded ==
    ASSUME CredentialsMinted
    PROVE  Spec => []ToldIsRecorded
<1>1. PipeInv => ToldIsRecorded
  BY DEF PipeInv, Told, ToldIsRecorded
<1> QED BY <1>1, PipeInvHolds, PTL

\* What is missing from the held lease was forwarded on it (authorize(), settle()).
THEOREM PipelineMissingWasForwarded ==
    ASSUME CredentialsMinted
    PROVE  Spec => []MissingWasForwarded
<1>1. PipeInv => MissingWasForwarded
  BY DEF PipeInv
<1> QED BY <1>1, PipeInvHolds, PTL

\* The only flight that a step adds is the request's.
LEMMA NewIsHere ==
    ASSUME PipeInv, NEW f, flights' = Append(flights, f)
    PROVE  flights'[Here] = f /\ \A i \in DOMAIN flights' \ DOMAIN flights : i = Here
<1>1. flights \in Seq(ToSet(flights))
  BY DEF PipeInv
<1>2. IsAppend(flights', flights, f)
  BY <1>1, AppendAny
<1>3. Len(flights) \in Nat /\ DOMAIN flights = 1 .. Len(flights)
  BY <1>1
<1> QED BY <1>2, <1>3 DEF IsAppend, Here

\* A request that goes on is one that decide() let go on.
GoesOn(f) ==
    f.phase \in {"upstream", "escalating"} => Sound(f, Presented(f.request), ContextOf(f.request))

LEMMA FollowSound ==
    ASSUME PipeInv, NEW k, Presents(k), NEW d, DecisionOK(d, k, drift'), Follow(k, d, Spend(k))
    PROVE  \A i \in DOMAIN flights' \ DOMAIN flights : GoesOn(flights'[i])
<1>1. k \in DOMAIN Requests /\ now \in Nat
  BY DEF Presents, PipeInv
<1>2. ContextOf(k).requested[SpendDimension] = Spend(k) /\ Spend(k) \in Nat
  BY <1>1, ContextIsValid
<1>3. ASSUME NEW reason, NEW told, Answer(k, reason, told)
      PROVE  \A i \in DOMAIN flights' \ DOMAIN flights : GoesOn(flights'[i])
  <2> DEFINE f == [Flight(k, "answered", reason, 0) EXCEPT !.id = told]
  <2>1. flights' = Append(flights, f) /\ f.phase = "answered"
    BY <1>3 DEF Answer, Flight
  <2> HIDE DEF f
  <2>2. GoesOn(f)
    BY <2>1 DEF GoesOn
  <2> QED BY <2>1, <2>2, NewIsHere
<1>4. ASSUME d.outcome = "escalate", Escalate(k, d)
      PROVE  \A i \in DOMAIN flights' \ DOMAIN flights : GoesOn(flights'[i])
  <2> DEFINE f == Flight(k, "escalating", d.reason, 0)
  <2>1. flights' = Append(flights, f) /\ f.phase = "escalating" /\ f.request = k /\ f.reason = d.reason
    BY <1>4 DEF Escalate, Flight
  <2> HIDE DEF f
  <2>2. Cleared(k) /\ (NeedsApproval(k) \/ DriftedIn(drift', ContextOf(k)))
    BY <1>4, <2>1 DEF DecisionOK
  <2>3. Asked(Presented(k).token, ContextOf(k))
    BY <2>2, Zenon DEF Asked, NeedsApproval, Drifted, DriftedIn
  <2>4. Sound(f, Presented(k), ContextOf(k))
    <3>1. ~ (f.phase = "upstream")
      BY <2>1
    <3>2. (f.phase = "escalating") = Asked(Presented(k).token, ContextOf(k))
      BY <2>1, <2>3, Zenon DEF Asked
    <3> QED BY <2>2, <3>1, <3>2, Zenon DEF Sound, Cleared
  <2>5. GoesOn(f)
    BY <2>1, <2>4 DEF GoesOn
  <2> QED BY <2>1, <2>5, NewIsHere
<1>5. ASSUME d.outcome = "allow", ~ Full, Allow(k, Spend(k))
      PROVE  \A i \in DOMAIN flights' \ DOMAIN flights : GoesOn(flights'[i])
  <2> DEFINE f == [Flight(k, "upstream", "OK", Spend(k))
                      EXCEPT !.lease = IF Spend(k) = 0 THEN 0 ELSE lease.id]
  <2>1. /\ flights' = Append(flights, f) /\ f.phase = "upstream" /\ f.request = k
        /\ f.reason = "OK" /\ f.amount = Spend(k)
    BY <1>5 DEF Allow, Flight
  <2> HIDE DEF f
  <2>2. /\ Cleared(k) /\ ~ NeedsApproval(k) /\ ~ DriftedIn(drift', ContextOf(k))
        /\ f.amount = 0 \/ (lease.live /\ lease.remaining >= f.amount)
    BY <1>5, <2>1 DEF DecisionOK
  <2>3. ~ Asked(Presented(k).token, ContextOf(k))
    BY <2>2, Zenon DEF Asked, NeedsApproval, Drifted, DriftedIn
  <2>4. Sound(f, Presented(k), ContextOf(k))
    <3>1. f.phase = "upstream" =>
             /\ f.amount = ContextOf(k).requested[SpendDimension]
             /\ f.amount > 0 => lease.live /\ lease.remaining >= f.amount
      BY <1>2, <2>1, <2>2
    <3>2. ~ (f.phase = "escalating")
      BY <2>1
    <3>3. (f.phase = "escalating") = Asked(Presented(k).token, ContextOf(k))
      BY <2>3, <3>2, Zenon DEF Asked
    <3> QED BY <2>2, <3>1, <3>3, Zenon DEF Sound, Cleared
  <2>5. GoesOn(f)
    BY <2>1, <2>4 DEF GoesOn
  <2> QED BY <2>1, <2>5, NewIsHere
<1>6. CASE \E reason, told : Answer(k, reason, told)
  BY <1>3, <1>6
<1> QED BY <1>4, <1>5, <1>6, Zenon DEF Follow, Deny, Allow, AllowTooLate

\* Nothing is forwarded or handed to a human that the token, a revocation, the policy or
\* the lease stands against, and no human is passed over (decide(), INV-8, INV-10).
THEOREM PipelineDecisionsSound ==
    ASSUME CredentialsMinted
    PROVE  Spec => DecisionsSound
<1> DEFINE Goes == \A i \in DOMAIN flights' \ DOMAIN flights : GoesOn(flights'[i])
<1>1. PipeInv /\ CachesOK(drift) /\ [Next]_vars => [Goes]_vars
  <2> SUFFICES ASSUME PipeInv, CachesOK(drift), Next PROVE Goes
    BY DEF vars
  <2>1. now \in Nat /\ flights \in Seq(ToSet(flights))
    BY DEF PipeInv
  <2>2. ASSUME NEW k \in DOMAIN Requests, RefuseEarly(k) PROVE Goes
    <3>1. PICK reason : Answer(k, reason, FALSE)
      BY <2>2 DEF RefuseEarly
    <3> DEFINE f == [Flight(k, "answered", reason, 0) EXCEPT !.id = FALSE]
    <3>2. flights' = Append(flights, f) /\ f.phase = "answered"
      BY <3>1 DEF Answer, Flight
    <3> HIDE DEF f
    <3>3. GoesOn(f)
      BY <3>2 DEF GoesOn
    <3> QED BY <3>2, <3>3, NewIsHere
  <2>3. ASSUME NEW k \in DOMAIN Requests, NEW world \in Worlds, Authorize(k, world) PROVE Goes
    <3>1. Presents(k)
      BY <2>1, <2>3, AuthorizeFollows
    <3>2. PICK d : DecisionOK(d, k, drift') /\ Follow(k, d, Spend(k))
      BY <2>1, <2>3, AuthorizeFollows
    <3> QED BY <3>1, <3>2, FollowSound
  <2>4. ASSUME DOMAIN flights' = DOMAIN flights \/ DOMAIN flights' = {} PROVE Goes
    BY <2>4
  <2>5. ASSUME NEW i \in DOMAIN flights,
               \/ EscalationOpened(i) \/ UpstreamAnswers(i) \/ UpstreamFails(i)
               \/ \E committed \in BOOLEAN : EscalationFails(i, committed)
        PROVE  DOMAIN flights' = DOMAIN flights
    BY <2>1, <2>5 DEF EscalationOpened, UpstreamAnswers, UpstreamFails, EscalationFails
  <2>6. CASE \/ Drain \/ LeaseChanges \/ Tick \/ \E a \in Assemblies : Start(a)
             \/ \E r \in Ids : Learn(r)
    <3>1. flights' = flights
      BY <2>6 DEF Drain, LeaseChanges, Tick, Start, Learn
    <3> QED BY <2>4, <3>1
  <2>7. CASE Stop
    <3>1. flights' = <<>>
      BY <2>7 DEF Stop
    <3> QED BY <2>4, <3>1
  <2> HIDE DEF Goes
  <2> QED BY <2>2, <2>3, <2>4, <2>5, <2>6, <2>7, Zenon DEF Next
<1>2. Spec => []PipeInv
  BY PipeInvHolds
<1>3. Spec => [][Next]_vars
  BY PTL DEF Spec
<1>4. Spec => [][Goes]_vars
  BY <1>1, <1>2, <1>3, CachesHold, PTL
<1>5. [Goes]_vars => [\A i \in DOMAIN flights' \ DOMAIN flights :
        flights'[i].phase \in {"upstream", "escalating"} =>
            Sound(flights'[i], Presented(flights'[i].request), ContextOf(flights'[i].request))]_vars
  BY Zenon DEF GoesOn
<1> QED BY <1>4, <1>5, PTL DEF DecisionsSound

-----------------------------------------------------------------------------
(* The amount that is held is the one the upstream reads *)

\* What the readers of one argument return, of values in J.
Reads(J) == {Refused} \cup {Read(v) : v \in J \cup {Absent}}

\* r is what the gateway reads where an upstream may read any value of S: the one there
\* is, or nothing where there is none, or it refuses.
IsReading(r, S, J) == r \in Reads(J) /\ S \subseteq J /\ (r.ok => S \subseteq {r.value})

\* Values of a document, with what is in them; None is no value.
IsJson(J) ==
    /\ Absent \notin J
    /\ \A v \in J : v.type = "object" =>
          v.pairs \in Seq(ToSet(v.pairs)) /\ \A p \in ToSet(v.pairs) : p[2] \in J

LEMMA ReadsOK ==
    ASSUME NEW J, NEW r \in Reads(J)
    PROVE  \/ ~ r.ok /\ r = Refused
           \/ r.ok /\ r.value \in J \cup {Absent} /\ r = Read(r.value)
BY DEF Reads, Refused, Read

\* A value that is there more than once is refused.
LEMMA OneOfReads ==
    ASSUME NEW J, Absent \notin J, NEW pairs, pairs \in Seq(ToSet(pairs)), NEW name,
           \A p \in ToSet(pairs) : p[2] \in J
    PROVE  IsReading(_one_of(pairs, name), Named(pairs, name), J)
<1> DEFINE R == ToSet(pairs)
           skipped == {p \in R : p[1] # name}
           found == ValuesOf(pairs, name)
           N == Len(pairs)
           r == _one_of(pairs, name)
           S == Named(pairs, name)
<1>1. Keeps(found, R, pairs, skipped, N)
  <2> HIDE DEF skipped
  <2>1. Keeps(Skipping(pairs, skipped), R, pairs, skipped, N)
    BY SkippingKeeps
  <2> QED BY <2>1 DEF ValuesOf, skipped
<1>2. N \in Nat /\ DOMAIN pairs = 1 .. N /\ R = {pairs[i] : i \in 1 .. N}
  BY DEF ToSet
<1> HIDE DEF R, found
<1>3. Len(found) \in Nat /\ DOMAIN found = 1 .. Len(found) /\ \A i \in 1 .. Len(found) : found[i] \in R
  BY <1>1 DEF Keeps
<1>4. S \subseteq J
  BY DEF Named, R
<1>5. \A v \in S : \E i \in 1 .. Len(found) : v = found[i][2]
  <2> SUFFICES ASSUME NEW v \in S PROVE \E i \in 1 .. Len(found) : v = found[i][2]
    OBVIOUS
  <2>1. PICK p \in R : p[1] = name /\ v = p[2]
    BY DEF Named, R
  <2>2. PICK m \in 1 .. N : pairs[m] = p
    BY <1>2
  <2>3. p \notin skipped
    BY <2>1
  <2> HIDE DEF skipped
  <2>4. PICK i \in 1 .. Len(found) : found[i] = p
    BY <1>1, <2>2, <2>3 DEF Keeps
  <2> QED BY <2>1, <2>4
<1> HIDE DEF S
<1>6. CASE Len(found) = 0
  <2>1. r = Read(Absent)
    BY <1>6 DEF _one_of, Nothing, found
  <2>2. S = {}
    BY <1>5, <1>6
  <2> QED BY <1>4, <2>1, <2>2 DEF IsReading, Reads, S
<1>7. CASE Len(found) = 1
  <2>1. r = Read(found[1][2])
    BY <1>7 DEF _one_of, found
  <2>2. found[1] \in R
    BY <1>3, <1>7
  <2>3. found[1][2] \in J
    BY <2>2 DEF R
  <2>4. S \subseteq {found[1][2]}
    BY <1>5, <1>7
  <2> HIDE DEF r
  <2>5. r \in Reads(J) /\ r.value = found[1][2]
    BY <2>1, <2>3 DEF Reads, Read
  <2> QED BY <1>4, <2>4, <2>5 DEF IsReading, S, r
<1>8. CASE Len(found) > 1
  <2>1. r = Refused
    BY <1>3, <1>8 DEF _one_of, found
  <2> QED BY <1>4, <2>1 DEF IsReading, Reads, Refused, S
<1> QED BY <1>3, <1>6, <1>7, <1>8

\* The values that may be meant by a key of one of S.
Keyed(S, key) == UNION {Named(v.pairs, key) : v \in {w \in S : w.type = "object"}}

LEMMA InsideReads ==
    ASSUME NEW J, IsJson(J), NEW at, NEW S, IsReading(at, S, J), NEW key
    PROVE  IsReading(Inside(at, key), Keyed(S, key), J)
<1>1. Keyed(S, key) \subseteq J
  <2> SUFFICES ASSUME NEW w \in S, w.type = "object", NEW v \in Named(w.pairs, key) PROVE v \in J
    BY DEF Keyed
  <2>1. w \in J
    BY DEF IsReading
  <2> QED BY <2>1 DEF IsJson, Named
<1>2. at \in Reads(J) /\ S \subseteq J /\ Absent \notin J
  BY DEF IsReading, IsJson
<1>3. CASE ~ at.ok
  BY <1>1, <1>2, <1>3 DEF Inside, IsReading
<1>4. CASE at.ok /\ at.value = Absent
  <2>1. S = {}
    BY <1>2, <1>4 DEF IsReading
  <2>2. Keyed(S, key) = {}
    BY <2>1 DEF Keyed
  <2> QED BY <1>2, <1>4, <2>2 DEF Inside, IsReading
<1>5. CASE at.ok /\ at.value # Absent /\ at.value.type # "object"
  <2>1. Keyed(S, key) = {}
    BY <1>5 DEF Keyed, IsReading
  <2>2. Inside(at, key) = Nothing
    BY <1>5 DEF Inside
  <2>3. Nothing \in Reads(J)
    BY DEF Nothing, Reads
  <2> QED BY <2>1, <2>2, <2>3 DEF IsReading
<1>6. CASE at.ok /\ at.value # Absent /\ at.value.type = "object"
  <2> DEFINE v == at.value
             T == Named(v.pairs, key)
  <2>1. v \in J /\ S \subseteq {v}
    BY <1>2, <1>6, ReadsOK DEF IsReading
  <2>2. v.pairs \in Seq(ToSet(v.pairs)) /\ \A p \in ToSet(v.pairs) : p[2] \in J
    BY <1>6, <2>1 DEF IsJson
  <2>3. IsReading(_one_of(v.pairs, key), T, J)
    BY <1>2, <2>2, OneOfReads
  <2>4. Inside(at, key) = _one_of(v.pairs, key)
    BY <1>6 DEF Inside
  <2> HIDE DEF T
  <2>5. Keyed(S, key) \subseteq T
    BY <2>1 DEF Keyed, T
  <2> QED BY <2>3, <2>4, <2>5 DEF IsReading
<1> QED BY <1>3, <1>4, <1>5, <1>6

\* The values that an upstream may reach behind i keys.
IsReach(found, root, keys) ==
    /\ found[0] = {root} \ {Absent}
    /\ \A i \in 1 .. Len(keys) : found[i] = Keyed(found[i - 1], keys[i])

LEMMA ReachRuns ==
    ASSUME NEW J, IsJson(J), NEW req, NEW source, source.kind = "body",
           source.keys \in Seq(ToSet(source.keys)), _parse_body(req) \in J \cup {Absent}
    PROVE  \E found : /\ IsReach(found, _parse_body(req), source.keys)
                      /\ Readings(req, source) = found[Len(source.keys)]
<1> DEFINE keys == source.keys
           n == Len(keys)
           V == SUBSET J
           s == {_parse_body(req)} \ {Absent}
           step == [i \in 1 .. n |-> [S \in V |-> Keyed(S, keys[i])]]
           Is(run) == run = [i \in 0 .. n |->
                               IF i = 0 THEN s ELSE Keyed(run[i - 1], keys[i])]
<1>1. n \in Nat /\ s \in V
  OBVIOUS
<1>2. \A i \in 1 .. n, S \in V : Keyed(S, keys[i]) \in V
  BY DEF Keyed, Named, IsJson
<1>3. step \in [1 .. n -> [V -> V]]
  BY <1>2
<1>4. PICK run : IsLoopRun(run, n, V, s, step)
  <2> HIDE DEF step, n, V, s
  <2> QED BY <1>1, <1>3, LoopRun
<1>5. \A i \in 1 .. n : run[i] = Keyed(run[i - 1], keys[i])
  <2> SUFFICES ASSUME NEW i \in 1 .. n PROVE run[i] = Keyed(run[i - 1], keys[i])
    OBVIOUS
  <2>1. run[i - 1] \in V
    <3> HIDE DEF V
    <3> QED BY <1>1, <1>4 DEF IsLoopRun
  <2>2. run[i] = step[i][run[i - 1]]
    <3> HIDE DEF step
    <3> QED BY <1>4 DEF IsLoopRun
  <2> QED BY <2>1, <2>2
<1>6. Is(run)
  <2> HIDE DEF V, s
  <2> QED BY <1>1, <1>4, <1>5 DEF IsLoopRun
<1> DEFINE f == CHOOSE g : Is(g)
<1>7. Readings(req, source) = f[n]
  BY DEF Readings, Keyed
<1>8. Is(f)
  <2> HIDE DEF Is
  <2> QED BY <1>6
<1>9. IsReach(f, _parse_body(req), keys)
  <2> HIDE DEF f
  <2>1. f = [i \in 0 .. n |-> IF i = 0 THEN s ELSE Keyed(f[i - 1], keys[i])]
    BY <1>8
  <2>2. f[0] = s
    <3> HIDE DEF n, s
    <3> QED BY <1>1, <2>1
  <2>3. \A i \in 1 .. n : f[i] = Keyed(f[i - 1], keys[i])
    <3> HIDE DEF n, s
    <3> QED BY <1>1, <2>1
  <2> QED BY <2>2, <2>3 DEF IsReach
<1> HIDE DEF f
<1> QED BY <1>7, <1>9

\* What the gateway reaches behind i keys.
IsResolved(current, root, keys) ==
    /\ current[0] = Read(root)
    /\ \A i \in 1 .. Len(keys) : current[i] = Inside(current[i - 1], keys[i])

\* A null is nothing.
Reached(at) ==
    IF at.ok /\ at.value # Absent /\ at.value.type = "null" THEN Nothing ELSE at

LEMMA ResolveRuns ==
    ASSUME NEW J, IsJson(J), NEW root \in J \cup {Absent}, NEW keys, keys \in Seq(ToSet(keys))
    PROVE  \E current : /\ IsResolved(current, root, keys)
                        /\ _resolve_body(root, keys) = Reached(current[Len(keys)])
<1> DEFINE n == Len(keys)
           V == Reads(J)
           step == [i \in 1 .. n |-> [at \in V |-> Inside(at, keys[i])]]
           Is(run) == run = [i \in 0 .. n |->
                               IF i = 0 THEN Read(root) ELSE Inside(run[i - 1], keys[i])]
<1>1. n \in Nat /\ Read(root) \in V
  BY DEF Reads
<1>2. ASSUME NEW at \in V, NEW key PROVE Inside(at, key) \in V
  <2> DEFINE S == IF at.ok THEN {at.value} \ {Absent} ELSE {}
  <2>1. IsReading(at, S, J)
    BY ReadsOK DEF IsReading
  <2> HIDE DEF S
  <2>2. IsReading(Inside(at, key), Keyed(S, key), J)
    BY <2>1, InsideReads
  <2> QED BY <2>2 DEF IsReading
<1>3. step \in [1 .. n -> [V -> V]]
  <2> HIDE DEF V, n
  <2> QED BY <1>2
<1>4. PICK run : IsLoopRun(run, n, V, Read(root), step)
  <2> HIDE DEF step, n, V
  <2> QED BY <1>1, <1>3, LoopRun
<1>5. \A i \in 1 .. n : run[i] = Inside(run[i - 1], keys[i])
  <2> SUFFICES ASSUME NEW i \in 1 .. n PROVE run[i] = Inside(run[i - 1], keys[i])
    OBVIOUS
  <2>1. run[i - 1] \in V
    <3> HIDE DEF V
    <3> QED BY <1>1, <1>4 DEF IsLoopRun
  <2>2. run[i] = step[i][run[i - 1]]
    <3> HIDE DEF step
    <3> QED BY <1>4 DEF IsLoopRun
  <2> QED BY <2>1, <2>2
<1>6. Is(run)
  <2> HIDE DEF V
  <2> QED BY <1>1, <1>4, <1>5 DEF IsLoopRun
<1> DEFINE f == CHOOSE g : Is(g)
<1>7. _resolve_body(root, keys) = Reached(f[n])
  BY DEF _resolve_body, Reached
<1>8. Is(f)
  <2> HIDE DEF Is
  <2> QED BY <1>6
<1>9. IsResolved(f, root, keys)
  <2> HIDE DEF f
  <2> QED BY <1>1, <1>8 DEF IsResolved
<1> HIDE DEF f
<1> QED BY <1>7, <1>9

\* r is what is read of an argument whose values may be those of S: the only one that is
\* not null, as far as its type and number go.
IsRead(r, S) ==
    r.ok => \A v \in S : v.type # "null" =>
        r.value # Absent /\ r.value.type = v.type /\ r.value.number = v.number

LEMMA BodyReads ==
    ASSUME NEW J, IsJson(J), NEW req, NEW source, source.kind = "body",
           source.keys \in Seq(ToSet(source.keys)), _parse_body(req) \in J \cup {Absent}
    PROVE  IsRead(_resolve_body(_parse_body(req), source.keys), Readings(req, source))
<1> DEFINE root == _parse_body(req)
           keys == source.keys
           n == Len(keys)
<1>1. PICK found : IsReach(found, root, keys) /\ Readings(req, source) = found[n]
  BY ReachRuns
<1>2. PICK current : /\ IsResolved(current, root, keys)
                     /\ _resolve_body(root, keys) = Reached(current[n])
  BY ResolveRuns
<1> DEFINE T == {i \in 0 .. n : IsReading(current[i], found[i], J)}
<1>3. n \in Nat
  OBVIOUS
<1> HIDE DEF root
<1>4. 0 \in T
  <2>1. IsReading(Read(root), {root} \ {Absent}, J)
    BY DEF IsReading, Reads, Read, root
  <2>2. current[0] = Read(root) /\ found[0] = {root} \ {Absent}
    BY <1>1, <1>2 DEF IsReach, IsResolved
  <2>3. IsReading(current[0], found[0], J)
    BY <2>1, <2>2
  <2> QED BY <1>3, <2>3
<1>5. ASSUME NEW i \in 1 .. n, i - 1 \in T PROVE i \in T
  <2>1. IsReading(Inside(current[i - 1], keys[i]), Keyed(found[i - 1], keys[i]), J)
    BY <1>5, InsideReads
  <2>2. /\ current[i] = Inside(current[i - 1], keys[i])
        /\ found[i] = Keyed(found[i - 1], keys[i])
    BY <1>1, <1>2, <1>5, Zenon DEF IsReach, IsResolved
  <2>3. IsReading(current[i], found[i], J)
    BY <2>1, <2>2, Zenon
  <2>4. i \in 0 .. n
    BY <1>3, <1>5
  <2> QED BY <2>3, <2>4, Zenon
<1>6. n \in T
  <2> HIDE DEF T
  <2>1. 0 .. n \subseteq T
    BY <1>3, <1>4, <1>5, SetInduction
  <2> QED BY <1>3, <2>1
<1> DEFINE at == current[n]
           S == found[n]
<1>7. IsReading(at, S, J) /\ Absent \notin J
  BY <1>6 DEF IsJson
<1> HIDE DEF at, S
<1>8. IsRead(Reached(at), S)
  BY <1>7, ReadsOK DEF IsReading, IsRead, Reached, Nothing, Read
<1> QED BY <1>1, <1>2, <1>8 DEF at, S, root

\* The requests as the server hands them over: J holds the values in their bodies and
\* queries, and a path that a rule matches has the rule's parameters.
ParsedInto(J) ==
    /\ IsJson(J)
    /\ \A k \in DOMAIN Requests :
        LET req == Requests[k]
        IN  /\ _parse_body(req) \in J \cup {Absent}
            /\ req.query \in Seq(ToSet(req.query)) /\ \A p \in ToSet(req.query) : p[2] \in J
            /\ \A i \in Matching(req) : Routes.rules[i].params \subseteq DOMAIN req.params
            /\ \A name \in DOMAIN req.params :
                  LET v == req.params[name]
                  IN  v = Value(v.type, v.text, v.number) /\ [v EXCEPT !.text = NFC[Unquote[@]]] # Absent

\* Quantities are counted in whole units throughout: an amount that _to_scaled() takes is
\* a multiple of the scale, as each is once the unit is small enough.
WholeAmount(number) ==
    \/ number \in {NotANumber, NotFinite}
    \/ /\ Rounded(number) \in Int
       /\ Rounded(number) % 2 = 0 => (Rounded(number) \div 2) % BUDGET_SCALE = 0
AmountsWhole ==
    \A k \in DOMAIN Requests :
        LET req == Requests[k]
            sources == RuleFor(req).sources
        IN  Matching(req) # {} /\ AmountPath \in DOMAIN sources =>
            \A v \in Readings(req, sources[AmountPath]) :
                v.type \in {"number", "text"} => WholeAmount(v.number)

\* What is read of the amount is what an upstream may read.
LEMMA RawReads ==
    ASSUME NEW J, ParsedInto(J), NEW k \in DOMAIN Requests, NEW i \in Matching(Requests[k]),
           NEW l \in DOMAIN Routes.rules[i].sources, NEW headers,
           Routes.rules[i].sources[l].kind # "header"
    PROVE  LET source == Routes.rules[i].sources[l]
           IN  IsRead(RawValue(Requests[k], headers, source), Readings(Requests[k], source))
<1> DEFINE req == Requests[k]
           source == Routes.rules[i].sources[l]
           raw == RawValue(req, headers, source)
           S == Readings(req, source)
<1>1. i \in DOMAIN Routes.rules
  BY DEF Matching
<1>2. /\ source.keys \in Seq(ToSet(source.keys)) /\ source.kind \in {"path", "query", "body"}
      /\ source.kind = "path" => Name(source) \in Routes.rules[i].params
  BY <1>1, RouteTableLoads DEF from_config, _compile_rule, _parse_source, _SOURCE_KINDS
<1>3. /\ IsJson(J) /\ _parse_body(req) \in J \cup {Absent}
      /\ req.query \in Seq(ToSet(req.query)) /\ \A p \in ToSet(req.query) : p[2] \in J
      /\ Routes.rules[i].params \subseteq DOMAIN req.params
      /\ \A name \in DOMAIN req.params :
            /\ req.params[name] =
                  Value(req.params[name].type, req.params[name].text, req.params[name].number)
            /\ [req.params[name] EXCEPT !.text = NFC[Unquote[@]]] # Absent
  BY Zenon DEF ParsedInto
<1> HIDE DEF source, req
<1>4. CASE source.kind = "path"
  <2> DEFINE v == req.params[Name(source)]
             u == [v EXCEPT !.text = NFC[Unquote[@]]]
  <2>1. Name(source) \in DOMAIN req.params
    BY <1>2, <1>3, <1>4
  <2>2. v = Value(v.type, v.text, v.number) /\ u # Absent
    BY <1>3, <2>1
  <2>3. raw = Read(u) /\ S = {v}
    BY <1>4, <2>1 DEF RawValue, Readings
  <2> HIDE DEF raw, S, v
  <2>4. u.type = v.type /\ u.number = v.number
    BY <2>2 DEF Value
  <2> HIDE DEF u
  <2>5. IsRead(raw, S)
    BY <2>2, <2>3, <2>4 DEF IsRead, Read
  <2> QED BY <2>5 DEF raw, S, source, req
<1>5. CASE source.kind = "query"
  <2>1. raw = _one_of(req.query, Name(source)) /\ S = Named(req.query, Name(source))
    BY <1>5 DEF RawValue, Readings
  <2>2. Absent \notin J
    BY <1>3 DEF IsJson
  <2> HIDE DEF raw, S
  <2>3. IsReading(raw, S, J)
    BY <1>3, <2>1, <2>2, OneOfReads
  <2>4. IsRead(raw, S)
    BY <2>2, <2>3 DEF IsReading, IsRead
  <2> QED BY <2>4 DEF raw, S, source, req
<1>6. CASE source.kind = "body"
  <2>1. raw = _resolve_body(_parse_body(req), source.keys)
    BY <1>6 DEF RawValue
  <2>2. IsRead(raw, S)
    BY <1>2, <1>3, <1>6, <2>1, BodyReads
  <2> QED BY <2>2 DEF source, req
<1> QED BY <1>2, <1>4, <1>5, <1>6

LEMMA WholeDivides ==
    ASSUME NEW t \in Int, NEW K \in Nat \ {0}, t % K = 0
    PROVE  t \div K \in Int /\ t = (t \div K) * K
<1> DEFINE q == t \div K
           r == t % K
<1>1. q \in Int /\ t = q * K + r
  OBVIOUS
<1> HIDE DEF q
<1>2. q * K \in Int
  BY <1>1
<1>3. t = q * K
  BY <1>1, <1>2
<1> QED BY <1>1, <1>3 DEF q

\* A numeric argument that was read is half of the number that counts in halves.
LEMMA NumericReads ==
    ASSUME NEW raw, NEW S, IsRead(raw, S), Coerced(raw, TRUE).ok, NEW v \in S, v.type # "null",
           v.type \in {"number", "text"} => WholeAmount(v.number)
    PROVE  \E m \in Int : Rounded(v.number) = 2 * scale(m) /\ Coerced(raw, TRUE).value = scale(m)
<1>1. raw.ok
  BY DEF Coerced
<1>2. raw.value # Absent /\ raw.value.type = v.type /\ raw.value.number = v.number
  BY <1>1 DEF IsRead
<1>3. Coerced(raw, TRUE) = _to_scaled(raw.value)
  BY <1>1, <1>2 DEF Coerced
<1> DEFINE u == raw.value
<1> HIDE DEF u
<1>4. _to_scaled(u).ok
  BY <1>3 DEF u
<1>5. ~ Refused.ok
  BY DEF Refused
<1>6. u.type \in {"number", "text"} /\ u.number \notin {NotANumber, NotFinite}
  BY <1>4, <1>5 DEF _to_scaled
<1>7. Rounded(u.number) % 2 = 0
  BY <1>4, <1>5, <1>6 DEF _to_scaled
<1>8. _to_scaled(u) = Read(Rounded(u.number) \div 2)
  BY <1>6, <1>7 DEF _to_scaled
<1>9. u.type = v.type /\ u.number = v.number
  BY <1>2 DEF u
<1>10. PICK m \in Int : Rounded(v.number) = 2 * scale(m)
  <2> DEFINE t == Rounded(v.number) \div 2
             m == t \div BUDGET_SCALE
  <2>1. Rounded(v.number) \in Int /\ Rounded(v.number) % 2 = 0 /\ t % BUDGET_SCALE = 0
    BY <1>6, <1>7, <1>9 DEF WholeAmount
  <2>2. t \in Int /\ Rounded(v.number) = 2 * t
    BY <2>1
  <2> HIDE DEF t
  <2>3. m \in Int /\ t = m * BUDGET_SCALE
    BY <2>1, <2>2, CaveatConstants, WholeDivides
  <2> HIDE DEF m
  <2>4. Rounded(v.number) = 2 * scale(m)
    BY <2>2, <2>3 DEF scale
  <2> QED BY <2>3, <2>4
<1>11. scale(m) \in Int
  BY ScaledIsWhole
<1>12. Rounded(v.number) \div 2 = scale(m)
  BY <1>10, <1>11
<1>13. _to_scaled(u).value = scale(m)
  BY <1>8, <1>9, <1>12 DEF Read
<1> QED BY <1>3, <1>10, <1>13 DEF u

\* A request whose scope is known was read by the first rule that matches.
LEMMA ReadByRule ==
    ASSUME NEW req, NEW headers, extract(req, headers).ok,
           extract(req, headers).value.scope \in Scopes
    PROVE  LET rule == RuleFor(req)
               args == extract(req, headers).value.args
           IN  /\ Matching(req) # {}
               /\ \A l \in DOMAIN rule.sources :
                     /\ Argument(req, headers, rule.sources[l]).ok
                     /\ Argument(req, headers, rule.sources[l]).value # Absent =>
                           /\ l \in DOMAIN args
                           /\ args[l] = Argument(req, headers, rule.sources[l]).value
<1> DEFINE e == extract(req, headers)
           rule == RuleFor(req)
           found == [l \in DOMAIN rule.sources |-> Argument(req, headers, rule.sources[l])]
<1>1. Matching(req) # {}
  <2> SUFFICES ASSUME Matching(req) = {} PROVE FALSE
    OBVIOUS
  <2>1. e = Refused \/ e.value.scope = Absent
    BY DEF extract, Read
  <2> QED BY <2>1, RequestsPresent DEF Refused
<1>2. e = Extraction(req, rule, found)
  BY <1>1 DEF extract
<1>3. ~ Refused.ok
  BY DEF Refused
<1>4. \A l \in DOMAIN found : found[l] = Argument(req, headers, rule.sources[l])
  OBVIOUS
<1>5. DOMAIN found = DOMAIN rule.sources
  OBVIOUS
<1> HIDE DEF rule, found, e
<1>6. /\ \A l \in DOMAIN found : found[l].ok
      /\ e.value.args = [l \in {m \in DOMAIN found : found[m].value # Absent} |-> found[l].value]
  BY <1>2, <1>3 DEF Extraction, Read, e
<1> QED BY <1>1, <1>4, <1>5, <1>6 DEF e, rule

\* The amount that was held for a forwarded request is the one its upstream reads,
\* whichever of several it would take, for all requests and route tables (extractor.py,
\* TM-26).
THEOREM PipelineHeldAsRead ==
    ASSUME CredentialsMinted, NEW J, ParsedInto(J), AmountsWhole
    PROVE  Spec => []HeldAsRead
<1>1. PipeInv => HeldAsRead
  <2> SUFFICES ASSUME PipeInv, NEW i \in DOMAIN flights, Forwarded(flights[i]),
                      NEW k, k = flights[i].request,
                      AmountPath \in DOMAIN RuleFor(Requests[k]).sources,
                      RuleFor(Requests[k]).sources[AmountPath].kind # "header",
                      RuleFor(Requests[k]).sources[AmountPath].numeric,
                      NEW v \in Readings(Requests[k], RuleFor(Requests[k]).sources[AmountPath]),
                      v.type # "null"
               PROVE  Rounded(v.number) = 2 * BUDGET_SCALE * flights[i].amount
    BY Zenon DEF HeldAsRead
  <2> DEFINE req == Requests[k]
             headers == AsPairs(HeadersOf[k])
             source == RuleFor(req).sources[AmountPath]
             raw == RawValue(req, headers, source)
             S == Readings(req, source)
             a == Argument(req, headers, source)
             args == Extracted[k].value.args
  <2>1. /\ k \in DOMAIN Requests /\ Extracted[k].ok /\ Extracted[k].value.scope \in Scopes
        /\ flights[i].amount = Spend(k)
    BY FlightKnown DEF FlightOK, Told
  <2>2. Extracted[k] = extract(req, headers)
    BY <2>1 DEF Extracted
  <2>3. /\ Matching(req) # {} /\ a.ok
        /\ a.value # Absent => AmountPath \in DOMAIN args /\ args[AmountPath] = a.value
    <3> HIDE DEF req, headers
    <3> QED BY <2>1, <2>2, ReadByRule DEF req
  <2>4. PICK j \in DOMAIN Routes.rules : j \in Matching(req) /\ RuleFor(req) = Routes.rules[j]
    BY <2>3, FirstMatches
  <2>5. IsRead(raw, S)
    BY <2>1, <2>4, RawReads
  <2>6. a = Coerced(raw, TRUE)
    BY DEF Argument
  <2>7. v.type \in {"number", "text"} => WholeAmount(v.number)
    BY <2>1, <2>3 DEF AmountsWhole
  <2> HIDE DEF raw, S, a, args
  <2>8. PICK m \in Int : Rounded(v.number) = 2 * scale(m) /\ a.value = scale(m)
    <3>1. v \in S
      BY DEF S
    <3> QED BY <2>3, <2>5, <2>6, <2>7, <3>1, NumericReads
  <2>9. scale(m) \in Int /\ scale(m) \div BUDGET_SCALE = m
    BY ScaledIsWhole
  <2>10. a.value # Absent
    BY <2>8, <2>9, RequestsPresent
  <2>11. Amount(args) = m
    BY <2>3, <2>8, <2>9, <2>10 DEF Amount
  <2>12. flights[i].amount = m
    BY <2>1, <2>11 DEF Spend, args
  <2> QED BY <2>8, <2>12, CaveatConstants DEF scale
<1> QED BY <1>1, PipeInvHolds, PTL
=============================================================================
