----------------------------- MODULE Attenuation -----------------------------
(***************************************************************************)
(* The narrowing order on caveats, the check a holder's attenuation must   *)
(* pass, and the authority a chain of caveats leaves                       *)
(* (agentiam_core/attenuation.py).                                         *)
(***************************************************************************)
EXTENDS Caveats

\* Upper bounds, lower bounds, and each other operator by itself.
OpFamily(op) ==
    CASE op \in {"le", "lt"} -> "upper"
      [] op \in {"ge", "gt"} -> "lower"
      [] OTHER -> op

\* comparability_slot(): only caveats of one slot can be compared.
Slot(c) ==
    CASE c.kind = "budget_ceiling" -> <<c.kind, c.dimension>>
      [] c.kind = "arg_predicate" -> <<c.kind, c.path, OpFamily(c.op)>>
      [] c.kind = "time_window" ->
            <<c.kind, CASE c.not_after = NoTime -> "lower"
                        [] c.not_before = NoTime -> "upper"
                        [] OTHER -> "both">>
      [] OTHER -> <<c.kind>>

\* A window with both bounds is two clauses, compared side by side.
Atoms(c) ==
    IF c.kind = "time_window" /\ Slot(c)[2] = "both"
    THEN <<TimeWindow(c.not_before, NoTime), TimeWindow(NoTime, c.not_after)>>
    ELSE <<c>>

\* At equal values the inclusive bound is the larger set.
BoundNarrows(cv, ci, pv, pi, upper) ==
    IF cv = pv THEN ci => pi
    ELSE IF upper THEN cv < pv ELSE cv > pv

ArgNarrows(c, p) ==
    LET family == OpFamily(c.op)
    IN  CASE family = "upper" -> BoundNarrows(c.value, c.op = "le", p.value, p.op = "le", TRUE)
          [] family = "lower" -> BoundNarrows(c.value, c.op = "ge", p.value, p.op = "ge", FALSE)
          [] family = "in" -> c.value \subseteq p.value
          [] family = "not_in" -> p.value \subseteq c.value
          [] family \in {"eq", "ne"} -> c.value = p.value

\* Mutant: a deny list may only shrink, as an allow list may.
DenyNarrows_Forward(c, p) == c.tools \subseteq p.tools
\* Covering more is stricter.
DenyNarrows(c, p) == p.tools \subseteq c.tools

\* narrows(), for atoms of the same slot.  It runs backwards for ToolDeny and
\* RequiresApproval.
Narrows(c, p) ==
    CASE c.kind = "scope_subset" -> c.scopes \subseteq p.scopes
      [] c.kind = "budget_ceiling" -> c.value <= p.value
      [] c.kind = "time_window" ->
            /\ p.not_before = NoTime \/ (c.not_before # NoTime /\ c.not_before >= p.not_before)
            /\ p.not_after = NoTime \/ (c.not_after # NoTime /\ c.not_after <= p.not_after)
      [] c.kind = "tool_allow" -> c.tools \subseteq p.tools
      [] c.kind = "tool_deny" -> DenyNarrows(c, p)
      [] c.kind = "arg_predicate" -> ArgNarrows(c, p)
      [] c.kind = "depth_limit" -> c.max_depth <= p.max_depth
      [] c.kind = "intent_bound" -> c.intent_hash = p.intent_hash
      [] c.kind = "requires_approval" -> p.scopes \subseteq c.scopes

\* grant_caveats(): the authority block's grant as caveats.
GrantCaveats(grant) ==
    <<ScopeSubset(grant.scopes), DepthLimit(grant.max_depth),
      IntentBound(grant.intent_hash), TimeWindow(grant.not_before, grant.expires_at)>>
    \o [i \in DOMAIN DimensionOrder |->
          BudgetCeiling(DimensionOrder[i], grant.budget[DimensionOrder[i]])]

AllAtoms(cs) == FlattenSeq([i \in DOMAIN cs |-> Atoms(cs[i])])

\* check_narrowing(): an atom with no comparable ancestor is a new restriction.
CheckNarrowing(cs, ancestors) ==
    LET child == AllAtoms(cs)
        bound == AllAtoms(ancestors)
    IN  \A i \in DOMAIN child, j \in DOMAIN bound :
            Slot(child[i]) = Slot(bound[j]) => Narrows(child[i], bound[j])

----------------------------------------------------------------------------
(* effective_bound()                                                        *)

MinOf(S) == CHOOSE x \in S : \A y \in S : x <= y
MaxOf(S) == CHOOSE x \in S : \A y \in S : x >= y

Kind(cs, k) == {i \in DOMAIN cs : cs[i].kind = k}

\* Mutant: the last deny list replaces the others.
Denied_LastOnly(cs) ==
    IF Kind(cs, "tool_deny") = {} THEN {} ELSE cs[MaxOf(Kind(cs, "tool_deny"))].tools
\* Deny lists accumulate.
Denied(cs) == UNION {cs[i].tools : i \in Kind(cs, "tool_deny")}

\* Sets intersect, ceilings take the minimum, windows the tightest overlap, the two
\* reversed orders accumulate.  The code's None is Scopes for `scopes` and, for
\* `tools_allowed`, every tool and the call without one.  Argument predicates do not
\* fold.  cs holds a depth limit and an intent, as a chain with its grant does.
EffectiveBound(cs) ==
    LET lower == {i \in Kind(cs, "time_window") : cs[i].not_before # NoTime}
        upper == {i \in Kind(cs, "time_window") : cs[i].not_after # NoTime}
        ceilings(d) == {i \in Kind(cs, "budget_ceiling") : cs[i].dimension = d}
    IN  [scopes |-> {s \in Scopes : \A i \in Kind(cs, "scope_subset") : s \in cs[i].scopes},
         budget |-> [d \in {d \in Dimensions : ceilings(d) # {}} |->
                        MinOf({cs[i].value : i \in ceilings(d)})],
         not_before |-> IF lower = {} THEN NoTime ELSE MaxOf({cs[i].not_before : i \in lower}),
         not_after |-> IF upper = {} THEN NoTime ELSE MinOf({cs[i].not_after : i \in upper}),
         tools_allowed |-> IF Kind(cs, "tool_allow") = {} THEN Tools \cup {NoTool}
                           ELSE {t \in Tools : \A i \in Kind(cs, "tool_allow") : t \in cs[i].tools},
         tools_denied |-> Denied(cs),
         max_depth |-> MinOf({cs[i].max_depth : i \in Kind(cs, "depth_limit")}),
         intent_hash |-> cs[MaxOf(Kind(cs, "intent_bound"))].intent_hash,
         approval_required |-> UNION {cs[i].scopes : i \in Kind(cs, "requires_approval")}]

\* The requests that a bound lets through.
Permits(bound, ctx) ==
    /\ ctx.operation \in bound.scopes
    /\ \A d \in DOMAIN bound.budget : ctx.requested[d] <= bound.budget[d]
    /\ InWindow(ctx.now, bound.not_before, bound.not_after)
    /\ ctx.tool \in bound.tools_allowed /\ ctx.tool \notin bound.tools_denied
    /\ ctx.current_depth <= bound.max_depth
    /\ ctx.request_intent = bound.intent_hash

\* is_dead: the chain can never authorize anything.
IsDead(bound) ==
    \/ bound.scopes = {}
    \/ bound.not_before # NoTime /\ bound.not_after # NoTime /\ bound.not_after <= bound.not_before
=============================================================================
