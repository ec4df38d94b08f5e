-------------------------------- MODULE Policy --------------------------------
(***************************************************************************)
(* Policy bundles (agentiam_core/bundles.py), the engine built from one    *)
(* (agentiam_pep/policy.py), the role a chain is evaluated under and the   *)
(* gates a bundle and a role map pass before a PEP starts with them        *)
(* (scripts/pep_service.py).                                               *)
(*                                                                         *)
(* A bundle has a serial, the key its signature verifies against (NoSigner *)
(* for a forged or altered one: the signature covers every other field),   *)
(* whether its Cedar source parses, its permit and forbid statements and   *)
(* its catalogue of tools.  A statement applies to sets of operations,     *)
(* roles and sensitivities and up to an amount.                            *)
(***************************************************************************)
EXTENDS Decision

CONSTANTS
    PolicyKey, NoSigner,
    SpendDimension,    \* BudgetDimension.SPEND_BDT
    DEFAULT_ROLE,      \* an agent that the role map does not name
    Segments(_)        \* what an agent's label is split into at its slashes

\* verify_bundle()
verify_bundle(bundle) == bundle.signer = PolicyKey

_TOOL_ATTRIBUTES == {"tool_id", "server", "sensitivity", "is_external"}
_UNKNOWN_TOOL == [sensitivity |-> "low", is_external |-> FALSE]

\* tool_catalogue(): an entry may lack attributes, not misname or mistype them.
CatalogueParses(tools) ==
    \A t \in DOMAIN tools :
        /\ DOMAIN tools[t] \subseteq _TOOL_ATTRIBUTES
        /\ "is_external" \in DOMAIN tools[t] => tools[t].is_external \in BOOLEAN
        /\ \A a \in {"server", "sensitivity"} \cap DOMAIN tools[t] : tools[t][a] \in STRING

\* The facts of the tools it yields, with the defaults of what an entry lacks.
tool_catalogue(tools) ==
    [t \in DOMAIN tools |->
        [a \in DOMAIN _UNKNOWN_TOOL |->
            IF a \in DOMAIN tools[t] THEN tools[t][a] ELSE _UNKNOWN_TOOL[a]]]

\* CedarEngine() raises when it is built, never when it is asked.  Given tools of its
\* own it never looks at the bundle's catalogue, whatever that holds.
CedarEngine(bundle) == bundle.parses

_facts_for(catalogue, tool) ==
    IF tool = NoTool \/ tool \notin DOMAIN catalogue THEN _UNKNOWN_TOOL ELSE catalogue[tool]

\* cedarpy.is_authorized: some permit applies and no forbid does.
Applies(statement, role, ctx, facts) ==
    /\ ctx.operation \in statement.operations
    /\ role \in statement.roles
    /\ facts.sensitivity \in statement.sensitivities
    /\ ctx.requested[SpendDimension] <= statement.amount
is_authorized(bundle, role, ctx, facts) ==
    /\ \E p \in bundle.permits : Applies(p, role, ctx, facts)
    /\ \A f \in bundle.forbids : ~Applies(f, role, ctx, facts)

\* BoundCedarEngine.evaluate() for a principal of this role.
evaluate(bundle, catalogue, stale, role, ctx) ==
    [allowed |-> is_authorized(bundle, role, ctx, _facts_for(catalogue, ctx.tool)),
     stale |-> stale]

----------------------------------------------------------------------------
(* Roles.  A role map takes delegation paths to roles, a path as a key being   *)
(* the labels of its agents joined by slashes.                                 *)

\* A path's role is that of every ancestor the map names; the root's own path is not
\* an ancestor here.
_refuse_widening_roles(roles) ==
    \A p \in DOMAIN roles : \A cut \in 1 .. Len(p) - 1 :
        SubSeq(p, 1, cut) \in DOMAIN roles => roles[SubSeq(p, 1, cut)] = roles[p]

\* Agents whose labels hold slashes may share the key of a longer path.
PathKey(path) == FlattenSeq([i \in DOMAIN path |-> Segments(path[i])])

\* principal_for(): the organization's role for the path, never the block's own.
RoleOf(roles, path) ==
    IF PathKey(path) \in DOMAIN roles THEN roles[PathKey(path)] ELSE DEFAULT_ROLE

\* load_policy() and load_role_assignments(): what build_service() starts with.  Its
\* engine takes the catalogue from the bundle.
Starts(bundle, roles) ==
    /\ verify_bundle(bundle) /\ CatalogueParses(bundle.tools) /\ CedarEngine(bundle)
    /\ _refuse_widening_roles(roles)
=============================================================================
