----------------------------- MODULE Escalations -----------------------------
(***************************************************************************)
(* The escalation queue of the control plane: the rules of                 *)
(* agentiam_core/escalation.py, the table `escalations` they are applied   *)
(* to under a row lock (db/escalations.py) and the routes that call them   *)
(* (escalations_api.py).                                                   *)
(*                                                                         *)
(* A route reads the clock, then waits for a connection and for the row,   *)
(* then decides and commits in one transaction; the token is minted after  *)
(* the commit.  Reasons, agents and tasks are left out: nothing depends on *)
(* them.                                                                   *)
(***************************************************************************)
EXTENDS Naturals, FiniteSets

CONSTANTS
    Ids,          \* ids of escalation rows
    Decisions,    \* decisions that may be escalated
    NoDecision,
    Principals,   \* who can sign in
    NoPrincipal,
    Approvers,    \* ControlPlaneSettings.approvers
    Calls,        \* approve and deny calls that can be under way at the same time
    Scopes,
    MaxAmount,    \* bound: amounts requested and granted
    TTL,          \* of a request
    MaxTime       \* bound: the last instant of the model

ASSUME EscalationConstants ==
    /\ NoDecision \notin Decisions /\ NoPrincipal \notin Principals
    /\ Approvers \subseteq Principals
    /\ MaxAmount \in Nat /\ TTL \in Nat /\ MaxTime \in Nat

VARIABLES
    row,      \* row[e]: the row e of `escalations`
    call,     \* call[c]: the call c
    tokens,   \* history: the elevated tokens that were handed out
    now

escalationVars == <<row, call, tokens, now>>

Amounts == 0 .. MaxAmount
Times == 0 .. MaxTime

Row == [state : {"none", "pending", "approved", "denied"},
        decision : Decisions \cup {NoDecision},
        principal : Principals \cup {NoPrincipal},
        scopes : SUBSET Scopes, amount : Amounts,
        expires_at : 0 .. MaxTime + TTL,
        resolved_by : Principals \cup {NoPrincipal}, resolved_at : Times]

NoRow == [state |-> "none", decision |-> NoDecision, principal |-> NoPrincipal,
          scopes |-> {}, amount |-> 0, expires_at |-> 0,
          resolved_by |-> NoPrincipal, resolved_at |-> 0]

\* A call and the ElevationGrant it mints from.
Call == [pc : {"approve", "deny", "mint"}, id : Ids, by : Principals,
         instant : Times, scopes : SUBSET Scopes, amount : Amounts]
NoCall == [pc |-> "idle"]

EscalationTypeOK ==
    /\ row \in [Ids -> Row]
    /\ call \in [Calls -> Call \cup {NoCall}]
    /\ tokens \subseteq Call
    /\ now \in Times

EscalationInit ==
    /\ row = [e \in Ids |-> NoRow]
    /\ call = [c \in Calls |-> NoCall]
    /\ tokens = {}
    /\ now = 0

-----------------------------------------------------------------------------

\* Mutant: the same decision is escalated again.
Open_NotUnique(e, d, p, scopes, amount) ==
    /\ row[e] = NoRow /\ scopes # {}
    /\ row' = [row EXCEPT ![e] =
                 [NoRow EXCEPT !.state = "pending", !.decision = d, !.principal = p,
                               !.scopes = scopes, !.amount = amount,
                               !.expires_at = now + TTL]]
    /\ UNCHANGED <<call, tokens, now>>

\* create, for a valid request.  A second one for the same decision is refused.
Open(e, d, p, scopes, amount) ==
    /\ row[e] = NoRow
    /\ scopes # {}
    /\ \A f \in Ids : row[f].decision # d
    /\ row' = [row EXCEPT ![e] =
                 [NoRow EXCEPT !.state = "pending", !.decision = d, !.principal = p,
                               !.scopes = scopes, !.amount = amount,
                               !.expires_at = now + TTL]]
    /\ UNCHANGED <<call, tokens, now>>

\* A route is called: it reads the clock.
Called(c, r) ==
    /\ call[c] = NoCall
    /\ r.instant = now /\ r.pc # "mint"
    /\ r.pc = "deny" => r.scopes = {} /\ r.amount = 0
    /\ call' = [call EXCEPT ![c] = r]
    /\ UNCHANGED <<row, tokens, now>>

\* Mutant: a resolved request is resolved again.
Resolvable_InAnyState(r) ==
    /\ r.by \in Approvers
    /\ r.by # row[r.id].principal
    /\ row[r.id].state # "none"
    /\ r.instant < row[r.id].expires_at

\* _check_resolvable, on the row as it is under the lock.
Resolvable(r) ==
    /\ r.by \in Approvers
    /\ r.by # row[r.id].principal
    /\ row[r.id].state = "pending"
    /\ r.instant < row[r.id].expires_at

\* Mutant: the amount is not compared with the request.
Narrows_ScopesOnly(r) == r.scopes # {} /\ r.scopes \subseteq row[r.id].scopes

\* approve: what it grants may only be narrower than the request.
Narrows(r) ==
    /\ r.scopes # {} /\ r.scopes \subseteq row[r.id].scopes
    /\ r.amount <= row[r.id].amount

Resolve(r, state) ==
    row' = [row EXCEPT ![r.id].state = state, ![r.id].resolved_by = r.by,
                       ![r.id].resolved_at = r.instant]

\* resolve_approve: the transaction.
ResolveApprove(c) ==
    /\ call[c].pc = "approve" /\ Resolvable(call[c]) /\ Narrows(call[c])
    /\ Resolve(call[c], "approved")
    /\ call' = [call EXCEPT ![c].pc = "mint"]
    /\ UNCHANGED <<tokens, now>>

ResolveDeny(c) ==
    /\ call[c].pc = "deny" /\ Resolvable(call[c])
    /\ Resolve(call[c], "denied")
    /\ call' = [call EXCEPT ![c] = NoCall]
    /\ UNCHANGED <<tokens, now>>

\* The call is refused, with no row changed.
Refused(c) ==
    /\ \/ call[c].pc = "approve" /\ ~ (Resolvable(call[c]) /\ Narrows(call[c]))
       \/ call[c].pc = "deny" /\ ~ Resolvable(call[c])
    /\ call' = [call EXCEPT ![c] = NoCall]
    /\ UNCHANGED <<row, tokens, now>>

\* mint_root: the token is handed out, or it is too large, or the process dies.
Mint(c) ==
    /\ call[c].pc = "mint"
    /\ tokens' = tokens \cup {call[c]} \/ UNCHANGED tokens
    /\ call' = [call EXCEPT ![c] = NoCall]
    /\ UNCHANGED <<row, now>>

Tick == now < MaxTime /\ now' = now + 1 /\ UNCHANGED <<row, call, tokens>>

EscalationNext ==
    \/ \E e \in Ids, d \in Decisions, p \in Principals, s \in SUBSET Scopes,
          a \in Amounts : Open(e, d, p, s, a)
    \/ \E c \in Calls, r \in Call : Called(c, r)
    \/ \E c \in Calls : ResolveApprove(c)
    \/ \E c \in Calls : ResolveDeny(c)
    \/ \E c \in Calls : Refused(c)
    \/ \E c \in Calls : Mint(c)
    \/ Tick

EscalationSpec == EscalationInit /\ [][EscalationNext]_escalationVars

-----------------------------------------------------------------------------
(* Properties *)

Grants == tokens \cup {call[c] : c \in {c \in Calls : call[c].pc = "mint"}}

\* Exactly one resolution (EC-A10): of any number of racing approve and deny
\* calls one decides, and there is at most one grant, the one the row names.
OneResolution ==
    \A g \in Grants :
        /\ row[g.id].state = "approved"
        /\ g.by = row[g.id].resolved_by /\ g.instant = row[g.id].resolved_at
        /\ \A h \in Grants : h.id = g.id => h = g

\* What is granted was requested, by somebody else than the agent's principal,
\* who may approve, within the request's lifetime (EC-A07, EC-A08, EC-A09).
GrantWithinRequest ==
    \A g \in Grants :
        /\ g.scopes # {} /\ g.scopes \subseteq row[g.id].scopes
        /\ g.amount <= row[g.id].amount
        /\ g.by \in Approvers \ {row[g.id].principal}
        /\ g.instant < row[g.id].expires_at

\* A decision is escalated once, and a resolved row is never touched again.
ResolutionIsFinal ==
    [][/\ \A e \in Ids :
             /\ row[e].state \in {"approved", "denied"} => row'[e] = row[e]
             /\ row[e] # NoRow => row'[e].decision = row[e].decision
       /\ \A e, f \in Ids :
             row'[e] # NoRow /\ row'[e].decision = row'[f].decision => e = f
      ]_escalationVars
=============================================================================
