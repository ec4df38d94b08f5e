\* Calls of alice, who may not approve, and of bob, who may but not for himself,
\* racing for one request.
CONSTANTS
    Ids = {e1, e2}
    Decisions = {d1}
    NoDecision = NoDecision
    Principals = {alice, bob}
    NoPrincipal = NoPrincipal
    Approvers = {bob}
    Calls = {c1, c2}
    Scopes = {read, pay}
    MaxAmount = 1
    TTL = 1
    MaxTime = 1
SPECIFICATION EscalationSpec
INVARIANTS OneResolution GrantWithinRequest
PROPERTY ResolutionIsFinal
SYMMETRY EscalationSymmetry
CHECK_DEADLOCK FALSE
