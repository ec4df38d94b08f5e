-------------------------- MODULE ControlPlaneProofs --------------------------
(***************************************************************************)
(* Proofs about the control plane: the escalation queue (module            *)
(* Escalations), the audit hash chain (module AuditChain) and the identity *)
(* tree that the console streams from it (module IdentityTree), for any    *)
(* number of rows, calls, principals, records and agents.                  *)
(***************************************************************************)
EXTENDS Escalations, IdentityTree, OperatorProofs

-----------------------------------------------------------------------------
(* Escalations: one resolution, within the request, for good *)

\* A decision is escalated once.
DecisionsOnce ==
    \A e, f \in Ids : row[e] # NoRow /\ row[e].decision = row[f].decision => e = f

EscalationInv ==
    EscalationTypeOK /\ OneResolution /\ GrantWithinRequest /\ DecisionsOnce

\* The values a state of the table and the calls can hold.
LEMMA EscalationTypes ==
    ASSUME EscalationTypeOK
    PROVE  /\ row \in [Ids -> Row] /\ call \in [Calls -> Call \cup {NoCall}]
           /\ tokens \subseteq Call
           /\ \A c \in Calls : call[c].pc # "idle" => call[c] \in Call
           /\ NoRow \in Row /\ NoRow.state = "none" /\ NoCall.pc = "idle"
           /\ Grants \subseteq Call
<1>1. \A c \in Calls : call[c].pc # "idle" => call[c] \in Call
  BY DEF EscalationTypeOK, NoCall
<1>2. NoRow \in Row /\ NoRow.state = "none" /\ NoCall.pc = "idle"
  BY EscalationConstants DEF NoRow, Row, NoCall, Amounts, Times
<1>3. Grants \subseteq Call
  BY <1>1 DEF EscalationTypeOK, Grants
<1> QED BY <1>1, <1>2, <1>3 DEF EscalationTypeOK

\* A step that hands out no new grant and leaves alone the rows that grants name.
LEMMA GrantsKept ==
    ASSUME EscalationInv, Grants' \subseteq Grants,
           \A e \in Ids : row[e].state = "approved" => row'[e] = row[e]
    PROVE  OneResolution' /\ GrantWithinRequest'
<1>1. \A g \in Grants : g.id \in Ids
  BY EscalationTypes DEF EscalationInv, Call
<1>2. \A g \in Grants' : row'[g.id] = row[g.id]
  BY <1>1 DEF EscalationInv, OneResolution
<1>3. OneResolution'
  BY <1>2 DEF EscalationInv, OneResolution
<1>4. GrantWithinRequest'
  BY <1>2 DEF EscalationInv, GrantWithinRequest
<1> QED BY <1>3, <1>4

\* A call that ends, or one that comes in, adds no grant.
LEMMA CallsEnd ==
    ASSUME EscalationTypeOK, NEW c \in Calls, NEW r \in Call \cup {NoCall},
           call' = [call EXCEPT ![c] = r], r.pc # "mint",
           \A g \in tokens' : g \in tokens \/ (call[c].pc = "mint" /\ g = call[c])
    PROVE  Grants' \subseteq Grants
<1>1. call'[c] = r /\ \A d \in Calls : d # c => call'[d] = call[d]
  BY EscalationTypes
<1> QED BY <1>1 DEF Grants

LEMMA OpenInv ==
    ASSUME EscalationInv, NEW e \in Ids, NEW d \in Decisions, NEW p \in Principals,
           NEW scopes \in SUBSET Scopes, NEW amount \in Amounts,
           Open(e, d, p, scopes, amount)
    PROVE  EscalationInv'
<1> DEFINE new == [NoRow EXCEPT !.state = "pending", !.decision = d, !.principal = p,
                                !.scopes = scopes, !.amount = amount,
                                !.expires_at = now + TTL]
<1>1. /\ row[e] = NoRow /\ \A f \in Ids : row[f].decision # d
      /\ row' = [row EXCEPT ![e] = new]
      /\ UNCHANGED <<call, tokens, now>>
  BY DEF Open
<1>2. EscalationTypeOK /\ row \in [Ids -> Row] /\ now \in Times
  BY DEF EscalationInv, EscalationTypeOK
<1>3. new \in Row /\ new.decision = d /\ new.state = "pending"
  <2>1. now + TTL \in 0 .. MaxTime + TTL /\ 0 \in Times /\ MaxTime \in Nat
    BY <1>2, EscalationConstants DEF Times
  <2>2. NoRow \in Row /\ now + TTL \in 0 .. MaxTime + TTL
    BY <1>2, <2>1, EscalationTypes
  <2> HIDE DEF NoRow
  <2> QED BY <2>2 DEF Row
<1> HIDE DEF new
<1>4. row' \in [Ids -> Row] /\ row'[e] = new /\ \A f \in Ids : f # e => row'[f] = row[f]
  BY <1>1, <1>2, <1>3
<1>5. EscalationTypeOK'
  BY <1>1, <1>2, <1>4 DEF EscalationTypeOK
<1>6. DecisionsOnce'
  BY <1>1, <1>3, <1>4 DEF EscalationInv, DecisionsOnce
<1>7. Grants' \subseteq Grants
  BY <1>1 DEF Grants
<1>8. \A f \in Ids : row[f].state = "approved" => row'[f] = row[f]
  BY <1>1, <1>2, <1>4, EscalationTypes
<1> QED BY <1>5, <1>6, <1>7, <1>8, GrantsKept DEF EscalationInv

\* The transaction of approve and deny: it turns a pending row, and no other.
LEMMA ResolvedRow ==
    ASSUME EscalationInv, NEW r \in Call, NEW s \in {"approved", "denied"},
           Resolvable(r), Resolve(r, s)
    PROVE  /\ row[r.id].state = "pending" /\ r.id \in Ids
           /\ row' \in [Ids -> Row]
           /\ \A f \in Ids : f # r.id => row'[f] = row[f]
           /\ row'[r.id] = [row[r.id] EXCEPT !.state = s, !.resolved_by = r.by,
                                             !.resolved_at = r.instant]
           /\ row'[r.id].state = s /\ row'[r.id].resolved_by = r.by
           /\ row'[r.id].resolved_at = r.instant
           /\ row'[r.id].decision = row[r.id].decision
           /\ row'[r.id].principal = row[r.id].principal
           /\ row'[r.id].scopes = row[r.id].scopes
           /\ row'[r.id].amount = row[r.id].amount
           /\ row'[r.id].expires_at = row[r.id].expires_at
           /\ DecisionsOnce'
<1>1. row \in [Ids -> Row] /\ r.id \in Ids /\ r.by \in Principals /\ r.instant \in Times
  BY DEF EscalationInv, EscalationTypeOK, Call
<1>2. row[r.id].state = "pending" /\ row[r.id] \in Row
  BY <1>1 DEF Resolvable
<1> DEFINE new == [row[r.id] EXCEPT !.state = s, !.resolved_by = r.by,
                                    !.resolved_at = r.instant]
<1>3. row' = [row EXCEPT ![r.id] = new]
  BY <1>1 DEF Resolve
<1>4. /\ new \in Row /\ new.state = s /\ new.resolved_by = r.by
      /\ new.resolved_at = r.instant /\ new.decision = row[r.id].decision
      /\ new.principal = row[r.id].principal /\ new.scopes = row[r.id].scopes
      /\ new.amount = row[r.id].amount /\ new.expires_at = row[r.id].expires_at
  BY <1>1, <1>2 DEF Row
<1>5. row'[r.id] = new
  BY <1>1, <1>3
<1> HIDE DEF new
<1>6. row' \in [Ids -> Row] /\ \A f \in Ids : f # r.id => row'[f] = row[f]
  BY <1>1, <1>3, <1>4
<1>7. row[r.id] # NoRow
  BY <1>2, EscalationTypes DEF EscalationInv
<1>8. DecisionsOnce'
  BY <1>1, <1>4, <1>5, <1>6, <1>7 DEF EscalationInv, DecisionsOnce
<1> QED BY <1>1, <1>2, <1>4, <1>5, <1>6, <1>8 DEF new

LEMMA ApproveInv ==
    ASSUME EscalationInv, NEW c \in Calls, ResolveApprove(c)
    PROVE  EscalationInv'
<1> DEFINE r == call[c]
           g == [r EXCEPT !.pc = "mint"]
<1>1. /\ r.pc = "approve" /\ Resolvable(r) /\ Narrows(r) /\ Resolve(r, "approved")
      /\ call' = [call EXCEPT ![c].pc = "mint"] /\ UNCHANGED <<tokens, now>>
  BY DEF ResolveApprove
<1>2. EscalationTypeOK /\ r \in Call
  BY <1>1, EscalationTypes DEF EscalationInv
<1>3. /\ g \in Call /\ g.pc = "mint" /\ g.id = r.id /\ g.by = r.by
      /\ g.instant = r.instant /\ g.scopes = r.scopes /\ g.amount = r.amount
  BY <1>2 DEF Call
<1>4. call' \in [Calls -> Call \cup {NoCall}] /\ call'[c] = g
      /\ \A d \in Calls : d # c => call'[d] = call[d]
  BY <1>1, <1>2, <1>3, EscalationTypes
<1> HIDE DEF r, g
<1>5. /\ row[r.id].state = "pending" /\ r.id \in Ids
      /\ row' \in [Ids -> Row]
      /\ \A f \in Ids : f # r.id => row'[f] = row[f]
      /\ row'[r.id].state = "approved" /\ row'[r.id].resolved_by = r.by
      /\ row'[r.id].resolved_at = r.instant
      /\ row'[r.id].principal = row[r.id].principal
      /\ row'[r.id].scopes = row[r.id].scopes
      /\ row'[r.id].amount = row[r.id].amount
      /\ row'[r.id].expires_at = row[r.id].expires_at
      /\ DecisionsOnce'
  BY <1>1, <1>2, ResolvedRow
<1>6. EscalationTypeOK'
  BY <1>1, <1>2, <1>4, <1>5 DEF EscalationTypeOK
<1>7. \A h \in Grants' : h = g \/ h \in Grants
  BY <1>1, <1>4 DEF Grants
<1>8. \A h \in Grants : h.id \in Ids /\ h.id # r.id /\ row'[h.id] = row[h.id]
  BY <1>2, <1>5, EscalationTypes DEF EscalationInv, OneResolution, Call
<1>9. OneResolution'
  BY <1>3, <1>5, <1>7, <1>8 DEF EscalationInv, OneResolution
<1>10. GrantWithinRequest'
  <2>1. /\ r.scopes # {} /\ r.scopes \subseteq row[r.id].scopes
        /\ r.amount <= row[r.id].amount /\ r.by \in Approvers
        /\ r.by # row[r.id].principal /\ r.instant < row[r.id].expires_at
    BY <1>1 DEF Resolvable, Narrows
  <2> QED BY <1>3, <1>5, <1>7, <1>8, <2>1 DEF EscalationInv, GrantWithinRequest
<1> QED BY <1>5, <1>6, <1>9, <1>10 DEF EscalationInv

LEMMA DenyInv ==
    ASSUME EscalationInv, NEW c \in Calls, ResolveDeny(c)
    PROVE  EscalationInv'
<1>1. /\ call[c].pc = "deny" /\ Resolvable(call[c]) /\ Resolve(call[c], "denied")
      /\ call' = [call EXCEPT ![c] = NoCall] /\ UNCHANGED <<tokens, now>>
  BY DEF ResolveDeny
<1>2. EscalationTypeOK /\ call[c] \in Call /\ NoCall.pc = "idle"
  BY <1>1, EscalationTypes DEF EscalationInv
<1>3. /\ row[call[c].id].state = "pending" /\ row' \in [Ids -> Row]
      /\ \A f \in Ids : f # call[c].id => row'[f] = row[f]
      /\ DecisionsOnce'
  BY <1>1, <1>2, ResolvedRow
<1>4. EscalationTypeOK'
  BY <1>1, <1>2, <1>3 DEF EscalationTypeOK
<1>5. Grants' \subseteq Grants
  BY <1>1, <1>2, CallsEnd
<1>6. \A e \in Ids : row[e].state = "approved" => row'[e] = row[e]
  BY <1>3
<1> QED BY <1>3, <1>4, <1>5, <1>6, GrantsKept DEF EscalationInv

\* A call comes in, is refused or mints, or time passes: no row changes.
LEMMA RowsKept ==
    ASSUME EscalationInv, EscalationTypeOK', Grants' \subseteq Grants, row' = row
    PROVE  EscalationInv'
BY GrantsKept DEF EscalationInv, DecisionsOnce

LEMMA EscalationStep ==
    ASSUME EscalationInv, [EscalationNext]_escalationVars PROVE EscalationInv'
<1>1. EscalationTypeOK /\ NoCall.pc = "idle"
  BY EscalationTypes DEF EscalationInv
<1>2. ASSUME NEW c \in Calls, NEW r \in Call, Called(c, r) PROVE EscalationInv'
  <2>1. call' = [call EXCEPT ![c] = r] /\ r.pc # "mint" /\ UNCHANGED <<row, tokens, now>>
    BY <1>2 DEF Called
  <2>2. EscalationTypeOK'
    BY <1>1, <2>1 DEF EscalationTypeOK
  <2>3. Grants' \subseteq Grants
    BY <1>1, <2>1, CallsEnd
  <2> QED BY <2>1, <2>2, <2>3, RowsKept
<1>3. ASSUME NEW c \in Calls, Refused(c) \/ Mint(c) PROVE EscalationInv'
  <2>1. /\ call' = [call EXCEPT ![c] = NoCall] /\ UNCHANGED <<row, now>>
        /\ \/ tokens' = tokens
           \/ call[c].pc = "mint" /\ tokens' = tokens \cup {call[c]}
    BY <1>3 DEF Refused, Mint
  <2>2. EscalationTypeOK'
    BY <1>1, <2>1, EscalationTypes DEF EscalationTypeOK
  <2>3. \A g \in tokens' : g \in tokens \/ (call[c].pc = "mint" /\ g = call[c])
    BY <2>1
  <2>4. Grants' \subseteq Grants
    BY <1>1, <2>1, <2>3, CallsEnd
  <2> QED BY <2>1, <2>2, <2>4, RowsKept
<1>4. CASE Tick \/ UNCHANGED escalationVars
  <2>1. UNCHANGED <<row, call, tokens>> /\ EscalationTypeOK'
    BY <1>1, <1>4, EscalationConstants DEF Tick, escalationVars, EscalationTypeOK, Times
  <2>2. Grants' \subseteq Grants
    BY <2>1 DEF Grants
  <2> QED BY <2>1, <2>2, RowsKept
<1> QED BY <1>2, <1>3, <1>4, OpenInv, ApproveInv, DenyInv DEF EscalationNext

LEMMA EscalationInit0 == EscalationInit => EscalationInv
<1> SUFFICES ASSUME EscalationInit PROVE EscalationInv
  OBVIOUS
<1>1. NoRow \in Row /\ NoCall.pc = "idle" /\ 0 \in Times
  BY EscalationConstants DEF NoRow, Row, NoCall, Amounts, Times
<1>2. EscalationTypeOK
  BY <1>1 DEF EscalationInit, EscalationTypeOK
<1>3. Grants = {}
  BY <1>1 DEF EscalationInit, Grants
<1>4. OneResolution /\ GrantWithinRequest /\ DecisionsOnce
  BY <1>3 DEF EscalationInit, OneResolution, GrantWithinRequest, DecisionsOnce
<1> QED BY <1>2, <1>4 DEF EscalationInv

LEMMA EscalationInductive == EscalationSpec => []EscalationInv
BY EscalationInit0, EscalationStep, PTL DEF EscalationSpec

\* EC-A10 for any number of requests and of racing approve and deny calls: a request
\* has at most one grant, the one its row names.
THEOREM EscalationOneResolution == EscalationSpec => []OneResolution
<1>1. EscalationInv => OneResolution
  BY DEF EscalationInv
<1> QED BY <1>1, EscalationInductive, PTL

\* EC-A07 to EC-A09: a grant is within what was asked for, in time, by an approver
\* who is not the request's principal.
THEOREM EscalationGrantWithinRequest == EscalationSpec => []GrantWithinRequest
<1>1. EscalationInv => GrantWithinRequest
  BY DEF EscalationInv
<1> QED BY <1>1, EscalationInductive, PTL

\* A resolved row is never touched again, and a decision is escalated once.
THEOREM EscalationResolutionIsFinal == EscalationSpec => ResolutionIsFinal
<1> DEFINE Final == /\ \A e \in Ids :
                          /\ row[e].state \in {"approved", "denied"} => row'[e] = row[e]
                          /\ row[e] # NoRow => row'[e].decision = row[e].decision
                    /\ \A e, f \in Ids :
                          row'[e] # NoRow /\ row'[e].decision = row'[f].decision => e = f
<1>1. ASSUME EscalationInv, EscalationInv', [EscalationNext]_escalationVars
      PROVE  [Final]_escalationVars
  <2> SUFFICES Final
    OBVIOUS
  <2>1. DecisionsOnce'
    BY <1>1 DEF EscalationInv
  <2>2. EscalationTypeOK
    BY <1>1 DEF EscalationInv
  <2>3. ASSUME NEW c \in Calls, NEW s \in {"approved", "denied"}, call[c].pc # "idle",
               Resolvable(call[c]), Resolve(call[c], s)
        PROVE  \A e \in Ids :
                  /\ row[e].state \in {"approved", "denied"} => row'[e] = row[e]
                  /\ row'[e].decision = row[e].decision
    <3>1. call[c] \in Call
      BY <2>2, <2>3, EscalationTypes
    <3>2. /\ row[call[c].id].state = "pending"
          /\ \A f \in Ids : f # call[c].id => row'[f] = row[f]
          /\ row'[call[c].id].decision = row[call[c].id].decision
      BY <1>1, <2>3, <3>1, ResolvedRow
    <3> QED BY <3>2
  <2>4. \A e \in Ids :
           /\ row[e].state \in {"approved", "denied"} => row'[e] = row[e]
           /\ row[e] # NoRow => row'[e].decision = row[e].decision
    <3>1. CASE row' = row
      BY <3>1
    <3>2. ASSUME NEW e \in Ids, row[e] = NoRow, NEW x, row' = [row EXCEPT ![e] = x]
          PROVE  \A f \in Ids :
                    /\ row[f].state \in {"approved", "denied"} => row'[f] = row[f]
                    /\ row[f] # NoRow => row'[f].decision = row[f].decision
      <4>1. NoRow.state = "none" /\ \A f \in Ids : f # e => row'[f] = row[f]
        BY <2>2, <3>2, EscalationTypes
      <4> QED BY <3>2, <4>1
    <3>3. CASE \E c \in Calls : ResolveApprove(c) \/ ResolveDeny(c)
      BY <2>3, <3>3 DEF ResolveApprove, ResolveDeny
    <3>4. CASE \E e \in Ids, d \in Decisions, p \in Principals, s \in SUBSET Scopes,
                  a \in Amounts : Open(e, d, p, s, a)
      BY <3>2, <3>4 DEF Open
    <3> QED BY <1>1, <3>1, <3>3, <3>4 DEF EscalationNext, escalationVars, Called, Refused,
       Mint, Tick
  <2> QED BY <2>1, <2>4 DEF DecisionsOnce
<1> QED BY <1>1, EscalationInductive, PTL DEF EscalationSpec, ResolutionIsFinal

-----------------------------------------------------------------------------
(* The audit chain: prefixes of sequences, which stand for hashes *)

LEMMA Prefix ==
    ASSUME NEW R, NEW h \in Seq(R), NEW n \in 0 .. Len(h)
    PROVE  /\ SubSeq(h, 1, n) \in Seq(R) /\ Len(SubSeq(h, 1, n)) = n
           /\ \A i \in 1 .. n : SubSeq(h, 1, n)[i] = h[i]
OBVIOUS

\* A link of the chain.
LEMMA PrefixLink ==
    ASSUME NEW R, NEW h \in Seq(R), NEW n \in 1 .. Len(h)
    PROVE  Append(SubSeq(h, 1, n - 1), h[n]) = SubSeq(h, 1, n)
<1> DEFINE a == Append(SubSeq(h, 1, n - 1), h[n])
           b == SubSeq(h, 1, n)
<1>1. /\ SubSeq(h, 1, n - 1) \in Seq(R) /\ Len(SubSeq(h, 1, n - 1)) = n - 1
      /\ \A i \in 1 .. n - 1 : SubSeq(h, 1, n - 1)[i] = h[i]
  BY Prefix
<1>2. a \in Seq(R) /\ Len(a) = n /\ \A i \in 1 .. n : a[i] = h[i]
  BY <1>1
<1>3. b \in Seq(R) /\ Len(b) = n /\ \A i \in 1 .. n : b[i] = h[i]
  BY Prefix
<1> HIDE DEF a, b
<1>4. a = b
  BY <1>2, <1>3, SeqEqual
<1> QED BY <1>4 DEF a, b

\* What was written stays a prefix when more is appended.
LEMMA PrefixStays ==
    ASSUME NEW R, NEW h \in Seq(R), NEW g \in Seq(R), NEW n \in 0 .. Len(h)
    PROVE  SubSeq(h \o g, 1, n) = SubSeq(h, 1, n)
<1> DEFINE a == SubSeq(h \o g, 1, n)
           b == SubSeq(h, 1, n)
<1>1. /\ h \o g \in Seq(R) /\ Len(h \o g) = Len(h) + Len(g)
      /\ \A i \in 1 .. Len(h) : (h \o g)[i] = h[i]
  OBVIOUS
<1>2. n \in 0 .. Len(h \o g)
  BY <1>1
<1>3. a \in Seq(R) /\ Len(a) = n /\ \A i \in 1 .. n : a[i] = (h \o g)[i]
  BY <1>1, <1>2, Prefix
<1>4. b \in Seq(R) /\ Len(b) = n /\ \A i \in 1 .. n : b[i] = h[i]
  BY Prefix
<1> HIDE DEF a, b
<1>5. \A i \in 1 .. n : a[i] = b[i]
  BY <1>1, <1>3, <1>4
<1>6. a = b
  BY <1>3, <1>4, <1>5, SeqEqual
<1> QED BY <1>6 DEF a, b

\* The hashes of a batch are prefixes of the new head's.
LEMMA PrefixGrows ==
    ASSUME NEW R, NEW h \in Seq(R), NEW g \in Seq(R), NEW n \in 0 .. Len(g)
    PROVE  h \o SubSeq(g, 1, n) = SubSeq(h \o g, 1, Len(h) + n)
<1> DEFINE a == h \o SubSeq(g, 1, n)
           b == SubSeq(h \o g, 1, Len(h) + n)
           m == Len(h) + n
<1>1. /\ h \o g \in Seq(R) /\ Len(h \o g) = Len(h) + Len(g)
      /\ \A i \in 1 .. Len(h) : (h \o g)[i] = h[i]
      /\ \A i \in Len(h) + 1 .. Len(h) + Len(g) : (h \o g)[i] = g[i - Len(h)]
  OBVIOUS
<1>2. m \in 0 .. Len(h \o g) /\ m \in Nat
  BY <1>1
<1>3. b \in Seq(R) /\ Len(b) = m /\ \A i \in 1 .. m : b[i] = (h \o g)[i]
  BY <1>1, <1>2, Prefix
<1>4. /\ SubSeq(g, 1, n) \in Seq(R) /\ Len(SubSeq(g, 1, n)) = n
      /\ \A i \in 1 .. n : SubSeq(g, 1, n)[i] = g[i]
  BY Prefix
<1>5. /\ a \in Seq(R) /\ Len(a) = m
      /\ \A i \in 1 .. Len(h) : a[i] = h[i]
      /\ \A i \in Len(h) + 1 .. m : a[i] = g[i - Len(h)]
  BY <1>4
<1>6. \A i \in 1 .. m : a[i] = b[i]
  <2> SUFFICES ASSUME NEW i \in 1 .. m PROVE a[i] = b[i]
    OBVIOUS
  <2>1. b[i] = (h \o g)[i]
    BY <1>3
  <2>2. CASE i \in 1 .. Len(h)
    BY <1>1, <1>5, <2>1, <2>2
  <2>3. CASE i \in Len(h) + 1 .. m
    <3>1. i \in Len(h) + 1 .. Len(h) + Len(g)
      BY <2>3
    <3> QED BY <1>1, <1>5, <2>1, <2>3, <3>1
  <2> QED BY <2>2, <2>3
<1> HIDE DEF a, b
<1>7. a = b
  BY <1>2, <1>3, <1>5, <1>6, SeqEqual
<1> QED BY <1>7 DEF a, b

-----------------------------------------------------------------------------
(* The audit chain: what the table holds *)

\* The row that append() wrote at s of the chain h, but for its record.
WrittenRow(h, s, record) ==
    [record |-> record, prev |-> SubSeq(h, 1, s - 1), hash |-> SubSeq(h, 1, s)]

\* The rows of a chain h of length k are as they were written, but for what was
\* done behind the program's back.
AsWritten(table, done, k, h) ==
    \A s \in Seqs :
        IF s > k THEN done[s] = "none" /\ table[s] = NoAuditRow
        ELSE table[s] = CASE done[s] = "none" -> WrittenRow(h, s, h[s])
                          [] done[s] = "altered" -> WrittenRow(h, s, Forged)
                          [] done[s] = "deleted" -> NoAuditRow

\* A record is appended again only if its row was deleted.
WrittenOnce(done, k, h) ==
    \A s, t \in Seqs :
        /\ s <= k /\ t <= k /\ done[s] # "deleted" /\ done[t] # "deleted"
        /\ h[s] = h[t]
        => s = t

\* The head, which is never damaged, records the whole chain, and the rows are its.
ChainShape ==
    /\ DOMAIN rows = Seqs
    /\ damage \in [Seqs -> {"none", "altered", "deleted"}]
    /\ head.seq \in 0 .. MaxSeq /\ head.hash \in Seq(Records)
    /\ Len(head.hash) = head.seq
    /\ AsWritten(rows, damage, head.seq, head.hash)
    /\ WrittenOnce(damage, head.seq, head.hash)

\* What is present in a table that is as written.
LEMMA WrittenFacts ==
    ASSUME NEW h \in Seq(Records), NEW k \in 0 .. MaxSeq, Len(h) = k,
           NEW done \in [Seqs -> {"none", "altered", "deleted"}], NEW table,
           AsWritten(table, done, k, h)
    PROVE  /\ MaxSeq \in Nat /\ k \in Nat /\ k <= MaxSeq
           /\ \A s \in Seqs : s \in Nat /\ s >= 1
           /\ Present(table) = {s \in Seqs : s <= k /\ done[s] # "deleted"}
           /\ \A s \in Present(table) :
                 table[s] = WrittenRow(h, s, IF done[s] = "none" THEN h[s] ELSE Forged)
           /\ \A s \in Seqs : done[s] # "none" => s <= k
<1>1. MaxSeq \in Nat /\ k \in Nat /\ k <= MaxSeq /\ \A s \in Seqs : s \in Nat /\ s >= 1
  BY ChainConstants DEF Seqs
<1>2. \A s \in Seqs : \A r : s <= k => WrittenRow(h, s, r) # NoAuditRow
  <2> SUFFICES ASSUME NEW s \in Seqs, NEW r, s <= k
               PROVE  WrittenRow(h, s, r).hash # NoAuditRow.hash
    OBVIOUS
  <2>1. s \in 0 .. Len(h) /\ s # 0
    BY <1>1
  <2>2. Len(SubSeq(h, 1, s)) = s
    BY <2>1, Prefix
  <2>3. SubSeq(h, 1, s) # <<>>
    BY <2>1, <2>2
  <2> QED BY <2>3 DEF WrittenRow, NoAuditRow
<1>3. ASSUME NEW s \in Seqs
      PROVE  /\ table[s] # NoAuditRow <=> s <= k /\ done[s] # "deleted"
             /\ s <= k /\ done[s] # "deleted" =>
                  table[s] = WrittenRow(h, s, IF done[s] = "none" THEN h[s] ELSE Forged)
             /\ done[s] # "none" => s <= k
  <2>1. CASE s > k
    BY <1>1, <2>1 DEF AsWritten
  <2>2. CASE s <= k
    <3>1. table[s] = CASE done[s] = "none" -> WrittenRow(h, s, h[s])
                       [] done[s] = "altered" -> WrittenRow(h, s, Forged)
                       [] done[s] = "deleted" -> NoAuditRow
      BY <1>1, <2>2 DEF AsWritten
    <3> QED BY <1>2, <2>2, <3>1
  <2> QED BY <1>1, <2>1, <2>2
<1>4. Present(table) = {s \in Seqs : s <= k /\ done[s] # "deleted"}
  BY <1>3 DEF Present
<1> QED BY <1>1, <1>3, <1>4

\* A batch continues the chain: the rows that are there stay, the new ones link up.
LEMMA WrittenGrows ==
    ASSUME NEW h \in Seq(Records), NEW k \in 0 .. MaxSeq, Len(h) = k,
           NEW done, NEW table, AsWritten(table, done, k, h),
           NEW new \in Seq(Records), k + Len(new) <= MaxSeq
    PROVE  AsWritten([s \in Seqs |->
                        IF s \in k + 1 .. k + Len(new)
                        THEN [record |-> new[s - k], prev |-> h \o SubSeq(new, 1, s - 1 - k),
                              hash |-> Append(h \o SubSeq(new, 1, s - 1 - k), new[s - k])]
                        ELSE table[s]],
                     done, k + Len(new), h \o new)
<1> DEFINE g == h \o new
           n == Len(new)
           grown == [s \in Seqs |->
                        IF s \in k + 1 .. k + Len(new)
                        THEN [record |-> new[s - k], prev |-> h \o SubSeq(new, 1, s - 1 - k),
                              hash |-> Append(h \o SubSeq(new, 1, s - 1 - k), new[s - k])]
                        ELSE table[s]]
<1>1. MaxSeq \in Nat /\ k \in Nat /\ n \in Nat /\ \A s \in Seqs : s \in Nat /\ s >= 1
  BY ChainConstants DEF Seqs
<1>2. /\ g \in Seq(Records) /\ Len(g) = k + n
      /\ \A s \in 1 .. k : g[s] = h[s]
      /\ \A s \in k + 1 .. k + n : g[s] = new[s - k]
  BY <1>1
<1>3. ASSUME NEW s \in Seqs
      PROVE  IF s > k + n THEN done[s] = "none" /\ grown[s] = NoAuditRow
             ELSE grown[s] = CASE done[s] = "none" -> WrittenRow(g, s, g[s])
                               [] done[s] = "altered" -> WrittenRow(g, s, Forged)
                               [] done[s] = "deleted" -> NoAuditRow
  <2>1. s \in Nat /\ s >= 1
    BY <1>1
  <2>2. IF s > k THEN done[s] = "none" /\ table[s] = NoAuditRow
        ELSE table[s] = CASE done[s] = "none" -> WrittenRow(h, s, h[s])
                          [] done[s] = "altered" -> WrittenRow(h, s, Forged)
                          [] done[s] = "deleted" -> NoAuditRow
    BY DEF AsWritten
  <2>3. CASE s > k + n
    <3>1. s > k /\ s \notin k + 1 .. k + n
      BY <1>1, <2>1, <2>3
    <3>2. grown[s] = table[s]
      BY <3>1
    <3> QED BY <2>2, <2>3, <3>1, <3>2
  <2>4. CASE s > k /\ s <= k + n
    <3>1. /\ s \in k + 1 .. k + n /\ ~ (s > k + n) /\ s - 1 - k \in 0 .. n
          /\ s \in 1 .. Len(g) /\ k + (s - 1 - k) = s - 1
      BY <1>1, <1>2, <2>1, <2>4
    <3>2. h \o SubSeq(new, 1, s - 1 - k) = SubSeq(g, 1, Len(h) + (s - 1 - k))
      BY <3>1, PrefixGrows
    <3>3. Append(SubSeq(g, 1, s - 1), g[s]) = SubSeq(g, 1, s)
      <4> HIDE DEF g
      <4> QED BY <1>2, <3>1, PrefixLink
    <3>4. g[s] = new[s - k]
      BY <1>2, <3>1
    <3>5. grown[s] = [record |-> new[s - k], prev |-> h \o SubSeq(new, 1, s - 1 - k),
                      hash |-> Append(h \o SubSeq(new, 1, s - 1 - k), new[s - k])]
      BY <3>1
    <3>6. h \o SubSeq(new, 1, s - 1 - k) = SubSeq(g, 1, s - 1)
      BY <3>1, <3>2
    <3> HIDE DEF grown, g
    <3>7. grown[s] = WrittenRow(g, s, g[s])
      BY <3>3, <3>4, <3>5, <3>6 DEF WrittenRow
    <3> QED BY <2>2, <2>4, <3>1, <3>7
  <2>5. CASE s <= k
    <3>1. /\ ~ (s > k) /\ ~ (s > k + n) /\ s \notin k + 1 .. k + n
          /\ s \in 1 .. k /\ s \in 0 .. Len(h) /\ s - 1 \in 0 .. Len(h)
      BY <1>1, <2>1, <2>5
    <3>2. SubSeq(g, 1, s) = SubSeq(h, 1, s) /\ SubSeq(g, 1, s - 1) = SubSeq(h, 1, s - 1)
      BY <3>1, PrefixStays
    <3>3. grown[s] = table[s] /\ g[s] = h[s]
      BY <1>2, <3>1
    <3> HIDE DEF grown, g
    <3>4. WrittenRow(g, s, g[s]) = WrittenRow(h, s, h[s])
          /\ WrittenRow(g, s, Forged) = WrittenRow(h, s, Forged)
      BY <3>2, <3>3 DEF WrittenRow
    <3> QED BY <2>2, <3>1, <3>3, <3>4
  <2>6. s > k + n \/ (s > k /\ s <= k + n) \/ s <= k
    BY <1>1, <2>1
  <2> HIDE DEF grown, g, n
  <2> QED BY <2>3, <2>4, <2>5, <2>6, Zenon
<1> HIDE DEF grown, g, n
<1>4. AsWritten(grown, done, k + n, g)
  BY <1>3, Zenon DEF AsWritten
<1> QED BY <1>4 DEF grown, g, n

LEMMA OnceGrows ==
    ASSUME NEW h \in Seq(Records), NEW k \in 0 .. MaxSeq, Len(h) = k,
           NEW done, WrittenOnce(done, k, h),
           NEW new \in Seq(Records),
           \A i, j \in 1 .. Len(new) : new[i] = new[j] => i = j,
           \A i \in 1 .. Len(new), s \in Seqs :
              s <= k /\ done[s] # "deleted" => new[i] # h[s]
    PROVE  WrittenOnce(done, k + Len(new), h \o new)
<1> DEFINE g == h \o new
           n == Len(new)
<1>1. MaxSeq \in Nat /\ k \in Nat /\ n \in Nat /\ \A s \in Seqs : s \in Nat /\ s >= 1
  BY ChainConstants DEF Seqs
<1>2. /\ \A s \in 1 .. k : g[s] = h[s]
      /\ \A s \in k + 1 .. k + n : g[s] = new[s - k]
  BY <1>1
<1> HIDE DEF g
<1>3. ASSUME NEW s \in Seqs, NEW t \in Seqs, s <= k + n, t <= k + n, s < t,
             done[s] # "deleted", done[t] # "deleted", g[s] = g[t]
      PROVE  FALSE
  <2>1. s \in Nat /\ t \in Nat /\ s >= 1 /\ t >= 1
    BY <1>1
  <2>2. CASE t <= k
    <3>1. s \in 1 .. k /\ t \in 1 .. k /\ s <= k /\ s # t
      BY <1>1, <1>3, <2>1, <2>2
    <3>2. h[s] = h[t]
      BY <1>2, <1>3, <3>1
    <3> QED BY <1>3, <2>2, <3>1, <3>2 DEF WrittenOnce
  <2>3. CASE s > k
    <3>1. s \in k + 1 .. k + n /\ t \in k + 1 .. k + n
      BY <1>1, <1>3, <2>1, <2>3
    <3>2. s - k \in 1 .. n /\ t - k \in 1 .. n /\ s - k # t - k
      BY <1>1, <1>3, <2>1, <3>1
    <3>3. new[s - k] = new[t - k]
      BY <1>2, <1>3, <3>1
    <3> QED BY <3>2, <3>3
  <2>4. CASE s <= k /\ t > k
    <3>1. t \in k + 1 .. k + n /\ t - k \in 1 .. n /\ s \in 1 .. k
      BY <1>1, <1>3, <2>1, <2>4
    <3>2. new[t - k] = h[s]
      BY <1>2, <1>3, <3>1
    <3> QED BY <1>3, <2>4, <3>1, <3>2
  <2> QED BY <1>1, <2>1, <2>2, <2>3, <2>4
<1>4. WrittenOnce(done, k + n, g)
  <2> SUFFICES ASSUME NEW s \in Seqs, NEW t \in Seqs, s <= k + n, t <= k + n,
                      done[s] # "deleted", done[t] # "deleted", g[s] = g[t]
               PROVE  s = t
    BY DEF WrittenOnce
  <2>1. ~ (s < t) /\ ~ (t < s)
    BY <1>3
  <2> QED BY <1>1, <2>1
<1> QED BY <1>4 DEF g

LEMMA ChainFacts ==
    ASSUME ChainShape
    PROVE  /\ head.hash \in Seq(Records) /\ Len(head.hash) = head.seq
           /\ head.seq \in 0 .. MaxSeq
           /\ MaxSeq \in Nat /\ head.seq \in Nat /\ head.seq <= MaxSeq
           /\ \A s \in Seqs : s \in Nat /\ s >= 1
           /\ Present(rows) = {s \in Seqs : s <= head.seq /\ damage[s] # "deleted"}
           /\ \A s \in Present(rows) :
                 /\ rows[s].prev = SubSeq(head.hash, 1, s - 1)
                 /\ rows[s].hash = SubSeq(head.hash, 1, s)
                 /\ rows[s].record = IF damage[s] = "none" THEN head.hash[s] ELSE Forged
           /\ \A s \in Seqs : damage[s] # "none" => s <= head.seq
           /\ \A s \in Seqs : damage[s] \in {"none", "altered", "deleted"}
<1>1. /\ head.hash \in Seq(Records) /\ Len(head.hash) = head.seq
      /\ head.seq \in 0 .. MaxSeq /\ AsWritten(rows, damage, head.seq, head.hash)
      /\ damage \in [Seqs -> {"none", "altered", "deleted"}]
  BY DEF ChainShape
<1>2. /\ MaxSeq \in Nat /\ head.seq \in Nat /\ head.seq <= MaxSeq
      /\ \A s \in Seqs : s \in Nat /\ s >= 1
      /\ Present(rows) = {s \in Seqs : s <= head.seq /\ damage[s] # "deleted"}
      /\ \A s \in Present(rows) :
            rows[s] = WrittenRow(head.hash, s,
                                 IF damage[s] = "none" THEN head.hash[s] ELSE Forged)
      /\ \A s \in Seqs : damage[s] # "none" => s <= head.seq
  BY <1>1, WrittenFacts
<1>3. \A s \in Present(rows) :
         /\ rows[s].prev = SubSeq(head.hash, 1, s - 1)
         /\ rows[s].hash = SubSeq(head.hash, 1, s)
         /\ rows[s].record = IF damage[s] = "none" THEN head.hash[s] ELSE Forged
  <2> SUFFICES ASSUME NEW s \in Present(rows), NEW r,
                      rows[s] = WrittenRow(head.hash, s, r)
               PROVE  /\ rows[s].prev = SubSeq(head.hash, 1, s - 1)
                      /\ rows[s].hash = SubSeq(head.hash, 1, s)
                      /\ rows[s].record = r
    BY <1>2, Zenon
  <2> DEFINE p == SubSeq(head.hash, 1, s - 1)
             q == SubSeq(head.hash, 1, s)
  <2>1. rows[s] = [record |-> r, prev |-> p, hash |-> q]
    BY Zenon DEF WrittenRow
  <2> HIDE DEF p, q
  <2>2. rows[s].prev = p /\ rows[s].hash = q /\ rows[s].record = r
    BY <2>1
  <2> QED BY <2>2 DEF p, q
<1> QED BY <1>1, <1>2, <1>3

\* append() keeps the shape.
LEMMA ShapeAppend ==
    ASSUME ChainShape, NEW batch \in Batches, AppendBatch(batch)
    PROVE  ChainShape'
<1> DEFINE new == Skipping(batch, Existing)
           h == head.hash
           k == head.seq
<1>1. MaxSeq \in Nat /\ k \in 0 .. MaxSeq /\ h \in Seq(Records) /\ Len(h) = k
  BY ChainFacts
<1>2. batch \in Seq(Records) /\ Len(batch) \in Nat
      /\ \A i, j \in 1 .. Len(batch) : batch[i] = batch[j] => i = j
  BY ChainConstants DEF Batches, IsInjective
<1>3. Keeps(new, Records, batch, Existing, Len(batch))
  BY <1>2, SkippingKeeps
<1>4. /\ k + Len(new) <= MaxSeq /\ damage' = damage
      /\ head' = [seq |-> k + Len(new), hash |-> h \o new]
      /\ rows' = [s \in Seqs |->
                    IF s \in k + 1 .. k + Len(new)
                    THEN [record |-> new[s - k], prev |-> h \o SubSeq(new, 1, s - 1 - k),
                          hash |-> Append(h \o SubSeq(new, 1, s - 1 - k), new[s - k])]
                    ELSE rows[s]]
  BY DEF AppendBatch, ChainHash
<1> HIDE DEF new
<1>5. new \in Seq(Records) /\ Len(new) \in Nat
      /\ \A i \in 1 .. Len(new) : new[i] \notin Existing
  <2>1. /\ new \in Seq(Records)
        /\ \A i \in 1 .. Len(new) : \E m \in 1 .. Len(batch) :
              batch[m] = new[i] /\ batch[m] \notin Existing
    BY <1>3, Zenon DEF Keeps
  <2> QED BY <2>1
<1>6. \A i, j \in 1 .. Len(new) : new[i] = new[j] => i = j
  <2>1. ASSUME NEW i \in 1 .. Len(new), NEW j \in 1 .. Len(new), i < j
        PROVE  new[i] # new[j]
    <3>1. PICK m \in 1 .. Len(batch), n \in 1 .. Len(batch) :
             m < n /\ batch[m] = new[i] /\ batch[n] = new[j]
      BY <1>3, <2>1 DEF Keeps
    <3> QED BY <1>2, <3>1
  <2> SUFFICES ASSUME NEW i \in 1 .. Len(new), NEW j \in 1 .. Len(new), new[i] = new[j]
               PROVE  i = j
    OBVIOUS
  <2>2. ~ (i < j) /\ ~ (j < i)
    BY <2>1
  <2> QED BY <1>5, <2>2
<1>7. \A i \in 1 .. Len(new), s \in Seqs :
         s <= k /\ damage[s] # "deleted" => new[i] # h[s]
  <2> SUFFICES ASSUME NEW i \in 1 .. Len(new), NEW s \in Seqs, s <= k,
                      damage[s] # "deleted"
               PROVE  h[s] \in Existing
    BY <1>5
  <2>1. s \in Present(rows) /\ s <= Len(head.hash)
    BY <1>1, ChainFacts
  <2> QED BY <2>1 DEF Existing
<1>8. WrittenOnce(damage, k + Len(new), h \o new)
  <2>1. WrittenOnce(damage, k, h)
    BY DEF ChainShape
  <2> HIDE DEF h, k
  <2> QED BY <1>1, <1>5, <1>6, <1>7, <2>1, OnceGrows
<1>9. AsWritten(rows', damage, k + Len(new), h \o new)
  <2>1. AsWritten(rows, damage, k, h)
    BY DEF ChainShape
  <2> HIDE DEF h, k
  <2> QED BY <1>1, <1>4, <1>5, <2>1, WrittenGrows
<1>10. /\ head'.seq = k + Len(new) /\ head'.hash = h \o new
       /\ h \o new \in Seq(Records) /\ Len(h \o new) = k + Len(new)
       /\ k + Len(new) \in 0 .. MaxSeq
  BY <1>1, <1>4, <1>5
<1>11. damage' \in [Seqs -> {"none", "altered", "deleted"}]
  BY <1>4 DEF ChainShape
<1> QED BY <1>4, <1>8, <1>9, <1>10, <1>11 DEF ChainShape

-----------------------------------------------------------------------------
(* The audit chain: what the walk finds *)

LEMMA MaxIs ==
    ASSUME NEW S \in SUBSET Nat, NEW m \in S, \A x \in S : x <= m
    PROVE  Max(S) = m
<1>1. Max(S) \in S /\ \A x \in S : x <= Max(S)
  BY MaxIsMaximal
<1>2. Max(S) <= m /\ m <= Max(S) /\ m \in Nat /\ Max(S) \in Nat
  BY <1>1
<1> QED BY <1>2

LEMMA MinIs ==
    ASSUME NEW S \in SUBSET Nat, NEW m \in S, \A x \in S : m <= x
    PROVE  Min(S) = m
<1>1. Min(S) \in S /\ \A x \in S : Min(S) <= x
  BY MinIsMinimal
<1>2. Min(S) <= m /\ m <= Min(S) /\ m \in Nat /\ Min(S) \in Nat
  BY <1>1
<1> QED BY <1>2

\* Below the first damage, a row is compared with the one before it, and its hash.
LEMMA ComparedWith ==
    ASSUME ChainShape, NEW s \in Seqs, s <= head.seq,
           \A t \in Seqs : t < s => damage[t] = "none"
    PROVE  /\ Before(rows, s) = s - 1
           /\ HashAt(rows, s - 1) = SubSeq(head.hash, 1, s - 1)
<1>1. /\ head.hash \in Seq(Records) /\ Len(head.hash) = head.seq /\ head.seq \in Nat
      /\ MaxSeq \in Nat /\ head.seq <= MaxSeq /\ s \in Nat /\ s >= 1
      /\ \A t \in Seqs : t \in Nat /\ t >= 1
  BY ChainFacts
<1>2. \A t \in Seqs : t < s => t \in Present(rows)
  BY <1>1, ChainFacts
<1>3. s - 1 \in {0} \cup {p \in Present(rows) : p < s}
  <2>1. CASE s = 1
    BY <2>1
  <2>2. CASE s # 1
    <3>1. s - 1 \in Seqs /\ s - 1 < s
      BY <1>1, <2>2 DEF Seqs
    <3> QED BY <1>2, <3>1
  <2> QED BY <2>1, <2>2
<1>4. Before(rows, s) = s - 1
  <2> DEFINE S == {0} \cup {p \in Present(rows) : p < s}
  <2>0. Present(rows) \in SUBSET Nat
    BY <1>1 DEF Present
  <2>1. S \in SUBSET Nat /\ \A x \in S : x <= s - 1
    <3> SUFFICES ASSUME NEW x \in S PROVE x \in Nat /\ x <= s - 1
      OBVIOUS
    <3>1. CASE x = 0
      BY <1>1, <3>1
    <3>2. CASE x \in Present(rows) /\ x < s
      BY <1>1, <2>0, <3>2
    <3> QED BY <3>1, <3>2
  <2>2. Max(S) = s - 1
    <3> HIDE DEF S
    <3>1. s - 1 \in S
      BY <1>3 DEF S
    <3> QED BY <2>1, <3>1, MaxIs
  <2> QED BY <2>2 DEF Before
<1>5. HashAt(rows, s - 1) = SubSeq(head.hash, 1, s - 1)
  <2>1. CASE s = 1
    <3>1. SubSeq(head.hash, 1, 0) = <<>>
      BY <1>1, SubSeqEmpty
    <3> QED BY <2>1, <3>1 DEF HashAt
  <2>2. CASE s # 1
    <3>1. s - 1 \in Present(rows) /\ s - 1 # 0
      BY <1>1, <1>3, <2>2
    <3>2. rows[s - 1].hash = SubSeq(head.hash, 1, s - 1)
      BY <3>1, ChainFacts
    <3> QED BY <3>1, <3>2 DEF HashAt
  <2> QED BY <2>1, <2>2
<1> QED BY <1>4, <1>5

\* Up to the first damage the links hold; an altered record does not hash to its row.
LEMMA LinkHolds ==
    ASSUME ChainShape, NEW s \in Present(rows),
           \A t \in Seqs : t < s => damage[t] = "none"
    PROVE  Broken(rows, s) <=> damage[s] # "none"
<1> DEFINE h == head.hash
<1>1. /\ h \in Seq(Records) /\ Len(h) = head.seq /\ head.seq \in Nat
      /\ s \in Seqs /\ s <= head.seq /\ s \in Nat /\ s >= 1
      /\ rows[s].prev = SubSeq(h, 1, s - 1) /\ rows[s].hash = SubSeq(h, 1, s)
      /\ rows[s].record = IF damage[s] = "none" THEN h[s] ELSE Forged
  BY ChainFacts
<1>2. Before(rows, s) = s - 1 /\ HashAt(rows, s - 1) = SubSeq(h, 1, s - 1)
  BY <1>1, ComparedWith
<1> HIDE DEF h
<1>3. s \in 1 .. Len(h) /\ s - 1 \in 0 .. Len(h) /\ s = (s - 1) + 1
  BY <1>1
<1>4. Append(SubSeq(h, 1, s - 1), h[s]) = SubSeq(h, 1, s)
  BY <1>1, <1>3, PrefixLink
<1>5. Append(SubSeq(h, 1, s - 1), Forged) # SubSeq(h, 1, s)
  <2>1. h[s] # Forged
    BY <1>1, <1>3, ChainConstants
  <2>2. SubSeq(h, 1, s - 1) \in Seq(Records) /\ Len(SubSeq(h, 1, s - 1)) = s - 1
    BY <1>1, <1>3, Prefix
  <2>3. Append(SubSeq(h, 1, s - 1), Forged)[s] = Forged
        /\ Append(SubSeq(h, 1, s - 1), h[s])[s] = h[s]
    BY <1>1, <1>3, <2>2
  <2> QED BY <1>4, <2>1, <2>3
<1>6. Broken(rows, s) <=> rows[s].hash # Append(SubSeq(h, 1, s - 1), rows[s].record)
  BY <1>1, <1>2, <1>3 DEF Broken, ChainHash
<1> QED BY <1>1, <1>4, <1>5, <1>6

BrokenRows == {s \in Present(rows) : Broken(rows, s)}

\* The walk stops at the first damage that shows, and without it the head tells.
LEMMA WalkVerdict ==
    ASSUME ChainShape
    PROVE  /\ BrokenRows # {} => Damaged # {} /\ Min(BrokenRows) = FirstBad
           /\ BrokenRows = {} =>
                IF Damaged = {} THEN Highest(rows) = head.seq
                ELSE Highest(rows) # head.seq /\ Highest(rows) + 1 = FirstBad
<1>1. /\ head.seq \in Nat /\ MaxSeq \in Nat /\ head.seq <= MaxSeq
      /\ \A s \in Seqs : s \in Nat /\ s >= 1
      /\ Present(rows) = {s \in Seqs : s <= head.seq /\ damage[s] # "deleted"}
      /\ \A s \in Seqs : damage[s] # "none" => s <= head.seq
      /\ \A s \in Seqs : damage[s] \in {"none", "altered", "deleted"}
  BY ChainFacts
<1>2. BrokenRows \in SUBSET Nat /\ Damaged \in SUBSET Nat /\ Present(rows) \in SUBSET Nat
  BY <1>1 DEF BrokenRows, Damaged
<1>3. CASE Damaged = {}
  <2>1. \A s \in Seqs : damage[s] = "none"
    BY <1>3 DEF Damaged
  <2>2. BrokenRows = {}
    BY <1>1, <2>1, LinkHolds DEF BrokenRows
  <2>3. Highest(rows) = head.seq
    <3> DEFINE S == {0} \cup Present(rows)
    <3>1. S \in SUBSET Nat /\ \A x \in S : x <= head.seq
      BY <1>1
    <3>2. head.seq \in S
      BY <1>1, <2>1 DEF Seqs
    <3> HIDE DEF S
    <3>3. Max(S) = head.seq
      BY <3>1, <3>2, MaxIs
    <3> QED BY <3>3 DEF S, Highest
  <2> QED BY <1>3, <2>2, <2>3
<1>4. CASE Damaged # {}
  <2> DEFINE s0 == Min(Damaged)
  <2>1. s0 \in Damaged /\ \A t \in Damaged : s0 <= t
    BY <1>2, <1>4, MinIsMinimal
  <2> HIDE DEF s0
  <2>2. /\ s0 \in Seqs /\ s0 \in Nat /\ s0 >= 1 /\ s0 <= head.seq
        /\ damage[s0] \in {"altered", "deleted"}
    BY <1>1, <2>1 DEF Damaged
  <2>3. \A t \in Seqs : t < s0 => damage[t] = "none" /\ t \in Present(rows)
    BY <1>1, <2>1, <2>2 DEF Damaged
  <2>4. ASSUME NEW t \in BrokenRows PROVE t \in Present(rows) /\ t \in Nat /\ t >= s0
    <3>1. t \in Present(rows) /\ Broken(rows, t) /\ t \in Seqs /\ t \in Nat
      BY <1>1 DEF BrokenRows
    <3>2. SUFFICES ASSUME t < s0 PROVE FALSE
      BY <2>2, <3>1
    <3>3. damage[t] = "none" /\ \A u \in Seqs : u < t => damage[u] = "none"
      BY <1>1, <2>2, <2>3, <3>1, <3>2
    <3> QED BY <3>1, <3>3, LinkHolds
  <2>5. CASE damage[s0] = "altered"
    <3>1. s0 \in Present(rows)
      BY <1>1, <2>2, <2>5
    <3>2. s0 \in BrokenRows
      BY <2>3, <2>5, <3>1, LinkHolds DEF BrokenRows
    <3>3. Min(BrokenRows) = s0
      BY <1>2, <2>4, <3>2, MinIs
    <3>4. FirstBad = s0
      BY <2>5 DEF FirstBad, s0
    <3> QED BY <1>4, <3>2, <3>3, <3>4
  <2>6. CASE damage[s0] = "deleted"
    <3> DEFINE after == {t \in Present(rows) : t > s0}
    <3>1. s0 \notin Present(rows)
      BY <1>1, <2>6
    <3>2. CASE after # {}
      <4> DEFINE t0 == Min(after)
      <4>1. t0 \in after /\ \A t \in after : t0 <= t
        <5>1. after \in SUBSET Nat
          BY <1>2
        <5> HIDE DEF after
        <5> QED BY <3>2, <5>1, MinIsMinimal
      <4>2. FirstBad = t0
        BY <2>6, <3>2 DEF FirstBad, s0
      <4> HIDE DEF t0
      <4>3. t0 \in Present(rows) /\ t0 > s0 /\ t0 \in Nat
        BY <1>2, <4>1
      <4>4. Broken(rows, t0)
        <5> DEFINE S == {0} \cup {p \in Present(rows) : p < t0}
        <5>1. S \in SUBSET Nat /\ S # {} /\ \A x \in S : x <= t0
          BY <1>2, <4>3
        <5>2. Max(S) \in S
          <6> HIDE DEF S
          <6> QED BY <4>3, <5>1, MaxIsMaximal
        <5>3. ASSUME NEW x \in S PROVE x < s0
          <6>1. CASE x = 0
            BY <2>2, <6>1
          <6>2. CASE x \in Present(rows) /\ x < t0
            <7>1. x \notin after
              BY <1>2, <4>1, <4>3, <6>2
            <7> QED BY <1>2, <2>2, <3>1, <6>2, <7>1
          <6> QED BY <6>1, <6>2
        <5>4. Max(S) < s0 /\ Max(S) \in Nat
          <6> HIDE DEF S
          <6> QED BY <5>1, <5>2, <5>3
        <5>5. Before(rows, t0) = Max(S)
          BY DEF Before
        <5>6. t0 # Before(rows, t0) + 1
          BY <2>2, <4>3, <5>4, <5>5
        <5> QED BY <5>6 DEF Broken
      <4>5. t0 \in BrokenRows
        BY <4>3, <4>4 DEF BrokenRows
      <4>6. \A t \in BrokenRows : t0 <= t
        <5> SUFFICES ASSUME NEW t \in BrokenRows PROVE t \in after
          BY <4>1
        <5>1. t \in Present(rows) /\ t \in Nat /\ t >= s0 /\ t # s0
          BY <2>4, <3>1
        <5> QED BY <2>2, <5>1
      <4>7. Min(BrokenRows) = t0
        BY <1>2, <4>5, <4>6, MinIs
      <4> QED BY <1>4, <4>2, <4>5, <4>7
    <3>3. CASE after = {}
      <4>1. BrokenRows = {}
        <5> SUFFICES ASSUME NEW t \in BrokenRows PROVE FALSE
          OBVIOUS
        <5>1. t \in Present(rows) /\ t \in Nat /\ t >= s0 /\ t # s0
          BY <2>4, <3>1
        <5>2. t \in after
          BY <2>2, <5>1
        <5> QED BY <3>3, <5>2
      <4>2. FirstBad = s0
        BY <2>6, <3>3 DEF FirstBad, s0
      <4>3. Highest(rows) = s0 - 1
        <5> DEFINE S == {0} \cup Present(rows)
        <5>1. S \in SUBSET Nat
          BY <1>2
        <5>2. ASSUME NEW x \in S PROVE x <= s0 - 1
          <6>1. CASE x = 0
            BY <2>2, <6>1
          <6>2. CASE x \in Present(rows)
            <7>1. x \in Nat /\ ~ (x > s0) /\ x # s0
              BY <1>2, <3>1, <3>3, <6>2
            <7> QED BY <2>2, <7>1
          <6> QED BY <6>1, <6>2
        <5>3. s0 - 1 \in S
          <6>1. CASE s0 = 1
            BY <6>1
          <6>2. CASE s0 # 1
            <7>1. s0 - 1 \in Seqs /\ s0 - 1 < s0
              BY <1>1, <2>2, <6>2 DEF Seqs
            <7> QED BY <2>3, <7>1
          <6> QED BY <6>1, <6>2
        <5> HIDE DEF S
        <5>4. Max(S) = s0 - 1
          BY <5>1, <5>2, <5>3, MaxIs
        <5> QED BY <5>4 DEF S, Highest
      <4> QED BY <1>1, <1>4, <2>2, <4>1, <4>2, <4>3
    <3> QED BY <3>2, <3>3
  <2> QED BY <2>2, <2>5, <2>6
<1> QED BY <1>3, <1>4

-----------------------------------------------------------------------------
(* The audit chain: the invariant *)

\* What a verify_chain() under way knows, if nothing was appended meanwhile.
VerifyInv ==
    /\ verify \in Verification
    /\ verify.pc \in {"walked", "headRead"} /\ ~ verify.raced => BrokenRows = {}
    /\ verify.pc = "headRead" /\ ~ verify.raced => verify.head = head.seq
    /\ VerdictIsRight

ChainInv == ChainShape /\ VerifyInv

LEMMA UnverifiedIsFine ==
    ASSUME NEW v, v = Unverified
    PROVE  v \in Verification /\ v.pc = "idle"
BY ChainConstants DEF Unverified, Verification

LEMMA ChainInvInit == ChainInit => ChainInv
<1> SUFFICES ASSUME ChainInit PROVE ChainInv
  OBVIOUS
<1>1. MaxSeq \in Nat /\ \A s \in Seqs : s \in Nat /\ s >= 1 /\ s > 0
  BY ChainConstants DEF Seqs
<1>2. /\ rows = [s \in Seqs |-> NoAuditRow] /\ head.seq = 0 /\ head.hash = <<>>
      /\ damage = [s \in Seqs |-> "none"]
  BY DEF ChainInit
<1>3. AsWritten(rows, damage, head.seq, head.hash)
  <2> SUFFICES ASSUME NEW s \in Seqs
               PROVE  s > head.seq /\ damage[s] = "none" /\ rows[s] = NoAuditRow
    BY Zenon DEF AsWritten
  <2> QED BY <1>1, <1>2
<1>4. WrittenOnce(damage, head.seq, head.hash)
  BY <1>1, <1>2 DEF WrittenOnce
<1>5. ChainShape
  <2>1. damage \in [Seqs -> {"none", "altered", "deleted"}]
    BY <1>2
  <2>2. head.seq \in 0 .. MaxSeq /\ head.hash \in Seq(Records) /\ Len(head.hash) = head.seq
    BY <1>1, <1>2
  <2>3. DOMAIN rows = Seqs
    BY <1>2
  <2> QED BY <1>3, <1>4, <2>1, <2>2, <2>3 DEF ChainShape
<1>6. verify \in Verification /\ verify.pc = "idle"
  BY UnverifiedIsFine DEF ChainInit
<1>7. VerifyInv
  BY <1>6 DEF VerifyInv, VerdictIsRight
<1> QED BY <1>5, <1>7 DEF ChainInv

\* A row changed behind the program's back is what damage says it is.
LEMMA ShapeDamage ==
    ASSUME ChainShape, NEW s \in Seqs, Alter(s) \/ Delete(s)
    PROVE  ChainShape'
<1> DEFINE h == head.hash
           k == head.seq
<1>1. /\ h \in Seq(Records) /\ Len(h) = k /\ k \in 0 .. MaxSeq /\ k \in Nat
      /\ MaxSeq \in Nat /\ \A t \in Seqs : t \in Nat /\ t >= 1
      /\ damage \in [Seqs -> {"none", "altered", "deleted"}]
      /\ AsWritten(rows, damage, k, h) /\ WrittenOnce(damage, k, h)
  BY ChainFacts DEF ChainShape
<1>2. PICK kind, new :
         /\ kind \in {"altered", "deleted"}
         /\ Damage(s, kind, new)
         /\ kind = "altered" => new = [rows[s] EXCEPT !.record = Forged]
         /\ kind = "deleted" => new = NoAuditRow
  BY DEF Alter, Delete
<1>3. /\ s \in Present(rows) /\ head' = head
      /\ rows' = [rows EXCEPT ![s] = new] /\ damage' = [damage EXCEPT ![s] = kind]
  BY <1>2 DEF Damage
<1>4. /\ s <= k /\ damage[s] # "deleted"
      /\ rows[s] = WrittenRow(h, s, IF damage[s] = "none" THEN h[s] ELSE Forged)
  BY <1>1, <1>3, WrittenFacts
<1>5. new = CASE kind = "none" -> WrittenRow(h, s, h[s])
              [] kind = "altered" -> WrittenRow(h, s, Forged)
              [] kind = "deleted" -> NoAuditRow
  <2>1. CASE kind = "altered"
    <3> DEFINE r == IF damage[s] = "none" THEN h[s] ELSE Forged
               p == SubSeq(h, 1, s - 1)
               q == SubSeq(h, 1, s)
    <3>1. rows[s] = [record |-> r, prev |-> p, hash |-> q]
      BY <1>4, Zenon DEF WrittenRow
    <3> HIDE DEF r, p, q
    <3>2. new = [record |-> Forged, prev |-> p, hash |-> q]
      BY <1>2, <2>1, <3>1
    <3> QED BY <2>1, <3>2 DEF WrittenRow, p, q
  <2>2. CASE kind = "deleted"
    BY <1>2, <2>2
  <2> QED BY <1>2, <2>1, <2>2
<1>6. damage' \in [Seqs -> {"none", "altered", "deleted"}]
      /\ damage'[s] = kind /\ \A t \in Seqs : t # s => damage'[t] = damage[t]
  BY <1>1, <1>2, <1>3
<1>7. \A t \in Seqs : rows'[t] = IF t = s THEN new ELSE rows[t]
  <2> SUFFICES DOMAIN rows = Seqs
    BY <1>3
  <2> QED BY DEF ChainShape
<1>8. AsWritten(rows', damage', k, h)
  <2> SUFFICES ASSUME NEW t \in Seqs
               PROVE  IF t > k THEN damage'[t] = "none" /\ rows'[t] = NoAuditRow
                      ELSE rows'[t] = CASE damage'[t] = "none" -> WrittenRow(h, t, h[t])
                                        [] damage'[t] = "altered" -> WrittenRow(h, t, Forged)
                                        [] damage'[t] = "deleted" -> NoAuditRow
    BY Zenon DEF AsWritten
  <2>1. CASE t = s
    <3>1. ~ (t > k) /\ damage'[t] = kind /\ rows'[t] = new
      BY <1>1, <1>4, <1>6, <1>7, <2>1
    <3> QED BY <1>5, <2>1, <3>1
  <2>2. CASE t # s
    <3>1. damage'[t] = damage[t] /\ rows'[t] = rows[t]
      BY <1>6, <1>7, <2>2
    <3>2. IF t > k THEN damage[t] = "none" /\ rows[t] = NoAuditRow
          ELSE rows[t] = CASE damage[t] = "none" -> WrittenRow(h, t, h[t])
                           [] damage[t] = "altered" -> WrittenRow(h, t, Forged)
                           [] damage[t] = "deleted" -> NoAuditRow
      BY <1>1, Zenon DEF AsWritten
    <3> QED BY <3>1, <3>2
  <2> QED BY <2>1, <2>2
<1>9. WrittenOnce(damage', k, h)
  <2>1. \A t \in Seqs : damage'[t] # "deleted" => damage[t] # "deleted"
    BY <1>4, <1>6
  <2> QED BY <1>1, <2>1 DEF WrittenOnce
<1>10. DOMAIN rows' = Seqs
  BY <1>3 DEF ChainShape
<1> QED BY <1>1, <1>3, <1>6, <1>8, <1>9, <1>10 DEF ChainShape

\* The steps that leave the table alone keep its shape.
LEMMA ShapeStays ==
    ASSUME ChainShape, UNCHANGED <<rows, head, damage>>
    PROVE  ChainShape' /\ BrokenRows' = BrokenRows
BY DEF ChainShape, AsWritten, WrittenOnce, BrokenRows, Present, Broken, Before, HashAt

\* After a step that drops the result, or spoils it, there is nothing to answer for.
LEMMA NothingToAnswer ==
    ASSUME verify' \in Verification, verify'.pc = "idle" \/ verify'.raced,
           verify'.pc = "idle" \/ verify'.pc # "done"
    PROVE  VerifyInv'
BY DEF VerifyInv, VerdictIsRight

LEMMA ChainInvNext == ChainInv /\ [ChainNext]_chainVars => ChainInv'
<1> SUFFICES ASSUME ChainInv, [ChainNext]_chainVars PROVE ChainInv'
  OBVIOUS
<1>1. ChainShape /\ VerifyInv /\ verify \in Verification /\ MaxSeq \in Nat
  BY ChainConstants DEF ChainInv, VerifyInv
<1>2. ASSUME NEW batch \in Batches, AppendBatch(batch) PROVE ChainInv'
  <2>1. ChainShape'
    BY <1>1, <1>2, ShapeAppend
  <2>2. verify' = IF verify.pc \in {"walked", "headRead"}
                  THEN [verify EXCEPT !.raced = TRUE] ELSE Unverified
    BY <1>2 DEF AppendBatch
  <2>3. CASE verify.pc \in {"walked", "headRead"}
    <3>1. verify' = [verify EXCEPT !.raced = TRUE]
      BY <2>2, <2>3
    <3>2. verify' \in Verification /\ verify'.raced /\ verify'.pc # "done"
      BY <1>1, <2>3, <3>1 DEF Verification
    <3> QED BY <2>1, <3>2, NothingToAnswer DEF ChainInv
  <2>4. CASE verify.pc \notin {"walked", "headRead"}
    <3>1. verify' \in Verification /\ verify'.pc = "idle"
      BY <2>2, <2>4, UnverifiedIsFine
    <3> QED BY <2>1, <3>1, NothingToAnswer DEF ChainInv
  <2> QED BY <2>3, <2>4
<1>3. ASSUME NEW s \in Seqs, Alter(s) \/ Delete(s) PROVE ChainInv'
  <2>1. ChainShape'
    BY <1>1, <1>3, ShapeDamage
  <2>2. verify' = Unverified
    BY <1>3 DEF Alter, Delete, Damage
  <2>3. verify' \in Verification /\ verify'.pc = "idle"
    BY <2>2, UnverifiedIsFine
  <2> QED BY <2>1, <2>3, NothingToAnswer DEF ChainInv
<1>4. ASSUME UNCHANGED <<rows, head, damage>>
      PROVE  /\ ChainShape' /\ BrokenRows' = BrokenRows
             /\ Damaged' = Damaged /\ FirstBad' = FirstBad
  BY <1>1, <1>4, ShapeStays DEF Damaged, FirstBad, Present
<1>5. CASE VerifyWalk
  <2>1. /\ UNCHANGED <<rows, head, damage>>
        /\ verify' = IF BrokenRows = {} THEN [Unverified EXCEPT !.pc = "walked"]
                     ELSE [Unverified EXCEPT !.pc = "done", !.bad = Min(BrokenRows)]
    BY <1>5 DEF VerifyWalk, BrokenRows
  <2>2. ChainShape' /\ BrokenRows' = BrokenRows /\ Damaged' = Damaged /\ FirstBad' = FirstBad
    BY <1>4, <2>1
  <2>3. CASE BrokenRows = {}
    <3>1. verify' = [pc |-> "walked", bad |-> 0, head |-> 0, raced |-> FALSE]
      BY <2>1, <2>3 DEF Unverified
    <3>2. verify' \in Verification /\ verify'.pc = "walked"
      BY <1>1, <3>1 DEF Verification
    <3> QED BY <2>2, <2>3, <3>2 DEF ChainInv, VerifyInv, VerdictIsRight
  <2>4. CASE BrokenRows # {}
    <3>1. Damaged # {} /\ Min(BrokenRows) = FirstBad
      BY <1>1, <2>4, WalkVerdict
    <3>2. Min(BrokenRows) \in BrokenRows
      <4>1. BrokenRows \in SUBSET Nat
        BY <1>1, ChainFacts DEF BrokenRows
      <4> QED BY <2>4, <4>1, MinIsMinimal
    <3>3. Min(BrokenRows) \in 0 .. MaxSeq + 1
      BY <1>1, <3>2 DEF BrokenRows, Present, Seqs
    <3>4. verify' = [pc |-> "done", bad |-> Min(BrokenRows), head |-> 0, raced |-> FALSE]
      BY <2>1, <2>4 DEF Unverified
    <3>5. verify' \in Verification
      BY <1>1, <3>3, <3>4 DEF Verification
    <3>6. verify'.pc = "done" /\ verify'.bad = FirstBad
      BY <3>1, <3>4
    <3>7. VerdictIsRight'
      BY <2>2, <3>1, <3>6 DEF VerdictIsRight
    <3> QED BY <2>2, <3>5, <3>6, <3>7 DEF ChainInv, VerifyInv
  <2> QED BY <2>3, <2>4
<1>6. CASE VerifyHead
  <2>1. /\ verify.pc = "walked" /\ UNCHANGED <<rows, head, damage>>
        /\ verify' = [verify EXCEPT !.pc = "headRead", !.head = head.seq]
    BY <1>6 DEF VerifyHead
  <2>2. ChainShape' /\ BrokenRows' = BrokenRows
    BY <1>4, <2>1
  <2>3. /\ verify' \in Verification /\ verify'.pc = "headRead"
        /\ verify'.head = head.seq /\ verify'.raced = verify.raced
    <3>1. head.seq \in 0 .. MaxSeq
      BY <1>1, ChainFacts
    <3> QED BY <1>1, <2>1, <3>1 DEF Verification
  <2>4. ~ verify.raced => BrokenRows = {}
    BY <1>1, <2>1 DEF VerifyInv
  <2> QED BY <2>1, <2>2, <2>3, <2>4 DEF ChainInv, VerifyInv, VerdictIsRight
<1>7. CASE VerifyHighest
  <2> DEFINE answer == IF verify.head # Highest(rows) THEN Highest(rows) + 1 ELSE 0
  <2>1. /\ verify.pc = "headRead" /\ UNCHANGED <<rows, head, damage>>
        /\ verify' = [verify EXCEPT !.pc = "done", !.head = 0, !.bad = answer]
    BY <1>7 DEF VerifyHighest
  <2>2. ChainShape' /\ BrokenRows' = BrokenRows /\ Damaged' = Damaged /\ FirstBad' = FirstBad
    BY <1>4, <2>1
  <2>3. answer \in 0 .. MaxSeq + 1
    <3> DEFINE S == {0} \cup Present(rows)
    <3>1. S \in SUBSET Nat /\ S # {} /\ \A x \in S : x <= MaxSeq
      BY <1>1, ChainFacts DEF Present, Seqs
    <3>2. Max(S) \in S
      <4> HIDE DEF S
      <4> QED BY <1>1, <3>1, MaxIsMaximal
    <3>3. Highest(rows) \in Nat /\ Highest(rows) <= MaxSeq
      BY <3>1, <3>2 DEF Highest
    <3> QED BY <1>1, <3>3
  <2> HIDE DEF answer
  <2>4. /\ verify' \in Verification /\ verify'.pc = "done"
        /\ verify'.bad = answer /\ verify'.raced = verify.raced
    <3>1. 0 \in 0 .. MaxSeq
      BY <1>1
    <3>2. /\ verify.raced \in BOOLEAN
          /\ verify = [pc |-> verify.pc, bad |-> verify.bad, head |-> verify.head,
                       raced |-> verify.raced]
      BY <1>1 DEF Verification
    <3>3. verify' = [pc |-> "done", bad |-> answer, head |-> 0, raced |-> verify.raced]
      BY <2>1, <3>2
    <3>4. verify' \in Verification
      BY <2>3, <3>1, <3>2, <3>3 DEF Verification
    <3> QED BY <3>3, <3>4
  <2>5. ~ verify.raced => answer = IF Damaged = {} THEN 0 ELSE FirstBad
    <3> SUFFICES ASSUME ~ verify.raced PROVE answer = IF Damaged = {} THEN 0 ELSE FirstBad
      OBVIOUS
    <3>1. BrokenRows = {} /\ verify.head = head.seq
      BY <1>1, <2>1 DEF VerifyInv
    <3> QED BY <1>1, <3>1, WalkVerdict DEF answer
  <2>6. VerdictIsRight'
    BY <2>2, <2>4, <2>5 DEF VerdictIsRight
  <2> QED BY <2>2, <2>4, <2>6 DEF ChainInv, VerifyInv
<1>8. CASE UNCHANGED chainVars
  <2>1. UNCHANGED <<rows, head, damage>> /\ verify' = verify
    BY <1>8 DEF chainVars
  <2>2. /\ ChainShape' /\ BrokenRows' = BrokenRows
        /\ Damaged' = Damaged /\ FirstBad' = FirstBad
    BY <1>4, <2>1
  <2> QED BY <1>1, <2>1, <2>2 DEF ChainInv, VerifyInv, VerdictIsRight
<1> QED BY <1>2, <1>3, <1>5, <1>6, <1>7, <1>8 DEF ChainNext

\* An undamaged table that is as written is one intact chain.
LEMMA ShapeIsIntact == ChainShape => OneIntactChain
<1> SUFFICES ASSUME ChainShape, Damaged = {}
             PROVE  /\ Present(rows) = 1 .. head.seq
                    /\ \A s \in Present(rows) : ~ Broken(rows, s)
                    /\ head.hash = HashAt(rows, head.seq)
                    /\ \A s, t \in Present(rows) : rows[s].record = rows[t].record => s = t
  BY DEF OneIntactChain
<1>1. \A s \in Seqs : damage[s] = "none"
  BY DEF Damaged
<1>2. /\ head.hash \in Seq(Records) /\ Len(head.hash) = head.seq
      /\ head.seq \in Nat /\ head.seq <= MaxSeq /\ MaxSeq \in Nat
      /\ Present(rows) = {s \in Seqs : s <= head.seq}
      /\ \A s \in Present(rows) : rows[s].record = head.hash[s]
      /\ \A s \in Present(rows) : rows[s].hash = SubSeq(head.hash, 1, s)
  BY <1>1, ChainFacts
<1>3. Present(rows) = 1 .. head.seq
  BY <1>2 DEF Seqs
<1>4. \A s \in Present(rows) : ~ Broken(rows, s)
  BY <1>1, <1>2, LinkHolds
<1>5. head.hash = HashAt(rows, head.seq)
  <2>1. CASE head.seq = 0
    BY <1>2, <2>1, EmptySeq DEF HashAt
  <2>2. CASE head.seq # 0
    <3>1. head.seq \in Present(rows)
      BY <1>2, <1>3, <2>2
    <3>2. SubSeq(head.hash, 1, head.seq) = head.hash
      BY <1>2, SubSeqFull
    <3> QED BY <1>2, <2>2, <3>1, <3>2 DEF HashAt
  <2> QED BY <2>1, <2>2
<1>6. \A s, t \in Present(rows) : rows[s].record = rows[t].record => s = t
  <2> SUFFICES ASSUME NEW s \in Present(rows), NEW t \in Present(rows),
                      rows[s].record = rows[t].record
               PROVE  s = t
    OBVIOUS
  <2>1. /\ s \in Seqs /\ t \in Seqs /\ s <= head.seq /\ t <= head.seq
        /\ head.hash[s] = head.hash[t]
    BY <1>2
  <2>2. damage[s] # "deleted" /\ damage[t] # "deleted"
    BY <1>1, <2>1
  <2> QED BY <2>1, <2>2 DEF ChainShape, WrittenOnce
<1> QED BY <1>3, <1>4, <1>5, <1>6

\* Concurrent and repeated calls of append() build one chain, whatever the batches:
\* no seq is missing, every row links to the one before it, the head is the last
\* of them and no record is chained twice.
THEOREM ChainOneIntactChain == ChainSpec => []OneIntactChain
<1>1. ChainInv => OneIntactChain
  BY ShapeIsIntact DEF ChainInv
<1> QED BY <1>1, ChainInvInit, ChainInvNext, PTL DEF ChainSpec

\* verify_chain() answers None exactly on a chain that is as it was written, and
\* otherwise the first seq where a change shows, unless appends commit between its
\* three reads.
THEOREM ChainVerdictIsRight == ChainSpec => []VerdictIsRight
<1>1. ChainInv => VerdictIsRight
  BY DEF ChainInv, VerifyInv
<1> QED BY <1>1, ChainInvInit, ChainInvNext, PTL DEF ChainSpec

-----------------------------------------------------------------------------
(* The identity tree: a diff is exact *)

\* A block's id is its signature and is in one chain only: agents of one name whose last
\* blocks agree have the same chain.
BlockInOneChain ==
    \A r, q \in Content : Key(Told[r]) = Key(Told[q]) => Told[r].chain = Told[q].chain

\* Nodes as build_tree() makes them: each from a record, and one for each agent and chain.
IsTree(nodes) ==
    /\ \A n \in nodes : \E r \in Content : n.agent = Told[r].agent /\ n.chain = Told[r].chain
    /\ \A n, m \in nodes : n.agent = m.agent /\ n.chain = m.chain => n = m

\* Rows that were read hold records.
IsRead(table) == \A s \in Present(table) : table[s].record \in Content

LEMMA TreeNodeIs ==
    ASSUME NEW table, NEW s, NEW revoked, NEW pending
    PROVE  /\ TreeNode(table, s, revoked, pending).agent = Told[table[s].record].agent
           /\ TreeNode(table, s, revoked, pending).chain = Told[table[s].record].chain
BY DEF TreeNode

LEMMA BuildIsTree ==
    ASSUME NEW table, IsRead(table), NEW revoked, NEW pending
    PROVE  IsTree(build_tree(table, revoked, pending))
<1> DEFINE node(s) == TreeNode(table, s, revoked, pending)
           all == {node(s) : s \in LatestRecords(table)}
           built == build_tree(table, revoked, pending)
<1>1. LatestRecords(table) \subseteq Present(table) /\ \A s \in Present(table) : s \in Nat
  BY ChainConstants DEF LatestRecords, Present, Seqs
<1>2. built \subseteq all
  BY DEF build_tree, _current_generation
<1>3. \A s \in LatestRecords(table) : /\ node(s).agent = Told[table[s].record].agent
                                      /\ node(s).chain = Told[table[s].record].chain
  BY TreeNodeIs
<1> HIDE DEF built, node
<1>4. ASSUME NEW n \in built
      PROVE  \E r \in Content : n.agent = Told[r].agent /\ n.chain = Told[r].chain
  <2>1. PICK s \in LatestRecords(table) : n = node(s)
    BY <1>2
  <2>2. table[s].record \in Content
    BY <1>1 DEF IsRead
  <2> QED BY <1>3, <2>1, <2>2
<1>5. ASSUME NEW n \in built, NEW m \in built, n.agent = m.agent, n.chain = m.chain
      PROVE  n = m
  <2>1. PICK s \in LatestRecords(table) : n = node(s)
    BY <1>2
  <2>2. PICK t \in LatestRecords(table) : m = node(t)
    BY <1>2
  <2>3. /\ Told[table[t].record].agent = Told[table[s].record].agent
        /\ Told[table[t].record].chain = Told[table[s].record].chain
    BY <1>3, <1>5, <2>1, <2>2
  <2>4. ~ (t > s) /\ ~ (s > t)
    BY <1>1, <2>3 DEF LatestRecords
  <2>5. s = t
    BY <1>1, <2>4
  <2> QED BY <2>1, <2>2, <2>5
<1> QED BY <1>4, <1>5 DEF IsTree, built

\* In trees of one task the last block tells nodes of one name apart.
LEMMA KeyTells ==
    ASSUME BlockInOneChain, NEW old, IsTree(old), NEW new, IsTree(new),
           NEW n \in old, NEW m \in new, Key(n) = Key(m)
    PROVE  n.agent = m.agent /\ n.chain = m.chain
<1>1. PICK r \in Content : n.agent = Told[r].agent /\ n.chain = Told[r].chain
  BY DEF IsTree
<1>2. PICK q \in Content : m.agent = Told[q].agent /\ m.chain = Told[q].chain
  BY DEF IsTree
<1>3. Key(n) = Key(Told[r]) /\ Key(m) = Key(Told[q])
  BY <1>1, <1>2 DEF Key
<1>4. Told[r].chain = Told[q].chain
  BY <1>3 DEF BlockInOneChain
<1>5. n.agent = m.agent
  BY DEF Key
<1> QED BY <1>1, <1>2, <1>4, <1>5

\* The dicts of build_tree_diff() lose no node.
LEMMA ByKeyIsAll ==
    ASSUME BlockInOneChain, NEW nodes, IsTree(nodes)
    PROVE  ByKey(nodes) = nodes /\ \A n, m \in nodes : Key(n) = Key(m) => n = m
<1>1. ASSUME NEW n \in nodes, NEW m \in nodes, Key(n) = Key(m) PROVE n = m
  <2>1. n.agent = m.agent /\ n.chain = m.chain
    BY <1>1, KeyTells
  <2> QED BY <2>1 DEF IsTree
<1>2. ASSUME NEW n \in nodes PROVE n = CHOOSE m \in nodes : Key(m) = Key(n)
  <2> DEFINE c == CHOOSE m \in nodes : Key(m) = Key(n)
  <2>1. c \in nodes /\ Key(c) = Key(n)
    OBVIOUS
  <2> HIDE DEF c
  <2>2. c = n
    BY <1>1, <2>1
  <2> QED BY <2>2 DEF c
<1>3. ByKey(nodes) = nodes
  BY <1>2, Zenon DEF ByKey
<1> QED BY <1>1, <1>3

\* What a page holds after it was told of a diff d, going by agents and chains.
Updated(old, d) ==
    {n \in old : ~ \E m \in d.changed \cup d.removed : n.agent = m.agent /\ n.chain = m.chain}
        \cup d.added \cup d.changed

LEMMA DiffUpdates ==
    ASSUME BlockInOneChain, NEW old, IsTree(old), NEW new, IsTree(new),
           NEW d, d = build_tree_diff(old, new)
    PROVE  Updated(old, d) = new
<1> DEFINE keys(S) == {Key(n) : n \in S}
<1>1. ByKey(old) = old /\ \A n, m \in old : Key(n) = Key(m) => n = m
  BY ByKeyIsAll
<1>2. ByKey(new) = new /\ \A n, m \in new : Key(n) = Key(m) => n = m
  BY ByKeyIsAll
<1>3. /\ d.added = {n \in new : Key(n) \notin keys(old)}
      /\ d.changed = {n \in new : Key(n) \in keys(old) /\ n \notin old}
      /\ d.removed = {n \in old : Key(n) \notin keys(new)}
  BY <1>1, <1>2 DEF build_tree_diff
<1>4. \A n, m : n.agent = m.agent /\ n.chain = m.chain => Key(n) = Key(m)
  BY DEF Key
<1>5. ASSUME NEW n \in old,
             ~ \E m \in d.changed \cup d.removed : n.agent = m.agent /\ n.chain = m.chain
      PROVE  n \in new
  <2>1. n \notin d.removed
    BY <1>5
  <2>2. PICK m \in new : Key(m) = Key(n)
    BY <1>3, <2>1
  <2>3. n.agent = m.agent /\ n.chain = m.chain
    BY <2>2, KeyTells
  <2>4. m \in old
    BY <1>3, <1>5, <2>2, <2>3
  <2> QED BY <1>1, <2>2, <2>4
<1>6. ASSUME NEW n \in new, n \notin d.added, n \notin d.changed,
             NEW m \in d.changed \cup d.removed, n.agent = m.agent, n.chain = m.chain
      PROVE  FALSE
  <2>1. Key(n) = Key(m)
    BY <1>4, <1>6
  <2>2. CASE m \in d.changed
    BY <1>2, <1>3, <1>6, <2>1, <2>2
  <2>3. CASE m \in d.removed
    BY <1>3, <2>1, <2>3
  <2> QED BY <1>6, <2>2, <2>3
<1>7. \A n \in new : n \notin d.added /\ n \notin d.changed => n \in old
  BY <1>3
<1>8. d.added \subseteq new /\ d.changed \subseteq new
  BY <1>3
<1>9. Updated(old, d) \subseteq new
  BY <1>5, <1>8 DEF Updated
<1>10. new \subseteq Updated(old, d)
  BY <1>6, <1>7 DEF Updated
<1> QED BY <1>9, <1>10

TreeInv ==
    /\ ChainInv
    /\ DOMAIN stream = {"pc", "table", "revoked", "last"}
    /\ IsRead(stream.table) /\ IsTree(stream.last)

LEMMA RowsAreRead ==
    ASSUME ChainShape
    PROVE  IsRead(rows)
<1> SUFFICES ASSUME NEW s \in Present(rows) PROVE rows[s].record \in Content
  BY DEF IsRead
<1>1. /\ rows[s].record = IF damage[s] = "none" THEN head.hash[s] ELSE Forged
      /\ s \in Nat /\ 1 <= s /\ s <= Len(head.hash) /\ head.hash \in Seq(Records)
  BY ChainFacts
<1> QED BY <1>1 DEF Content

LEMMA IdleIs == DOMAIN Idle = {"pc", "table", "revoked", "last"} /\ IsRead(Idle.table) /\ IsTree(Idle.last)
<1>1. Idle.last = {} /\ Idle.table = [s \in Seqs |-> NoAuditRow]
  BY DEF Idle
<1>2. Present(Idle.table) = {}
  BY <1>1 DEF Present
<1> QED BY <1>1, <1>2 DEF IsRead, IsTree, Idle

LEMMA BuiltIsTree ==
    ASSUME TreeInv
    PROVE  IsTree(Built)
<1>1. IsTree({})
  BY DEF IsTree
<1>2. IsRead(stream.table)
  BY DEF TreeInv
<1> QED BY <1>1, <1>2, BuildIsTree DEF Built

LEMMA SentInv ==
    ASSUME TreeInv, NEW first, Sent(Built, first), UNCHANGED chainVars
    PROVE  TreeInv'
<1>1. ChainInv'
  BY ChainInvNext DEF TreeInv
<1> DEFINE nodes == Built
<1>2. IsTree(nodes)
  BY BuiltIsTree
<1>3. stream' = [stream EXCEPT !.pc = "open", !.last = nodes, !.table = Idle.table, !.revoked = {}]
  BY DEF Sent
<1> HIDE DEF nodes
<1>4. /\ DOMAIN stream' = {"pc", "table", "revoked", "last"} /\ stream'.last = nodes
      /\ stream'.table = Idle.table
  BY <1>3 DEF TreeInv
<1> QED BY <1>1, <1>2, <1>4, IdleIs DEF TreeInv

LEMMA TreeInvHolds == TreeSpec => []TreeInv
<1>1. TreeInit => TreeInv
  BY ChainInvInit, IdleIs DEF TreeInit, TreeInv
<1>2. TreeInv /\ [TreeNext]_vars => TreeInv'
  <2> SUFFICES ASSUME TreeInv, [TreeNext]_vars PROVE TreeInv'
    OBVIOUS
  <2>1. ASSUME [ChainNext]_chainVars PROVE ChainInv'
    BY <2>1, ChainInvNext DEF TreeInv
  <2>2. ASSUME UNCHANGED stream, [ChainNext]_chainVars PROVE TreeInv'
    BY <2>1, <2>2 DEF TreeInv
  <2>3. CASE ChainNext /\ stream.pc = "closed" /\ UNCHANGED treeVars
    BY <2>2, <2>3 DEF treeVars
  <2>4. ASSUME NEW batch \in Batches, AppendBatch(batch), UNCHANGED treeVars PROVE TreeInv'
    BY <2>2, <2>4 DEF treeVars, ChainNext
  <2>5. CASE ReadRecords
    <3>1. stream' = [stream EXCEPT !.pc = IF @ = "closed" THEN "first" ELSE "next", !.table = rows]
      BY <2>5 DEF ReadRecords
    <3>2. /\ DOMAIN stream' = {"pc", "table", "revoked", "last"} /\ stream'.last = stream.last
          /\ stream'.table = rows
      BY <3>1 DEF TreeInv
    <3>3. IsRead(rows) /\ UNCHANGED chainVars
      BY <2>5, RowsAreRead DEF TreeInv, ChainInv, ReadRecords
    <3> QED BY <2>1, <3>2, <3>3 DEF TreeInv
  <2>6. CASE ReadRevocations
    <3>1. stream' = [stream EXCEPT !.pc = IF @ = "first" THEN "first+" ELSE "next+",
                                   !.revoked = revocations]
      BY <2>6 DEF ReadRevocations
    <3>2. /\ DOMAIN stream' = {"pc", "table", "revoked", "last"} /\ stream'.last = stream.last
          /\ stream'.table = stream.table
      BY <3>1 DEF TreeInv
    <3>3. UNCHANGED chainVars
      BY <2>6 DEF ReadRevocations
    <3> QED BY <2>1, <3>2, <3>3 DEF TreeInv
  <2>7. CASE SendSnapshot
    <3>1. Sent(Built, TRUE) /\ UNCHANGED chainVars
      BY <2>7 DEF SendSnapshot
    <3> QED BY <3>1, SentInv
  <2>8. CASE SendDiff
    <3>1. Sent(Built, FALSE) /\ UNCHANGED chainVars
      BY <2>8 DEF SendDiff
    <3> QED BY <3>1, SentInv
  <2>9. CASE Disconnect
    <3>1. stream' = Idle /\ UNCHANGED chainVars
      BY <2>9 DEF Disconnect
    <3> QED BY <2>1, <3>1, IdleIs DEF TreeInv
  <2>10. CASE (\E b \in Revocable : Revoked(b)) \/ (\E a \in Askers : Escalation(a))
    BY <2>2, <2>10 DEF Revoked, Escalation
  <2>11. CASE UNCHANGED vars
    BY <2>2, <2>11 DEF vars, treeVars
  <2> QED BY <2>3, <2>4, <2>5, <2>6, <2>7, <2>8, <2>9, <2>10, <2>11, Zenon
          DEF TreeNext, StreamStep
<1> QED BY <1>1, <1>2, PTL DEF TreeSpec

\* A console that reads the chain, at any time, leaves it the one intact chain that
\* append() wrote, and verify_chain() right about it.
THEOREM TreeChainIntact == TreeSpec => [](OneIntactChain /\ VerdictIsRight)
<1>1. TreeInv => OneIntactChain /\ VerdictIsRight
  BY ShapeIsIntact DEF TreeInv, ChainInv, VerifyInv
<1> QED BY <1>1, TreeInvHolds, PTL

\* What a diff adds, changes and removes turns the last tree that was sent into the new
\* one, whichever records, revocations and escalations fell between the reads of either,
\* and however many agents share a name (build_tree_diff()).
THEOREM TreeDiffIsExact ==
    ASSUME BlockInOneChain
    PROVE  TreeSpec => DiffIsExact
<1> DEFINE Exact ==
             stream.pc = "next+" /\ stream'.pc = "open" =>
                \A nodes \in {Built} : \A d \in {build_tree_diff(stream.last, nodes)} :
                    LET same(n, m) == n.agent = m.agent /\ n.chain = m.chain
                        kept == {n \in stream.last :
                                    ~ \E m \in d.changed \cup d.removed : same(n, m)}
                    IN  kept \cup d.added \cup d.changed = nodes
<1>1. TreeInv => Exact
  <2> SUFFICES ASSUME TreeInv, NEW nodes, nodes = Built,
                      NEW d, d = build_tree_diff(stream.last, nodes)
               PROVE  Updated(stream.last, d) = nodes
    BY DEF Updated
  <2>1. IsTree(nodes) /\ IsTree(stream.last)
    BY BuiltIsTree DEF TreeInv
  <2> QED BY <2>1, DiffUpdates
<1>2. TreeInv => [Exact]_vars
  BY <1>1
<1> HIDE DEF Exact
<1>3. TreeSpec => [][Exact]_vars
  BY <1>2, TreeInvHolds, PTL
<1> QED BY <1>3 DEF DiffIsExact, Exact
=============================================================================
