------------------------------ MODULE AuditChain ------------------------------
(***************************************************************************)
(* The audit hash chain of the control plane (db/audit.py): the table      *)
(* `audit_records`, the row of `audit_chain_head`, append() and            *)
(* verify_chain().                                                         *)
(*                                                                         *)
(* append() locks the head row for its whole transaction, so it is one     *)
(* action.  verify_chain() takes no lock: it reads the records, then the   *)
(* head, then the highest seq in three statements, each of which sees what *)
(* was committed by then.  A hash is modelled as what it was computed      *)
(* over: chain_hash(h, r) is h with r appended, and NULL is <<>>.          *)
(*                                                                         *)
(* The rows are also changed behind the program's back, which is what the  *)
(* chain is there to show (spec 08 section 5, NFR-6).                      *)
(***************************************************************************)
EXTENDS Naturals, Sequences, FiniteSetsExt, Filtering

CONSTANTS
    Records,     \* decision records
    Forged,      \* the content of an altered record
    NoRecord,
    BatchMax,    \* bound: records per append
    MaxSeq,      \* bound: rows
    MaxDamage    \* bound: rows changed behind the program's back

ASSUME ChainConstants ==
    /\ Forged \notin Records /\ NoRecord \notin Records /\ Forged # NoRecord
    /\ BatchMax \in Nat /\ MaxSeq \in Nat /\ MaxDamage \in Nat

VARIABLES
    rows,     \* rows[s]: the row with seq s
    head,     \* the row of audit_chain_head
    verify,   \* a verify_chain() under way, or its result
    damage    \* history: what was done to row s behind the program's back

chainVars == <<rows, head, verify, damage>>

Seqs == 1 .. MaxSeq
Content == Records \cup {Forged}
Hash == Seq(Content)
AuditRow == [record : Content \cup {NoRecord}, prev : Hash, hash : Hash]
NoAuditRow == [record |-> NoRecord, prev |-> <<>>, hash |-> <<>>]

Present(table) == {s \in Seqs : table[s] # NoAuditRow}
Highest(table) == Max({0} \cup Present(table))

\* The answer is there ("done") until a row changes; bad = 0 is None.  `raced`
\* (history) says that rows were appended while verify_chain() was reading.
Verification == [pc : {"idle", "walked", "headRead", "done"},
                 bad : 0 .. MaxSeq + 1, head : 0 .. MaxSeq, raced : BOOLEAN]

ChainTypeOK ==
    /\ rows \in [Seqs -> AuditRow]
    /\ head \in [seq : 0 .. MaxSeq, hash : Hash]
    /\ verify \in Verification
    /\ damage \in [Seqs -> {"none", "altered", "deleted"}]

Unverified == [pc |-> "idle", bad |-> 0, head |-> 0, raced |-> FALSE]

\* The migration inserts the head row.
ChainInit ==
    /\ rows = [s \in Seqs |-> NoAuditRow]
    /\ head = [seq |-> 0, hash |-> <<>>]
    /\ verify = Unverified
    /\ damage = [s \in Seqs |-> "none"]

-----------------------------------------------------------------------------
(* append *)

\* decision_id is a column of its own, which altering a record leaves alone; a
\* record that was in the chain and whose row is still there is skipped.
Existing == {head.hash[s] : s \in {s \in Present(rows) : s <= Len(head.hash)}}

ChainHash(hash, record) == Append(hash, record)

\* Mutant: last_hash is not carried from one record of the batch to the next.
AppendBatch_StaleHash(batch) ==
    LET new == Skipping(batch, Existing)
    IN  /\ new # <<>> /\ head.seq + Len(new) <= MaxSeq
        /\ rows' = [s \in Seqs |->
                      IF s \in head.seq + 1 .. head.seq + Len(new)
                      THEN [record |-> new[s - head.seq], prev |-> head.hash,
                            hash |-> ChainHash(head.hash, new[s - head.seq])]
                      ELSE rows[s]]
        /\ head' = [seq |-> head.seq + Len(new), hash |-> head.hash \o new]
        /\ verify' = IF verify.pc \in {"walked", "headRead"}
                     THEN [verify EXCEPT !.raced = TRUE] ELSE Unverified
        /\ UNCHANGED damage

AppendBatch(batch) ==
    LET new == Skipping(batch, Existing)
        hash(s) == head.hash \o SubSeq(new, 1, s - head.seq)
    IN  /\ new # <<>> /\ head.seq + Len(new) <= MaxSeq
        /\ rows' = [s \in Seqs |->
                      IF s \in head.seq + 1 .. head.seq + Len(new)
                      THEN [record |-> new[s - head.seq], prev |-> hash(s - 1),
                            hash |-> ChainHash(hash(s - 1), new[s - head.seq])]
                      ELSE rows[s]]
        /\ head' = [seq |-> head.seq + Len(new), hash |-> head.hash \o new]
        /\ verify' = IF verify.pc \in {"walked", "headRead"}
                     THEN [verify EXCEPT !.raced = TRUE] ELSE Unverified
        /\ UNCHANGED damage

-----------------------------------------------------------------------------
(* verify_chain *)

\* What the walk compares row s with: the row before it, in seq order.
Before(table, s) == Max({0} \cup {p \in Present(table) : p < s})
HashAt(table, p) == IF p = 0 THEN <<>> ELSE table[p].hash

Broken(table, s) ==
    LET p == Before(table, s)
    IN  \/ s # p + 1
        \/ table[s].prev # HashAt(table, p)
        \/ table[s].hash # ChainHash(HashAt(table, p), table[s].record)

\* The walk, which ends at the first row that is broken.
VerifyWalk ==
    LET broken == {s \in Present(rows) : Broken(rows, s)}
    IN  /\ verify.pc \in {"idle", "done"}
        /\ verify' = IF broken = {} THEN [Unverified EXCEPT !.pc = "walked"]
                     ELSE [Unverified EXCEPT !.pc = "done", !.bad = Min(broken)]
        /\ UNCHANGED <<rows, head, damage>>

VerifyHead ==
    /\ verify.pc = "walked"
    /\ verify' = [verify EXCEPT !.pc = "headRead", !.head = head.seq]
    /\ UNCHANGED <<rows, head, damage>>

\* Mutant: the head is not compared.
VerifyHighest_NoHead ==
    /\ verify.pc = "headRead"
    /\ verify' = [verify EXCEPT !.pc = "done", !.head = 0, !.bad = 0]
    /\ UNCHANGED <<rows, head, damage>>

VerifyHighest ==
    /\ verify.pc = "headRead"
    /\ verify' = [verify EXCEPT
                    !.pc = "done", !.head = 0,
                    !.bad = IF verify.head # Highest(rows) THEN Highest(rows) + 1
                                                           ELSE 0]
    /\ UNCHANGED <<rows, head, damage>>

-----------------------------------------------------------------------------
(* What happens behind the program's back *)

Damaged == {s \in Seqs : damage[s] # "none"}

Damage(s, kind, row) ==
    /\ s \in Present(rows) /\ Cardinality(Damaged \cup {s}) <= MaxDamage
    /\ verify.pc \in {"idle", "done"}
    /\ rows' = [rows EXCEPT ![s] = row]
    /\ damage' = [damage EXCEPT ![s] = kind]
    /\ verify' = Unverified
    /\ UNCHANGED head

Alter(s) == Damage(s, "altered", [rows[s] EXCEPT !.record = Forged])
Delete(s) == Damage(s, "deleted", NoAuditRow)

Batches == {batch \in UNION {[1 .. n -> Records] : n \in 1 .. BatchMax} :
              IsInjective(batch)}

ChainNext ==
    \/ \E batch \in Batches : AppendBatch(batch)
    \/ VerifyWalk
    \/ VerifyHead
    \/ VerifyHighest
    \/ \E s \in Seqs : Alter(s)
    \/ \E s \in Seqs : Delete(s)

ChainSpec == ChainInit /\ [][ChainNext]_chainVars

-----------------------------------------------------------------------------
(* Properties *)

\* Concurrent and repeated appends build one chain: no seq is missing, every
\* row is linked to the one before it, the head is the last of them and no
\* record is in it twice (spec 08 sections 3 and 4).
OneIntactChain ==
    Damaged = {} =>
        /\ Present(rows) = 1 .. head.seq
        /\ \A s \in Present(rows) : ~ Broken(rows, s)
        /\ head.hash = HashAt(rows, head.seq)
        /\ \A s, t \in Present(rows) : rows[s].record = rows[t].record => s = t

\* Where the first change shows: at an altered row, at the row after a missing
\* one, or past the end if the newest are missing.
FirstBad ==
    LET s == Min(Damaged)
        after == {t \in Present(rows) : t > s}
    IN  IF damage[s] = "altered" \/ after = {} THEN s ELSE Min(after)

\* verify_chain() accepts the chain if it is as it was written, and otherwise
\* names the first inconsistent seq (NFR-6), when nothing is appended meanwhile.
VerdictIsRight ==
    verify.pc = "done" /\ ~ verify.raced =>
        verify.bad = IF Damaged = {} THEN 0 ELSE FirstBad
=============================================================================
