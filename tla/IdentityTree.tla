----------------------------- MODULE IdentityTree -----------------------------
(***************************************************************************)
(* The console's identity tree: build_tree() and build_tree_diff() over    *)
(* the audit chain, revocations and escalations (db/tree.py), the stream   *)
(* of snapshot and diffs (tree_api.py), and the page that applies them     *)
(* (console/templates/identity_tree.html).                                 *)
(*                                                                         *)
(* build_tree() reads the records, then the revocations, then the          *)
(* escalations, each statement on its own, so a tree may mix the states of *)
(* three moments.  Rows are stamped in the order of their seq.  Decision   *)
(* records carry no mandate_id, so no row of the ledger ever replaces what *)
(* the token's own authority says of the budget.                           *)
(*                                                                         *)
(* verify_chain() and the stream both only read, and neither sees the      *)
(* other: a page is opened on a chain that nobody verifies or damages.     *)
(***************************************************************************)
EXTENDS AuditChain, SequencesExt

CONSTANTS
    Told,        \* what a record says: agent, chain of block ids, scopes, ceiling, spent, outcome
    AgentNames,  \* the agents that records name
    Askers,      \* bound: agents that escalate
    Revocable    \* bound: block ids that are revoked

ASSUME TreeConstants ==
    /\ DOMAIN Told = Content /\ Askers \subseteq AgentNames
    /\ \A r \in Content : Told[r].agent \in AgentNames

VARIABLES
    revocations,   \* block ids with a row
    asked,         \* agent -> its escalation
    stream,        \* the generator of /stream: where it is, what it has read, last_nodes
    page           \* nodesData of the page

treeVars == <<revocations, asked, stream, page>>
vars == <<chainVars, treeVars>>

----------------------------------------------------------------------------
(* build_tree()                                                             *)

\* The newest row of each agent and chain.
LatestRecords(table) ==
    {s \in Present(table) :
        ~ \E t \in Present(table) :
            /\ t > s
            /\ Told[table[t].record].agent = Told[table[s].record].agent
            /\ Told[table[t].record].chain = Told[table[s].record].chain}

\* _spend_by_agent(): over every row of that name.
_spend_by_agent(table, agent) ==
    LET own == {s \in Present(table) : Told[table[s].record].agent = agent}
    IN  FoldSet(LAMBDA s, sum : sum + Told[table[s].record].spent, 0, own)

\* TreeNode.  A ceiling is what the token's authority holds; an older record has none.
TreeNode(table, s, revoked, pending) ==
    LET record == Told[table[s].record]
    IN  [agent |-> record.agent, chain |-> record.chain, scopes |-> record.scopes,
         available |-> record.ceiling - _spend_by_agent(table, record.agent),
         revoked |-> ToSet(record.chain) \cap revoked # {},
         pending |-> record.agent \in pending,
         outcome |-> record.outcome, seen |-> s]

\* _current_generation(): the chains under the authority block that was seen last.
_current_generation(nodes) ==
    LET placed == {n \in nodes : n.chain # <<>>}
        newest == CHOOSE n \in placed : \A m \in placed : m.seen <= n.seen
    IN  {n \in nodes : n.chain = <<>> \/ n.chain[1] = newest.chain[1]}

build_tree(table, revoked, pending) ==
    _current_generation({TreeNode(table, s, revoked, pending) : s \in LatestRecords(table)})

----------------------------------------------------------------------------
(* build_tree_diff()                                                        *)

\* Mutant: the key is the root's block, which a task's nodes share.
Key_RootBlock(n) == <<n.agent, IF n.chain = <<>> THEN <<>> ELSE <<n.chain[1]>>>>
Key(n) == <<n.agent, IF n.chain = <<>> THEN <<>> ELSE <<n.chain[Len(n.chain)]>>>>

\* The dicts keep one node of each key.
ByKey(nodes) == {n \in nodes : n = CHOOSE m \in nodes : Key(m) = Key(n)}

build_tree_diff(old, new) ==
    LET keys(S) == {Key(n) : n \in S}
    IN  [added |-> {n \in ByKey(new) : Key(n) \notin keys(old)},
         changed |-> {n \in ByKey(new) : Key(n) \in keys(old) /\ n \notin ByKey(old)},
         removed |-> {n \in ByKey(old) : Key(n) \notin keys(new)}]

\* The lists' order, as far as it tells two nodes of one name apart: by depth, newest first.
Listed(nodes) ==
    SetToSortSeq(nodes, LAMBDA n, m :
        \/ Len(n.chain) < Len(m.chain)
        \/ Len(n.chain) = Len(m.chain) /\ n.seen > m.seen)

\* The page finds a node by its agent's name alone: an added one whose name is there is
\* dropped, a changed one replaces the first of its name, and a removed one takes all of
\* its name with it.
ApplyDiff(nodes, diff) ==
    LET named(list, n) == {i \in DOMAIN list : list[i].agent = n.agent}
        add(list, n) == IF named(list, n) = {} THEN Append(list, n) ELSE list
        change(list, n) == IF named(list, n) = {} THEN list
                           ELSE [list EXCEPT ![Min(named(list, n))] = n]
        drop(list, n) == SelectSeq(list, LAMBDA k : k.agent # n.agent)
        grown == FoldLeft(add, nodes, Listed(diff.added))
        updated == FoldLeft(change, grown, Listed(diff.changed))
    IN  FoldLeft(drop, updated, Listed(diff.removed))

----------------------------------------------------------------------------
(* The stream                                                               *)

Idle == [pc |-> "closed", table |-> [s \in Seqs |-> NoAuditRow], revoked |-> {}, last |-> {}]

TreeInit ==
    /\ ChainInit
    /\ revocations = {} /\ asked = [a \in Askers |-> "none"]
    /\ stream = Idle /\ page = <<>>

\* The page is opened, or three seconds are over.  A task without records has no tree.
ReadRecords ==
    /\ \/ stream.pc = "open"
       \/ stream.pc = "closed" /\ verify = Unverified /\ Damaged = {}
    /\ stream' = [stream EXCEPT !.pc = IF @ = "closed" THEN "first" ELSE "next", !.table = rows]
    /\ UNCHANGED <<chainVars, revocations, asked, page>>

ReadRevocations ==
    /\ stream.pc \in {"first", "next"}
    /\ stream' = [stream EXCEPT !.pc = IF @ = "first" THEN "first+" ELSE "next+",
                                !.revoked = revocations]
    /\ UNCHANGED <<chainVars, revocations, asked, page>>

Built ==
    LET pending == {a \in Askers : asked[a] = "pending"}
    IN  IF Present(stream.table) = {} THEN {}
        ELSE build_tree(stream.table, stream.revoked, pending)

\* Mutant: last_nodes stays what the snapshot was.
Sent_KeepsSnapshot(nodes, first) ==
    stream' = [stream EXCEPT !.pc = "open", !.last = IF first THEN nodes ELSE @,
                             !.table = Idle.table, !.revoked = {}]
Sent(nodes, first) ==
    stream' = [stream EXCEPT !.pc = "open", !.last = nodes, !.table = Idle.table, !.revoked = {}]

\* The snapshot, and then a diff if there is any difference.
SendSnapshot ==
    /\ stream.pc = "first+"
    /\ \E nodes \in {Built} : Sent(nodes, TRUE) /\ page' = Listed(nodes)
    /\ UNCHANGED <<chainVars, revocations, asked>>

SendDiff ==
    /\ stream.pc = "next+"
    /\ \E nodes \in {Built} :
        /\ Sent(nodes, FALSE)
        /\ \E diff \in {build_tree_diff(stream.last, nodes)} : page' = ApplyDiff(page, diff)
    /\ UNCHANGED <<chainVars, revocations, asked>>

\* The operator closes the page.
Disconnect ==
    /\ stream.pc = "open"
    /\ stream' = Idle /\ page' = <<>>
    /\ UNCHANGED <<chainVars, revocations, asked>>

----------------------------------------------------------------------------
(* What the tree is about                                                   *)

Revoked(b) ==
    /\ b \notin revocations /\ revocations' = revocations \cup {b}
    /\ UNCHANGED <<chainVars, asked, stream, page>>

\* An escalation is opened; it is resolved, or its time is over.
Escalation(a) ==
    /\ \/ asked[a] = "none" /\ asked' = [asked EXCEPT ![a] = "pending"]
       \/ asked[a] = "pending" /\ asked' = [asked EXCEPT ![a] = "over"]
    /\ UNCHANGED <<chainVars, revocations, stream, page>>

StreamStep == ReadRecords \/ ReadRevocations \/ SendSnapshot \/ SendDiff

TreeNext ==
    \/ ChainNext /\ stream.pc = "closed" /\ UNCHANGED treeVars
    \/ \E batch \in Batches : AppendBatch(batch) /\ stream.pc # "closed" /\ UNCHANGED treeVars
    \/ StreamStep
    \/ Disconnect
    \/ \E b \in Revocable : Revoked(b)
    \/ \E a \in Askers : Escalation(a)

\* The generator polls while the page is open.
TreeSpec ==
    /\ TreeInit /\ [][TreeNext]_vars
    /\ WF_vars(stream.pc # "closed" /\ StreamStep)

----------------------------------------------------------------------------
(* Properties                                                               *)

\* A diff says of every agent's chain what became of it: the nodes it was built from,
\* with what it adds, changes and removes, are the nodes of the new tree, even where two
\* agents of a task share a name (build_tree_diff(): "two agents a parent happened to give
\* one name still count as two").
DiffIsExact ==
    [][stream.pc = "next+" /\ stream'.pc = "open" =>
        \A nodes \in {Built} : \A d \in {build_tree_diff(stream.last, nodes)} :
            LET same(n, m) == n.agent = m.agent /\ n.chain = m.chain
                kept == {n \in stream.last :
                            ~ \E m \in d.changed \cup d.removed : same(n, m)}
            IN  kept \cup d.added \cup d.changed = nodes]_vars

\* No two agents of the records ever written share a name.
OneNameEach ==
    LET written == ToSet(head.hash) \cup {rows[s].record : s \in Present(rows)}
    IN  \A r, q \in written : Told[r].agent = Told[q].agent => Told[r].chain = Told[q].chain

Tree == IF Present(rows) = {} THEN {}
        ELSE build_tree(rows, revocations, {a \in Askers : asked[a] = "pending"})

\* A page that stays open comes to show the tree as it is, and goes on showing it: every
\* record, revocation and escalation gets to it, whichever of the three reads it fell
\* between, as long as no two agents share a name (stream_tree(), the page's listeners).
PageCatchesUp ==
    <>[](stream.pc # "closed") => <>[](OneNameEach => ToSet(page) = Tree)
=============================================================================
