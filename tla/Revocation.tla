------------------------------ MODULE Revocation ------------------------------
(***************************************************************************)
(* Revocation, from POST /v1/revocations to the answer decide() gets:      *)
(* the table `revocations` and its operations (db/revocations.py,          *)
(* revocations_api.py), the Redis channel, and the set a PEP keeps         *)
(* (agentiam_pep/revocation.py, RedisRevocationSet), fed by pushes and by  *)
(* a pull that reads the rows past a cursor.                               *)
(*                                                                         *)
(* Postgres draws `seq` from the identity sequence when a row is inserted  *)
(* and shows the row when its transaction commits; concurrent REVOKEs may  *)
(* commit in another order than they drew.  The Redis channel forgets what *)
(* is published while a PEP does not listen.                               *)
(***************************************************************************)
EXTENDS Naturals, FiniteSetsExt

CONSTANTS
    Blocks,           \* biscuit revocation ids
    NoBlock,
    Revokers,         \* REVOKE calls that can be under way at the same time
    StalenessLimit,   \* staleness_limit_s
    CallTimeout,      \* how long a pull may take before the HTTP client gives up
    MaxSeq            \* bound: the last value drawn from the identity sequence

ASSUME RevocationConstants ==
    /\ NoBlock \notin Blocks
    /\ StalenessLimit \in Nat \ {0} /\ CallTimeout \in Nat /\ MaxSeq \in Nat

VARIABLES
    row,        \* row[b]: the seq of b's committed row; 0: none
    nextSeq,    \* the identity sequence
    tx,         \* tx[t]: the REVOKE call t
    channel,    \* pushes on their way to the PEP
    listening,  \* whether the PEP's subscription is up
    started,    \* whether start() has launched the background loops
    revoked,    \* _revoked
    bloom,      \* what was added to _bloom
    since,      \* _since_seq
    pullAge,    \* time since _last_pull_at, up to StalenessLimit, which also is None
    pull,       \* the _pull_once under way
    rowAge,     \* history: rowAge[b]: time since b's row was committed
    denied      \* history: blocks the PEP has known to be revoked

tableVars == <<row, nextSeq, tx, rowAge>>
setVars == <<revoked, bloom, since, pullAge>>
revocationVars == <<tableVars, channel, listening, started, setVars, pull, denied>>

\* The longest a row can be without the PEP knowing it or failing closed.
Window == StalenessLimit + CallTimeout

Seqs == 0 .. MaxSeq
Call == [pc : {"idle", "insert", "publish"}, block : Blocks \cup {NoBlock},
         seq : Seqs]
Pull == [pc : {"idle", "sent", "served"}, rows : SUBSET Blocks, next : Seqs,
         age : 0 .. CallTimeout]

NoCall == [pc |-> "idle", block |-> NoBlock, seq |-> 0]
NoPull == [pc |-> "idle", rows |-> {}, next |-> 0, age |-> 0]
PullSent == [NoPull EXCEPT !.pc = "sent"]

RevocationTypeOK ==
    /\ row \in [Blocks -> Seqs] /\ nextSeq \in 1 .. MaxSeq + 1
    /\ tx \in [Revokers -> Call]
    /\ channel \subseteq Blocks /\ listening \in BOOLEAN /\ started \in BOOLEAN
    /\ revoked \subseteq Blocks /\ bloom \subseteq Blocks
    /\ since \in Seqs /\ pullAge \in 0 .. StalenessLimit
    /\ pull \in Pull
    /\ rowAge \in [Blocks -> 0 .. Window + 1] /\ denied \subseteq Blocks

\* Mutant: a new process trusts the pull of the old one.
ColdStart_TrustsOldPull ==
    /\ revoked' = {} /\ bloom' = {} /\ since' = 0 /\ pullAge' = pullAge
    /\ listening' = FALSE /\ channel' = {} /\ started' = FALSE /\ pull' = PullSent

\* A new RedisRevocationSet, in start(): the loops wait for the first pull.
ColdStart ==
    /\ revoked' = {} /\ bloom' = {} /\ since' = 0 /\ pullAge' = StalenessLimit
    /\ listening' = FALSE /\ channel' = {} /\ started' = FALSE /\ pull' = PullSent

RevocationInit ==
    /\ row = [b \in Blocks |-> 0] /\ nextSeq = 1
    /\ tx = [t \in Revokers |-> NoCall]
    /\ revoked = {} /\ bloom = {} /\ since = 0 /\ pullAge = StalenessLimit
    /\ listening = FALSE /\ channel = {} /\ started = FALSE /\ pull = PullSent
    /\ rowAge = [b \in Blocks |-> 0] /\ denied = {}

-----------------------------------------------------------------------------
(* The control plane *)

\* revoke: INSERT ... ON CONFLICT DO NOTHING.  It waits for another transaction
\* that is inserting the same block.  The sequence moves on in either case.
RevokeInsert(t, b) ==
    /\ tx[t].pc = "idle" /\ nextSeq <= MaxSeq
    /\ \A u \in Revokers : tx[u].pc = "insert" => tx[u].block # b
    /\ nextSeq' = nextSeq + 1
    /\ tx' = [tx EXCEPT ![t] =
                IF row[b] = 0 THEN [pc |-> "insert", block |-> b, seq |-> nextSeq]
                              ELSE [pc |-> "publish", block |-> b, seq |-> row[b]]]
    /\ UNCHANGED <<row, rowAge, channel, listening, started, setVars, pull, denied>>

RevokeCommit(t) ==
    /\ tx[t].pc = "insert"
    /\ row' = [row EXCEPT ![tx[t].block] = tx[t].seq]
    /\ rowAge' = [rowAge EXCEPT ![tx[t].block] = 0]
    /\ tx' = [tx EXCEPT ![t].pc = "publish"]
    /\ UNCHANGED <<nextSeq, channel, listening, started, setVars, pull, denied>>

Ended(t) == tx' = [tx EXCEPT ![t] = NoCall]

\* The database fails or the caller goes away: the seq is never seen.
RevokeAborts(t) ==
    /\ tx[t].pc = "insert" /\ Ended(t)
    /\ UNCHANGED <<row, nextSeq, rowAge, channel, listening, started, setVars, pull,
                   denied>>

\* publisher.publish: best effort.  A PEP that is not listening misses it.
Publish(t) ==
    /\ tx[t].pc = "publish" /\ Ended(t)
    /\ channel' = IF listening THEN channel \cup {tx[t].block} ELSE channel
    /\ UNCHANGED <<row, nextSeq, rowAge, listening, started, setVars, pull, denied>>

\* Redis is down, or the process dies after the commit.
PublishFails(t) ==
    /\ tx[t].pc = "publish" /\ Ended(t)
    /\ UNCHANGED <<row, nextSeq, rowAge, channel, listening, started, setVars, pull,
                   denied>>

-----------------------------------------------------------------------------
(* The PEP *)

\* _pull_loop, after its sleep.
PullCalled ==
    /\ started /\ pull.pc = "idle"
    /\ pull' = PullSent
    /\ UNCHANGED <<tableVars, channel, listening, started, setVars, denied>>

\* Mutant: off by one past the cursor.
PullServed_SkipsOne ==
    LET rows == {b \in Blocks : row[b] > since + 1}
    IN  /\ pull.pc = "sent"
        /\ pull' = [pull EXCEPT !.pc = "served", !.rows = rows,
                                !.next = Max({since} \cup {row[b] : b \in rows})]
        /\ UNCHANGED <<tableVars, channel, listening, started, setVars, denied>>

\* list_revocations: the committed rows past the cursor, and the highest seq of
\* them as the next cursor.
PullServed ==
    LET rows == {b \in Blocks : row[b] > since}
    IN  /\ pull.pc = "sent"
        /\ pull' = [pull EXCEPT
                      !.pc = "served", !.rows = rows,
                      !.next = Max({since} \cup {row[b] : b \in rows})]
        /\ UNCHANGED <<tableVars, channel, listening, started, setVars, denied>>

\* _pull_once has its answer.
PullAnswered ==
    /\ pull.pc = "served"
    /\ revoked' = revoked \cup pull.rows /\ bloom' = bloom \cup pull.rows
    /\ since' = pull.next
    /\ pullAge' = 0
    /\ pull' = NoPull /\ started' = TRUE
    /\ denied' = denied \cup pull.rows
    /\ UNCHANGED <<tableVars, channel, listening>>

\* Mutant: a pull counts as fresh whether or not it succeeded.
PullFails_CountsAsFresh ==
    /\ pull.pc # "idle"
    /\ pull' = NoPull /\ started' = TRUE /\ pullAge' = 0
    /\ UNCHANGED <<tableVars, channel, listening, revoked, bloom, since, denied>>

\* _pull_once fails, whether or not the control plane served it: logged only.
PullFails ==
    /\ pull.pc # "idle"
    /\ pull' = NoPull /\ started' = TRUE
    /\ UNCHANGED <<tableVars, channel, listening, setVars, denied>>

\* _listen_once subscribes.
Subscribe ==
    /\ started /\ ~ listening
    /\ listening' = TRUE
    /\ UNCHANGED <<tableVars, channel, started, setVars, pull, denied>>

ConnectionDrops ==
    /\ listening
    /\ listening' = FALSE /\ channel' = {}
    /\ UNCHANGED <<tableVars, started, setVars, pull, denied>>

\* _handle_push: the cursor stays where it is.
HandlePush(b) ==
    /\ b \in channel
    /\ channel' = channel \ {b}
    /\ revoked' = revoked \cup {b} /\ bloom' = bloom \cup {b}
    /\ denied' = denied \cup {b}
    /\ UNCHANGED <<tableVars, listening, started, since, pullAge, pull>>

PepRestarts == ColdStart /\ UNCHANGED <<tableVars, denied>>

Older(age, limit) == IF age < limit THEN age + 1 ELSE age

TimePasses ==
    /\ pull.pc # "idle" => pull.age < CallTimeout
    /\ pullAge' = Older(pullAge, StalenessLimit)
    /\ pull' = [pull EXCEPT !.age = IF pull.pc = "idle" THEN 0 ELSE @ + 1]
    /\ rowAge' = [b \in Blocks |-> IF row[b] = 0 THEN 0
                                                 ELSE Older(rowAge[b], Window + 1)]
    /\ UNCHANGED <<row, nextSeq, tx, channel, listening, started, revoked, bloom,
                   since, denied>>

\* is_revoked: it raises OracleUnavailable unless a pull succeeded recently.  A
\* false positive of the filter falls through to the exact set.
Answers == pullAge < StalenessLimit
IsRevoked(b) == b \in bloom /\ b \in revoked

RevocationNext ==
    \/ \E t \in Revokers, b \in Blocks : RevokeInsert(t, b)
    \/ \E t \in Revokers : RevokeCommit(t)
    \/ \E t \in Revokers : RevokeAborts(t)
    \/ \E t \in Revokers : Publish(t)
    \/ \E t \in Revokers : PublishFails(t)
    \/ PullCalled
    \/ PullServed
    \/ PullAnswered
    \/ PullFails
    \/ Subscribe
    \/ ConnectionDrops
    \/ \E b \in Blocks : HandlePush(b)
    \/ PepRestarts
    \/ TimePasses

RevocationSpec == RevocationInit /\ [][RevocationNext]_revocationVars

\* The pull loop runs for the life of the PEP, and the control plane is not
\* unreachable for ever: a pull that is tried again and again is answered.
FairRevocationSpec ==
    /\ RevocationSpec
    /\ WF_revocationVars(PullCalled)
    /\ SF_revocationVars(PullServed)
    /\ SF_revocationVars(PullAnswered)

-----------------------------------------------------------------------------
(* Properties *)

\* The cursor leaves nothing behind: every row at or below _since_seq is in the
\* PEP's set, which is what a pull by `seq` relies on (spec 07 section 7).
NothingBehindCursor ==
    \A b \in Blocks : row[b] # 0 /\ row[b] <= since => IsRevoked(b)

\* A PEP that answers "not revoked" for a committed revocation does so for no
\* longer than staleness_limit and one pull, whatever is lost, late or restarted
\* (spec 07 section 6: "The only window where a truly-revoked chain can still be
\* used is between `revoked_at` and whichever PEP instance's next successful
\* pull", docs/specs/07-revocation.md:211).
RevokedWithinWindow ==
    \A b \in Blocks : Answers /\ row[b] # 0 /\ ~ IsRevoked(b) => rowAge[b] <= Window

\* No resurrection (INV-10): a block the PEP has once denied is denied by every
\* later answer, after a restart with an empty set and cursor 0 too.
NoResurrection == Answers => \A b \in denied : IsRevoked(b)

\* Every committed revocation is known to the PEP at last, though every push of
\* it be lost (spec 07 section 5.2: pull is the source of truth).
PullConverges == \A b \in Blocks : row[b] # 0 ~> IsRevoked(b)
=============================================================================
