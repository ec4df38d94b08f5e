# AgentIAM: a TLA+ verification development

AgentIAM puts a policy enforcement point (PEP) in front of the tools that agents
call.  An agent holds a token that was attenuated from a task's mandate.  The PEP
reads a request, decides it against the token, the policy and what it knows of
revocations, spends from budget it has leased from a control plane, reports what
was spent and writes an audit record of every decision.  The control plane mints
tokens, keeps the ledger, the audit chain, the revocation list and the queue of
requests that wait for a human, and shows the agents as a tree.

These modules model those parts from the source in `packages/` and `scripts/`.  TLC
checks them on small instances; TLAPS proves every safety property that the runs
find to hold, from the ledger's books and the lease protocol to what a chain of
tokens can authorize and what a PEP lets through, for every instance.

## 1. The system

| Part | State | Operations | Interacts with |
|---|---|---|---|
| Lease ledger (`db/ledger.py`, `db/models.py`) | tables budgets, leases, reservations, reconciliation_anomalies | split_budget, acquire, release, reap, ledger_commit_batch, each a transaction under row locks (reap: one per candidate) | PEPs call it through `SessionLedger` and `LedgerSettlementSink`; `app.py` runs the reaper |
| Lease pool (`agentiam_pep/pool.py`, `lease.py`) | the held lease, the one top-up task, reservations of requests in flight | prime, check, reserve, commit, top-up, renewal, aclose | called by the pipeline between awaits; awaits the ledger; awaits the settlement queue before a RELEASE |
| Settlement queue (`agentiam_pep/settlement.py`) | deque, lock, background task | enqueue, flush, drain, aclose | fed by `Pipeline.settle`, drained to the ledger |
| Revocation (`db/revocations.py`, `revocations_api.py`, `agentiam_pep/revocation.py`) | table revocations, Redis channel, the PEP's set, cursor and time of the last pull | REVOKE, publish, pull, push, is_revoked | the pipeline asks is_revoked for every block of a token |
| Audit emitter (`agentiam_pep/emitter.py`) | bounded queue, pending batch, lock, drain task, counters | emit, flush, aclose | the pipeline emits before it forwards; the sink appends to the chain |
| Audit chain (`db/audit.py`) | table audit_records, the head row | append, verify_chain | PEPs append, an auditor verifies |
| Identity tree (`db/tree.py`, `tree_api.py`, the page `identity_tree.html`) | the generator's last nodes, the page's list | build_tree, build_tree_diff, the stream, the page's listeners | reads the chain, revocations and escalations |
| Escalations (`agentiam_core/escalation.py`, `db/escalations.py`, `escalations_api.py`) | table escalations | open, approve, deny, list; mint after approval | the pipeline opens, people resolve |
| Request extraction (`agentiam_pep/extractor.py`, `app.py`) | none | match a route, read labels from path, query, headers and body, coerce numbers | the pipeline's first step |
| Caveats and attenuation (`agentiam_core/caveats.py`, `attenuation.py`) | none | evaluate, compile to Datalog, narrows, check an attenuation, effective bound | tokens, the console, holders |
| Tokens and Datalog reading (`agentiam_core/tokens.py`, `datalog.py`) | a token is its blocks | mint, attenuate, verify, authorize_request, read back | the pipeline, tasks, the SDK |
| Tasks and the SDK (`tasks.py`, `agentiam_sdk`) | the registry's tokens; a client's token and the caveats it knows | create_task, spawn_agent, attenuate | tokens |
| Policy engine, cache, activation (`agentiam_pep/policy.py`, `policy_cache.py`, `activation.py`, `agentiam_core/bundles.py`) | the active bundle, its serial and its age | load, bound, activate, evaluate | the pipeline |
| Decision pipeline (`pipeline.py`, `agentiam_core/decision.py`, `drift.py`) | caches of the drift oracle | extract, verify, decide, reserve, record, escalate, forward, settle | everything above |

What is hard in it: requests hold reservations across awaits while a background
task swaps the lease they came from; three coroutines empty one deque and three
one audit buffer; every call to the control plane can fail after it has been
carried out; the reaper and a PEP judge the same lease by different clocks; rows
become visible in another order than they were numbered; a reader assembles a
verdict, or a tree, from several statements; a caveat is evaluated twice, once in
Python and once by biscuit on text compiled from it, and read back from a third
form; a decision passes ten steps, any of which may refuse, between which budget
is held and a human is asked.  `PROJECT.json` lists these hazards line by line with
the properties that would show them going wrong.

What makes each part correct is stated in section 3.

## 2. Modules

| Module | Models |
|---|---|
| `UnitSums` | sums over finite sets, as the size of a set of units, so that the library's cardinality theorems apply |
| `Ledger` | the ledger, one action per transaction, with the sums of `db/invariants.py` |
| `SettlementQueue` | the queue of a PEP: what each coroutine does from one await to the next |
| `SettlementDelivery` | the queue with its callers and a failing sink |
| `LeasePool` | the lease pool, the requests in flight and the process's lifespan, against any ledger |
| `LeaseProtocol` | ledger, pool and queue composed, with two clocks, lost calls, restarts and other PEPs |
| `Charging` | what the protocol promises whoever pays: requests, what their tools charged and what was paid for them, with no leases, queues, clocks or crashes |
| `Revocation` | REVOKE, push and pull, and the PEP's set |
| `Emitter` | the audit buffer and its writers |
| `AuditChain` | append, verify_chain, and rows changed behind the program's back |
| `IdentityTree` | the tree built from the chain, its stream of differences, and the page |
| `Escalations` | opening and resolving requests, and minting |
| `Caveats` | the nine caveats: evaluation, Datalog clauses, the facts biscuit shows to a block's clauses, and the reader of rendered blocks with what it refuses |
| `Attenuation` | the narrowing order, the check of an attenuation, effective_bound |
| `Tokens` | mint_root, attenuate, verify, authorize_request, and what is read off a chain |
| `Delegation` | the tokens of a task as the console, SDK clients and other writers make them |
| `Extraction` | the route table and extract() |
| `Decision` | decide() and the drift oracle |
| `Policy` | bundles, the engine and the roles |
| `PolicyCache` | load, activate, staleness and restart of the cache |
| `Pipeline` | a PEP deciding requests: `Extraction`, `Tokens`, `Decision` and `Policy` composed with a lease, an audit buffer and an escalation queue |
| `Filtering` | a sequence without the items of a set, as the loop that skips them |
| `OperatorProofs` | lemmas about loops, sums, extrema and filtered sequences |
| `TokenProofs` | lemmas about one token: what is compiled into a block and read back, the fold of its caveats, its checks, and decide() |
| `LeaseProofs` | theorems about the ledger and about PEP and ledger together |
| `PepProofs` | theorems about settlements, revocations, the lease and the policy cache of a PEP |
| `RecordProofs` | theorems about the audit emitter |
| `ControlPlaneProofs` | theorems about escalations, the audit chain and the identity tree |
| `AuthorityProofs` | theorems about chains of tokens |
| `PipelineProofs` | theorems about a PEP deciding requests, over `TokenProofs` |
| `MC*` | model-checking instances |

`Caveats`, `Attenuation`, `Tokens`, `Decision`, `Policy` extend one another in that
order and have no variables; `Delegation`, `PolicyCache` and `Pipeline` are the state
machines over them.  `IdentityTree` extends `AuditChain`, and `LeaseProtocol`
composes `Ledger`, `LeasePool` and `SettlementQueue`.

Conventions.  A transaction that takes its row locks before it reads what it
depends on is one action.  In the PEP, which is a single-threaded asyncio program,
an action is what one coroutine does between two awaits; an asyncio lock is a
sequence, the holder first and then those who wait, in the order they asked.  A
call that fails may have been carried out or not.  A call that changes nothing (a
refusal, a replay, a RELEASE of a retired lease) is a stuttering step.  Amounts are
natural numbers (the code's Decimals are scaled integers in the database) and time
is a counter of ticks.  Definitions named `X_Something` after the definition `X`
are mutants: `X` with a plausible bug in it, which the properties must notice.

How the state corresponds:

* `Ledger`: `budget`, `lease`, `reservation` and `anomalies` are the tables;
  `reaping` is the `candidate_ids` of the pass under way.  One mandate, one
  dimension.  `Retire` is `_retire`, shared by RELEASE and the reaper.
  `SettleItem` is one turn of the loop of `ledger_commit_batch`; the running clamp
  and the set `already` are its accumulator.  The lease state `revoked` is in the
  enumeration but nothing in the code sets it.
* `LeasePool`: `held` is `_held[dimension].lease`, with `left` for the time until
  `expires_at` on the PEP's own clock; `topup` is the task that has `topping_up`
  set, at the await it is at.  `Authorize` joins check() and reserve(), between
  which there is no await when the outcome is ALLOW.  `AuthorizeUnrecorded` is the
  case of a full audit buffer.
* `LeaseProtocol`: `clock` is the PEP's clock and `now` the ledger's; each is within
  S of true time, so they are up to 2S apart.  `AcquireLost` and the second
  disjuncts of `SinkFails` and `QueueCloses` are calls that were carried out but
  whose answer never came.  `spent` is what the tools charged, which no part of the
  program records.  A lease the PEP does not know of may be another PEP's.
* `Charging` has four variables: the ids given to requests, what their tools charged,
  what was paid for each and the bill.  The refinement mapping takes what was paid from
  the reservation rows and the bill from `committed` of the pool's row, so that a
  batch, a replay, a crash or the reaper is one `Charge` step or a stutter.
* `Revocation`: `tx` splits REVOKE at its COMMIT, because the identity value is
  drawn before the row can be seen; `pull` splits a pull into request, query and
  answer.  Ages stand for clock readings.
* `Emitter`: `flush` holds the two values flush() compares after a write.
* `AuditChain`: a hash is the sequence of what was hashed, which is exactly the
  assumption that the hash has no collisions.
* `IdentityTree`: `Told` is what each record says.  `stream` is the generator of
  `/stream` with the statement it is at, what it has read and `last_nodes`; `page`
  is the list `nodesData`, in the order it was pushed, because the page finds an
  entry by its first match.  A page is opened only on a chain that nobody verifies
  or damages: the two readers do not see each other.
* `Escalations`: a call carries the clock reading its route made before it waited
  for the row.
* `Caveats`, `Tokens`: a token is its mandate, the key that signed it and its
  blocks; a block is a sequence of statements, which are the Datalog clauses with a
  predicate, a key, an operator and a value.  Biscuit's signature chain and
  evaluator are external: blocks can be appended and not changed, and a check holds
  if some fact satisfies it, of the request, of the authority block or of the check's
  own block (`Visible`), never of another one.  An instant is a number of ticks,
  `Second` of them to a second, because `datalog_date()` cuts off fractions.  `scale`
  counts in 1/`BUDGET_SCALE` units.
* Reading a block back is not the inverse of writing it.  Biscuit renders a text
  without escaping it, so a text with a quotation mark (`Quoted`) ends its own literal,
  and what `_statements()` then finds is an arbitrary function of the block
  (`Resplit`).  A text with a comma or a bracket (`Unlisted`) is read back alone but
  not as a member of a set; a statement over the length limit (`TooLong`), a dimension
  or a date that does not exist (`Dates`), a negative depth and an ordering of texts are
  refused (`RecognizedClause`); and a caveat whose constructor refuses what was read
  makes the reader raise (`raises`), upon which decide() never runs and the request ends
  in a 500 without a record (`Unreadable`).  The labels of agents are clean of all that,
  because `validate_label` has seen them.
* `Delegation`: a node is a token with its parent, who wrote its last block and
  what its holder knows of the chain.  `chain` and `foreign` are history.
* `Extraction`: text is a model value, with functions for normalization and
  percent-decoding; a request keeps repeated query keys, headers and body keys.  The
  loops of `_one_of` and `_resolve_body` are recursive functions over positions.  A number
  is multiplied in Decimal's context of 28 digits before it is tested for being whole
  (`Rounded`).
* `Decision`: decide() is a chain of early returns, so it is a sequence of gates and
  the first that does not pass is the verdict.  An oracle's answer is a field of a
  record, or `Unavailable`.
* `Policy`: `CatalogueParses` is asked where a PEP starts with a bundle, whose engine
  takes the catalogue from it.  A role map's keys are paths joined by slashes, and a
  label may hold slashes, so `RoleOf` looks up what `PathKey` makes of a path.
* `Policy`: Cedar is external: a statement applies to sets of operations, roles and
  sensitivities and up to an amount, and a forbid beats a permit.
* `Pipeline`: authorize() awaits only the escalation sink and the proxy only the
  upstream, so a request is one step, or one for each await.  `flights` are the
  requests of the process; `Worlds` is what the environment does to one of them
  (revocations stale, rate limit hit, no embedding); `lease`, `buffered` and
  `revoked` keep what a request reads of the parts that `LeasePool`, `Emitter` and
  `Revocation` describe.
* `PolicyCache`: `loaded_at` and `serial` are the cache's; a restart empties it.  Its
  engines are built with the cache's own tools (`CacheTools`, empty by default), so the
  catalogue a bundle carries is neither parsed nor asked, and a tool that the cache was
  not given has the attributes of an unknown one.

## 3. Runs

The passing runs check all their properties on one instance.

| Run | Shows | Bounds, and why they are enough |
|---|---|---|
| `ledger` | the sums of the sweep balance after every transaction (`BooksBalance`); no row overdraws (`PoolInvariant`) and neither does the tree (`TreeWithinPool`); rows of history never change (`HistoryIsFinal`); every lease ends (`LeasesEnd`) | three budget rows allow a split of a split; two leases and two reservations allow a batch with a repeat, a replay on the other lease and a release between the reaper's two transactions; reports exceed what is left of a grant; three instants let the reaper's cutoff pass |
| `delivery` | nothing queued is lost or overtaken (`NothingLost`), settlements arrive once the ledger recovers (`SettlementsArrive`), drains and shutdowns end against any ledger, one that always fails included (`DrainsEnd`) | four settlements of two leases, batches of two, a queue of three that fills; the runner, a top-up and aclose() all contend for the lock |
| `pool` | what is in hand and in flight never exceeds the grant (`InHandWithinGrant`); a dry or aged lease is replaced (`DryLeaseIsRefilled`, `AgedLeaseIsRenewed`) | two requests at a time, amounts below and above the low-water mark, a charge above the reservation; four leases, one more than can be in use, so that a top-up always finds a fresh one |
| `protocol` | seen from outside, the protocol is module `Charging` (`ImplementsCharging`); a request is charged at most what its tool did (`ChargedAtMostOnce`); the reaper never takes a lease that is still being spent from (`SpendableIsActive`) | two leases, one replacing the other, S = 1, a TTL of three and time for a renewed lease to expire and be reaped; reports of one and two units against grants of both sizes, so that a charge may be clamped; replays and batches that name a request again come from the queue and from other PEPs |
| `revocation` | a revocation is known or the PEP fails closed within `staleness_limit` and one pull (`RevokedWithinWindow`), also after a restart (`NoResurrection`), and pull alone suffices (`PullConverges`) | two blocks and three values of the sequence, so that one is used up by a repeated or aborted REVOKE; one REVOKE at a time (see below) |
| `emitter` | every record is buffered, written or counted (`RecordsAccounted`), once and in order (`WrittenInOrder`); a flush that got through leaves nothing (`FlushLeavesNothing`); flushes end against any sink, and records arrive once it recovers (`RecordsArrive`) | four records, batches of two, a buffer of two that overflows, one record the schema refuses |
| `audit` | repeated and overlapping batches build one chain (`OneIntactChain`); the verdict names the first inconsistent row (`VerdictIsRight`); a diff turns the last tree into the new one (`DiffIsExact`); an open page comes to show the tree (`PageCatchesUp`) | four rows, of which two are altered or deleted in any combination; among the records two of one agent, a namesake of it, and an agent under a mandate that was minted again; one revocation and one escalation fall between the three reads |
| `escalations` | one resolution and at most one grant (`OneResolution`), within the request (`GrantWithinRequest`), for good (`ResolutionIsFinal`) | two racing calls of two principals, one of whom may approve, two scopes, and an instant at which the request has expired |
| `delegation` | a token authorizes only what its mandate granted, in every dimension at once (`WithinMandate`), and never more than its parent (`NoWidening`); the Python and the Datalog evaluation agree where a chain's texts can be read (`VerdictsAgree`); effective_authority is an upper bound and exact where the chain is attenuate()'s own and was read completely (`BoundIsExact`); a holder is shown no less than its token authorizes (`HolderSeesUpperBound`); what attenuate() accepted is in force (`DeclaredIsEffective`) | chains of three tokens, that is, a caveat, one that narrows it or fails to, and a foreign block; every kind of caveat is in the menu, most in two comparable forms, and one each with a quotation mark, a comma and a statement that is too long; among the foreign blocks one that states the operation its own check asks for, one that names itself twice, one with a scope and the grant's own checks, one with an unknown dimension and date, and one whose depth limit makes the reader raise; two dimensions, of which one may be exhausted alone; `Second` = 2, so that half of the instants lie between two Datalog dates |
| `pipeline` | what is forwarded was recorded as allowed and the agent is told of a human only if one was asked on record (`ToldIsRecorded`); refused requests hold nothing of the lease (`MissingWasForwarded`); the amount held is the one the upstream reads (`HeldAsRead`); nothing passes but with a valid unrevoked chain, every check passing and the policy's permission (`DecisionsSound`) | two requests at a time, of kinds each of which ends at another step, one with an amount of too many digits and one with a token that the reader raises on; a buffer of one record, which fills between a request's two steps; a lease of two units that runs dry; a revocation and the passage of time at any moment |
| `policy` | nothing is allowed by a stale or unvouched bundle (`OnlyFreshVouched`); a served bundle gives way only to a higher serial and is refreshed only then (`ServedOnlyAdvances`) | six candidates over three serials, of which one each is unsigned, does not parse or fails its test, and one misnames an attribute of its catalogue, which the cache does not look at; five offers, and time for the held bundle to go stale twice |

One run is expected to end in a counterexample: `protocol_spend` checks what
`docs/specs/04-lease-protocol.md` concludes from the ledger's invariant.  The
invariant holds and the sum of spending still exceeds the pool.  A request reserves
from lease A and is forwarded; a top-up replaces A by B, drains the queue and
releases A, whose unit goes back to the pool; the request settles against B, whose
own budget is spent too, and the ledger clamps what does not fit.

### Disagreements without a run of their own

Budget.
* After a failed `prime()` nothing ever asks for a lease again: a top-up needs a
  held lease or a refusal of one (`pool.py:276`), although the log line says
  "budgeted requests will be refused until a top-up succeeds"
  (`pep_service.py:724`).
* A request for more than is left, while what is left is above the low-water mark,
  is refused without a top-up (`pool.py:299`).
* `drain()` stops when the queue is not shorter than before a flush, also if the
  ledger accepted the batch and as many settlements came in meanwhile
  (`settlement.py:276` says otherwise).
* A settlement that finds the queue full or closed is dropped
  (`settlement.py:222`): the ledger is never told of it.  `NothingLost` and
  `SettlementsArrive` are about what enqueue() accepted.
* `commit()` refunds into whatever lease is held (`docs/specs/04-lease-protocol.md:71`),
  which proxy() never makes it do because it settles at the reserved amount.

Revocation and audit.
* `seq` is drawn at the INSERT and seen at the COMMIT.  When two REVOKEs overlap and
  the higher one commits first, a pull moves the cursor past the lower one; if its
  push is lost too, the PEP never learns of it, against the bound of
  `docs/specs/07-revocation.md:211`.  The properties of run `revocation` are about
  one REVOKE at a time.
* verify_chain() reads the rows, the head and max(seq) in three statements
  (`db/audit.py:214`): an append between them makes it report a truncation
  (`docs/specs/08-audit-chain.md:154`) of an intact chain.  `VerdictIsRight` is about
  verifications no append fell into.
* `flush()` of the emitter sends a batch it has just taken twice when the sink fails
  (`emitter.py:246` says once).
* `_record_and_refuse` writes a record and returns no decision_id, although
  authorize() says of both answers that they carry one (`pipeline.py:246`).
* When the audit buffer is full after an escalation was opened, the queue entry stays
  although the agent is refused.

Console.
* The page applies a diff by `agent_id` alone (`identity_tree.html:832-844`), while
  build_tree_diff() keeps namesakes apart (`db/tree.py:409`): with two agents of one
  name, or one minted again, the page loses or mixes them until it is reloaded.
  `PageCatchesUp` is about trees without namesakes.
* `_spend_by_agent` charges a node with what its namesakes and its earlier
  generations spent.
* An approval may be decided with a clock reading older than an expiry others have
  seen (`escalation.py:23`), because a call judges the expiry by the time it read before
  it waited for the row; `GrantWithinRequest` judges it by the same reading.
  `list_by_state(EXPIRED)` is empty (`db/escalations.py:164`).
* The token of an approval is minted after the commit (`escalations_api.py:215`).  When
  minting fails the request is used up, and nothing mints for it again.

Tokens, requests and policy.
* spawn_agent() passes no ancestor_caveats, so it accepts caveats wider than the
  chain's; the chain still binds (`NoWidening`), and the console's own display does
  not.  Two proposed caveats of one slot are not compared with each other, and
  effective_bound() takes the last of several intent hashes.
* `not_before` is cut to the second, so a token may be used up to a second early.
* `_statements` drops what is past its cap and still says the block was read
  completely; the limit on a token's size keeps it from happening.
* A block of another writer that states `operation("write")` passes its own
  `check if operation($op), ["write"].contains($op)` on a request to read.  The caveat
  read back from that check denies the request, so the bound that effective_authority()
  shows is *narrower* than what biscuit authorizes, where `docs/specs/02` §11.2 and
  `datalog.py:664` reason only that it may be wider.  decide() enforces both evaluations,
  and the block can only loosen its own checks, so no authority is gained
  (`WithinMandate` and `NoWidening` hold with such blocks); `VerdictsAgree` and the half
  of `BoundIsExact` about biscuit alone leave them out by `StatesNoRequest`.
* Texts that attenuate() accepts, such as a tool with a comma, make a caveat the reader
  cannot read back; the block is then reported as incomplete and its bound is too wide.
  What a text with a quotation mark leaves behind may look like any restriction.
* A block whose caveats some constructor refuses (a depth limit above
  `MAX_DELEGATION_DEPTH`) makes `token_caveats` raise where nothing catches it.
* Numeric arguments are scaled by the extractor and again by `_term`.
* Repeated headers are collapsed into a dict before extract() could refuse them, and
  a JSON body without a JSON content type is not read.  A negative amount raises
  where nothing catches it.
* `_refuse_widening_roles` looks neither at the root path nor at ancestors without a
  role.
* The bundle a PEP boots with has no serial to be compared with, and the cache's
  rollback protection restarts with the process; the deployed assembly
  (`scripts/pep_service.py`) builds its engine directly and does not use the cache.
* On the way through the cache the catalogue in a bundle is ignored, malformed or not
  (`policy_cache.py:61,123`), and the tests of an activation run without it
  (`activation.py:145`); only the engine that a PEP starts with takes it from the bundle
  (`policy.py:213`).
* A number of more than 28 digits is rounded before it is tested for having at most four
  decimal places (`extractor.py:368`), so it is accepted and held for what it was rounded
  to.

### Fairness

* `Ledger`: the clock advances; the reaper loop runs for the life of the process
  and survives database errors (`_reaper_lifespan` catches everything); a retirement
  that is possible again and again is made (strong fairness), because the database
  is not down for ever.
* `SettlementDelivery`, `Emitter`: the event loop runs what is ready, and a call of the
  sink returns, with success or failure; the specifications assume no more, so a sink
  may fail for ever.  `DrainsEnd` and the flushes of `RecordsArrive` hold of every such
  sink.  They rest on the tests for progress in `drain()` (`settlement.py:283`) and
  `flush()` (`emitter.py:245`), without which TLC finds the loop that goes on for ever
  (the mutants `EndFlush_NoProgressTest` and `EndWrite_NoProgressTest`).  That
  settlements and records arrive is stated under a hypothesis of its own, that a batch
  sent again and again is taken at last (`LedgerRecovers`, `SinkRecovers`).
* `LeasePool`: the renewer and the top-up task run, calls return, and an ACQUIRE
  tried again and again is granted, not slower than a tick.  `DryLeaseIsRefilled`
  also assumes that agents keep asking, since only a refusal asks for more budget;
  `AgedLeaseIsRenewed` assumes nothing of the agents.
* `Revocation`: the pull loop runs, and a pull tried again and again is answered.
* `IdentityTree`: the generator of an open page goes on polling, as its endless loop
  does.  Nobody has to append, revoke or ask, and a page may be closed.

Deadlock is checked in the runs of `pool`, `revocation` and `policy`.  The other
instances stop when their records, leases, tokens or instants are used up.

## 4. Proofs

Every theorem holds for all values of the constants that satisfy the named
assumptions of the modules, without the bounds of section 3.  Each rests on an
inductive invariant, because none of the properties is inductive as it stands; TLC
checked the invariants on the instances of the runs before they were proved.

**Operators.**  `OperatorProofs` has what the others keep needing.  Induction over
data is done once: `SetInduction` (a set of naturals that holds 0 and every successor
holds all) and, from it, `LoopRun` (a recursive function over the positions of a
sequence satisfies its equation at each of them).  Sums are sizes of sets of units
(`SumUpdate`, `SumDisjoint`, `SumMember`), so that moving budget is moving units.
`SkippingKeeps` says what a loop that skips known items keeps.

**Ledger** (`LeaseProofs`; any finite tables, amounts, TTL, skew and batch size).
`LedgerTypes`, `LedgerPoolInvariant`, `LedgerTreeWithinPool`, `LedgerBooksBalance` and
`LedgerHistoryIsFinal` are the properties of run `ledger`.  `PoolInvariant` is not
inductive: a row with `leased = 0` and an active lease of 3 satisfies it, and
releasing that lease makes `leased` negative.  `IInv` adds the books (`leased` is the
sum over active leases, `committed` over reservation rows, `allocated` over children,
a lease's `settled` over its rows and within its grant) and the links between rows.
Every action then moves units from one sum to another.  The loop of a batch is
handled one turn at a time.  `TreeWithinPool` follows from summing `PoolInvariant`
and the children's totals over all rows.

**PEP and ledger** (`LeaseProofs`).

* `ProtocolImplementsLedger`: every step of the composed system is a ledger step or
  leaves the ledger alone.  The mapping is the identity on the ledger's variables, so
  this says little by itself; what has to be shown is that the arguments of the calls
  are those the ledger's `Next` allows, which is the invariant `PepInv`.  With the
  ledger's theorems, `ProtocolPoolInvariant` follows end to end.
* `ProtocolImplementsCharging`: the refinement of `Charging`, for any number of leases,
  requests, amounts and batch sizes.  Three facts carry it.  The reservation rows move
  only in a batch, where a row appears once and stays (`HistoryKept`, `LedgerMoves`).
  All rows of the tree hang under the pool's row and nobody splits it in the protocol
  (`OnlyPool`), so the books of `IInv` say that the pool's `committed` is the sum of all
  reservation rows (`BillIsSum`), and the pool invariant bounds it.  And what a batch
  charges for was spent before and not charged yet, by `ChargeInv`.
* `ProtocolImplementsPool`: every step is one of `LeasePool` against an arbitrary
  ledger; what has to be shown is that a granted lease is always a fresh one.
* `ProtocolSpendableIsActive`: PEP and reaper never both own a lease.  `SpendInv` ties
  the PEP's `left` to the row's `expires_at` through the difference of the clocks.
  The theorem assumes `SKEW >= SKEW_ALLOWANCE`: the pool's margin (`pool.py:98`) is at
  least what the ledger allows for (`ledger.py:54`); both are five seconds.
* `ProtocolChargedAtMostOnce`: `ChargeInv` adds that what waits in the queue reports no
  more than was spent, and that a reservation in flight was never charged.

**What a PEP keeps** (`PepProofs`).

* `DeliveryNothingLost`: the deque is the end of what was taken, and everything before
  it was told (`DeliveryInv`, which needs that a settlement is offered once).
* `RevocationNoResurrection`: with any number of concurrent REVOKEs.  A denied block is
  in the set, or ahead of the cursor, or in the answer on its way (`FeedInv`).
* `RevocationWithinWindow`: under the hypothesis `[]OneInserts`, that no two REVOKEs are
  between INSERT and commit at the same time.  The code does not enforce it, and
  without it the property is false (section 3); it is exactly what makes a cursor by
  `seq` sound.  `WindowInv` bounds the age of a row by those of the pull and its call.
* `PoolInHandWithinGrant`: for a pool against any ledger, assuming that no tool is
  charged less than was reserved (`NoRefunds`, which proxy() guarantees by settling at
  the reserved amount); commit() itself would refund into whatever lease is held.

**Audit emitter** (`RecordProofs`): `EmitterRecordsAccounted`, `EmitterWrittenInOrder`
and the action property `EmitterFlushLeavesNothing`.  The invariant says that what was
written, what a writer holds and what waits are three consecutive parts of what was
accepted, through retries that send a batch again.

**Control plane** (`ControlPlaneProofs`): `EscalationOneResolution`,
`EscalationGrantWithinRequest` and the action property `EscalationResolutionIsFinal`
for any number of racing calls; `ChainOneIntactChain` and `ChainVerdictIsRight` for any
batches, and any rows changed behind the program's back.  The chain's invariant
carries what a verification under way knows, on the condition that no append fell
into it.  `TreeChainIntact` says the same with the console's page reading along, which is
the specification of run `audit`.  `TreeDiffIsExact` is about any tree: what
build_tree() makes has one node for each agent and chain (`IsTree`, because it keeps the
newest row of each), so the dicts of build_tree_diff() lose none.  That they are keyed by
the last block alone is sound under the hypothesis `BlockInOneChain`, that a block's id,
which is its signature, is in one chain only.

**Policy cache** (`PepProofs`): `CacheVouched` (the held bundle was signed, its source
parses and `serial` is its own; its catalogue was not looked at), from it the action
property `CacheOnlyAdvances`, and `CacheOnlyFreshVouched`, for which the gates of
decide() are opened: the first gate that does not pass is the verdict, so an allow
means that the policy gate passed.

**Chains of tokens** (`AuthorityProofs`; any tasks, caveats, contexts and foreign
blocks, chains of any length).  `ASSUME DelegationInputs` says that what operators,
holders and requests bring has passed its validators.

* `DelegationWithinMandate`: block 1 of every node is the authority block of its
  mandate (`AuthorityInv`), and passing its checks is being within the mandate.
* `DelegationNoWidening`: a child's blocks are its parent's and one more, so passing
  the child's is passing the parent's, except that the verifier counts one block
  less.  That is harmless only if depth is bounded from above, hence the hypothesis
  `ForeignDepthFromAbove`: a foreign block with `check if current_depth >= 2` is
  refused at depth 1 and passes at depth 2, and TLC shows the violation when one is put
  into the instance.  INV-1 speaks of caveats, none of which can say that.
* `DelegationHolderSeesUpperBound`: each caveat a holder knows is compiled into some
  block of its chain (`KnownInv`), so what passes satisfies each of them, and the fold
  of satisfied caveats permits the request (`BoundPermits`).
* `DelegationDeclaredIsEffective`: what a client knows is what it was given and what it
  declared, the second narrower than the first (`NarrowInv`); the extremum of a slot is
  then the declared value (`NarrowestShown`).  `NarrowInv` quantifies over all lists, so
  TLC checked only its consequence.
* `DelegationVerdictsAgree`: clause by clause, what a caveat compiles to passes exactly
  when the caveat is satisfied, and what is read back from a legible block is what was
  compiled into it or was recognized in another writer's.  Blocks of other writers may
  hold any statements.  Two lemmas bring their own facts in: what a block that states
  nothing about requests makes of a clause is what the request's facts alone do
  (`PassesAlone`, for blocks that are `Silent`), and a block's own facts can only help
  its checks, which is why the agreement needs `StatesNoRequest` in one direction and
  not in the other.  `ReadInv` says that every appended block has amounts in whole units
  and orders numbers.  The hypothesis `NumbersOrdered` is that the caveats and clauses
  that order an argument meet numbers in the requests: a text compared with `<=` is an
  error to biscuit and not to Python.  `DelegationInputs` assumes of a foreign block only
  that its amounts are whole units, as are all quantities of these modules; the code
  divides Decimals exactly.
* `DelegationBoundIsExact`: the fold permits a request exactly if each folded caveat is
  satisfied (`FoldExact`), whatever those caveats are, so the bound is above what both
  evaluations let through on any chain that is read (`ChainBound`); for biscuit alone,
  `NodeVerdicts` gives the caveats from the checks.  Where the chain is attenuate()'s own
  and was read completely, the caveats are all the checks there are (`ChainExact`).  The
  second hypothesis, `ReadsLists`, is that a rendered block is split into a list of
  statements, whatever they are.

**The pipeline** (`PipelineProofs`; any requests, route table, credentials, policies,
roles, leases, buffer size and environment).  The hypothesis `CredentialsMinted` says that
a presented token was minted for a valid mandate and that its other blocks are lists of
any statements (with `ReadsLists` as above); that it fits the size limit is verify()'s own
test, and that nothing in it makes the reader raise is what reaching decide() means.
`AuthorizeDecides` opens decide(): the first gate that does not pass is the verdict, so
anything but a denial means that each of the revocation, Datalog and policy gates passed,
and an allow that the caveats asked for nobody and the lease holds the amount.

* `PipelineDecisionsSound`, the action property, follows for the one flight that a step
  adds.  That a human is asked because of drift is said of the score the oracle's cache
  holds for the two texts after the step (`Drifted`), not of the reason in the answer.
* `PipelineToldIsRecorded` and `PipelineMissingWasForwarded` from `PipeInv`.  The first is
  not inductive: nothing in it says that a flight whose sink is awaited has no record yet
  and was told nothing (`Told`).  That the authority on the record covers what was
  forwarded joins this module to the token's: the checks passed, so the folded caveats are
  satisfied, so the fold permits the request (`ClearedIsCovered`).  The second needs that
  no flight is on a lease that is still to come; then an arrival adds its amount to the
  sum or nothing (`MissingAppend`).
* `PipelineHeldAsRead`: what the gateway reads at each key is the only value an upstream
  can have reached there, or none, or it refuses (`IsReading`, by induction over the keys
  of `_resolve_body`).  Its hypotheses say how a server hands over a request
  (`ParsedInto`: bodies and queries hold values, a path that a rule matches has the rule's
  parameters) and that amounts, once rounded to 28 digits, are counted in whole units
  like all quantities of these modules or have too many places (`AmountsWhole`); the
  code divides Decimals exactly.

TLC confirmed on the instances of runs `delegation`, `pipeline` and `audit` that they
satisfy these hypotheses, so none of them is empty.

**Only model-checked.**  Liveness (`LeasesEnd`, `SettlementsArrive`, `DrainsEnd`,
`DryLeaseIsRefilled`, `AgedLeaseIsRenewed`, `PullConverges`, `RecordsArrive`,
`PageCatchesUp`), which needs fairness and ENABLED and is out of the prover's reach; and
the counterexample of `protocol_spend`.

## 5. Not modelled, and the plan

1. (done) the ledger, the PEP's pool and queue, and their composition;
2. (done) revocation, the audit emitter and chain, escalations;
3. (done) caveats, attenuation, tokens and the making of token chains;
4. (done) extraction, the decision function, policy, and the pipeline over them;
5. (done) the policy cache and activation; the identity tree;
6. (done) proofs of the safety properties of the ledger, the lease protocol, the
   settlement queue, revocation, the emitter, the chain, escalations and the policy cache;
7. (done) proofs about the reader of blocks, the pipeline and the identity tree, so that
   every invariant and action property of a passing run is a theorem.

Left out of modelled parts: Datalog rules, `trusting` annotations and disjunctions in
blocks of other writers (the reader refuses all three); biscuit's limits on run time; an
exponent that overflows Decimal's context, which raises where nothing catches it;
regular expressions of paths and the list of headers that are forwarded; the drift
feature vector, which is recorded and decides nothing; tracing and counters that no
decision reads; more than one dimension in the ledger.

Not modelled: budgets API, dashboards, search and metrics (read-only queries); the
natural-language policy compiler (a language model behind a validator, whose drafts
have no effect until a person activates them); the demo's tools, seeds, evidence and
load scripts (around the system, not in it); OIDC authentication and settings (a
library and environment parsing).
