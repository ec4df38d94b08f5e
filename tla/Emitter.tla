------------------------------- MODULE Emitter -------------------------------
(***************************************************************************)
(* The audit emitter of a PEP (agentiam_pep/emitter.py, DecisionEmitter):  *)
(* a bounded queue of decision records, the one batch that was taken from  *)
(* it, and the coroutines that write it: the drain task _run and the       *)
(* callers of flush(), aclose() among them, which take turns by the lock   *)
(* `_writing`.  The sink (db/audit_sink.py) commits a batch and answers,   *)
(* fails with or without having committed it, or rejects it for good.      *)
(*                                                                         *)
(* Between two awaits a coroutine runs alone: each action is what one of   *)
(* them does from one await to the next.                                   *)
(***************************************************************************)
EXTENDS Naturals, SequencesExt, Filtering

CONSTANTS
    Records,        \* decision records
    Poison,         \* the ones the schema will not take (DataError and the like)
    Flushers,       \* callers of flush()
    Closer,         \* the one that is aclose()
    Runner,         \* the drain task
    Capacity,       \* EmitterSettings.capacity
    BatchMax,       \* EmitterSettings.batch_max
    BackPressure    \* EmitterSettings.back_pressure: "deny" or "drop"

ASSUME EmitterConstants ==
    /\ Poison \subseteq Records /\ Closer \in Flushers /\ Runner \notin Flushers
    /\ Capacity \in Nat \ {0} /\ BatchMax \in Nat \ {0}
    /\ BackPressure \in {"deny", "drop"}

VARIABLES
    queue,      \* _queue
    pending,    \* _pending; <<>> is None
    closed,     \* _closed
    running,    \* whether the drain task exists
    lock,       \* who holds `_writing`, then who waits for it
    writing,    \* whether the holder awaits the sink
    flush,      \* flush[f]: what f's flush() read before the write it awaits
    dropped,    \* self.dropped
    lost,       \* self.lost_records
    emitted,    \* history: the records of the requests that went ahead, in order
    written     \* history: what the sink has committed, in order

bufferVars == <<queue, pending, lock, writing, flush>>
counters == <<dropped, lost>>
history == <<emitted, written>>
emitterVars == <<bufferVars, closed, running, counters, history>>

Writers == Flushers \cup {Runner}
NotEmitted(r) == r \notin ToSet(emitted)

\* The variables of flush()'s loop; `on` says whether f is in flush().
NotFlushing == [on |-> FALSE, batch |-> <<>>, size |-> 0]
Loop == [on : BOOLEAN, batch : Seq(Records), size : Nat]

EmitterTypeOK ==
    /\ queue \in Seq(Records) /\ Len(queue) <= Capacity
    /\ pending \in Seq(Records) /\ Len(pending) <= BatchMax
    /\ closed \in BOOLEAN /\ running \in BOOLEAN /\ writing \in BOOLEAN
    /\ lock \in Seq(Writers)
    /\ flush \in [Flushers -> Loop]
    /\ dropped \in Nat /\ lost \in Nat
    /\ emitted \in Seq(Records) /\ written \in Seq(Records)

EmitterInit ==
    /\ queue = <<>> /\ pending = <<>> /\ closed = FALSE /\ running = TRUE
    /\ lock = <<>> /\ writing = FALSE
    /\ flush = [f \in Flushers |-> NotFlushing]
    /\ dropped = 0 /\ lost = 0
    /\ emitted = <<>> /\ written = <<>>

-----------------------------------------------------------------------------
(* The hot path *)

\* emit, and with it a request that goes ahead.  A full buffer raises, and the
\* request is refused, unless the policy is to drop the record.
Emit(r) ==
    /\ NotEmitted(r) /\ ~ closed
    /\ Len(queue) < Capacity \/ BackPressure = "drop"
    /\ emitted' = Append(emitted, r)
    /\ IF Len(queue) < Capacity
       THEN queue' = Append(queue, r) /\ UNCHANGED dropped
       ELSE dropped' = dropped + 1 /\ UNCHANGED queue
    /\ UNCHANGED <<pending, closed, running, lock, writing, flush, lost, written>>

-----------------------------------------------------------------------------
(* Draining *)

\* _write_batch_locked, up to the sink: the pending batch, or a new one off the
\* head of the queue.
TakeBatch(batch) ==
    LET n == IF Len(queue) <= BatchMax THEN Len(queue) ELSE BatchMax
    IN  IF batch # <<>> THEN [batch |-> batch, rest |-> queue]
        ELSE [batch |-> SubSeq(queue, 1, n), rest |-> SubSeq(queue, n + 1, Len(queue))]

\* The holder of the lock sends the next batch.
StartWrite(batch) ==
    LET taken == TakeBatch(batch)
    IN  pending' = taken.batch /\ queue' = taken.rest /\ writing' = TRUE

Empty == queue = <<>> /\ pending = <<>>

\* _run, after its sleep: it asks for the lock, and goes on at once if nobody
\* has it.  With nothing to write it goes back to sleep.
RunTick ==
    /\ running /\ ~ Contains(lock, Runner) /\ ~ (lock = <<>> /\ Empty)
    /\ lock' = Append(lock, Runner)
    /\ IF lock = <<>> THEN StartWrite(pending)
                      ELSE UNCHANGED <<queue, pending, writing>>
    /\ UNCHANGED <<closed, running, flush, counters, emitted, written>>

\* flush(), up to its first await; with nothing buffered it returns at once.
FlushCall(f) ==
    /\ ~ flush[f].on /\ ~ Empty
    /\ flush' = [flush EXCEPT ![f] =
                   [on |-> TRUE, batch |-> pending, size |-> Len(queue)]]
    /\ lock' = Append(lock, f)
    /\ IF lock = <<>> THEN StartWrite(pending)
                      ELSE UNCHANGED <<queue, pending, writing>>

FlushCalled(f) ==
    /\ FlushCall(f)
    /\ UNCHANGED <<closed, running, counters, emitted, written>>

\* The next holder of the lock goes on.
Wake ==
    /\ lock # <<>> /\ ~ writing /\ ~ Empty
    /\ StartWrite(pending)
    /\ UNCHANGED <<lock, flush, closed, running, counters, emitted, written>>

\* Mutant: no progress is told from the queue and the batch alone.
EndWrite_NoPendingTest(batch) ==
    LET w == Head(lock)
        again == /\ w \in Flushers /\ ~ (queue = <<>> /\ batch = <<>>)
                 /\ batch # flush[w].batch /\ Len(queue) # flush[w].size
    IN  /\ lock' = IF again THEN Append(Tail(lock), w) ELSE Tail(lock)
        /\ flush' = [f \in Flushers |->
                       IF f # w THEN flush[f]
                       ELSE IF again
                       THEN [on |-> TRUE, batch |-> batch, size |-> Len(queue)]
                       ELSE NotFlushing]
        /\ IF again /\ Tail(lock) = <<>>
           THEN StartWrite(batch)
           ELSE pending' = batch /\ writing' = FALSE /\ UNCHANGED queue

\* Mutant: flush() goes round again as long as anything is buffered.
EndWrite_NoProgressTest(batch) ==
    LET w == Head(lock)
        again == w \in Flushers /\ ~ (queue = <<>> /\ batch = <<>>)
    IN  /\ lock' = IF again THEN Append(Tail(lock), w) ELSE Tail(lock)
        /\ flush' = [f \in Flushers |->
                       IF f # w THEN flush[f]
                       ELSE IF again
                       THEN [on |-> TRUE, batch |-> batch, size |-> Len(queue)]
                       ELSE NotFlushing]
        /\ IF again /\ Tail(lock) = <<>>
           THEN StartWrite(batch)
           ELSE pending' = batch /\ writing' = FALSE /\ UNCHANGED queue

\* _write_batch returns, leaving `batch` pending.  flush() goes round again
\* unless nothing is buffered or it sees no progress, at once if nobody waits
\* for the lock.
EndWrite(batch) ==
    LET w == Head(lock)
        empty == queue = <<>> /\ batch = <<>>
        noProgress == /\ batch # <<>>
                      /\ batch = flush[w].batch \/ Len(queue) = flush[w].size
        again == w \in Flushers /\ ~ empty /\ ~ noProgress
    IN  /\ lock' = IF again THEN Append(Tail(lock), w) ELSE Tail(lock)
        /\ flush' = [f \in Flushers |->
                       IF f # w THEN flush[f]
                       ELSE IF again
                       THEN [on |-> TRUE, batch |-> batch, size |-> Len(queue)]
                       ELSE NotFlushing]
        /\ IF again /\ Tail(lock) = <<>>
           THEN StartWrite(batch)
           ELSE pending' = batch /\ writing' = FALSE /\ UNCHANGED queue

Unchanging == UNCHANGED <<closed, running, dropped, emitted>>

\* What was buffered has been written while the holder waited for the lock.
NothingToWrite ==
    /\ lock # <<>> /\ ~ writing /\ Empty
    /\ EndWrite(<<>>)
    /\ UNCHANGED <<lost, written>> /\ Unchanging

\* Mutant: a batch that is sent again is appended again.
Commits_Twice == written' = written \o pending

\* append() skips a record that is in the chain already.
Commits == written' = written \o Skipping(pending, ToSet(written))

Poisoned == ToSet(pending) \cap Poison # {}

SinkWrites ==
    /\ writing /\ ~ Poisoned
    /\ Commits /\ EndWrite(<<>>)
    /\ UNCHANGED lost /\ Unchanging

\* Mutant: a batch that failed is given up.
SinkFails_GivesUp ==
    /\ writing
    /\ (~ Poisoned /\ Commits) \/ UNCHANGED written
    /\ EndWrite(<<>>)
    /\ UNCHANGED lost /\ Unchanging

\* Unreachable, or the answer is lost after the commit: the batch is kept.
SinkFails ==
    /\ writing
    /\ (~ Poisoned /\ Commits) \/ UNCHANGED written
    /\ EndWrite(pending)
    /\ UNCHANGED lost /\ Unchanging

\* SinkRejectedRecord: the whole batch is given up, and counted.
SinkRejects ==
    /\ writing /\ Poisoned
    /\ lost' = lost + Len(pending)
    /\ EndWrite(<<>>)
    /\ UNCHANGED written /\ Unchanging

-----------------------------------------------------------------------------
(* The end *)

\* aclose, up to its first await.
CloseCalled ==
    /\ ~ closed /\ ~ flush[Closer].on
    /\ closed' = TRUE
    /\ IF Empty THEN UNCHANGED bufferVars ELSE FlushCall(Closer)
    /\ UNCHANGED <<running, counters, emitted, written>>

RunnerWrites == writing /\ lock[1] = Runner

\* aclose, after its flush: the drain task is cancelled, awaiting the sink perhaps.
CancelRunner ==
    /\ closed /\ running /\ ~ flush[Closer].on
    /\ running' = FALSE
    /\ lock' = Skipping(lock, {Runner})
    /\ writing' = (writing /\ ~ RunnerWrites)
    /\ (RunnerWrites /\ ~ Poisoned /\ Commits) \/ UNCHANGED written
    /\ UNCHANGED <<queue, pending, flush, closed, counters, emitted>>

EmitterNext ==
    \/ \E r \in Records : Emit(r)
    \/ RunTick
    \/ \E f \in Flushers \ {Closer} : FlushCalled(f)
    \/ Wake
    \/ NothingToWrite
    \/ SinkWrites
    \/ SinkFails
    \/ SinkRejects
    \/ CloseCalled
    \/ CancelRunner

EmitterSpec == EmitterInit /\ [][EmitterNext]_emitterVars

\* The event loop runs what is ready, and calls of the sink return, in success
\* or in failure.
FairEmitterSpec ==
    /\ EmitterSpec
    /\ WF_emitterVars(RunTick)
    /\ WF_emitterVars(Wake)
    /\ WF_emitterVars(NothingToWrite)
    /\ WF_emitterVars(SinkWrites \/ SinkFails \/ SinkRejects)
    /\ WF_emitterVars(CancelRunner)

-----------------------------------------------------------------------------
(* Properties *)

Buffered == ToSet(pending) \cup ToSet(queue)

\* Every request that went ahead has its record in the buffer or in the chain,
\* or counted as dropped or lost: no record disappears uncounted, whichever
\* coroutine takes, retries or gives up a batch (emitter.py, `_writing`, ADR-026).
RecordsAccounted ==
    Cardinality(ToSet(emitted) \ (Buffered \cup ToSet(written))) = dropped + lost

\* The chain has each record once and a PEP's records in the order it decided,
\* retries after a lost answer included (append, idempotent by decision_id).
WrittenInOrder ==
    \A i, j \in DOMAIN written : i < j =>
        \E m, n \in DOMAIN emitted :
            m < n /\ emitted[m] = written[i] /\ emitted[n] = written[j]

\* flush() that returns from a write the sink answered leaves nothing buffered,
\* so aclose() loses records only when the sink fails (aclose: "Flush what is
\* buffered, then stop draining").
FlushLeavesNothing ==
    [][\A f \in Flushers :
          flush[f].on /\ ~ flush'[f].on /\ pending' = <<>> => queue' = <<>>
      ]_emitterVars

\* The database is not down for ever: a batch that is sent again and again is
\* written or rejected at last.
SinkRecovers == SF_emitterVars(SinkWrites \/ SinkRejects)

\* flush(), with it aclose(), ends against a sink that only ever fails, while
\* requests and the drain task go on ("must return, or aclose() never
\* completes", tests/unit/test_pep_emitter.py:480); and once the sink recovers,
\* every record that was buffered is written or given up for good, unless the
\* PEP shuts down (the drain loop retries without limit).
RecordsArrive ==
    /\ \A f \in Flushers : flush[f].on ~> ~ flush[f].on
    /\ SinkRecovers => \A r \in Records : r \in Buffered ~> r \notin Buffered \/ closed
=============================================================================
