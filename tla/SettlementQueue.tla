--------------------------- MODULE SettlementQueue ---------------------------
(***************************************************************************)
(* The settlement queue of a PEP (agentiam_pep/settlement.py): settled     *)
(* reservations wait in a deque until a batch of them, all of one lease,   *)
(* has been committed by the ledger.                                       *)
(*                                                                         *)
(* Three kinds of coroutine walk the head of the deque: the background     *)
(* task _run, the drain() a top-up awaits before it releases a lease, and  *)
(* the drain() of aclose().  They are serialised by the asyncio lock       *)
(* `_draining`, which is granted in the order it was asked for.  Between   *)
(* two awaits a coroutine runs alone, so each action below is what one of  *)
(* them does from one await to the next.                                   *)
(***************************************************************************)
EXTENDS Naturals, Sequences, FiniteSets

CONSTANTS
    Settlements,   \* what can be queued: records with a field `lease`
    Drainers,      \* the callers of drain()
    Closer,        \* the caller that is aclose()
    Runner,        \* the background task
    Capacity,      \* SettlementSettings.capacity
    BatchMax       \* SettlementSettings.batch_max

ASSUME QueueConstants ==
    /\ Closer \in Drainers /\ Runner \notin Drainers
    /\ Capacity \in Nat \ {0} /\ BatchMax \in Nat \ {0}

VARIABLES
    pending,    \* the deque
    closed,     \* _closed
    running,    \* whether the background task exists
    lock,       \* who holds `_draining`, then who waits for it
    sending,    \* size of the batch the holder is awaiting the sink for; 0: none
    before      \* before[d]: the length drain() compares with; 0: not in drain()

queueVars == <<pending, closed, running, lock, sending, before>>

Workers == Drainers \cup {Runner}
Has(seq, x) == \E i \in DOMAIN seq : seq[i] = x
Without(seq, x) == SelectSeq(seq, LAMBDA y : y # x)

QueueTypeOK ==
    /\ pending \in Seq(Settlements) /\ Len(pending) <= Capacity
    /\ closed \in BOOLEAN /\ running \in BOOLEAN
    /\ lock \in Seq(Workers)
    /\ sending \in 0 .. BatchMax
    /\ before \in [Drainers -> Nat]

QueueInit ==
    /\ pending = <<>> /\ closed = FALSE /\ running = TRUE
    /\ lock = <<>> /\ sending = 0 /\ before = [d \in Drainers |-> 0]

-----------------------------------------------------------------------------

\* enqueue: never raises; what finds the queue closed or full is dropped.
Enqueue(s) ==
    /\ pending' = IF closed \/ Len(pending) >= Capacity THEN pending
                                                       ELSE Append(pending, s)
    /\ UNCHANGED <<closed, running, lock, sending, before>>

\* _next_batch: the longest run at the head that shares one lease, up to
\* BatchMax.  The lengths of such runs are 1 .. n, so n is how many there are.
BatchLen(queue) ==
    Cardinality({n \in 1 .. Len(queue) :
                    /\ n <= BatchMax
                    /\ \A i \in 1 .. n : queue[i].lease = queue[1].lease})

Batch == {pending[i] : i \in 1 .. sending}

\* flush: ask for the lock, and go on at once if nobody has it.
FlushCall(w) ==
    /\ lock' = Append(lock, w)
    /\ sending' = IF lock = <<>> THEN BatchLen(pending) ELSE sending

\* Mutant: the background task waits for a full batch.
RunTick_FullBatchOnly ==
    /\ running /\ ~ Has(lock, Runner) /\ Len(pending) >= BatchMax
    /\ FlushCall(Runner)
    /\ UNCHANGED <<pending, closed, running, before>>

\* _run, after its sleep.  A flush of an empty queue does nothing.
RunTick ==
    /\ running /\ ~ Has(lock, Runner) /\ pending # <<>>
    /\ FlushCall(Runner)
    /\ UNCHANGED <<pending, closed, running, before>>

\* drain, up to its first await.  A drain of an empty queue returns at once.
Drain(d) ==
    /\ before[d] = 0 /\ pending # <<>>
    /\ before' = [before EXCEPT ![d] = Len(pending)]
    /\ FlushCall(d)

DrainCall(d) == Drain(d) /\ UNCHANGED <<pending, closed, running>>

\* The holder had to wait for the lock and goes on.
Wake ==
    /\ lock # <<>> /\ sending = 0 /\ pending # <<>>
    /\ sending' = BatchLen(pending)
    /\ UNCHANGED <<pending, closed, running, lock, before>>

\* Mutant: drain() goes round again whether or not the deque got shorter.
EndFlush_NoProgressTest(rest) ==
    LET w     == Head(lock)
        again == w \in Drainers /\ rest # <<>>
    IN  /\ pending' = rest
        /\ before' = [d \in Drainers |->
                        IF d = w THEN IF again THEN Len(rest) ELSE 0
                                 ELSE before[d]]
        /\ lock' = IF again THEN Append(Tail(lock), w) ELSE Tail(lock)
        /\ sending' = IF again /\ Tail(lock) = <<>> THEN BatchLen(rest) ELSE 0
        /\ UNCHANGED <<closed, running>>

\* The holder's flush returns, `rest` being what it leaves in the deque.  In
\* drain() it is called again unless the deque is empty or no shorter than it
\* was before the call.
EndFlush(rest) ==
    LET w     == Head(lock)
        again == w \in Drainers /\ rest # <<>> /\ Len(rest) < before[w]
    IN  /\ pending' = rest
        /\ before' = [d \in Drainers |->
                        IF d = w THEN IF again THEN Len(rest) ELSE 0
                                 ELSE before[d]]
        /\ lock' = IF again THEN Append(Tail(lock), w) ELSE Tail(lock)
        /\ sending' = IF again /\ Tail(lock) = <<>> THEN BatchLen(rest) ELSE 0
        /\ UNCHANGED <<closed, running>>

\* The deque was emptied while the holder waited for the lock.
EmptyFlush ==
    /\ lock # <<>> /\ sending = 0 /\ pending = <<>>
    /\ EndFlush(<<>>)

\* The sink answered: the batch is popped.
Answered ==
    /\ sending > 0
    /\ EndFlush(SubSeq(pending, sending + 1, Len(pending)))

\* Mutant: a batch that failed goes to the back of the deque.
Unanswered_Requeues ==
    /\ sending > 0
    /\ EndFlush(SubSeq(pending, sending + 1, Len(pending))
                  \o SubSeq(pending, 1, sending))

\* The sink raised: the batch stays at the head.
Unanswered ==
    /\ sending > 0
    /\ EndFlush(pending)

\* aclose, up to its first await.
Close ==
    /\ ~ closed
    /\ closed' = TRUE
    /\ IF pending = <<>> THEN UNCHANGED <<before, lock, sending>> ELSE Drain(Closer)
    /\ UNCHANGED <<pending, running>>

\* Whether the background task is awaiting the sink.
RunnerSends == sending > 0 /\ lock[1] = Runner

\* aclose, after its drain: the background task is cancelled, while it awaits
\* the sink perhaps.
CancelRunner ==
    /\ closed /\ running /\ before[Closer] = 0
    /\ running' = FALSE
    /\ lock' = Without(lock, Runner)
    /\ sending' = IF RunnerSends THEN 0 ELSE sending
    /\ UNCHANGED <<pending, closed, before>>

\* A new process has a new queue; what was in the old one is lost with it.
Rebuild ==
    /\ pending' = <<>> /\ closed' = FALSE /\ running' = TRUE
    /\ lock' = <<>> /\ sending' = 0 /\ before' = [d \in Drainers |-> 0]
=============================================================================
