------------------------- MODULE SettlementDelivery -------------------------
(***************************************************************************)
(* What becomes of the settlements a PEP queues: module SettlementQueue    *)
(* with its callers and a sink that may be slow, may be unreachable, and   *)
(* may commit a batch whose answer is then lost.  The history variables    *)
(* record what was queued and what the ledger has processed; no action     *)
(* reads them.                                                             *)
(***************************************************************************)
EXTENDS SettlementQueue

VARIABLES
    offered,    \* what enqueue() was called with
    accepted,   \* what it took, in order
    told        \* what the ledger has processed at least once

deliveryVars == <<queueVars, offered, accepted, told>>

DeliveryInit ==
    /\ QueueInit
    /\ offered = {} /\ accepted = <<>> /\ told = {}

Queued(s) ==
    /\ s \notin offered
    /\ Enqueue(s)
    /\ offered' = offered \cup {s}
    /\ accepted' = IF pending' = pending THEN accepted ELSE Append(accepted, s)
    /\ UNCHANGED told

\* LedgerSettlementSink.commit, as the ledger sees it.
Commits == told' = told \cup Batch

SinkAnswers == Answered /\ Commits /\ UNCHANGED <<offered, accepted>>

SinkFails ==
    /\ Unanswered
    /\ Commits \/ UNCHANGED told
    /\ UNCHANGED <<offered, accepted>>

RunnerCancelled ==
    /\ CancelRunner
    /\ (RunnerSends /\ Commits) \/ UNCHANGED told
    /\ UNCHANGED <<offered, accepted>>

Turns(action) == action /\ UNCHANGED <<offered, accepted, told>>

DeliveryNext ==
    \/ \E s \in Settlements : Queued(s)
    \/ \E d \in Drainers \ {Closer} : Turns(DrainCall(d))
    \/ Turns(Close)
    \/ SinkAnswers
    \/ SinkFails
    \/ RunnerCancelled
    \/ Turns(RunTick)
    \/ Turns(Wake)
    \/ Turns(EmptyFlush)

DeliverySpec == DeliveryInit /\ [][DeliveryNext]_deliveryVars

\* The event loop runs what is ready, and every call of the sink returns, in
\* success or in failure (the session has timeouts).
FairDeliverySpec ==
    /\ DeliverySpec
    /\ WF_deliveryVars(Turns(RunTick))
    /\ WF_deliveryVars(Turns(Wake))
    /\ WF_deliveryVars(Turns(EmptyFlush))
    /\ WF_deliveryVars(SinkAnswers \/ SinkFails)
    /\ WF_deliveryVars(RunnerCancelled)

-----------------------------------------------------------------------------
(* Properties *)

Popped == Len(accepted) - Len(pending)

\* Nothing is lost and nothing overtakes: the deque is what was queued last,
\* in order, everything before it was processed by the ledger, and what the
\* ledger has processed is a prefix of what was queued, however flush, drain,
\* lost answers and cancellation interleave (settlement.py, `_draining`;
\* flush: "left at the head").
NothingLost ==
    /\ Popped >= 0
    /\ pending = SubSeq(accepted, Popped + 1, Len(accepted))
    /\ \A i \in 1 .. Popped : accepted[i] \in told
    /\ \A i, j \in DOMAIN accepted :
          i < j /\ accepted[j] \in told => accepted[i] \in told

\* The ledger is not down for ever: a commit that is tried again and again is
\* answered at last.
LedgerRecovers == SF_deliveryVars(SinkAnswers)

\* Every settlement the queue took reaches the ledger, once the ledger recovers
\* and unless the PEP shuts down first (_run and flush retry without limit;
\* aclose gives up when the ledger does not answer).
SettlementsArrive ==
    LedgerRecovers =>
        \A s \in Settlements : Has(accepted, s) ~> s \in told \/ closed

\* A drain() returns although the deque is filled while it runs and every flush
\* may fail, so a top-up gets to its RELEASE; and aclose() ends, against a
\* ledger that never answers too (settlement.py, drain and aclose).
DrainsEnd ==
    /\ \A d \in Drainers : before[d] > 0 ~> before[d] = 0
    /\ closed ~> ~ running
=============================================================================
