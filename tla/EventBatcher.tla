--------------------------- MODULE EventBatcher ---------------------------
(***************************************************************************)
(* The SDK's event batcher, packages/sdk/src/event-batcher.ts, with its    *)
(* caller track() and the POST /sdk/v1/events it flushes to (flushEvents   *)
(* of index.ts).  JavaScript runs each of its synchronous pieces without   *)
(* interruption, so the pieces are the actions: a push, a timer callback,  *)
(* the settling of a POST, a destroy.                                      *)
(*                                                                         *)
(* Events are numbered 1, 2, ... as they are tracked; what an event says   *)
(* is left out.  A POST may arrive and be confirmed, arrive and be         *)
(* reported as failed (the response was lost or was not 2xx), or not       *)
(* arrive at all; MaxFailures bounds the POSTs that are reported failed.   *)
(***************************************************************************)
EXTENDS Integers, Sequences

CONSTANTS
    BatchSize,    \* flushBatchSize
    MaxEvents,    \* bound on the events tracked
    MaxFailures   \* bound on the flushes reported as failed

ASSUME BatchSizeAssumption == BatchSize \in Nat \ {0}
ASSUME BoundAssumption == MaxEvents \in Nat /\ MaxFailures \in Nat

VARIABLES
    queue,      \* this.queue
    timer,      \* this.timer # null
    flushing,   \* this.flushing
    inflight,   \* the batch of the pending POST, <<>> when there is none
    phase,      \* "open", or "closing" while destroy() awaits its flush,
                \* or "closed" once a destroy() has returned
    pushed,     \* number of events tracked so far
    failures,   \* number of flushes reported as failed
    received    \* events the API has received, in order of arrival

local == <<queue, timer, flushing, inflight>>
vars  == <<queue, timer, flushing, inflight, phase, pushed, failures, received>>

Init ==
    /\ queue = <<>>
    /\ timer = FALSE
    /\ flushing = FALSE
    /\ inflight = <<>>
    /\ phase = "open"
    /\ pushed = 0
    /\ failures = 0
    /\ received = <<>>

-----------------------------------------------------------------------------
\* Mutant of Taken: splice(0), the whole queue.
TakenWhole(q) == Len(q)

\* splice(0, batchSize): how much of queue q a flush takes.
Taken(q) == IF Len(q) <= BatchSize THEN Len(q) ELSE BatchSize

\* Mutant of FlushNow: the re-entrancy guard `this.flushing' is dropped.
FlushNowReentrant(q) ==
    /\ timer' = FALSE
    /\ IF q = <<>>
       THEN queue' = q /\ UNCHANGED <<flushing, inflight>>
       ELSE /\ inflight' = SubSeq(q, 1, Taken(q))
            /\ queue' = SubSeq(q, Taken(q) + 1, Len(q))
            /\ flushing' = TRUE

\* flushNow() up to its await, on a queue that holds q.
FlushNow(q) ==
    /\ timer' = FALSE
    /\ IF q = <<>> \/ flushing
       THEN queue' = q /\ UNCHANGED <<flushing, inflight>>
       ELSE /\ inflight' = SubSeq(q, 1, Taken(q))
            /\ queue' = SubSeq(q, Taken(q) + 1, Len(q))
            /\ flushing' = TRUE

\* track() -> push(): nothing stops an application from tracking after close.
Push ==
    /\ pushed < MaxEvents
    /\ pushed' = pushed + 1
    /\ LET q == Append(queue, pushed + 1)
       IN  IF Len(q) >= BatchSize
           THEN FlushNow(q)
           ELSE /\ queue' = q
                /\ timer' = TRUE
                /\ UNCHANGED <<flushing, inflight>>
    /\ UNCHANGED <<phase, failures, received>>

TimerFires ==
    /\ timer
    /\ FlushNow(queue)
    /\ UNCHANGED <<phase, pushed, failures, received>>

\* The await of destroy() ends with the flush it waits for.
Settle == phase' = IF phase = "closing" THEN "closed" ELSE phase

FlushConfirmed ==
    /\ flushing
    /\ received' = received \o inflight
    /\ flushing' = FALSE
    /\ inflight' = <<>>
    /\ Settle
    /\ UNCHANGED <<queue, timer, pushed, failures>>

\* Mutant of FlushFailed: the batch is put back behind the newer events.
FlushFailedPushesBack(arrived) ==
    /\ flushing
    /\ failures < MaxFailures
    /\ failures' = failures + 1
    /\ received' = IF arrived THEN received \o inflight ELSE received
    /\ queue' = queue \o inflight
    /\ flushing' = FALSE
    /\ inflight' = <<>>
    /\ Settle
    /\ UNCHANGED <<timer, pushed>>

\* Mutant of FlushFailed: the failed batch is not put back.
FlushFailedDrops(arrived) ==
    /\ flushing
    /\ failures < MaxFailures
    /\ failures' = failures + 1
    /\ received' = IF arrived THEN received \o inflight ELSE received
    /\ flushing' = FALSE
    /\ inflight' = <<>>
    /\ Settle
    /\ UNCHANGED <<queue, timer, pushed>>

\* Mutant of FlushFailed: the promise of a failed flush is never settled.
FlushFailedUnsettled(arrived) ==
    /\ flushing
    /\ failures < MaxFailures
    /\ failures' = failures + 1
    /\ received' = IF arrived THEN received \o inflight ELSE received
    /\ queue' = inflight \o queue
    /\ flushing' = FALSE
    /\ inflight' = <<>>
    /\ UNCHANGED <<timer, phase, pushed>>

\* The flush rejects: `finally' clears flushing, no timer is armed.
FlushFailed(arrived) ==
    /\ flushing
    /\ failures < MaxFailures
    /\ failures' = failures + 1
    /\ received' = IF arrived THEN received \o inflight ELSE received
    /\ queue' = inflight \o queue
    /\ flushing' = FALSE
    /\ inflight' = <<>>
    /\ Settle
    /\ UNCHANGED <<timer, pushed>>

\* destroy(): its flushNow() returns at once when another flush is pending.
Destroy ==
    /\ phase # "closing"
    /\ IF queue = <<>>
       THEN /\ timer' = FALSE
            /\ UNCHANGED <<queue, flushing, inflight>>
       ELSE FlushNow(queue)
    /\ phase' = IF queue = <<>> \/ flushing THEN "closed" ELSE "closing"
    /\ UNCHANGED <<pushed, failures, received>>

Next ==
    \/ Push
    \/ TimerFires
    \/ FlushConfirmed
    \/ \E arrived \in BOOLEAN : FlushFailed(arrived)
    \/ Destroy

Spec == Init /\ [][Next]_vars

\* Timers fire and a POST settles one way or the other; no one has to track.
FairSpec ==
    /\ Spec
    /\ WF_vars(TimerFires)
    /\ WF_vars(FlushConfirmed \/ \E arrived \in BOOLEAN : FlushFailed(arrived))

-----------------------------------------------------------------------------
(* Properties.                                                             *)

\* Type invariant; a POST carries one batch at most (event-batcher.ts:42).
TypeOK ==
    /\ queue \in Seq(Nat \ {0})
    /\ timer \in BOOLEAN
    /\ flushing \in BOOLEAN
    /\ inflight \in Seq(Nat \ {0}) /\ Len(inflight) <= BatchSize
    /\ phase \in {"open", "closing", "closed"}
    /\ pushed \in 0..MaxEvents
    /\ failures \in 0..MaxFailures
    /\ received \in Seq(Nat \ {0})

\* The events that are known to have arrived: all but the last ones.
Confirmed == pushed - Len(inflight) - Len(queue)

\* What waits is the tail of what was tracked, in the order of tracking: the
\* pending batch first, then the queue.  A failed batch that goes back to the
\* front keeps its place, whatever was pushed meanwhile (event-batcher.ts:49).
PendingIsTail ==
    /\ Confirmed >= 0
    /\ \A i \in 1..Len(inflight) : inflight[i] = Confirmed + i
    /\ \A i \in 1..Len(queue) : queue[i] = Confirmed + Len(inflight) + i

\* An event that no longer waits has arrived: retries and races between the
\* timer, a full batch and destroy() lose nothing (event-batcher.ts:19-53).
NothingLost ==
    \A e \in 1..Confirmed : \E i \in 1..Len(received) : received[i] = e

\* One POST at a time, of at most BatchSize events (event-batcher.ts:40-43).
OneFlushAtATime ==
    /\ flushing <=> inflight # <<>>
    /\ Len(inflight) <= BatchSize

\* The API sees every event for the first time in the order of tracking,
\* although failed batches are sent again (event-batcher.ts:42-49).
FirstReceivedInOrder ==
    \A i \in 1..Len(received) : \A e \in 1..(received[i] - 1) :
        \E j \in 1..(i - 1) : received[j] = e

\* A destroy() that awaits its flush returns, also when the flush fails
\* (event-batcher.ts:47-63).
DestroyReturns == (phase = "closing") ~> (phase = "closed")

\* The batcher implements the at-least-once, in-order channel.
Channel == INSTANCE EventChannel WITH confirmed <- Confirmed
ImplementsChannel == Channel!Spec

\* What event-batcher.ts:60 ("Flush remaining events on shutdown") and
\* docs/page.tsx:381 (a flush "when either this interval elapses or
\* flushBatchSize events accumulate") say: an event tracked before the client is
\* closed is flushed, unless a flush has failed.  It does not hold: the timer,
\* a full batch and destroy() spend their turn while a flush is pending
\* (event-batcher.ts:40), and destroy() flushes one batch only.
OpenEventsAreFlushed ==
    \A e \in 1..MaxEvents :
        (phase = "open" /\ pushed >= e) ~> (Confirmed >= e \/ failures > 0)
=============================================================================
