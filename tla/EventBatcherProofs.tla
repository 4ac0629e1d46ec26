------------------------- MODULE EventBatcherProofs -------------------------
(***************************************************************************)
(* Proofs about EventBatcher, for every batch size and every number of     *)
(* events and failures: nothing is lost or reordered, and the batcher      *)
(* implements EventChannel.                                                *)
(***************************************************************************)
EXTENDS EventBatcher, SequenceTheorems, TLAPS

-----------------------------------------------------------------------------
\* Batch b and then queue q hold the events that follow event c, in order.
Follow(c, b, q) ==
    /\ \A i \in 1..Len(b) : b[i] = c + i
    /\ \A i \in 1..Len(q) : q[i] = c + Len(b) + i

\* A flush moves the front of the queue to the empty batch, or does nothing:
\* the events that wait stay the same, in the same order.
LEMMA FlushNowKeeps ==
    ASSUME NEW q \in Seq(Nat \ {0}), NEW c \in Nat,
           inflight \in Seq(Nat \ {0}), flushing \in BOOLEAN,
           OneFlushAtATime, Follow(c, inflight, q), FlushNow(q)
    PROVE  /\ queue' \in Seq(Nat \ {0})
           /\ inflight' \in Seq(Nat \ {0})
           /\ timer' \in BOOLEAN
           /\ flushing' \in BOOLEAN
           /\ Len(inflight') + Len(queue') = Len(inflight) + Len(q)
           /\ Follow(c, inflight', queue')
           /\ OneFlushAtATime'
<1>1. CASE q = <<>> \/ flushing
  BY <1>1 DEF FlushNow, OneFlushAtATime
<1>2. CASE ~(q = <<>> \/ flushing)
  <2>1. /\ inflight = <<>>
        /\ inflight' = SubSeq(q, 1, Taken(q))
        /\ queue' = SubSeq(q, Taken(q) + 1, Len(q))
        /\ timer' = FALSE /\ flushing' = TRUE
    BY <1>2 DEF FlushNow, OneFlushAtATime
  <2>2. Taken(q) \in 1..Len(q) /\ Taken(q) <= BatchSize
    BY <1>2, BatchSizeAssumption DEF Taken
  <2>3. /\ inflight' \in Seq(Nat \ {0}) /\ queue' \in Seq(Nat \ {0})
        /\ Len(inflight') = Taken(q) /\ Len(queue') = Len(q) - Taken(q)
        /\ \A i \in 1..Taken(q) : inflight'[i] = q[i]
        /\ \A i \in 1..(Len(q) - Taken(q)) : queue'[i] = q[Taken(q) + i]
    <3>1. \A i \in 1..Len(q) : q[i] \in Nat \ {0}
      BY ElementOfSeq
    <3>2. /\ inflight' \in Seq(Nat \ {0}) /\ Len(inflight') = Taken(q)
          /\ \A i \in 1..Taken(q) : inflight'[i] = q[i]
      <4>1. \A i \in 1..Taken(q) : q[i] \in Nat \ {0}
        BY <2>2, <3>1
      <4> QED
        BY <2>1, <2>2, <4>1, SubSeqProperties
    <3>3. /\ queue' \in Seq(Nat \ {0}) /\ Len(queue') = Len(q) - Taken(q)
          /\ \A i \in 1..(Len(q) - Taken(q)) : queue'[i] = q[Taken(q) + i]
      <4>1. \A i \in (Taken(q) + 1)..Len(q) : q[i] \in Nat \ {0}
        BY <2>2, <3>1
      <4> DEFINE m == Taken(q) + 1
                 n == Len(q)
      <4>2. m \in Int /\ n \in Int /\ n - m + 1 = n - Taken(q)
            /\ (m <= n \/ n - Taken(q) = 0)
        BY <2>2
      <4>3. \A i \in m..n : q[i] \in Nat \ {0}
        BY <4>1
      <4>4. queue' = SubSeq(q, m, n)
        BY <2>1
      <4>5. \A i \in 1..(n - Taken(q)) : m + i - 1 = Taken(q) + i
        BY <2>2
      <4> HIDE DEF m, n
      <4>6. /\ queue' \in Seq(Nat \ {0})
            /\ Len(queue') = IF m <= n THEN n - m + 1 ELSE 0
            /\ \A i \in 1..(n - m + 1) : queue'[i] = q[m + i - 1]
        BY <4>2, <4>3, <4>4, SubSeqProperties
      <4>7. Len(queue') = n - Taken(q)
        BY <4>2, <4>6
      <4>8. \A i \in 1..(n - Taken(q)) : queue'[i] = q[Taken(q) + i]
        BY <4>2, <4>5, <4>6
      <4> QED
        BY <4>6, <4>7, <4>8 DEF n
    <3> QED
      BY <3>2, <3>3
  <2>4. \A i \in 1..Len(q) : q[i] = c + i
    BY <2>1 DEF Follow
  <2>5. Follow(c, inflight', queue')
    <3>1. ASSUME NEW i \in 1..Len(inflight')
          PROVE  inflight'[i] = c + i
      <4>1. i \in 1..Taken(q) /\ i \in 1..Len(q)
        BY <2>2, <2>3, LenProperties
      <4> QED
        BY <2>3, <2>4, <4>1
    <3>2. ASSUME NEW i \in 1..Len(queue')
          PROVE  queue'[i] = c + Len(inflight') + i
      <4>1. Len(q) \in Nat /\ Len(queue') = Len(q) - Taken(q)
        BY <2>3, LenProperties
      <4>2. Taken(q) + i \in 1..Len(q)
        BY <2>2, <4>1
      <4>3. queue'[i] = c + (Taken(q) + i)
        BY <2>3, <2>4, <4>1, <4>2
      <4> QED
        BY <2>2, <2>3, <4>3
    <3> QED
      BY <3>1, <3>2 DEF Follow
  <2>6. OneFlushAtATime'
    BY <2>1, <2>2, <2>3 DEF OneFlushAtATime
  <2>7. Len(inflight') + Len(queue') = Len(inflight) + Len(q)
    BY <2>1, <2>2, <2>3, LenProperties
  <2> QED
    BY <2>1, <2>3, <2>5, <2>6, <2>7
<1> QED
  BY <1>1, <1>2

-----------------------------------------------------------------------------
\* No batch at all is a batch of the right size.
LEMMA EmptyBatch == <<>> \in Seq(Nat \ {0}) /\ Len(<<>>) <= BatchSize
<1>1. Len(<<>>) = 0 /\ <<>> \in Seq(Nat \ {0})
  BY EmptySeq
<1> QED
  BY <1>1, BatchSizeAssumption

(* The inductive invariant.                                                *)

TailInv == TypeOK /\ OneFlushAtATime /\ PendingIsTail

\* PendingIsTail in the terms of the lemma above.
LEMMA TailFollows ==
    ASSUME TypeOK
    PROVE  PendingIsTail <=>
               Confirmed \in Nat /\ Follow(Confirmed, inflight, queue)
BY DEF TypeOK, PendingIsTail, Follow, Confirmed

\* A step that only lets events wait elsewhere.
LEMMA Regroup ==
    ASSUME TailInv, NEW q \in Seq(Nat \ {0}), NEW n \in 0..MaxEvents,
           pushed' = n, n - Len(q) = pushed - Len(queue),
           Follow(Confirmed, inflight, q), FlushNow(q),
           phase' \in {"open", "closing", "closed"},
           UNCHANGED <<failures, received>>
    PROVE  TailInv' /\ Confirmed' = Confirmed
<1>1. /\ TypeOK /\ Confirmed \in Nat
      /\ inflight \in Seq(Nat \ {0}) /\ queue \in Seq(Nat \ {0})
  BY TailFollows DEF TailInv, TypeOK
<1>2. PICK d \in Nat : d = Confirmed
  BY <1>1
<1>3. /\ queue' \in Seq(Nat \ {0})
      /\ inflight' \in Seq(Nat \ {0})
      /\ timer' \in BOOLEAN
      /\ flushing' \in BOOLEAN
      /\ Len(inflight') + Len(queue') = Len(inflight) + Len(q)
      /\ Follow(d, inflight', queue')
      /\ OneFlushAtATime'
  BY <1>2, FlushNowKeeps DEF TailInv, TypeOK
<1>4. TypeOK'
  BY <1>3 DEF TailInv, TypeOK, OneFlushAtATime
<1>5. Confirmed' = d
  <2>1. /\ Len(queue) \in Nat /\ Len(inflight) \in Nat /\ Len(q) \in Nat
        /\ Len(queue') \in Nat /\ Len(inflight') \in Nat /\ pushed \in Nat
    BY <1>1, <1>3, BoundAssumption, LenProperties DEF TypeOK
  <2>2. n \in Nat /\ pushed' = n /\ n - Len(q) = pushed - Len(queue)
    BY BoundAssumption
  <2>3. Len(inflight') + Len(queue') = Len(inflight) + Len(q)
    BY <1>3
  <2>4. d = pushed - Len(inflight) - Len(queue)
    BY <1>2 DEF Confirmed
  <2>5. Confirmed' = pushed' - Len(inflight') - Len(queue')
    BY DEF Confirmed
  <2>6. \A a, b, e, k, l, u, v \in Int :
            u + v = a + e /\ k - e = l - b => k - u - v = l - a - b
    OBVIOUS
  <2>7. pushed' - Len(inflight') - Len(queue') = pushed - Len(inflight) - Len(queue)
    BY <2>1, <2>2, <2>3, <2>6
  <2> QED
    BY <2>4, <2>5, <2>7
<1>6. PendingIsTail'
  BY <1>3, <1>4, <1>5 DEF PendingIsTail, Follow, TypeOK
<1> QED
  BY <1>2, <1>3, <1>4, <1>5, <1>6 DEF TailInv

\* A batch that settles: it was received or not, and it is done with or goes
\* back in front of the queue.  `c' is what is confirmed then.
LEMMA SettledTail ==
    ASSUME TailInv, flushing,
           \/ FlushConfirmed
           \/ \E arrived \in BOOLEAN : FlushFailed(arrived)
    PROVE  /\ TailInv'
           /\ FlushConfirmed => Confirmed' = Confirmed + Len(inflight)
           /\ ~FlushConfirmed => Confirmed' = Confirmed
<1>1. PICK d \in Nat : d = Confirmed
  BY TailFollows DEF TailInv
<1>2. /\ inflight \in Seq(Nat \ {0}) /\ queue \in Seq(Nat \ {0})
      /\ received \in Seq(Nat \ {0}) /\ pushed \in Nat /\ failures \in Nat
      /\ Len(inflight) \in Nat /\ Len(queue) \in Nat
      /\ d = pushed - Len(inflight) - Len(queue)
  BY <1>1, BoundAssumption, LenProperties DEF TailInv, TypeOK, Confirmed
<1>3. Follow(d, inflight, queue)
  BY <1>1, TailFollows DEF TailInv
<1>4. inflight # <<>> /\ Len(inflight) > 0
  BY <1>2, EmptySeq DEF TailInv, OneFlushAtATime
<1>5. CASE FlushConfirmed
  <2>1. /\ received' \in Seq(Nat \ {0}) /\ inflight' = <<>> /\ queue' = queue
        /\ flushing' = FALSE /\ UNCHANGED <<timer, pushed, failures>>
        /\ phase' \in {"open", "closing", "closed"}
    BY <1>2, <1>5, ConcatProperties
       DEF FlushConfirmed, Settle, TailInv, TypeOK
  <2>2. Confirmed' = d + Len(inflight)
    BY <1>2, <2>1 DEF Confirmed
  <2>3. PendingIsTail'
    BY <1>2, <1>3, <2>1, <2>2 DEF PendingIsTail, Follow
  <2>4. TypeOK'
    BY <2>1, EmptyBatch DEF TailInv, TypeOK
  <2>5. OneFlushAtATime'
    BY <2>1, EmptySeq, BatchSizeAssumption DEF OneFlushAtATime
  <2> QED
    BY <1>1, <1>5, <2>2, <2>3, <2>4, <2>5 DEF TailInv
<1>6. ASSUME NEW arrived \in BOOLEAN, FlushFailed(arrived)
      PROVE  TailInv' /\ Confirmed' = d /\ ~FlushConfirmed
  <2>1. /\ received' \in Seq(Nat \ {0}) /\ inflight' = <<>>
        /\ queue' = inflight \o queue
        /\ flushing' = FALSE /\ UNCHANGED <<timer, pushed>>
        /\ phase' \in {"open", "closing", "closed"}
        /\ failures' = failures + 1 /\ failures < MaxFailures
    BY <1>2, <1>6, ConcatProperties DEF FlushFailed, Settle, TailInv, TypeOK
  <2>2. /\ queue' \in Seq(Nat \ {0})
        /\ Len(queue') = Len(inflight) + Len(queue)
        /\ \A i \in 1..(Len(inflight) + Len(queue)) :
              queue'[i] = IF i <= Len(inflight) THEN inflight[i]
                                               ELSE queue[i - Len(inflight)]
    BY <1>2, <2>1, ConcatProperties
  <2>3. Confirmed' = d
    BY <1>2, <2>1, <2>2 DEF Confirmed
  <2>4. ASSUME NEW i \in 1..(Len(inflight) + Len(queue))
        PROVE  queue'[i] = d + i
    <3>1. CASE i <= Len(inflight)
      <4>1. i \in 1..Len(inflight) /\ queue'[i] = inflight[i]
        BY <1>2, <2>2, <3>1
      <4> QED
        BY <1>3, <4>1 DEF Follow
    <3>2. CASE i > Len(inflight)
      <4>1. i - Len(inflight) \in 1..Len(queue)
        BY <1>2, <3>2
      <4>2. queue'[i] = queue[i - Len(inflight)]
        BY <1>2, <2>2, <3>2
      <4>3. queue[i - Len(inflight)] = d + Len(inflight) + (i - Len(inflight))
        BY <1>3, <4>1 DEF Follow
      <4> QED
        BY <1>2, <4>2, <4>3
    <3> QED
      BY <1>2, <3>1, <3>2
  <2>5. PendingIsTail'
    BY <1>2, <2>1, <2>2, <2>3, <2>4 DEF PendingIsTail
  <2>6. TypeOK'
    <3>1. failures' \in 0..MaxFailures
      BY <1>2, <2>1, BoundAssumption
    <3> QED
      BY <2>1, <2>2, <3>1, EmptyBatch DEF TailInv, TypeOK
  <2>7. OneFlushAtATime'
    BY <2>1, EmptySeq, BatchSizeAssumption DEF OneFlushAtATime
  <2>8. ~FlushConfirmed
    BY <1>2, <1>4, <2>1, <2>2 DEF FlushConfirmed
  <2> QED
    BY <2>3, <2>5, <2>6, <2>7, <2>8 DEF TailInv
<1> QED
  BY <1>1, <1>5, <1>6

\* The steps that move events from the queue to a batch.
LEMMA MovingTail ==
    ASSUME TailInv, Push \/ TimerFires \/ Destroy
    PROVE  TailInv' /\ Confirmed' = Confirmed
<1>1. /\ queue \in Seq(Nat \ {0}) /\ inflight \in Seq(Nat \ {0})
      /\ pushed \in 0..MaxEvents /\ Len(queue) \in Nat
      /\ Len(inflight) \in Nat /\ pushed \in Nat
  BY BoundAssumption, LenProperties DEF TailInv, TypeOK
<1>2. PICK d \in Nat : d = Confirmed
  BY TailFollows DEF TailInv
<1>3. Follow(d, inflight, queue)
  BY <1>2, TailFollows DEF TailInv
<1>4. CASE Push
  <2> DEFINE q == Append(queue, pushed + 1)
  <2>1. /\ q \in Seq(Nat \ {0}) /\ Len(q) = Len(queue) + 1
        /\ \A i \in 1..Len(queue) : q[i] = queue[i]
        /\ q[Len(queue) + 1] = pushed + 1
    BY <1>1, AppendProperties
  <2>2. d + Len(inflight) + (Len(queue) + 1) = pushed + 1
    BY <1>1, <1>2 DEF Confirmed
  <2>3. ASSUME NEW i \in 1..Len(q)
        PROVE  q[i] = d + Len(inflight) + i
    <3>1. CASE i \in 1..Len(queue)
      BY <1>3, <2>1, <3>1 DEF Follow
    <3>2. CASE i = Len(queue) + 1
      BY <2>1, <2>2, <3>2
    <3> QED
      BY <1>1, <2>1, <3>1, <3>2
  <2>4. Follow(d, inflight, q)
    BY <1>3, <2>3 DEF Follow
  <2>5. /\ pushed + 1 \in 0..MaxEvents /\ pushed' = pushed + 1
        /\ (pushed + 1) - Len(q) = pushed - Len(queue)
        /\ UNCHANGED <<phase, failures, received>>
    BY <1>1, <1>4, <2>1, BoundAssumption DEF Push
  <2>6. phase' \in {"open", "closing", "closed"}
    BY <2>5 DEF TailInv, TypeOK
  <2>7. CASE Len(q) >= BatchSize
    <3>1. FlushNow(q)
      BY <1>4, <2>7 DEF Push
    <3> HIDE DEF q
    <3> QED
      BY <1>2, <2>1, <2>4, <2>5, <2>6, <3>1, Regroup
  <2>8. CASE ~(Len(q) >= BatchSize)
    <3>1. queue' = q /\ timer' = TRUE /\ UNCHANGED <<flushing, inflight>>
      BY <1>4, <2>8 DEF Push
    <3> HIDE DEF q
    <3>2. Confirmed' = d
      <4>1. Confirmed' = pushed' - Len(inflight) - Len(q)
        BY <3>1 DEF Confirmed
      <4>2. pushed' = pushed + 1 /\ Len(q) = Len(queue) + 1
        BY <2>1, <2>5
      <4>3. d = pushed - Len(inflight) - Len(queue)
        BY <1>2 DEF Confirmed
      <4> QED
        BY <1>1, <4>1, <4>2, <4>3
    <3>3. PendingIsTail'
      BY <1>1, <2>1, <2>4, <3>1, <3>2 DEF PendingIsTail, Follow
    <3>4. TypeOK'
      BY <2>1, <2>5, <2>6, <3>1 DEF TailInv, TypeOK
    <3>5. OneFlushAtATime'
      BY <3>1 DEF TailInv, OneFlushAtATime
    <3> QED
      BY <1>2, <3>2, <3>3, <3>4, <3>5 DEF TailInv
  <2> QED
    BY <2>7, <2>8
<1>5. CASE TimerFires
  <2>1. FlushNow(queue) /\ UNCHANGED <<phase, pushed, failures, received>>
    BY <1>5 DEF TimerFires
  <2>2. phase' \in {"open", "closing", "closed"}
    BY <2>1 DEF TailInv, TypeOK
  <2> QED
    BY <1>1, <1>2, <1>3, <2>1, <2>2, Regroup
<1>6. CASE Destroy
  <2>1. /\ UNCHANGED <<pushed, failures, received>>
        /\ phase' \in {"open", "closing", "closed"}
    BY <1>6 DEF Destroy
  <2>2. FlushNow(queue)
    BY <1>6 DEF Destroy, FlushNow
  <2> QED
    BY <1>1, <1>2, <1>3, <2>1, <2>2, Regroup
<1> QED
  BY <1>4, <1>5, <1>6

LEMMA TailInvariant == Spec => []TailInv
<1>1. Init => TailInv
  <2> SUFFICES ASSUME Init PROVE TailInv
    OBVIOUS
  <2>1. TypeOK
    <3>1. 0 \in 0..MaxEvents /\ 0 \in 0..MaxFailures
      BY BoundAssumption
    <3> QED
      BY <3>1, EmptyBatch DEF Init, TypeOK
  <2>2. Len(queue) = 0 /\ Len(inflight) = 0 /\ pushed = 0
    BY EmptySeq DEF Init
  <2>3. Confirmed = 0
    BY <2>2 DEF Confirmed
  <2>4. PendingIsTail
    BY <2>2, <2>3 DEF PendingIsTail
  <2>5. OneFlushAtATime
    BY <2>2, BatchSizeAssumption DEF Init, OneFlushAtATime
  <2> QED
    BY <2>1, <2>4, <2>5 DEF TailInv
<1>2. TailInv /\ [Next]_vars => TailInv'
  <2> SUFFICES ASSUME TailInv, [Next]_vars PROVE TailInv'
    OBVIOUS
  <2>1. CASE Push \/ TimerFires \/ Destroy
    BY <2>1, MovingTail
  <2>2. CASE FlushConfirmed \/ \E arrived \in BOOLEAN : FlushFailed(arrived)
    BY <2>2, SettledTail DEF FlushConfirmed, FlushFailed
  <2>3. CASE UNCHANGED vars
    BY <2>3 DEF vars, TailInv, TypeOK, OneFlushAtATime, PendingIsTail, Confirmed
  <2> QED
    BY <2>1, <2>2, <2>3 DEF Next
<1> QED
  BY <1>1, <1>2, PTL DEF Spec

\* Every variable keeps its type.
THEOREM TypeCorrect == Spec => []TypeOK
<1>1. TailInv => TypeOK
  BY DEF TailInv
<1> QED
  BY <1>1, TailInvariant, PTL

\* The events that wait are the last ones tracked, in order, whatever fails
\* and however pushes, timers, flushes and destroys interleave.
THEOREM WaitingEventsStayInOrder == Spec => []PendingIsTail
<1>1. TailInv => PendingIsTail
  BY DEF TailInv
<1> QED
  BY <1>1, TailInvariant, PTL

\* There is never more than one POST in flight, nor one of more than
\* BatchSize events.
THEOREM FlushesDoNotOverlap == Spec => []OneFlushAtATime
<1>1. TailInv => OneFlushAtATime
  BY DEF TailInv
<1> QED
  BY <1>1, TailInvariant, PTL

-----------------------------------------------------------------------------
(* The refinement.                                                         *)

\* The batch in flight is the next events, as a whole.
LEMMA BatchIsNext ==
    ASSUME TailInv, flushing
    PROVE  /\ Len(inflight) \in 1..BatchSize
           /\ Confirmed + Len(inflight) <= pushed
           /\ inflight = [i \in 1..Len(inflight) |-> Confirmed + i]
<1>1. /\ inflight \in Seq(Nat \ {0}) /\ queue \in Seq(Nat \ {0})
      /\ pushed \in Nat /\ Len(queue) \in Nat /\ Len(inflight) \in Nat
  BY BoundAssumption, LenProperties DEF TailInv, TypeOK
<1>2. inflight # <<>> /\ Len(inflight) <= BatchSize
  BY DEF TailInv, OneFlushAtATime
<1>3. Len(inflight) # 0
  BY <1>1, <1>2, EmptySeq, SeqEqual
<1>4. Len(inflight) \in 1..BatchSize
  BY <1>1, <1>2, <1>3, BatchSizeAssumption
<1>5. Confirmed + Len(inflight) <= pushed
  BY <1>1 DEF Confirmed
<1>6. \A i \in 1..Len(inflight) : inflight[i] = Confirmed + i
  BY DEF TailInv, PendingIsTail
<1>7. inflight \in [1..Len(inflight) -> Nat \ {0}]
  BY <1>1, LenProperties
<1>8. inflight = [i \in 1..Len(inflight) |-> inflight[i]]
  BY <1>7
<1> QED
  BY <1>4, <1>5, <1>6, <1>8

\* The batcher implements the at-least-once, in-order channel: a push is a
\* Track, a POST that arrives is an Arrive, all the rest stutters.
THEOREM BatcherImplementsChannel == Spec => ImplementsChannel
<1>1. Init => Channel!Init
  <2>1. ASSUME Init
        PROVE  Confirmed = 0
    <3>1. Len(queue) = 0 /\ Len(inflight) = 0 /\ pushed = 0
      BY <2>1, EmptySeq DEF Init
    <3> QED
      BY <3>1 DEF Confirmed
  <2> QED
    BY <2>1 DEF Init, Channel!Init
<1>2. TailInv /\ [Next]_vars => [Channel!Next]_Channel!chan
  <2> SUFFICES ASSUME TailInv, [Next]_vars
               PROVE  [Channel!Next]_Channel!chan
    OBVIOUS
  <2> USE DEF Channel!chan
  <2>1. CASE Push
    <3>1. Confirmed' = Confirmed
      BY <2>1, MovingTail
    <3> QED
      BY <2>1, <3>1 DEF Push, Channel!Next, Channel!Track
  <2>2. CASE TimerFires \/ Destroy
    <3>1. Confirmed' = Confirmed
      BY <2>2, MovingTail
    <3> QED
      BY <2>2, <3>1 DEF TimerFires, Destroy
  <2>3. CASE FlushConfirmed
    <3>1. flushing
      BY <2>3 DEF FlushConfirmed
    <3>2. Confirmed' = Confirmed + Len(inflight)
      BY <2>3, <3>1, SettledTail
    <3>3. Channel!Arrive(Len(inflight))
      BY <2>3, <3>1, <3>2, BatchIsNext DEF FlushConfirmed, Channel!Arrive
    <3> QED
      BY <3>1, <3>3, BatchIsNext DEF Channel!Next
  <2>4. ASSUME NEW arrived \in BOOLEAN, FlushFailed(arrived)
        PROVE  [Channel!Next]_Channel!chan
    <3>1. flushing
      BY <2>4 DEF FlushFailed
    <3>2. CASE FlushConfirmed
      BY <3>2, <2>3
    <3>3. CASE ~FlushConfirmed
      <4>1. Confirmed' = Confirmed
        BY <2>4, <3>1, <3>3, SettledTail
      <4>2. CASE arrived
        <5>1. Channel!Arrive(Len(inflight))
          BY <2>4, <3>1, <4>1, <4>2, BatchIsNext
             DEF FlushFailed, Channel!Arrive
        <5> QED
          BY <3>1, <5>1, BatchIsNext DEF Channel!Next
      <4>3. CASE ~arrived
        BY <2>4, <4>1, <4>3 DEF FlushFailed
      <4> QED
        BY <4>2, <4>3
    <3> QED
      BY <3>2, <3>3
  <2>5. CASE UNCHANGED vars
    BY <2>5 DEF vars, Confirmed
  <2> QED
    BY <2>1, <2>2, <2>3, <2>4, <2>5 DEF Next
<1> QED
  BY <1>1, <1>2, TailInvariant, PTL DEF Spec, ImplementsChannel, Channel!Spec

-----------------------------------------------------------------------------
(* What the API receives.                                                  *)

\* The arrival of the batch in flight: the events up to its last one have
\* arrived then, each for the first time after those before it.
LEMMA BatchArrives ==
    ASSUME TailInv, flushing, NothingLost, FirstReceivedInOrder,
           received' = received \o inflight
    PROVE  /\ FirstReceivedInOrder'
           /\ \A e \in 1..(Confirmed + Len(inflight)) :
                  \E i \in 1..Len(received') : received'[i] = e
<1>1. PICK c \in Nat, n \in Nat, m \in Nat :
          c = Confirmed /\ n = Len(inflight) /\ m = Len(received)
  <2>1. Confirmed \in Nat
    BY TailFollows DEF TailInv
  <2>2. Len(inflight) \in Nat /\ Len(received) \in Nat
    BY LenProperties DEF TailInv, TypeOK
  <2> QED
    BY <2>1, <2>2
<1>2. /\ Len(received') = m + n
      /\ \A i \in 1..m : received'[i] = received[i]
      /\ \A k \in 1..n : received'[m + k] = inflight[k]
  <2>1. received \in Seq(Nat \ {0}) /\ inflight \in Seq(Nat \ {0})
    BY DEF TailInv, TypeOK
  <2>2. /\ Len(received') = m + n
        /\ \A i \in 1..(m + n) :
              received'[i] = IF i <= m THEN received[i] ELSE inflight[i - m]
    BY <1>1, <2>1, ConcatProperties
  <2>3. ASSUME NEW k \in 1..n
        PROVE  received'[m + k] = inflight[k]
    <3>1. m + k \in 1..(m + n) /\ ~(m + k <= m) /\ (m + k) - m = k
      BY <1>1
    <3> QED
      BY <2>2, <3>1
  <2> QED
    BY <1>1, <2>2, <2>3
<1>3. \A k \in 1..n : received'[m + k] = c + k
  BY <1>1, <1>2 DEF TailInv, PendingIsTail
<1>4. \A e \in 1..c : \E i \in 1..m : received'[i] = e
  BY <1>1, <1>2 DEF NothingLost
<1>5. \A e \in 1..(c + n) : e \in 1..c \/ e - c \in 1..n
  BY <1>1
<1>6. \A k \in 1..n : m + k \in 1..(m + n)
  BY <1>1
<1>7. ASSUME NEW e \in 1..(c + n)
      PROVE  \E i \in 1..(m + n) : received'[i] = e
  <2>1. CASE e \in 1..c
    BY <1>1, <1>4, <2>1
  <2>2. CASE e - c \in 1..n
    <3>1. PICK k \in 1..n : k = e - c
      BY <2>2
    <3>2. c + k = e
      BY <1>1, <3>1
    <3>3. received'[m + k] = e
      BY <1>3, <3>2
    <3> QED
      BY <1>6, <3>3
  <2> QED
    BY <1>5, <2>1, <2>2
<1>8. ASSUME NEW i \in 1..(m + n), NEW e \in 1..(received'[i] - 1)
      PROVE  \E j \in 1..(i - 1) : received'[j] = e
  <2>1. CASE i \in 1..m
    <3>1. received'[i] = received[i]
      BY <1>2, <2>1
    <3>2. PICK j \in 1..(i - 1) : received[j] = e
      BY <1>1, <2>1, <3>1 DEF FirstReceivedInOrder
    <3>3. j \in 1..m
      BY <1>1, <2>1
    <3> QED
      BY <1>2, <3>2, <3>3
  <2>2. CASE i \notin 1..m
    <3>1. PICK k \in 1..n : i = m + k
      <4>1. i - m \in 1..n /\ i = m + (i - m)
        BY <1>1, <2>2
      <4> QED
        BY <4>1
    <3>2. e \in 1..(c + k - 1)
      <4>1. received'[i] = c + k
        BY <1>3, <3>1
      <4> QED
        BY <4>1
    <3>3. CASE e \in 1..c
      <4>1. PICK j \in 1..m : received'[j] = e
        BY <1>4, <3>3
      <4>2. j \in 1..(i - 1)
        BY <1>1, <3>1
      <4> QED
        BY <4>1, <4>2
    <3>4. CASE e \notin 1..c
      <4>1. PICK l \in 1..n : l = e - c
        BY <1>1, <3>1, <3>2, <3>4
      <4>2. c + l = e /\ m + l \in 1..(i - 1)
        BY <1>1, <3>1, <3>2, <4>1
      <4>3. received'[m + l] = e
        BY <1>3, <4>2
      <4> QED
        BY <4>2, <4>3
    <3> QED
      BY <3>3, <3>4
  <2> QED
    BY <2>1, <2>2
<1> QED
  BY <1>1, <1>2, <1>7, <1>8 DEF FirstReceivedInOrder

ReceivedInv == NothingLost /\ FirstReceivedInOrder

LEMMA ReceivedInvariant == Spec => []ReceivedInv
<1>1. Init => ReceivedInv
  <2> SUFFICES ASSUME Init PROVE ReceivedInv
    OBVIOUS
  <2>1. Len(queue) = 0 /\ Len(inflight) = 0 /\ pushed = 0 /\ Len(received) = 0
    BY EmptySeq DEF Init
  <2>2. Confirmed = 0
    BY <2>1 DEF Confirmed
  <2> QED
    BY <2>1, <2>2 DEF ReceivedInv, NothingLost, FirstReceivedInOrder
<1>2. TailInv /\ ReceivedInv /\ [Next]_vars => ReceivedInv'
  <2> SUFFICES ASSUME TailInv, ReceivedInv, [Next]_vars
               PROVE  ReceivedInv'
    OBVIOUS
  <2>1. CASE Confirmed' = Confirmed /\ received' = received
    BY <2>1 DEF ReceivedInv, NothingLost, FirstReceivedInOrder
  <2>2. CASE Push \/ TimerFires \/ Destroy
    <3>1. Confirmed' = Confirmed /\ received' = received
      BY <2>2, MovingTail DEF Push, TimerFires, Destroy
    <3> QED
      BY <2>1, <3>1
  <2>3. CASE UNCHANGED vars
    BY <2>1, <2>3 DEF vars, Confirmed
  <2>4. CASE FlushConfirmed \/ \E arrived \in BOOLEAN : FlushFailed(arrived)
    <3>1. /\ flushing
          /\ Confirmed' \in {Confirmed, Confirmed + Len(inflight)}
          /\ \/ received' = received \o inflight
             \/ received' = received /\ Confirmed' = Confirmed
      BY <2>4, SettledTail DEF FlushConfirmed, FlushFailed
    <3>2. CASE received' = received \o inflight
      <4>1. PICK d \in Nat, n \in Nat : d = Confirmed /\ n = Len(inflight)
        BY TailFollows, LenProperties DEF TailInv, TypeOK
      <4>2. \A e \in 1..(d + n) :
                \E i \in 1..Len(received') : received'[i] = e
        BY <3>1, <3>2, <4>1, BatchArrives DEF ReceivedInv
      <4>3. Confirmed' \in {d, d + n}
        BY <3>1, <4>1
      <4>4. 1..Confirmed' \subseteq 1..(d + n)
        BY <4>1, <4>3
      <4>5. NothingLost'
        BY <4>2, <4>4 DEF NothingLost
      <4> QED
        BY <3>1, <3>2, <4>5, BatchArrives DEF ReceivedInv
    <3> QED
      BY <2>1, <3>1, <3>2
  <2> QED
    BY <2>2, <2>3, <2>4 DEF Next
<1> QED
  BY <1>1, <1>2, TailInvariant, PTL DEF Spec

\* An event that no longer waits was received: no failure and no
\* interleaving loses one.
THEOREM NoEventIsLost == Spec => []NothingLost
<1>1. ReceivedInv => NothingLost
  BY DEF ReceivedInv
<1> QED
  BY <1>1, ReceivedInvariant, PTL

\* Although batches are sent again, each event is first received after all
\* events tracked before it.
THEOREM EventsArriveInOrder == Spec => []FirstReceivedInOrder
<1>1. ReceivedInv => FirstReceivedInOrder
  BY DEF ReceivedInv
<1> QED
  BY <1>1, ReceivedInvariant, PTL
=============================================================================
