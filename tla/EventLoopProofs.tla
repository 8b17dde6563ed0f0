---------------------------- MODULE EventLoopProofs ----------------------------
(***************************************************************************)
(* Theorems about EventLoop, for any events, any calls the thread makes    *)
(* and any bound on the queue.                                             *)
(***************************************************************************)
EXTENDS EventLoop, SequenceTheorems, TLAPS

(* Every step of the thread or of a poster keeps the queue, the batch and  *)
(* the place of the thread in their ranges.                                *)
LEMMA StepTyping == ASSUME TypeOK, [Next]_loopVars PROVE TypeOK'
<1> USE LoopAssumption DEF TypeOK, loopVars, Call
<1>1. ASSUME NEW e \in Event, PostEvent(e) PROVE TypeOK'
  <2>1. mEvents' \in Seq(Event) /\ Len(mEvents') = Len(mEvents) + 1
    BY <1>1 DEF PostEvent
  <2> QED BY <1>1, <2>1 DEF PostEvent
<1>2. CASE Dispatch
  <2>1. evts' \in Seq(Event) /\ Len(evts') = Len(evts) - 1
    BY <1>2, HeadTailProperties DEF Dispatch
  <2>2. ~call.all => Len(evts') <= 1
    BY <2>1, LenProperties
  <2> QED BY <1>2, <2>1, <2>2 DEF Dispatch
<1>3. CASE Wait
  BY <1>3 DEF Wait
<1>4. CASE WaitEnds
  BY <1>4 DEF WaitEnds
<1>5. CASE WaitAgain
  BY <1>5 DEF WaitAgain
<1>6. CASE Take
  <2>1. CASE call.all \/ mEvents = <<>>
    <3>1. evts' = mEvents /\ mEvents' = <<>>
      BY <1>6, <2>1 DEF Take, Taken, Left
    <3>2. ~call.all => Len(evts') <= 1
      BY <2>1, <3>1
    <3> QED BY <1>6, <3>1, <3>2 DEF Take
  <2>2. CASE ~call.all /\ mEvents # <<>>
    <3>1. evts' = <<Head(mEvents)>> /\ mEvents' = Tail(mEvents)
      BY <1>6, <2>2 DEF Take, Taken, Left
    <3>2. /\ Head(mEvents) \in Event
          /\ Tail(mEvents) \in Seq(Event)
          /\ Len(Tail(mEvents)) = Len(mEvents) - 1
      BY <2>2, HeadTailProperties
    <3> DEFINE e == Head(mEvents)
    <3>3. <<e>> \in Seq(Event) /\ Len(<<e>>) = 1
      <4> HIDE DEF e
      <4> QED BY <3>2 DEF e
    <3> QED BY <1>6, <3>1, <3>2, <3>3 DEF Take
  <2> QED BY <2>1, <2>2
<1>7. CASE Return
  BY <1>7 DEF Return
<1>8. CASE UNCHANGED loopVars
  BY <1>8
<1> QED BY <1>1, <1>2, <1>3, <1>4, <1>5, <1>6, <1>7, <1>8 DEF Next, Between

(* The ranges of EventLoop hold always: what mEvents and the batch hold,   *)
(* and that a batch exists only while its events are handled.              *)
THEOREM LoopTyping == Spec => []TypeOK
<1>1. Init => TypeOK
  BY LoopAssumption DEF Init, TypeOK
<1> QED BY <1>1, StepTyping, PTL DEF Spec

(* PostEvent's notification reaches a thread that waits: a call without a  *)
(* time limit is never asleep while an event is there, however the thread  *)
(* changes between waitEvent and waitAllEvents.                            *)
THEOREM NeverAsleepOverEvent == Spec => []NoSleepOverEvent
<1>1. Init => NoSleepOverEvent
  BY DEF Init, NoSleepOverEvent
<1>2. NoSleepOverEvent /\ [Next]_loopVars => NoSleepOverEvent'
  <2> SUFFICES ASSUME NoSleepOverEvent, [Next]_loopVars PROVE NoSleepOverEvent'
    OBVIOUS
  <2> USE DEF NoSleepOverEvent
  <2>1. ASSUME NEW e \in Event, PostEvent(e) PROVE NoSleepOverEvent'
    BY <2>1 DEF PostEvent
  <2>2. CASE Dispatch
    BY <2>2 DEF Dispatch
  <2>3. CASE Between
    BY <2>3 DEF Between, Wait, WaitEnds, WaitAgain, Take, Return
  <2>4. CASE UNCHANGED loopVars
    BY <2>4 DEF loopVars
  <2> QED BY <2>1, <2>2, <2>3, <2>4 DEF Next
<1> QED BY <1>1, <1>2, PTL DEF Spec

-------------------------------------------------------------------------------
(* Posting at the end of the queue posts at the end of batch and queue.    *)
LEMMA AppendToConcat ==
  ASSUME NEW S, NEW s \in Seq(S), NEW q \in Seq(S), NEW e \in S
  PROVE  s \o Append(q, e) = Append(s \o q, e)
<1> DEFINE l == s \o Append(q, e)
           r == Append(s \o q, e)
<1>1. Append(q, e) \in Seq(S) /\ Len(Append(q, e)) = Len(q) + 1
  OBVIOUS
<1>2. s \o q \in Seq(S) /\ Len(s \o q) = Len(s) + Len(q)
  BY ConcatProperties
<1>3. l \in Seq(S) /\ Len(l) = Len(s) + Len(q) + 1
  BY <1>1, ConcatProperties
<1>4. r \in Seq(S) /\ Len(r) = Len(s) + Len(q) + 1
  BY <1>2
<1>5. \A i \in 1 .. Len(l) : l[i] = r[i]
  <2> TAKE i \in 1 .. Len(l)
  <2>1. Len(s) \in Nat /\ Len(q) \in Nat
    BY LenProperties
  <2>2. l[i] = IF i <= Len(s) THEN s[i] ELSE Append(q, e)[i - Len(s)]
    <3> DEFINE a == Append(q, e)
    <3>1. a \in Seq(S) /\ Len(a) = Len(q) + 1 /\ i \in 1 .. Len(s) + Len(a)
      BY <1>1, <1>3, <2>1
    <3> HIDE DEF a
    <3>2. (s \o a)[i] = IF i <= Len(s) THEN s[i] ELSE a[i - Len(s)]
      BY <3>1, ConcatProperties
    <3> QED BY <3>2 DEF a
  <2>3. i <= Len(s) + Len(q) =>
          (s \o q)[i] = IF i <= Len(s) THEN s[i] ELSE q[i - Len(s)]
    BY <1>3, <2>1, ConcatProperties
  <2>4. r[i] = IF i <= Len(s) + Len(q) THEN (s \o q)[i] ELSE e
    BY <1>2, <1>3, <2>1
  <2> QED BY <1>3, <2>1, <2>2, <2>3, <2>4
<1> HIDE DEF l, r
<1>6. l = r
  BY <1>3, <1>4, <1>5, SeqEqual
<1> QED BY <1>6 DEF l, r

(* Handling the first event of a batch handles the first of all.           *)
LEMMA TailOfConcat ==
  ASSUME NEW S, NEW s \in Seq(S), NEW q \in Seq(S), s # <<>>
  PROVE  s \o q # <<>> /\ Tail(s) \o q = Tail(s \o q)
<1> DEFINE l == Tail(s) \o q
           r == Tail(s \o q)
<1>1. s \o q \in Seq(S) /\ Len(s \o q) = Len(s) + Len(q)
  BY ConcatProperties
<1>2. Len(s) \in Nat \ {0} /\ Len(q) \in Nat
  BY EmptySeq, LenProperties
<1>3. s \o q # <<>>
  BY <1>1, <1>2
<1>4. Tail(s) \in Seq(S) /\ Len(Tail(s)) = Len(s) - 1
  BY HeadTailProperties
<1>5. l \in Seq(S) /\ Len(l) = Len(s) + Len(q) - 1
  BY <1>2, <1>4, ConcatProperties
<1>6. r \in Seq(S) /\ Len(r) = Len(s) + Len(q) - 1
  BY <1>1, <1>2, <1>3, HeadTailProperties
<1>7. \A i \in 1 .. Len(l) : l[i] = r[i]
  <2> TAKE i \in 1 .. Len(l)
  <2>1. r[i] = (s \o q)[i + 1]
    BY <1>1, <1>2, <1>3, <1>5, HeadTailProperties
  <2>2. (s \o q)[i + 1] = IF i + 1 <= Len(s) THEN s[i + 1] ELSE q[i + 1 - Len(s)]
    BY <1>2, <1>5, ConcatProperties
  <2>3. l[i] = IF i <= Len(s) - 1 THEN Tail(s)[i] ELSE q[i - (Len(s) - 1)]
    BY <1>2, <1>4, <1>5, ConcatProperties
  <2>4. i <= Len(s) - 1 => Tail(s)[i] = s[i + 1]
    BY <1>2, <1>4, <1>5, HeadTailProperties
  <2> QED BY <1>2, <1>5, <2>1, <2>2, <2>3, <2>4
<1> HIDE DEF l, r
<1>8. l = r
  BY <1>5, <1>6, <1>7, SeqEqual
<1> QED BY <1>3, <1>8 DEF l, r

(* Taking moves events from the queue to the batch and changes neither     *)
(* their number nor their order.                                           *)
LEMMA TakeKeepsPending == ASSUME TypeOK, Take PROVE Pending' = Pending
<1> USE DEF TypeOK
<1>1. evts = <<>>
  BY DEF Take
<1>2. Pending = mEvents
  BY <1>1, ConcatEmptySeq DEF Pending
<1>3. CASE call.all \/ mEvents = <<>>
  <2>1. evts' = mEvents /\ mEvents' = <<>>
    BY <1>3 DEF Take, Taken, Left
  <2> QED BY <1>2, <2>1, ConcatEmptySeq DEF Pending
<1>4. CASE ~call.all /\ mEvents # <<>>
  <2>1. evts' = <<Head(mEvents)>> /\ mEvents' = Tail(mEvents)
    BY <1>4 DEF Take, Taken, Left
  <2>2. Head(mEvents) = mEvents[1] /\ Len(mEvents) \in Nat \ {0}
    BY <1>4, EmptySeq
  <2>3. mEvents = <<mEvents[1]>> \o SubSeq(mEvents, 2, Len(mEvents))
    <3>1. SubSeq(mEvents, 1, Len(mEvents)) = mEvents
      BY SubSeqFull
    <3> QED BY <2>2, <3>1, SubSeqRecursiveFirst
  <2>4. Tail(mEvents) = SubSeq(mEvents, 2, Len(mEvents))
    BY <1>4, TailIsSubSeq
  <2> QED BY <1>2, <2>1, <2>2, <2>3, <2>4 DEF Pending
<1> QED BY <1>3, <1>4

(* What the steps of a loop do to its pending events, for the modules that *)
(* use one: a post appends, a handler has the first one, and nothing else  *)
(* changes them.                                                           *)
LEMMA PendingSteps ==
  ASSUME TypeOK
  PROVE  /\ Pending \in Seq(Event)
         /\ \A e \in Event : PostEvent(e) => Pending' = Append(Pending, e)
         /\ Dispatch => /\ Pending # <<>> /\ Head(evts) = Head(Pending)
                        /\ Pending' = Tail(Pending)
         /\ Between => Pending' = Pending
<1>1. Pending \in Seq(Event)
  BY ConcatProperties DEF TypeOK, Pending
<1>2. ASSUME NEW e \in Event, PostEvent(e) PROVE Pending' = Append(Pending, e)
  BY <1>2, AppendToConcat DEF TypeOK, PostEvent, Pending
<1>3. ASSUME Dispatch
      PROVE  Pending # <<>> /\ Head(evts) = Head(Pending) /\ Pending' = Tail(Pending)
  <2>1. evts # <<>> /\ evts' = Tail(evts) /\ mEvents' = mEvents
    BY <1>3 DEF Dispatch
  <2>2. Pending # <<>> /\ Pending' = Tail(Pending)
    BY <2>1, TailOfConcat DEF TypeOK, Pending
  <2>3. Len(evts) \in Nat \ {0} /\ Len(mEvents) \in Nat
    BY <2>1, EmptySeq, LenProperties DEF TypeOK
  <2>4. Pending[1] = evts[1]
    BY <2>3, ConcatProperties DEF TypeOK, Pending
  <2> QED BY <2>2, <2>4
<1>4. ASSUME Between PROVE Pending' = Pending
  <2>1. CASE Take
    BY <2>1, TakeKeepsPending
  <2>2. CASE Wait \/ WaitEnds \/ WaitAgain \/ Return
    BY <2>2 DEF Wait, WaitEnds, WaitAgain, Return, Pending
  <2> QED BY <1>4, <2>1, <2>2 DEF Between
<1> QED BY <1>1, <1>2, <1>3, <1>4

(* A loop implements EventFifo: takeEvent and takeAllEvents, any mixture   *)
(* of waitEvent and waitAllEvents, and posts that come while a batch is    *)
(* handled lose, repeat and reorder nothing.                               *)
THEOREM LoopIsFifo == Spec => IsFifo
<1>1. Init => Fifo!Init
  BY ConcatEmptySeq, EmptySeq DEF Init, Fifo!Init, Pending
<1>2. TypeOK /\ [Next]_loopVars => [Fifo!Next]_Pending
  <2> SUFFICES ASSUME TypeOK, [Next]_loopVars PROVE [Fifo!Next]_Pending
    OBVIOUS
  <2>1. ASSUME NEW e \in Event, PostEvent(e) PROVE Fifo!Post(e)
    BY <2>1, PendingSteps DEF Fifo!Post
  <2>2. CASE Dispatch
    BY <2>2, PendingSteps DEF Fifo!Handle, Fifo!Next
  <2>3. CASE Between
    BY <2>3, PendingSteps
  <2>4. CASE UNCHANGED loopVars
    BY <2>4 DEF loopVars, Pending
  <2> QED BY <2>1, <2>2, <2>3, <2>4 DEF Next, Fifo!Next
<1> QED BY <1>1, <1>2, LoopTyping, PTL DEF Spec, IsFifo, Fifo!Spec
===============================================================================
