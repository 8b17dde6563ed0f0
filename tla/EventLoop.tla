------------------------------- MODULE EventLoop -------------------------------
(***************************************************************************)
(* dcdn/EventLoop.h, the base of every manager: any thread posts, the      *)
(* manager's thread calls waitEvent or waitAllEvents for ever.  What the   *)
(* handler of an event does is conjoined by the module that uses the loop. *)
(***************************************************************************)
EXTENDS Naturals, Sequences

CONSTANTS
  Event,       \* the events
  Calls,       \* the calls the thread makes: waitAllEvents or waitEvent
               \* (all), with a duration other than 0 or without (timed)
  MaxPending   \* bound on mEvents

Call == [all : BOOLEAN, timed : BOOLEAN]

ASSUME LoopAssumption ==
  Calls # {} /\ Calls \subseteq Call /\ MaxPending \in Nat \ {0}

VARIABLES
  mEvents,  \* posted events, guarded by mMtx
  loop,     \* where the thread is
  call,     \* the call it makes
  evts      \* the events taken and not yet handled

loopVars == <<mEvents, loop, call, evts>>

Init == mEvents = <<>> /\ loop = "ready" /\ call \in Calls /\ evts = <<>>

(* Mutant of PostEvent: nobody is notified. *)
PostQuietly(e) ==
  /\ Len(mEvents) < MaxPending
  /\ mEvents' = Append(mEvents, e)
  /\ UNCHANGED <<loop, call, evts>>

(* Under mMtx: the event is queued and a waiting thread notified. *)
PostEvent(e) ==
  /\ Len(mEvents) < MaxPending
  /\ mEvents' = Append(mEvents, e)
  /\ loop' = IF loop = "waiting" THEN "woken" ELSE loop
  /\ UNCHANGED <<call, evts>>

-------------------------------------------------------------------------------
(* takeEvent and takeAllEvents: wait() is inside a loop on the queue, but  *)
(* wait_for() is not: it waits even when events are there.                 *)

Wait ==
  /\ loop = "ready"
  /\ loop' = IF call.timed \/ mEvents = <<>> THEN "waiting" ELSE "woken"
  /\ UNCHANGED <<mEvents, call, evts>>

(* Mutant of WaitEnds: wait() in place of wait_for(). *)
WaitHasNoEnd ==
  /\ loop = "waiting"
  /\ ~call.timed
  /\ loop' = "woken"
  /\ UNCHANGED <<mEvents, call, evts>>

(* The duration is over, or the wait ends for no reason. *)
WaitEnds ==
  /\ loop = "waiting"
  /\ loop' = "woken"
  /\ UNCHANGED <<mEvents, call, evts>>

WaitAgain ==
  /\ loop = "woken"
  /\ ~call.timed /\ mEvents = <<>>
  /\ loop' = "waiting"
  /\ UNCHANGED <<mEvents, call, evts>>

(* Mutant of Taken: of a batch only the first event is kept. *)
TakenFirst == IF mEvents = <<>> THEN <<>> ELSE <<Head(mEvents)>>

(* Mutant of Taken: takeEvent hands out all there is. *)
TakenWhole == mEvents

Taken == IF call.all \/ mEvents = <<>> THEN mEvents ELSE <<Head(mEvents)>>

(* Mutant of Left: takeEvent does not pop. *)
LeftUnpopped == IF call.all THEN <<>> ELSE mEvents

Left == IF call.all \/ mEvents = <<>> THEN <<>> ELSE Tail(mEvents)

Take ==
  /\ loop = "woken"
  /\ call.timed \/ mEvents # <<>>
  /\ evts' = Taken
  /\ mEvents' = Left
  /\ loop' = "handling"
  /\ UNCHANGED call

(* The handler returns or throws; an event without one is dropped. *)
Dispatch ==
  /\ loop = "handling"
  /\ evts # <<>>
  /\ evts' = Tail(evts)
  /\ UNCHANGED <<mEvents, loop, call>>

(* waitEvent or waitAllEvents returns, and the thread calls again. *)
Return ==
  /\ loop = "handling"
  /\ evts = <<>>
  /\ loop' = "ready"
  /\ call' \in Calls
  /\ UNCHANGED <<mEvents, evts>>

(* Every step of the thread but the handling of an event *)
Between == Wait \/ WaitEnds \/ WaitAgain \/ Take \/ Return

Next == (\E e \in Event : PostEvent(e)) \/ Dispatch \/ Between

Spec == Init /\ [][Next]_loopVars

(* The thread runs.  WaitEnds is fair only for wait_for, which has a       *)
(* timeout: nothing ends a plain wait() but a notification.                *)
Thread == Dispatch \/ Wait \/ WaitAgain \/ Take \/ Return \/ (call.timed /\ WaitEnds)

FairSpec == Spec /\ WF_loopVars(Thread)

-------------------------------------------------------------------------------
(* mEvents, the batch and the place of the thread stay in their ranges; a  *)
(* batch exists only between takeEvent and its last handler, and waitEvent *)
(* takes one event at a time.                                              *)
TypeOK ==
  /\ mEvents \in Seq(Event) /\ evts \in Seq(Event)
  /\ Len(mEvents) <= MaxPending
  /\ loop \in {"ready", "waiting", "woken", "handling"}
  /\ call \in Calls
  /\ loop # "handling" => evts = <<>>
  /\ ~call.all => Len(evts) <= 1

(* The loop is a queue: no event is lost, handled twice or overtaken,      *)
(* neither by the batch it takes nor by what is posted meanwhile, whatever *)
(* calls the thread alternates between.                                    *)
Pending == evts \o mEvents
Fifo == INSTANCE EventFifo WITH pending <- Pending
IsFifo == Fifo!Spec

(* A call that waits without a time limit is never left asleep over an     *)
(* event.                                                                  *)
NoSleepOverEvent == ~call.timed /\ loop = "waiting" => mEvents = <<>>

(* The thread keeps handling events as long as there are some, whatever    *)
(* was posted before it began to wait: the timeout makes up for            *)
(* notifications nobody waited for.                                        *)
KeepsHandling == []<>(Pending = <<>>) \/ []<><<Fifo!Handle>>_Pending
===============================================================================
