-------------------------- MODULE HttpDownloaderProofs --------------------------
(***************************************************************************)
(* Theorems about HttpDownloader, for any set of tasks, any size of        *)
(* resource, any options and any number of commands.                       *)
(***************************************************************************)
EXTENDS HttpDownloader, TLAPS

(* The range curl_multi_add_handle asks for lies within the resource.      *)
LEMMA RangeBounds ==
  ASSUME NEW t \in Tasks
  PROVE  /\ FirstSent(t) \in 0 .. ResourceSize - 1
         /\ LastSent(t) \in 0 .. ResourceSize - 1
         /\ FirstSent(t) <= LastSent(t)
         /\ Opt[t].Start \in Nat
         /\ ResourceSize \in Nat
BY TaskAssumption DEF FirstSent, LastSent, Ranged

(* The steps of the client threads keep every variable in its range.       *)
LEMMA ClientTyping == ASSUME TypeOK, Client PROVE TypeOK'
<1> USE CallAssumption DEF TypeOK, vars, apiVars, loopVars, taskVars, curlVars, noteVars, Event
<1>1. CASE Signal
  BY <1>1 DEF Signal
<1>2. ASSUME NEW t \in Tasks, AddTask(t) PROVE TypeOK'
  <2>1. mEvts' \in Seq(Event)
    BY <1>2 DEF AddTask, Post, EventTypes
  <2> QED BY <1>2, <2>1 DEF AddTask, Post
<1>3. ASSUME NEW t \in Tasks, NEW type \in Commands, Command(type, t) PROVE TypeOK'
  <2>1. mEvts' \in Seq(Event)
    BY <1>3 DEF Command, Post, EventTypes
  <2> QED BY <1>3, <2>1 DEF Command, Post
<1>4. ASSUME NEW t \in Tasks, Read(t) PROVE TypeOK'
  <2>1. /\ taken' \in [Tasks -> Nat]
        /\ \A u \in Tasks : taken'[u] <= Len(stream'[u])
    BY <1>4 DEF Read
  <2> QED BY <1>4, <2>1 DEF Read
<1>5. ASSUME NEW t \in Tasks, Release(t) PROVE TypeOK'
  BY <1>5 DEF Release
<1>6. ASSUME NEW t \in Tasks, TakeNotification(t) PROVE TypeOK'
  BY <1>6 DEF TakeNotification
<1> QED BY <1>1, <1>2, <1>3, <1>4, <1>5, <1>6 DEF Client

(* So do libcurl's transfers: a byte is delivered only inside the range.   *)
LEMMA TransferTyping ==
  ASSUME TypeOK, NEW t \in Tasks, Transfer(t) PROVE TypeOK'
<1> USE DEF TypeOK, vars, apiVars, loopVars, taskVars, curlVars, noteVars
<1>1. CASE WriteCallback(t)
  <2>1. /\ pos[t] \in 0 .. ResourceSize - 1
        /\ pos' = [pos EXCEPT ![t] = pos[t] + 1]
    BY <1>1, RangeBounds DEF WriteCallback, AppendData
  <2>2. pos' \in [Tasks -> 0 .. ResourceSize]
    BY <2>1, RangeBounds
  <2>3. [offset |-> Opt[t].Start + Len(stream[t]), pos |-> pos[t]] \in Chunk
    <3>1. stream[t] \in Seq(Chunk)
      OBVIOUS
    <3>2. Len(stream[t]) \in Nat
      BY <3>1
    <3> HIDE DEF TypeOK
    <3> QED BY <2>1, <3>2, RangeBounds DEF Chunk
  <2>4. /\ stream' \in [Tasks -> Seq(Chunk)]
        /\ \A u \in Tasks : taken[u] <= Len(stream'[u])
    BY <1>1, <2>3 DEF WriteCallback, AppendData
  <2> QED BY <1>1, <2>2, <2>4 DEF WriteCallback, AppendData
<1>2. CASE TransferEnds(t)
  <2>1. xfer' \in [Tasks -> {"idle", "running", "ok", "error", "reported"}]
    BY <1>2 DEF TransferEnds
  <2> QED BY <1>2, <2>1 DEF TransferEnds
<1> QED BY <1>1, <1>2 DEF Transfer

(* removeTask, in one or several tasks, and notify keep the ranges.        *)
LEMMA HandlesTyping ==
  ASSUME TypeOK, NEW S \in SUBSET Tasks
  PROVE  /\ RemoveHandles(S) =>
              /\ xfer' \in [Tasks -> {"idle", "running", "ok", "error", "reported"}]
              /\ pos' \in [Tasks -> 0 .. ResourceSize]
         /\ RemoveTasks(S) =>
              /\ xfer' \in [Tasks -> {"idle", "running", "ok", "error", "reported"}]
              /\ pos' \in [Tasks -> 0 .. ResourceSize]
              /\ curlAdded' \in [Tasks -> BOOLEAN]
              /\ mTasks' \subseteq Tasks
         /\ NotifyAll(S) => inbox' \subseteq Tasks /\ told' \subseteq Tasks
BY DEF TypeOK, RemoveHandles, RemoveTasks, NotifyAll

(* curl_multi_add_handle, granted or refused, keeps the ranges.            *)
LEMMA AddHandleTyping ==
  ASSUME TypeOK, NEW t \in Tasks, AddHandle(t) \/ AddHandleFails(t)
  PROVE  /\ xfer' \in [Tasks -> {"idle", "running", "ok", "error", "reported"}]
         /\ pos' \in [Tasks -> 0 .. ResourceSize]
<1>1. FirstSent(t) \in 0 .. ResourceSize
  BY RangeBounds
<1> QED BY <1>1 DEF TypeOK, AddHandle, AddHandleFails, curlVars

(* So does abortAll.                                                       *)
LEMMA AbortTyping == ASSUME TypeOK, AbortAll PROVE TypeOK'
<1>1. mTasks \in SUBSET Tasks
  BY DEF TypeOK
<1>2. status' \in [Tasks -> Statuses]
  BY DEF TypeOK, AbortAll, Statuses
<1> QED BY <1>1, <1>2, HandlesTyping DEF TypeOK, AbortAll, apiVars

(* A step of run() outside its event handlers keeps the ranges.            *)
LEMMA LoopTyping ==
  ASSUME TypeOK, Worker, ~HandleEvent PROVE TypeOK'
<1> USE DEF vars, apiVars, loopVars, taskVars, curlVars, noteVars
<1>1. CASE PerformReturns \/ MessagesRead
  BY <1>1 DEF TypeOK, PerformReturns, MessagesRead
<1>2. CASE PerformFails \/ PollFails
  BY <1>2, AbortTyping DEF PerformFails, PollFails
<1>3. ASSUME NEW t \in Tasks, ReadMessage(t) PROVE TypeOK'
  <2>1. status' \in [Tasks -> Statuses]
    BY <1>3 DEF TypeOK, ReadMessage, Statuses
  <2> QED BY <1>3, <2>1 DEF TypeOK, ReadMessage
<1>4. ASSUME NEW t \in Tasks, Visit(t) PROVE TypeOK'
  <2>1. (HasData(t) \/ IsEnd(status[t])) \in BOOLEAN
    BY DEF HasData, IsEnd
  <2> QED BY <1>4, <2>1 DEF TypeOK, Visit
<1>5. CASE Throttle
  <2>1. cur \in Tasks /\ {cur} \cap {t \in Tasks : curlAdded[t]} \in SUBSET Tasks
    BY <1>5 DEF TypeOK, Throttle
  <2>2. (IF notify THEN {cur} ELSE {}) \in SUBSET Tasks
    BY <2>1
  <2> QED BY <1>5, <2>1, <2>2, HandlesTyping DEF TypeOK, Throttle, VisitDone
<1>6. CASE Reattach
  <2>1. cur \in Tasks /\ {cur} \in SUBSET Tasks
    BY <1>6 DEF TypeOK, Reattach
  <2>2. (IF notify THEN {cur} ELSE {}) \in SUBSET Tasks
    BY <2>1
  <2>3. inbox' \subseteq Tasks /\ told' \subseteq Tasks
    BY <1>6, <2>1, <2>2, HandlesTyping DEF Reattach
  <2>4. status' \in [Tasks -> Statuses]
    BY <1>6 DEF TypeOK, Reattach, Statuses
  <2> QED BY <1>6, <2>1, <2>3, <2>4, AddHandleTyping DEF TypeOK, Reattach, VisitDone
<1>7. CASE KeepGoing
  <2>1. (IF notify THEN {cur} ELSE {}) \in SUBSET Tasks
    BY <1>7 DEF TypeOK, KeepGoing
  <2> QED BY <1>7, <2>1, HandlesTyping DEF TypeOK, KeepGoing, VisitDone
<1>8. CASE Reap
  <2>1. {t \in mTasks : IsEnd(status[t])} \in SUBSET Tasks
    BY DEF TypeOK
  <2> QED BY <1>8, <2>1, HandlesTyping DEF TypeOK, Reap
<1>9. CASE PollReturns \/ SwapEvents \/ EventsHandled
  BY <1>9 DEF TypeOK, PollReturns, SwapEvents, EventsHandled
<1> QED BY <1>1, <1>2, <1>3, <1>4, <1>5, <1>6, <1>7, <1>8, <1>9 DEF Worker

(* The head of a batch is an event, and the rest of it a batch.            *)
LEMMA HeadEvent ==
  ASSUME TypeOK, HandleEvent
  PROVE  /\ evts # <<>> /\ evts \in Seq(Event)
         /\ Head(evts) \in Event
         /\ Head(evts).type \in EventTypes /\ Head(evts).task \in Tasks
         /\ evts' = Tail(evts) /\ evts' \in Seq(Event)
         /\ pc = "events" /\ Dispatch(Head(evts))
<1>1. evts # <<>> /\ evts \in Seq(Event)
  BY DEF TypeOK, HandleEvent
<1>2. Head(evts) \in Event /\ Tail(evts) \in Seq(Event)
  BY <1>1
<1> QED BY <1>1, <1>2 DEF HandleEvent, Event

(* So do the event handlers.                                               *)
LEMMA HandlerTyping == ASSUME TypeOK, HandleEvent PROVE TypeOK'
<1> DEFINE e == Head(evts)
           Handled == /\ mTasks' \subseteq Tasks
                      /\ status' \in [Tasks -> Statuses]
                      /\ curlAdded' \in [Tasks -> BOOLEAN]
                      /\ xfer' \in [Tasks -> {"idle", "running", "ok", "error", "reported"}]
                      /\ pos' \in [Tasks -> 0 .. ResourceSize]
                      /\ inbox' \subseteq Tasks /\ told' \subseteq Tasks
                      /\ pc' \in {"events", "aborted"}
<1>1. /\ e.task \in Tasks /\ evts' \in Seq(Event) /\ Dispatch(e)
      /\ {e.task} \in SUBSET Tasks
      /\ {e.task} \cap {u \in Tasks : curlAdded[u]} \in SUBSET Tasks
      /\ pc = "events"
  BY HeadEvent
<1>2. Handled
  <2> HIDE DEF e
  <2>1. CASE HandleAddTaskEvent(e.task)
    <3>1. status' \in [Tasks -> Statuses] /\ curlAdded' \in [Tasks -> BOOLEAN]
      BY <1>1, <2>1 DEF HandleAddTaskEvent, TypeOK, Statuses
    <3> QED BY <1>1, <2>1, <3>1, AddHandleTyping, HandlesTyping DEF HandleAddTaskEvent, TypeOK, noteVars
  <2>2. CASE HandleCancelTaskEvent(e.task)
    <3>1. status' \in [Tasks -> Statuses]
      BY <1>1, <2>2 DEF HandleCancelTaskEvent, Interruptible, TypeOK, Statuses
    <3> QED BY <1>1, <2>2, <3>1, HandlesTyping DEF HandleCancelTaskEvent, Interruptible, TypeOK, noteVars, curlVars
  <2>3. CASE HandlePauseTaskEvent(e.task)
    <3>1. status' \in [Tasks -> Statuses] /\ curlAdded' \in [Tasks -> BOOLEAN]
      BY <1>1, <2>3 DEF HandlePauseTaskEvent, Interruptible, TypeOK, Statuses
    <3> QED BY <1>1, <2>3, <3>1, HandlesTyping DEF HandlePauseTaskEvent, Interruptible, TypeOK, noteVars, curlVars
  <2>4. CASE BadAnyCast \/ NotDispatched
    BY <1>1, <2>4 DEF BadAnyCast, NotDispatched, TypeOK, noteVars, curlVars
  <2> QED BY <1>1, <2>1, <2>2, <2>3, <2>4 DEF Dispatch
<1> QED BY <1>1, <1>2 DEF HandleEvent, TypeOK, apiVars

(* The ranges hold before the first call.                                  *)
LEMMA InitTyping == Init => TypeOK
<1> SUFFICES ASSUME Init PROVE TypeOK
  OBVIOUS
<1>1. /\ mEvts \in Seq(Event) /\ evts \in Seq(Event)
      /\ stream \in [Tasks -> Seq(Chunk)]
      /\ \A t \in Tasks : taken[t] <= Len(stream[t])
  BY DEF Init
<1>2. commands \in 0 .. MaxCommands /\ pos \in [Tasks -> 0 .. ResourceSize]
  BY CallAssumption, TaskAssumption DEF Init
<1> QED BY <1>1, <1>2 DEF Init, TypeOK, Statuses

(* Every step keeps the ranges.                                            *)
LEMMA StepTyping == TypeOK /\ [Next]_vars => TypeOK'
<1> SUFFICES ASSUME TypeOK, [Next]_vars PROVE TypeOK'
  OBVIOUS
<1>1. CASE UNCHANGED vars
  BY <1>1 DEF TypeOK, vars, apiVars, loopVars, taskVars, curlVars, noteVars
<1>2. CASE Next
  BY <1>2, ClientTyping, TransferTyping, LoopTyping, HandlerTyping DEF Next
<1> QED BY <1>1, <1>2

(* Every variable stays in the range the code gives it, whatever the calls *)
(* and whatever fails; no read cursor passes the data appended.            *)
THEOREM Typing == Spec => []TypeOK
BY InitTyping, StepTyping, PTL DEF Spec

-------------------------------------------------------------------------------
(* The worker sleeps only over an empty queue                              *)

(* Outside the few statements between the swap and the end of the batch,   *)
(* the batch is empty, so the swap always leaves an empty queue behind.    *)
BatchEmpty == evts # <<>> => pc \in {"events", "aborted"}

(* A posted event is announced until the worker swaps the queue.           *)
Announced == mEvts # <<>> /\ pc # "swap" => wakeup \/ unsignalled > 0

WakeupInv == TypeOK /\ BatchEmpty /\ Announced

(* Every step keeps the wakeup invariant.                                  *)
LEMMA WakeupStep == WakeupInv /\ [Next]_vars => WakeupInv'
<1> SUFFICES ASSUME WakeupInv, [Next]_vars PROVE BatchEmpty' /\ Announced'
  BY StepTyping DEF WakeupInv
<1> USE DEF WakeupInv, BatchEmpty, Announced, vars, apiVars, loopVars, taskVars, curlVars, noteVars
<1>1. CASE UNCHANGED vars
  BY <1>1
<1>2. CASE Client
  <2>1. CASE Signal
    BY <2>1 DEF Signal
  <2>2. ASSUME NEW t \in Tasks, AddTask(t) PROVE BatchEmpty' /\ Announced'
    BY <2>2 DEF AddTask, Post, TypeOK
  <2>3. ASSUME NEW t \in Tasks, NEW type \in Commands, Command(type, t)
        PROVE  BatchEmpty' /\ Announced'
    BY <2>3 DEF Command, Post, TypeOK
  <2>4. ASSUME NEW t \in Tasks, Read(t) \/ Release(t) \/ TakeNotification(t)
        PROVE  BatchEmpty' /\ Announced'
    BY <2>4 DEF Read, Release, TakeNotification
  <2> QED BY <1>2, <2>1, <2>2, <2>3, <2>4 DEF Client
<1>3. ASSUME NEW t \in Tasks, Transfer(t) PROVE BatchEmpty' /\ Announced'
  BY <1>3 DEF Transfer, WriteCallback, AppendData, TransferEnds
<1>4. CASE Worker /\ ~HandleEvent
  <2>1. CASE PerformReturns \/ PerformFails \/ PollFails
    BY <2>1 DEF PerformReturns, PerformFails, PollFails, AbortAll
  <2>2. ASSUME NEW t \in Tasks, ReadMessage(t) \/ Visit(t)
        PROVE  BatchEmpty' /\ Announced'
    BY <2>2 DEF ReadMessage, Visit
  <2>3. CASE MessagesRead \/ Throttle \/ Reattach \/ KeepGoing \/ Reap
    BY <2>3 DEF MessagesRead, Throttle, Reattach, KeepGoing, Reap, VisitDone
  <2>4. CASE PollReturns \/ SwapEvents \/ EventsHandled
    BY <2>4 DEF PollReturns, SwapEvents, EventsHandled
  <2> QED BY <1>4, <2>1, <2>2, <2>3, <2>4 DEF Worker
<1>5. CASE HandleEvent
  <2>1. pc' \in {"events", "aborted"}
    BY <1>5, HeadEvent DEF Dispatch, HandleAddTaskEvent, HandleCancelTaskEvent,
                           HandlePauseTaskEvent, Interruptible, BadAnyCast, NotDispatched
  <2> QED BY <1>5, <2>1 DEF HandleEvent
<1> QED BY <1>1, <1>2, <1>3, <1>4, <1>5 DEF Next

(* curl_multi_poll never begins over a posted event without a wakeup       *)
(* pending or on its way: no command waits for the ten-second timeout.     *)
THEOREM NoWakeupIsLost == Spec => []NoLostWakeup
<1>1. Init => WakeupInv
  BY InitTyping DEF Init, WakeupInv, BatchEmpty, Announced
<1>2. WakeupInv => NoLostWakeup
  BY DEF WakeupInv, Announced, NoLostWakeup
<1> QED BY <1>1, <1>2, WakeupStep, PTL DEF Spec

-------------------------------------------------------------------------------
(* What the maps, mCurlAdded and the multi handle say of a task            *)

(* The uses of the downloader in which run() never adds a handle back: no  *)
(* buffer limit, no pause that takes effect, no curl_multi_add_handle that *)
(* fails on a fresh handle.                                                *)
NeverReattached ==
  /\ \A t \in Tasks : Opt[t].MaxBuf = 0
  /\ "PauseTask" \in Commands => PayloadType["PauseTask"] = "DownloaderTask"
  /\ "add_handle" \notin CurlFaults

AddEvent(t) == [type |-> "AddTask", task |-> t]
Waiting(q, t) == \E i \in 1 .. Len(q) : q[i] = AddEvent(t)
AtMostOne(q, t) ==
  \A i, j \in 1 .. Len(q) : q[i] = AddEvent(t) /\ q[j] = AddEvent(t) => i = j

(* What a post adds to a queue.                                            *)
LEMMA AppendEvent ==
  ASSUME NEW q \in Seq(Event), NEW e \in Event, NEW t
  PROVE  /\ Waiting(Append(q, e), t) <=> Waiting(q, t) \/ e = AddEvent(t)
         /\ AtMostOne(q, t) /\ ~(Waiting(q, t) /\ e = AddEvent(t)) =>
              AtMostOne(Append(q, e), t)
<1>1. /\ Len(Append(q, e)) = Len(q) + 1 /\ Len(q) \in Nat
      /\ \A i \in 1 .. Len(q) : Append(q, e)[i] = q[i]
      /\ Append(q, e)[Len(q) + 1] = e
  OBVIOUS
<1>2. \A i : i \in 1 .. Len(q) + 1 <=> i \in 1 .. Len(q) \/ i = Len(q) + 1
  BY <1>1
<1> QED BY <1>1, <1>2, Zenon DEF Waiting, AtMostOne

(* What handling the head of a batch leaves of it.                         *)
LEMMA TailEvents ==
  ASSUME NEW q \in Seq(Event), q # <<>>, NEW t
  PROVE  /\ Waiting(Tail(q), t) => Waiting(q, t)
         /\ Head(q) = AddEvent(t) => Waiting(q, t)
         /\ AtMostOne(q, t) => AtMostOne(Tail(q), t)
         /\ AtMostOne(q, t) /\ Head(q) = AddEvent(t) => ~Waiting(Tail(q), t)
<1>1. /\ Len(q) \in Nat /\ Len(q) > 0 /\ Len(Tail(q)) = Len(q) - 1 /\ Head(q) = q[1]
      /\ \A i \in 1 .. Len(Tail(q)) : Tail(q)[i] = q[i + 1]
  OBVIOUS
<1>2. \A i \in 1 .. Len(Tail(q)) : i + 1 \in 1 .. Len(q) /\ i + 1 # 1 /\ i \in Nat
  BY <1>1
<1>3. 1 \in 1 .. Len(q)
  BY <1>1
<1>4. Waiting(Tail(q), t) => Waiting(q, t)
  BY <1>1, <1>2, Zenon DEF Waiting
<1>5. Head(q) = AddEvent(t) => Waiting(q, t)
  BY <1>1, <1>3, Zenon DEF Waiting
<1>6. ASSUME AtMostOne(q, t) PROVE AtMostOne(Tail(q), t)
  <2> SUFFICES ASSUME NEW i \in 1 .. Len(Tail(q)), NEW j \in 1 .. Len(Tail(q)),
                      Tail(q)[i] = AddEvent(t), Tail(q)[j] = AddEvent(t)
               PROVE  i = j
    BY DEF AtMostOne
  <2>1. q[i + 1] = AddEvent(t) /\ q[j + 1] = AddEvent(t)
    BY <1>1
  <2>2. i + 1 = j + 1
    BY <2>1, <1>2, <1>6 DEF AtMostOne
  <2> QED BY <2>2, <1>2
<1>7. ASSUME AtMostOne(q, t), Head(q) = AddEvent(t), Waiting(Tail(q), t) PROVE FALSE
  <2>1. PICK i \in 1 .. Len(Tail(q)) : Tail(q)[i] = AddEvent(t)
    BY <1>7 DEF Waiting
  <2>2. q[i + 1] = AddEvent(t) /\ q[1] = AddEvent(t)
    BY <2>1, <1>1, <1>7
  <2> QED BY <2>2, <1>2, <1>3, <1>7 DEF AtMostOne
<1> QED BY <1>4, <1>5, <1>6, <1>7

(* Only what some client may post is ever posted.                          *)
Posted == [type : {"AddTask"} \cup Commands, task : Tasks]
PostedOnly == mEvts \in Seq(Posted) /\ evts \in Seq(Posted)

(* A task is registered at most once: one AddTask event, and only before   *)
(* it is in the maps.                                                      *)
AddedOnce ==
  \A t \in Tasks :
    /\ AtMostOne(mEvts, t) /\ AtMostOne(evts, t)
    /\ ~(Waiting(mEvts, t) /\ Waiting(evts, t))
    /\ Waiting(mEvts, t) \/ Waiting(evts, t) => t \in created /\ t \notin mTasks
    /\ t \in mTasks => t \in created

(* The maps, mCurlAdded and the multi handle agree.                        *)
Attached ==
  \A t \in Tasks : (t \in mTasks <=> curlAdded[t]) /\ (t \in mTasks <=> InMulti(t))

(* The loop over mTasks visits registered tasks.                           *)
VisitsRegistered ==
  /\ pc \in {"tasks", "visit"} => todo \subseteq mTasks
  /\ pc = "visit" => cur \in mTasks

AttachInv ==
  TypeOK /\ BatchEmpty /\ PostedOnly /\ AddedOnce /\ Attached /\ VisitsRegistered

(* removeTask takes a task out of the maps and the multi handle together.  *)
LEMMA RemovalAttached ==
  ASSUME TypeOK, Attached, NEW S \in SUBSET Tasks, RemoveTasks(S)
  PROVE  /\ \A t \in Tasks : (t \in mTasks' <=> curlAdded'[t])
                             /\ (t \in mTasks' <=> xfer'[t] # "idle")
         /\ mTasks' = mTasks \ S
         /\ \A t \in Tasks \ S : xfer'[t] = xfer[t] /\ curlAdded'[t] = curlAdded[t]
BY DEF TypeOK, Attached, RemoveTasks, RemoveHandles, InMulti

(* The calls of clients keep maps, flags and multi handle in agreement.    *)
LEMMA ClientAttach ==
  ASSUME AttachInv, Client PROVE AttachInv'
<1> USE DEF vars, apiVars, loopVars, taskVars, curlVars, noteVars
<1>0. TypeOK' /\ TypeOK
  BY ClientTyping DEF AttachInv
<1>1. UNCHANGED <<pc, evts, mTasks, todo, cur, curlAdded, xfer>>
  BY DEF Client, Signal, AddTask, Command, Read, Release, TakeNotification
<1>2. BatchEmpty' /\ Attached' /\ VisitsRegistered'
  BY <1>1 DEF AttachInv, BatchEmpty, Attached, VisitsRegistered, InMulti
<1>3. ASSUME UNCHANGED mEvts, created \subseteq created' PROVE PostedOnly' /\ AddedOnce'
  BY <1>1, <1>3 DEF AttachInv, PostedOnly, AddedOnce, Waiting, AtMostOne
<1>4. CASE Signal \/ \E t \in Tasks : Read(t) \/ Release(t) \/ TakeNotification(t)
  BY <1>4, <1>3, <1>2, <1>0 DEF Signal, Read, Release, TakeNotification, AttachInv
<1>5. ASSUME NEW t \in Tasks, NEW type \in {"AddTask"} \cup Commands, Post(type, t),
             type = "AddTask" => t \notin created /\ t \in created',
             created \subseteq created'
      PROVE  PostedOnly' /\ AddedOnce'
  <2> DEFINE e == [type |-> type, task |-> t]
  <2>1. mEvts' = Append(mEvts, e) /\ e \in Event /\ e \in Posted /\ mEvts \in Seq(Event)
    BY <1>5, <1>0, CallAssumption DEF Post, Event, EventTypes, Posted, TypeOK
  <2>2. PostedOnly'
    BY <2>1, <1>1 DEF AttachInv, PostedOnly
  <2>3. ASSUME NEW u \in Tasks
        PROVE  /\ AtMostOne(mEvts', u) /\ AtMostOne(evts', u)
               /\ ~(Waiting(mEvts', u) /\ Waiting(evts', u))
               /\ Waiting(mEvts', u) \/ Waiting(evts', u) => u \in created' /\ u \notin mTasks'
               /\ u \in mTasks' => u \in created'
    <3>1. e = AddEvent(u) => u = t /\ u \notin created /\ u \in created'
      BY <1>5 DEF AddEvent
    <3>2. e = AddEvent(u) => ~Waiting(mEvts, u) /\ ~Waiting(evts, u) /\ u \notin mTasks
      BY <3>1 DEF AttachInv, AddedOnce
    <3> QED BY <2>1, <3>1, <3>2, AppendEvent, <1>1, <1>5 DEF AttachInv, AddedOnce
  <2> QED BY <2>2, <2>3 DEF AddedOnce
<1>6. ASSUME NEW t \in Tasks, AddTask(t) PROVE PostedOnly' /\ AddedOnce'
  BY <1>5, <1>6 DEF AddTask
<1>7. ASSUME NEW t \in Tasks, NEW type \in Commands, Command(type, t)
      PROVE  PostedOnly' /\ AddedOnce'
  <2>1. type # "AddTask"
    BY CallAssumption
  <2> QED BY <1>5, <1>7, <2>1 DEF Command
<1> QED BY <1>0, <1>2, <1>4, <1>6, <1>7 DEF Client, AttachInv

(* So do libcurl's transfers.                                              *)
LEMMA TransferAttach ==
  ASSUME AttachInv, NEW t \in Tasks, Transfer(t) PROVE AttachInv'
<1>1. TypeOK' /\ TypeOK
  BY TransferTyping DEF AttachInv
<1>2. UNCHANGED <<pc, evts, mEvts, created, mTasks, todo, cur, curlAdded>>
  BY DEF Transfer, WriteCallback, AppendData, TransferEnds, vars, apiVars, loopVars, taskVars
<1>3. \A u \in Tasks : xfer'[u] = "idle" <=> xfer[u] = "idle"
  BY <1>1 DEF Transfer, WriteCallback, AppendData, TransferEnds, Transferring, TypeOK
<1> QED BY <1>1, <1>2, <1>3 DEF AttachInv, BatchEmpty, PostedOnly, AddedOnce, Waiting,
             AtMostOne, Attached, VisitsRegistered, InMulti

(* Under NeverReattached the branches that leave or re-enter the multi     *)
(* handle in the for loop are never taken, and the removals that are taken *)
(* detach what they remove.                                                *)
LEMMA LoopAttach ==
  ASSUME NeverReattached, AttachInv, Worker, ~HandleEvent PROVE AttachInv'
<1> USE DEF vars, apiVars, loopVars, taskVars, curlVars, noteVars
<1>0. TypeOK' /\ TypeOK /\ mTasks \in SUBSET Tasks
  BY LoopTyping DEF AttachInv, TypeOK
<1>1. ASSUME UNCHANGED <<mEvts, evts, created>>, mTasks' \subseteq mTasks
      PROVE  PostedOnly' /\ AddedOnce'
  BY <1>1 DEF AttachInv, PostedOnly, AddedOnce, Waiting, AtMostOne
<1>2. ASSUME UNCHANGED <<mTasks, curlAdded>>,
             \A t \in Tasks : xfer'[t] = "idle" <=> xfer[t] = "idle"
      PROVE  Attached'
  BY <1>2 DEF AttachInv, Attached, InMulti
<1>3. CASE PerformReturns \/ MessagesRead
  BY <1>3, <1>0, <1>1, <1>2 DEF PerformReturns, MessagesRead, AttachInv, BatchEmpty, VisitsRegistered
<1>4. CASE PerformFails \/ PollFails
  <2>1. AbortAll /\ pc \in {"perform", "poll"} /\ UNCHANGED <<mEvts, evts, created>> /\ pc' = "perform"
    BY <1>4 DEF PerformFails, PollFails, AbortAll
  <2>2. Attached' /\ mTasks' \subseteq mTasks
    BY <2>1, <1>0, RemovalAttached DEF AbortAll, AttachInv, Attached, InMulti
  <2> QED BY <2>1, <2>2, <1>0, <1>1 DEF AttachInv, BatchEmpty, VisitsRegistered
<1>5. ASSUME NEW t \in Tasks, ReadMessage(t) PROVE AttachInv'
  <2>1. \A u \in Tasks : xfer'[u] = "idle" <=> xfer[u] = "idle"
    BY <1>5, <1>0 DEF ReadMessage, HasMessage, TypeOK
  <2>2. pc' \in {"messages", "aborted"} /\ (pc' = "messages" \/ pc' = "aborted")
    BY <1>5 DEF ReadMessage
  <2>3. evts = <<>>
    BY <1>5 DEF ReadMessage, AttachInv, BatchEmpty
  <2> QED BY <1>5, <2>1, <2>2, <2>3, <1>0, <1>1, <1>2 DEF ReadMessage, AttachInv, BatchEmpty, VisitsRegistered
<1>6. ASSUME NEW t \in Tasks, Visit(t) PROVE AttachInv'
  BY <1>6, <1>0, <1>1, <1>2 DEF Visit, AttachInv, BatchEmpty, VisitsRegistered
<1>7. CASE Throttle \/ Reattach \/ KeepGoing
  <2>1. pc = "visit" /\ cur \in mTasks /\ cur \in Tasks
    BY <1>7, <1>0 DEF Throttle, Reattach, KeepGoing, AttachInv, VisitsRegistered
  <2>2. ~OutOfBuf(cur)
    BY <2>1 DEF NeverReattached, OutOfBuf
  <2>3. curlAdded[cur]
    BY <2>1 DEF AttachInv, Attached
  <2>4. KeepGoing
    BY <1>7, <2>2, <2>3 DEF Throttle, Reattach
  <2> QED BY <2>4, <2>1, <1>0, <1>1, <1>2 DEF KeepGoing, VisitDone, AttachInv, BatchEmpty, VisitsRegistered
<1>8. CASE Reap
  <2>1. {t \in mTasks : IsEnd(status[t])} \in SUBSET Tasks
    BY <1>0
  <2>2. Attached' /\ mTasks' \subseteq mTasks
    BY <1>8, <2>1, <1>0, RemovalAttached DEF Reap, AttachInv, Attached, InMulti
  <2> QED BY <1>8, <2>2, <1>0, <1>1 DEF Reap, AttachInv, BatchEmpty, VisitsRegistered
<1>9. CASE PollReturns \/ EventsHandled
  BY <1>9, <1>0, <1>1, <1>2 DEF PollReturns, EventsHandled, AttachInv, BatchEmpty, VisitsRegistered
<1>10. CASE SwapEvents
  <2>1. PostedOnly' /\ AddedOnce'
    BY <1>10 DEF SwapEvents, AttachInv, PostedOnly, AddedOnce, Waiting, AtMostOne
  <2> QED BY <1>10, <2>1, <1>0, <1>2 DEF SwapEvents, AttachInv, BatchEmpty, VisitsRegistered
<1> QED BY <1>3, <1>4, <1>5, <1>6, <1>7, <1>8, <1>9, <1>10 DEF Worker

(* So do the event handlers, without PauseTask.                            *)
LEMMA HandlerAttach ==
  ASSUME NeverReattached, AttachInv, HandleEvent PROVE AttachInv'
<1> USE DEF vars, apiVars, loopVars, taskVars, curlVars, noteVars
<1> DEFINE e == Head(evts)
<1>1. TypeOK' /\ TypeOK
  BY HandlerTyping DEF AttachInv
<1>2. /\ evts \in Seq(Event) /\ evts # <<>> /\ evts' = Tail(evts)
      /\ e.task \in Tasks /\ pc = "events" /\ Dispatch(e)
      /\ UNCHANGED <<mEvts, created>>
  BY <1>1, HeadEvent DEF HandleEvent
<1>3. e \in Posted /\ PostedOnly'
  <2>1. evts \in Seq(Posted) /\ mEvts \in Seq(Posted)
    BY DEF AttachInv, PostedOnly
  <2> QED BY <2>1, <1>2 DEF PostedOnly
<1>4. \A t \in Tasks : e = AddEvent(t) <=> e.type = "AddTask" /\ e.task = t
  BY <1>3 DEF Posted, AddEvent
<1>5. \A t \in Tasks :
        /\ AtMostOne(mEvts', t) /\ AtMostOne(evts', t)
        /\ ~(Waiting(mEvts', t) /\ Waiting(evts', t))
        /\ Waiting(mEvts', t) \/ Waiting(evts', t) =>
             t \in created' /\ t \notin mTasks /\ e # AddEvent(t)
  BY <1>2, TailEvents DEF AttachInv, AddedOnce
<1> HIDE DEF e
<1>6. CASE e.type = "AddTask"
  <2>1. HandleAddTaskEvent(e.task)
    BY <1>2, <1>6 DEF Dispatch
  <2>2. e.task \notin mTasks /\ e.task \in created
    BY <1>2, <1>4, <1>6, TailEvents DEF AttachInv, AddedOnce, e
  <2>3. ~InMulti(e.task)
    BY <2>2, <1>2 DEF AttachInv, Attached
  <2>4. ~AddHandleFails(e.task)
    BY <2>3 DEF NeverReattached, AddHandleFails
  <2>5. /\ AddHandle(e.task) /\ pc' = pc
        /\ mTasks' = mTasks \cup {e.task}
        /\ curlAdded' = [curlAdded EXCEPT ![e.task] = TRUE]
    BY <2>1, <2>4 DEF HandleAddTaskEvent
  <2>6. Attached'
    BY <2>5, <1>1, <1>2 DEF AddHandle, AttachInv, Attached, InMulti, TypeOK
  <2>7. AddedOnce'
    BY <2>5, <2>2, <1>2, <1>4, <1>5, <1>6 DEF AttachInv, AddedOnce
  <2> QED BY <2>5, <2>6, <2>7, <1>1, <1>2, <1>3 DEF AttachInv, BatchEmpty, VisitsRegistered
<1>7. ASSUME mTasks' \subseteq mTasks, pc' \in {"events", "aborted"}, Attached'
      PROVE  AttachInv'
  <2>1. AddedOnce'
    BY <1>5, <1>7, <1>2 DEF AttachInv, AddedOnce
  <2> QED BY <2>1, <1>1, <1>3, <1>7 DEF AttachInv, BatchEmpty, VisitsRegistered
<1>8. CASE HandleCancelTaskEvent(e.task)
  <2>1. CASE RemoveTasks({e.task})
    <3>1. Attached' /\ mTasks' \subseteq mTasks
      BY <2>1, <1>1, <1>2, RemovalAttached DEF AttachInv, Attached, InMulti
    <3> QED BY <1>8, <3>1, <1>2, <1>7 DEF HandleCancelTaskEvent, Interruptible
  <2>2. CASE UNCHANGED <<mTasks, curlAdded, xfer>>
    BY <1>8, <2>2, <1>2, <1>7 DEF HandleCancelTaskEvent, Interruptible, AttachInv, Attached, InMulti
  <2> QED BY <1>8, <2>1, <2>2 DEF HandleCancelTaskEvent, Interruptible
<1>9. CASE BadAnyCast \/ NotDispatched
  BY <1>9, <1>2, <1>7 DEF BadAnyCast, NotDispatched, AttachInv, Attached, InMulti
<1>10. ~(e.type = "PauseTask" /\ PayloadType[e.type] = "HttpDownloaderTask")
  <2>1. e.type = "PauseTask" => "PauseTask" \in Commands
    BY <1>3 DEF Posted
  <2> QED BY <2>1 DEF NeverReattached
<1> QED BY <1>2, <1>6, <1>8, <1>9, <1>10 DEF Dispatch

(* So does every step.                                                     *)
LEMMA AttachStep == NeverReattached /\ AttachInv /\ [Next]_vars => AttachInv'
<1> SUFFICES ASSUME NeverReattached, AttachInv, [Next]_vars PROVE AttachInv'
  OBVIOUS
<1>1. CASE UNCHANGED vars
  <2>1. TypeOK'
    BY <1>1, StepTyping DEF AttachInv
  <2> QED BY <1>1, <2>1 DEF AttachInv, BatchEmpty, PostedOnly, AddedOnce, Waiting, AtMostOne,
             Attached, VisitsRegistered, InMulti, vars, apiVars, loopVars, taskVars, curlVars
<1>2. CASE Next
  BY <1>2, ClientAttach, TransferAttach, LoopAttach, HandlerAttach DEF Next
<1> QED BY <1>1, <1>2

(* They agree at the start.                                                *)
LEMMA AttachInit == Init => AttachInv
<1> SUFFICES ASSUME Init PROVE AttachInv
  OBVIOUS
<1>1. PostedOnly
  BY DEF Init, PostedOnly
<1>2. \A t \in Tasks : ~Waiting(mEvts, t) /\ ~Waiting(evts, t)
                       /\ AtMostOne(mEvts, t) /\ AtMostOne(evts, t)
  <2>1. 1 .. Len(mEvts) = {} /\ 1 .. Len(evts) = {}
    BY DEF Init
  <2> QED BY <2>1 DEF Waiting, AtMostOne
<1> QED BY <1>1, <1>2, InitTyping DEF Init, AttachInv, BatchEmpty, AddedOnce, Attached,
           VisitsRegistered, InMulti

(* As long as no handle is ever added back, every handle libcurl drives    *)
(* belongs to a registered task, whatever the order of calls, faults of    *)
(* perform and poll, cancellations and completions.                        *)
THEOREM NoTransferIsOrphaned == NeverReattached => (Spec => []NoOrphanTransfer)
<1> SUFFICES ASSUME NeverReattached PROVE Spec => []NoOrphanTransfer
  OBVIOUS
<1>1. AttachInv => NoOrphanTransfer
  BY DEF AttachInv, Attached, NoOrphanTransfer
<1>2. AttachInv /\ [Next]_vars => AttachInv'
  BY AttachStep
<1> QED BY <1>1, <1>2, AttachInit, PTL DEF Spec

(* What the commands post is what their handlers cast to.                  *)
CastsMatch ==
  \A type \in Commands \cap {"CancelTask", "PauseTask"} :
    PayloadType[type] = "HttpDownloaderTask"

(* With matching casts, nothing of what the worker meets ends the process: *)
(* no message is ever read of a handle that has left the maps.             *)
THEOREM WorkerNeverAborts == NeverReattached /\ CastsMatch => (Spec => []NeverAborts)
<1> SUFFICES ASSUME NeverReattached, CastsMatch PROVE Spec => []NeverAborts
  OBVIOUS
<1> DEFINE Inv == AttachInv /\ NeverAborts
<1>1. Init => Inv
  BY AttachInit DEF Init, NeverAborts
<1>2. Inv /\ [Next]_vars => Inv'
  <2> SUFFICES ASSUME AttachInv, NeverAborts, [Next]_vars PROVE NeverAborts'
    BY AttachStep
  <2> USE DEF NeverAborts, vars, apiVars, loopVars, taskVars, curlVars, noteVars
  <2>1. CASE UNCHANGED vars
    BY <2>1
  <2>2. CASE Client
    BY <2>2 DEF Client, Signal, AddTask, Command, Read, Release, TakeNotification
  <2>3. ASSUME NEW t \in Tasks, Transfer(t) PROVE NeverAborts'
    BY <2>3 DEF Transfer, WriteCallback, AppendData, TransferEnds
  <2>4. ASSUME NEW t \in Tasks, ReadMessage(t) PROVE NeverAborts'
    <3>1. t \in mTasks
      BY <2>4 DEF ReadMessage, HasMessage, AttachInv, Attached, InMulti
    <3> QED BY <3>1, <2>4 DEF ReadMessage
  <2>5. CASE HandleEvent
    <3> DEFINE e == Head(evts)
    <3>1. Dispatch(e) /\ e \in Posted
      <4>1. evts # <<>> /\ evts \in Seq(Posted)
        BY <2>5 DEF HandleEvent, AttachInv, PostedOnly
      <4> QED BY <4>1, <2>5 DEF HandleEvent
    <3> HIDE DEF e
    <3>2. ~BadAnyCast
      <4>1. e.type \in {"CancelTask", "PauseTask"} => PayloadType[e.type] = "HttpDownloaderTask"
        BY <3>1 DEF Posted, CastsMatch
      <4> SUFFICES ASSUME BadAnyCast PROVE FALSE
        OBVIOUS
      <4>2. pc' = pc
        BY <3>1, <4>1 DEF Dispatch, HandleAddTaskEvent, HandleCancelTaskEvent,
                          HandlePauseTaskEvent, Interruptible, NotDispatched
      <4> QED BY <4>2 DEF BadAnyCast
    <3> QED BY <3>1, <3>2 DEF Dispatch, HandleAddTaskEvent, HandleCancelTaskEvent,
                              HandlePauseTaskEvent, Interruptible, BadAnyCast, NotDispatched
  <2>6. CASE Worker /\ ~HandleEvent /\ ~(\E t \in Tasks : ReadMessage(t))
    BY <2>6 DEF Worker, PerformReturns, PerformFails, MessagesRead, Visit, Throttle,
                Reattach, KeepGoing, VisitDone, Reap, PollReturns, PollFails, AbortAll,
                SwapEvents, EventsHandled
  <2> QED BY <2>1, <2>2, <2>3, <2>4, <2>5, <2>6 DEF Next
<1> QED BY <1>1, <1>2, PTL DEF Spec

(* A task fails only on an error libcurl reports: a task whose transfer is *)
(* fine never fails because of where the worker, a cancellation or another *)
(* task was.                                                               *)
THEOREM FailuresAreCurls == NeverReattached => (Spec => FailsOnlyWithCurl)
<1> SUFFICES ASSUME NeverReattached PROVE Spec => FailsOnlyWithCurl
  OBVIOUS
<1> DEFINE Caused == \A t \in Tasks : status[t] # "Fail" /\ status'[t] = "Fail" =>
             \/ xfer[t] = "error"
             \/ pc \in CurlFaults
             \/ "add_handle" \in CurlFaults /\ pc \in {"visit", "events"}
<1>1. AttachInv /\ [Next]_vars => AttachInv'
  BY AttachStep
<1>2. AttachInv /\ [Next]_vars => [Caused]_vars
  <2> SUFFICES ASSUME AttachInv, Next PROVE Caused
    OBVIOUS
  <2> USE DEF vars, apiVars, loopVars, taskVars, curlVars, noteVars
  <2>0. TypeOK
    BY DEF AttachInv
  <2>1. CASE Client
    BY <2>1 DEF Client, Signal, AddTask, Command, Read, Release, TakeNotification
  <2>2. ASSUME NEW t \in Tasks, Transfer(t) PROVE Caused
    BY <2>2 DEF Transfer, WriteCallback, AppendData, TransferEnds
  <2>3. ASSUME NEW t \in Tasks, ReadMessage(t) PROVE Caused
    BY <2>3, <2>0 DEF ReadMessage, HasMessage, TypeOK
  <2>4. CASE PerformFails \/ PollFails
    BY <2>4 DEF PerformFails, PollFails
  <2>5. CASE Throttle \/ Reattach \/ KeepGoing
    <3>1. pc = "visit" /\ cur \in mTasks /\ cur \in Tasks
      BY <2>5, <2>0 DEF Throttle, Reattach, KeepGoing, AttachInv, VisitsRegistered, TypeOK
    <3>2. curlAdded[cur]
      BY <3>1 DEF AttachInv, Attached
    <3> QED BY <2>5, <3>2 DEF Throttle, Reattach, KeepGoing
  <2>6. CASE HandleEvent
    <3> DEFINE e == Head(evts)
    <3>1. Dispatch(e) /\ e.task \in Tasks /\ evts \in Seq(Event) /\ evts # <<>>
      BY <2>6, <2>0, HeadEvent
    <3>2. e = AddEvent(e.task) => ~AddHandleFails(e.task)
      BY <3>1, TailEvents DEF AttachInv, AddedOnce, Attached, NeverReattached, AddHandleFails
    <3>3. e.type = "AddTask" => e = AddEvent(e.task)
      BY <2>0, <2>6, HeadEvent DEF Event, AddEvent
    <3> HIDE DEF e
    <3> QED BY <3>1, <3>2, <3>3, <2>0 DEF Dispatch, HandleAddTaskEvent, HandleCancelTaskEvent,
                         HandlePauseTaskEvent, Interruptible, BadAnyCast, NotDispatched, TypeOK
  <2>7. CASE PerformReturns \/ MessagesRead \/ (\E t \in Tasks : Visit(t)) \/ Reap
             \/ PollReturns \/ SwapEvents \/ EventsHandled
    BY <2>7 DEF PerformReturns, MessagesRead, Visit, Reap, PollReturns, SwapEvents, EventsHandled
  <2> QED BY <2>1, <2>2, <2>3, <2>4, <2>5, <2>6, <2>7 DEF Next, Worker
<1> QED BY <1>1, <1>2, AttachInit, PTL DEF Spec, FailsOnlyWithCurl

-------------------------------------------------------------------------------
(* The end of a task is always notified                                    *)

CommandWorks(type) ==
  type \in Commands /\ PayloadType[type] = "HttpDownloaderTask"

(* cancel() of a paused task returns false and the task is removed without *)
(* a notification: the theorem is about uses without that combination, the *)
(* code's own payload types among them.                                    *)
NoCancelOfPaused == ~(CommandWorks("CancelTask") /\ CommandWorks("PauseTask"))

NoPaused == ~CommandWorks("PauseTask") => \A t \in Tasks : status[t] # "Paused"

(* A registered task that has ended was notified, or is still to be        *)
(* visited, or is being visited with the flag set.                         *)
EndTold ==
  \A t \in mTasks : IsEnd(status[t]) =>
    \/ t \in told \/ pc \in {"messages", "aborted"}
    \/ pc \in {"tasks", "visit"} /\ t \in todo
    \/ pc = "visit" /\ t = cur /\ notify

(* What has left the maps has ended and was told, or was cancelled while   *)
(* paused.                                                                 *)
LeavesTold ==
  \A t \in Tasks : Added(t) /\ t \notin mTasks =>
    \/ IsEnd(status[t]) /\ t \in told
    \/ status[t] = "Paused" /\ ~NoCancelOfPaused

EndInv == TypeOK /\ PostedOnly /\ NoPaused /\ EndTold /\ LeavesTold

(* Added, in the terms of the queues.                                      *)
LEMMA AddedMeans ==
  ASSUME NEW t \in Tasks
  PROVE  Added(t) <=> t \in created /\ ~Waiting(mEvts, t) /\ ~Waiting(evts, t)
BY DEF Added, Waiting, AddEvent

(* The same of the next state.                                             *)
LEMMA AddedMeansNext ==
  ASSUME NEW t \in Tasks
  PROVE  Added(t)' <=> t \in created' /\ ~Waiting(mEvts', t) /\ ~Waiting(evts', t)
BY DEF Added, Waiting, AddEvent

(* The only task whose AddTask event leaves the batch is its head.         *)
LEMMA HeadAdded ==
  ASSUME NEW q \in Seq(Event), q # <<>>, NEW t, Waiting(q, t), ~Waiting(Tail(q), t)
  PROVE  Head(q) = AddEvent(t)
<1>1. /\ Len(q) \in Nat /\ Len(q) > 0 /\ Len(Tail(q)) = Len(q) - 1 /\ Head(q) = q[1]
      /\ \A i \in 1 .. Len(Tail(q)) : Tail(q)[i] = q[i + 1]
  OBVIOUS
<1>2. PICK i \in 1 .. Len(q) : q[i] = AddEvent(t)
  BY DEF Waiting
<1>3. CASE i = 1
  BY <1>1, <1>2, <1>3
<1>4. CASE i # 1
  <2>1. i - 1 \in 1 .. Len(Tail(q)) /\ Tail(q)[i - 1] = q[(i - 1) + 1] /\ (i - 1) + 1 = i
    BY <1>1, <1>4
  <2> QED BY <2>1, <1>2 DEF Waiting
<1> QED BY <1>3, <1>4

(* Every queued event is of a created task, whatever the step.             *)
LEMMA PostedStep == ASSUME TypeOK, PostedOnly, [Next]_vars PROVE PostedOnly'
<1> USE DEF PostedOnly, vars, apiVars, loopVars, taskVars, curlVars, noteVars
<1>1. ASSUME NEW t \in Tasks, AddTask(t) PROVE PostedOnly'
  BY <1>1 DEF AddTask, Post, Posted
<1>2. ASSUME NEW t \in Tasks, NEW type \in Commands, Command(type, t) PROVE PostedOnly'
  BY <1>2 DEF Command, Post, Posted
<1>3. CASE HandleEvent
  <2>1. evts # <<>> /\ evts \in Seq(Posted)
    BY <1>3 DEF HandleEvent
  <2> QED BY <1>3, <2>1 DEF HandleEvent
<1>4. CASE UNCHANGED <<mEvts, evts>>
  BY <1>4
<1>5. CASE SwapEvents
  BY <1>5 DEF SwapEvents
<1>6. ASSUME Next, ~HandleEvent, ~SwapEvents,
             ~(\E t \in Tasks : AddTask(t) \/ \E type \in Commands : Command(type, t))
      PROVE  UNCHANGED <<mEvts, evts>>
  BY <1>6 DEF Next, Client, Signal, Read, Release, TakeNotification, Transfer, WriteCallback, AppendData,
       TransferEnds, Worker, PerformReturns, PerformFails, ReadMessage, MessagesRead, Visit,
       Throttle, Reattach, KeepGoing, VisitDone, Reap, PollReturns, PollFails, AbortAll,
       EventsHandled
<1> QED BY <1>1, <1>2, <1>3, <1>4, <1>5, <1>6

(* The calls of clients keep the end of every task announced.              *)
LEMMA ClientEnd == ASSUME EndInv, Client PROVE NoPaused' /\ EndTold' /\ LeavesTold'
<1> USE DEF vars, apiVars, loopVars, taskVars, curlVars, noteVars
<1>1. UNCHANGED <<pc, evts, mTasks, todo, cur, notify, status, told>>
  BY DEF Client, Signal, AddTask, Command, Read, Release, TakeNotification
<1>2. NoPaused' /\ EndTold'
  BY <1>1 DEF EndInv, NoPaused, EndTold
<1>3. ASSUME NEW t \in Tasks, Added(t)' PROVE Added(t)
  <2>1. t \in created' /\ ~Waiting(mEvts', t) /\ ~Waiting(evts', t)
    BY <1>3, AddedMeansNext
  <2>2. CASE UNCHANGED <<mEvts, created>>
    BY <2>1, <2>2, <1>1, AddedMeans
  <2>3. ASSUME NEW u \in Tasks, AddTask(u) PROVE Added(t)
    <3>1. /\ mEvts' = Append(mEvts, AddEvent(u)) /\ created' = created \cup {u}
          /\ AddEvent(u) \in Event /\ mEvts \in Seq(Event)
      BY <2>3 DEF AddTask, Post, AddEvent, Event, EventTypes, EndInv, TypeOK
    <3>2. t # u /\ ~Waiting(mEvts, t)
      BY <2>1, <3>1, AppendEvent
    <3> QED BY <2>1, <3>1, <3>2, <1>1, AddedMeans
  <2>4. ASSUME NEW u \in Tasks, NEW type \in Commands, Command(type, u) PROVE Added(t)
    <3> DEFINE e == [type |-> type, task |-> u]
    <3>1. /\ mEvts' = Append(mEvts, e) /\ created' = created
          /\ e \in Event /\ mEvts \in Seq(Event)
      BY <2>4, CallAssumption DEF Command, Post, Event, EndInv, TypeOK
    <3>2. ~Waiting(mEvts, t)
      BY <2>1, <3>1, AppendEvent
    <3> QED BY <2>1, <3>1, <3>2, <1>1, AddedMeans
  <2> QED BY <2>2, <2>3, <2>4 DEF Client, Signal, Read, Release, TakeNotification
<1> QED BY <1>1, <1>2, <1>3 DEF EndInv, LeavesTold

(* A step that leaves the queues alone keeps LeavesTold when what it    *)
(* removes, and what had been removed, ends up ended and told.             *)
LEMMA RemovedAreTold ==
  ASSUME EndInv, UNCHANGED <<mEvts, evts, created>>,
         \A t \in Tasks : t \notin mTasks' =>
           \/ t \notin mTasks /\ status'[t] = status[t] /\ (t \in told => t \in told')
           \/ IsEnd(status'[t]) /\ t \in told'
  PROVE  LeavesTold'
<1>1. \A t \in Tasks : Added(t)' <=> Added(t)
  BY AddedMeans, AddedMeansNext
<1> QED BY <1>1 DEF EndInv, LeavesTold

(* So does the loop: visits, reaping, abortAll, the swap.                  *)
LEMMA LoopEnd ==
  ASSUME EndInv, Worker, ~HandleEvent PROVE NoPaused' /\ EndTold' /\ LeavesTold'
<1> USE DEF vars, apiVars, loopVars, taskVars, curlVars, noteVars
<1>0. TypeOK
  BY DEF EndInv
<1>1. CASE PerformReturns \/ MessagesRead \/ PollReturns \/ EventsHandled
  <2>1. UNCHANGED <<mTasks, status, told, inbox, created>>
    BY <1>1 DEF PerformReturns, MessagesRead, PollReturns, EventsHandled
  <2>2. NoPaused' /\ EndTold'
    BY <1>1, <2>1 DEF PerformReturns, MessagesRead, PollReturns, EventsHandled, EndInv, NoPaused, EndTold
  <2>3. LeavesTold'
    BY <1>1, <2>1, RemovedAreTold DEF PerformReturns, MessagesRead, PollReturns, EventsHandled
  <2> QED BY <2>2, <2>3
<1>2. CASE PerformFails \/ PollFails
  <2>1. AbortAll
    BY <1>2 DEF PerformFails, PollFails
  <2>2. /\ \A t \in mTasks : status'[t] = "Fail" /\ IsEnd(status'[t]) /\ t \in told'
        /\ \A t \in Tasks \ mTasks : status'[t] = status[t]
        /\ told \subseteq told' /\ mTasks' = {}
    BY <2>1, <1>0 DEF AbortAll, NotifyAll, RemoveTasks, IsEnd, TypeOK
  <2>3. NoPaused' /\ EndTold'
    BY <2>2, <1>0 DEF EndInv, NoPaused, EndTold, TypeOK
  <2>4. LeavesTold'
    BY <2>1, <2>2, RemovedAreTold DEF AbortAll
  <2> QED BY <2>3, <2>4
<1>3. ASSUME NEW t \in Tasks, ReadMessage(t) PROVE NoPaused' /\ EndTold' /\ LeavesTold'
  <2>1. /\ \A u \in Tasks : u \notin mTasks => status'[u] = status[u]
        /\ \A u \in Tasks : status'[u] # "Paused" \/ status'[u] = status[u]
        /\ pc' \in {"messages", "aborted"} /\ UNCHANGED <<mTasks, told, mEvts, evts, created>>
    BY <1>3, <1>0 DEF ReadMessage, TypeOK
  <2>2. NoPaused' /\ EndTold'
    BY <2>1 DEF EndInv, NoPaused, EndTold
  <2> QED BY <2>1, <2>2, RemovedAreTold
<1>4. ASSUME NEW t \in Tasks, Visit(t) PROVE NoPaused' /\ EndTold' /\ LeavesTold'
  <2>1. NoPaused' /\ LeavesTold'
    BY <1>4, RemovedAreTold DEF Visit, EndInv, NoPaused
  <2>2. EndTold'
    BY <1>4 DEF Visit, EndInv, EndTold
  <2> QED BY <2>1, <2>2
<1>5. CASE Throttle \/ Reattach \/ KeepGoing
  <2>1. pc = "visit" /\ cur \in Tasks /\ pc' = "tasks"
    BY <1>5, <1>0 DEF Throttle, Reattach, KeepGoing, VisitDone, TypeOK
  <2>2. /\ UNCHANGED <<mTasks, todo, mEvts, evts, created>> /\ told \subseteq told'
        /\ \A t \in Tasks : t # cur => status'[t] = status[t]
        /\ status'[cur] = status[cur] \/ (status'[cur] = "Fail" /\ cur \in told')
        /\ notify /\ IsEnd(status'[cur]) => cur \in told'
    <3>1. UNCHANGED <<mTasks, todo, mEvts, evts, created>>
      BY <1>5 DEF Throttle, Reattach, KeepGoing, VisitDone
    <3>2. CASE Throttle \/ KeepGoing
      <4>1. status' = status /\ NotifyAll(IF notify THEN {cur} ELSE {})
        BY <3>2 DEF Throttle, KeepGoing
      <4> QED BY <3>1, <4>1 DEF NotifyAll
    <3>3. CASE Reattach
      <4>1. \/ status' = status /\ NotifyAll(IF notify THEN {cur} ELSE {})
            \/ status' = [status EXCEPT ![cur] = "Fail"] /\ NotifyAll({cur})
        BY <3>3 DEF Reattach
      <4> QED BY <3>1, <4>1, <2>1, <1>0 DEF NotifyAll, TypeOK, IsEnd
    <3> QED BY <1>5, <3>2, <3>3
  <2>3. NoPaused' /\ EndTold'
    <3>1. mTasks \subseteq Tasks
      BY <1>0 DEF TypeOK
    <3> QED BY <2>1, <2>2, <3>1 DEF EndInv, NoPaused, EndTold
  <2>4. LeavesTold'
    BY <2>2, RemovedAreTold DEF IsEnd
  <2> QED BY <2>3, <2>4
<1>6. CASE Reap
  <2>1. /\ pc = "tasks" /\ todo = {} /\ mTasks' = mTasks \ {t \in mTasks : IsEnd(status[t])}
        /\ UNCHANGED <<mEvts, evts, created, status, told>>
    BY <1>6 DEF Reap, RemoveTasks
  <2>2. \A t \in mTasks : IsEnd(status[t]) => t \in told
    BY <2>1 DEF EndInv, EndTold
  <2>3. NoPaused' /\ EndTold'
    BY <2>1, <2>2 DEF EndInv, NoPaused, EndTold
  <2>4. LeavesTold'
    BY <2>1, <2>2, RemovedAreTold
  <2> QED BY <2>3, <2>4
<1>7. CASE SwapEvents
  <2>1. \A t \in Tasks : Added(t)' <=> Added(t)
    BY <1>7, AddedMeans, AddedMeansNext DEF SwapEvents
  <2> QED BY <1>7, <2>1 DEF SwapEvents, EndInv, NoPaused, EndTold, LeavesTold
<1> QED BY <1>1, <1>2, <1>3, <1>4, <1>5, <1>6, <1>7 DEF Worker

(* So do the event handlers.                                               *)
LEMMA HandlerEnd ==
  ASSUME EndInv, HandleEvent
  PROVE  NoPaused' /\ EndTold' /\ LeavesTold'
<1> DEFINE e == Head(evts)
           (* What a handler makes of the tasks, whichever handler it is. *)
           Fate == \A t \in Tasks :
             \/ t \in mTasks' /\ (IsEnd(status'[t]) => t \in told')
             \/ t \notin mTasks' /\ IsEnd(status'[t]) /\ t \in told'
             \/ t \notin mTasks' /\ status'[t] = "Paused" /\ ~NoCancelOfPaused
             \/ /\ t \notin mTasks /\ t \notin mTasks' /\ e # AddEvent(t)
                /\ status'[t] = status[t] /\ (t \in told => t \in told')
<1>0. TypeOK
  BY DEF EndInv
<1>1. /\ evts \in Seq(Event) /\ evts # <<>> /\ evts' = Tail(evts)
      /\ e.task \in Tasks /\ e \in Event /\ pc = "events" /\ Dispatch(e)
      /\ UNCHANGED <<mEvts, created>>
  BY <1>0, HeadEvent DEF HandleEvent, apiVars
<1>2. e.type # "AddTask" => e.type \in Commands
  <2>1. evts \in Seq(Posted)
    BY DEF EndInv, PostedOnly
  <2>2. e \in Posted
    BY <2>1, <1>1
  <2> QED BY <2>2 DEF Posted
<1>3. \A t \in Tasks : e = AddEvent(t) => e.type = "AddTask" /\ e.task = t
  BY DEF AddEvent
<1>4. \A t \in mTasks : IsEnd(status[t]) => t \in told
  BY <1>1 DEF EndInv, EndTold
<1> HIDE DEF e
<1>5. Fate /\ NoPaused' /\ pc' \in {"events", "aborted"}
  <2>1. CASE e.type = "AddTask" /\ HandleAddTaskEvent(e.task)
    <3>1. /\ mTasks' = mTasks \cup {e.task} /\ pc' = pc
          /\ told \subseteq told'
          /\ \A t \in Tasks : t # e.task => status'[t] = status[t]
          /\ status'[e.task] = "Running" \/ (status'[e.task] = "Fail" /\ e.task \in told')
      BY <2>1, <1>0, <1>1 DEF HandleAddTaskEvent, NotifyAll, noteVars, TypeOK, IsEnd
    <3> QED BY <3>1, <1>1, <1>3, <1>4 DEF IsEnd, EndInv, NoPaused
  <2>2. CASE e.type = "CancelTask" /\ HandleCancelTaskEvent(e.task)
             /\ PayloadType[e.type] = "HttpDownloaderTask"
    <3>1. status[e.task] \notin {"Idle", "Running"} =>
            IsEnd(status[e.task]) \/ (status[e.task] = "Paused" /\ ~NoCancelOfPaused)
      <4>1. NoCancelOfPaused => ~CommandWorks("PauseTask")
        BY <2>2, <1>2 DEF NoCancelOfPaused, CommandWorks
      <4> QED BY <4>1, <1>0, <1>1 DEF EndInv, NoPaused, TypeOK, Statuses, IsEnd
    <3>2. /\ mTasks' \subseteq mTasks /\ mTasks \ {e.task} \subseteq mTasks' /\ pc' = pc
          /\ told \subseteq told'
          /\ \A t \in Tasks : t # e.task => status'[t] = status[t]
          /\ e.task \in mTasks =>
               /\ e.task \notin mTasks'
               /\ \/ status'[e.task] = "Cancelled" /\ e.task \in told'
                  \/ status'[e.task] = status[e.task] /\ IsEnd(status[e.task])
                  \/ status'[e.task] = "Paused" /\ ~NoCancelOfPaused
          /\ e.task \notin mTasks => status' = status
      BY <2>2, <3>1, <1>0, <1>1 DEF HandleCancelTaskEvent, Interruptible, RemoveTasks, NotifyAll, noteVars,
                                    TypeOK, IsEnd
    <3>3. ASSUME NEW t \in Tasks
          PROVE  \/ t \in mTasks' /\ (IsEnd(status'[t]) => t \in told')
                 \/ t \notin mTasks' /\ IsEnd(status'[t]) /\ t \in told'
                 \/ t \notin mTasks' /\ status'[t] = "Paused" /\ ~NoCancelOfPaused
                 \/ /\ t \notin mTasks /\ t \notin mTasks' /\ e # AddEvent(t)
                    /\ status'[t] = status[t] /\ (t \in told => t \in told')
      <4>1. CASE t = e.task /\ t \in mTasks
        BY <4>1, <3>2, <1>4 DEF IsEnd
      <4>2. CASE t # e.task \/ t \notin mTasks
        <5>1. e # AddEvent(t) /\ status'[t] = status[t]
          BY <4>2, <3>2, <2>2, <1>3
        <5> QED BY <5>1, <4>2, <3>2, <1>4
      <4> QED BY <4>1, <4>2
    <3>4. NoPaused'
      <4>1. ~NoCancelOfPaused => CommandWorks("PauseTask")
        BY DEF NoCancelOfPaused
      <4>2. ASSUME ~CommandWorks("PauseTask"), NEW t \in Tasks
            PROVE  status'[t] # "Paused"
        <5>1. status[t] # "Paused"
          BY <4>2 DEF EndInv, NoPaused
        <5> QED BY <5>1, <4>1, <4>2, <3>2
      <4> QED BY <4>2 DEF NoPaused
    <3> QED BY <3>2, <3>3, <3>4, <1>1
  <2>3. CASE e.type = "PauseTask" /\ HandlePauseTaskEvent(e.task)
             /\ PayloadType[e.type] = "HttpDownloaderTask"
    <3>1. CommandWorks("PauseTask")
      BY <2>3, <1>2 DEF CommandWorks
    <3>2. /\ mTasks' = mTasks /\ pc' = pc /\ told \subseteq told'
          /\ \A t \in Tasks : status'[t] = status[t] \/ (status'[t] = "Paused" /\ t \in mTasks)
      BY <2>3, <1>0, <1>1 DEF HandlePauseTaskEvent, Interruptible, NotifyAll, noteVars, TypeOK
    <3> QED BY <3>1, <3>2, <2>3, <1>1, <1>3, <1>4 DEF IsEnd, NoPaused
  <2>4. CASE e.type # "AddTask" /\ (BadAnyCast \/ NotDispatched)
    BY <2>4, <1>1, <1>3, <1>4 DEF BadAnyCast, NotDispatched, noteVars, EndInv, NoPaused
  <2> QED BY <1>1, <2>1, <2>2, <2>3, <2>4 DEF Dispatch
<1>6. EndTold'
  <2>1. mTasks' \subseteq Tasks
    BY <1>0, HandlerTyping DEF TypeOK
  <2> QED BY <2>1, <1>5 DEF EndTold
<1>7. ASSUME NEW t \in Tasks, Added(t)', t \notin mTasks'
      PROVE  \/ IsEnd(status'[t]) /\ t \in told'
             \/ status'[t] = "Paused" /\ ~NoCancelOfPaused
  <2>1. t \in created /\ ~Waiting(mEvts, t) /\ ~Waiting(Tail(evts), t)
    BY <1>1, <1>7, AddedMeansNext
  <2>2. CASE t \notin mTasks /\ e # AddEvent(t) /\ status'[t] = status[t]
             /\ (t \in told => t \in told')
    <3>1. ~Waiting(evts, t)
      BY <2>1, <2>2, <1>1, HeadAdded DEF e
    <3> QED BY <2>1, <2>2, <3>1, AddedMeans DEF EndInv, LeavesTold
  <2> QED BY <1>5, <1>7, <2>2
<1> QED BY <1>5, <1>6, <1>7 DEF LeavesTold

(* EndInv holds from the first state on.                                   *)
LEMMA EndInvariance == Spec => []EndInv
<1>1. Init => EndInv
  <2> SUFFICES ASSUME Init PROVE EndInv
    OBVIOUS
  <2>1. PostedOnly
    BY DEF Init, PostedOnly
  <2>2. \A t \in Tasks : t \notin created
    BY DEF Init
  <2>3. NoPaused /\ EndTold
    BY DEF Init, NoPaused, EndTold
  <2> QED BY <2>1, <2>2, <2>3, InitTyping, AddedMeans DEF EndInv, LeavesTold
<1>2. EndInv /\ [Next]_vars => EndInv'
  <2> SUFFICES ASSUME EndInv, [Next]_vars PROVE EndInv'
    OBVIOUS
  <2>1. TypeOK' /\ PostedOnly'
    BY StepTyping, PostedStep DEF EndInv
  <2>2. CASE UNCHANGED vars
    <3>1. NoPaused' /\ EndTold'
      BY <2>2 DEF EndInv, NoPaused, EndTold, vars, loopVars, taskVars, noteVars
    <3>2. LeavesTold'
      BY <2>2, RemovedAreTold DEF vars, apiVars, loopVars, taskVars, noteVars
    <3> QED BY <2>1, <3>1, <3>2 DEF EndInv
  <2>3. ASSUME NEW t \in Tasks, Transfer(t) PROVE EndInv'
    <3>1. UNCHANGED <<mEvts, evts, created, pc, mTasks, todo, cur, notify, status, told>>
      BY <2>3 DEF Transfer, WriteCallback, AppendData, TransferEnds, apiVars, loopVars, taskVars, noteVars
    <3>2. NoPaused' /\ EndTold'
      BY <3>1 DEF EndInv, NoPaused, EndTold
    <3>3. LeavesTold'
      BY <3>1, RemovedAreTold
    <3> QED BY <2>1, <3>2, <3>3 DEF EndInv
  <2> QED BY <2>1, <2>2, <2>3, ClientEnd, LoopEnd, HandlerEnd DEF Next, EndInv
<1> QED BY <1>1, <1>2, PTL DEF Spec

(* Whatever the limits, faults and calls, a task that was added leaves the *)
(* worker's maps only with a terminal status and after a notification that *)
(* could see it: a client waiting for the end of a task is always told.    *)
THEOREM EveryEndIsNotified == NoCancelOfPaused => (Spec => []EndIsNotified)
<1> SUFFICES ASSUME NoCancelOfPaused PROVE Spec => []EndIsNotified
  OBVIOUS
<1>1. EndInv => EndIsNotified
  BY DEF EndInv, LeavesTold, EndIsNotified
<1> QED BY <1>1, EndInvariance, PTL

(* Under no assumption at all: a task that leaves the maps has ended and   *)
(* was told so, or was cancelled while paused.                             *)
THEOREM SilenceIsOfThePaused == Spec => []OnlyPausedLeaveSilently
<1>1. EndInv => OnlyPausedLeaveSilently
  BY DEF EndInv, LeavesTold, OnlyPausedLeaveSilently
<1> QED BY <1>1, EndInvariance, PTL

-------------------------------------------------------------------------------
(* Each task keeps the contract of TransferContract                        *)

(* The options whose range the code does ask the server for: the whole     *)
(* resource, or a closed range that does not begin at its first byte.      *)
AsksWhatIsAsked ==
  \A t \in Tasks : \/ Opt[t].Start = 0 /\ Opt[t].End = 0
                   \/ 0 < Opt[t].Start /\ Opt[t].Start <= Opt[t].End

First(t) == Opt[t].Start
Last(t) == IF Opt[t].End > 0 THEN Opt[t].End ELSE ResourceSize - 1
OutcomeOf(st) == IF st = "Completed" THEN "whole" ELSE IF IsEnd(st) THEN "failed" ELSE "open"

(* Under AsksWhatIsAsked the range requested is the range asked for.       *)
LEMMA Asking ==
  ASSUME AsksWhatIsAsked, NEW t \in Tasks
  PROVE  /\ FirstSent(t) = First(t) /\ LastSent(t) = Last(t)
         /\ First(t) \in Nat /\ Last(t) \in Nat /\ First(t) <= Last(t)
         /\ [u \in Tasks |-> Opt[u].Start][t] = First(t)
         /\ [u \in Tasks |-> IF Opt[u].End >= Opt[u].Start /\ Opt[u].End > 0
                             THEN Opt[u].End ELSE ResourceSize - 1][t] = Last(t)
BY TaskAssumption DEF AsksWhatIsAsked, FirstSent, LastSent, Ranged, First, Last

(* A task not yet handed to libcurl has no data.                           *)
Fresh ==
  \A t \in Tasks : t \notin created \/ Waiting(mEvts, t) \/ Waiting(evts, t) =>
                     stream[t] = <<>> /\ status[t] = "Idle"

(* The data of a registered task is what its transfer has sent, and its    *)
(* status is behind the transfer's by at most the message to be read.      *)
Progress ==
  \A t \in mTasks :
    /\ pos[t] = First(t) + Len(stream[t])
    /\ xfer[t] # "reported" => status[t] = "Running"
    /\ xfer[t] = "reported" => IsEnd(status[t])
    /\ xfer[t] = "ok" => pos[t] = Last(t) + 1

(* A transfer whose message was read is gone when the loop has reaped.     *)
Reaped ==
  pc \in {"poll", "swap", "events", "perform"} => \A t \in mTasks : xfer[t] # "reported"

ContractInv == AttachInv /\ Fresh /\ Progress /\ Reaped

ContractStep == Contract!Next \/ UNCHANGED <<stream, [t \in Tasks |-> OutcomeOf(status[t])]>>

(* A step that changes no stream and no status stutters in the contract.   *)
LEMMA Stutter ==
  ASSUME UNCHANGED stream, \A t \in Tasks : OutcomeOf(status'[t]) = OutcomeOf(status[t])
  PROVE  ContractStep
<1>1. [t \in Tasks |-> OutcomeOf(status'[t])] = [t \in Tasks |-> OutcomeOf(status[t])]
  OBVIOUS
<1> QED BY <1>1 DEF ContractStep

(* Failing any set of open tasks is a step of the contract.                *)
LEMMA Breaking ==
  ASSUME UNCHANGED stream, NEW S \in SUBSET Tasks,
         \A t \in S : OutcomeOf(status[t]) = "open" /\ OutcomeOf(status'[t]) = "failed",
         \A t \in Tasks \ S : status'[t] = status[t]
  PROVE  ContractStep
<1>1. Contract!Break(S)
  BY DEF Contract!Break, OutcomeOf
<1> QED BY <1>1 DEF ContractStep, Contract!Next

(* The calls of clients stutter in the contract.                           *)
LEMMA ClientContract ==
  ASSUME ContractInv, Client PROVE Fresh' /\ Progress' /\ Reaped' /\ ContractStep
<1> USE DEF vars, apiVars, loopVars, taskVars, curlVars, noteVars
<1>1. UNCHANGED <<pc, evts, mTasks, status, stream, xfer, pos>>
  BY DEF Client, Signal, AddTask, Command, Read, Release, TakeNotification
<1>2. Progress' /\ Reaped' /\ ContractStep
  BY <1>1, Stutter DEF ContractInv, Progress, Reaped
<1>3. ASSUME NEW t \in Tasks, t \notin created' \/ Waiting(mEvts', t) \/ Waiting(evts', t)
      PROVE  t \notin created \/ Waiting(mEvts, t) \/ Waiting(evts, t)
  <2>1. CASE UNCHANGED <<mEvts, created>>
    BY <2>1, <1>1, <1>3
  <2>2. ASSUME NEW u \in Tasks, AddTask(u)
        PROVE  t \notin created \/ Waiting(mEvts, t) \/ Waiting(evts, t)
    <3>1. /\ mEvts' = Append(mEvts, AddEvent(u)) /\ created' = created \cup {u}
          /\ AddEvent(u) \in Event /\ mEvts \in Seq(Event) /\ u \notin created
      BY <2>2 DEF AddTask, Post, AddEvent, Event, EventTypes, ContractInv, AttachInv, TypeOK
    <3>2. AddEvent(u) = AddEvent(t) => u = t
      BY DEF AddEvent
    <3> QED BY <3>1, <3>2, AppendEvent, <1>1, <1>3
  <2>3. ASSUME NEW u \in Tasks, NEW type \in Commands, Command(type, u)
        PROVE  t \notin created \/ Waiting(mEvts, t) \/ Waiting(evts, t)
    <3> DEFINE e == [type |-> type, task |-> u]
    <3>1. /\ mEvts' = Append(mEvts, e) /\ created' = created
          /\ e \in Event /\ mEvts \in Seq(Event)
      BY <2>3, CallAssumption DEF Command, Post, Event, ContractInv, AttachInv, TypeOK
    <3>2. e # AddEvent(t)
      BY CallAssumption DEF AddEvent
    <3> QED BY <3>1, <3>2, AppendEvent, <1>1, <1>3
  <2> QED BY <2>1, <2>2, <2>3 DEF Client, Signal, Read, Release, TakeNotification
<1> QED BY <1>1, <1>2, <1>3 DEF ContractInv, Fresh

(* A byte is delivered under the offset it has in the resource, and only   *)
(* while the task is open.                                                 *)
LEMMA TransferContractStep ==
  ASSUME AsksWhatIsAsked, ContractInv, NEW t \in Tasks, Transfer(t)
  PROVE  Fresh' /\ Progress' /\ Reaped' /\ ContractStep
<1> USE DEF vars, apiVars, loopVars, taskVars, curlVars, noteVars
<1>1. /\ UNCHANGED <<pc, created, mEvts, evts, mTasks, status>>
      /\ xfer[t] = "running" /\ t \in mTasks /\ TypeOK
  BY DEF Transfer, WriteCallback, AppendData, TransferEnds, Transferring, ContractInv, AttachInv,
         Attached, InMulti
<1>2. /\ pos[t] = First(t) + Len(stream[t]) /\ status[t] = "Running"
      /\ stream[t] \in Seq(Chunk) /\ Len(stream[t]) \in Nat
      /\ t \in created /\ ~Waiting(mEvts, t) /\ ~Waiting(evts, t)
  BY <1>1 DEF ContractInv, Progress, AttachInv, AddedOnce, TypeOK
<1>3. CASE WriteCallback(t)
  <2>1. /\ stream' = [stream EXCEPT ![t] =
               Append(stream[t], [offset |-> First(t) + Len(stream[t]), pos |-> pos[t]])]
        /\ pos' = [pos EXCEPT ![t] = pos[t] + 1] /\ xfer' = xfer
        /\ pos[t] <= Last(t)
    BY <1>3, Asking DEF WriteCallback, AppendData, First
  <2>2. /\ \A u \in Tasks : u # t => stream'[u] = stream[u] /\ pos'[u] = pos[u]
        /\ pos'[t] = First(t) + Len(stream'[t])
    BY <2>1, <1>1, <1>2, Asking DEF TypeOK
  <2>3. Fresh' /\ Progress' /\ Reaped'
    BY <2>1, <2>2, <1>1, <1>2 DEF ContractInv, Fresh, Progress, Reaped, TypeOK
  <2>4. Contract!Asked(t, Len(stream[t]) + 1) = [offset |-> pos[t], pos |-> pos[t]]
    BY <1>2, Asking DEF Contract!Asked
  <2>5. Contract!Deliver(t)
    <3>1. stream' = [stream EXCEPT ![t] =
                       Append(stream[t], Contract!Asked(t, Len(stream[t]) + 1))]
      BY <2>1, <2>4, <1>2
    <3> QED BY <3>1, <2>1, <1>1, <1>2, Asking DEF Contract!Deliver, IsEnd
  <2> QED BY <2>3, <2>5 DEF ContractStep, Contract!Next
<1>4. CASE TransferEnds(t)
  <2>1. /\ UNCHANGED <<stream, pos>>
        /\ \A u \in Tasks : u # t => xfer'[u] = xfer[u]
        /\ xfer'[t] \in {"ok", "error"} /\ (xfer'[t] = "ok" => pos[t] = Last(t) + 1)
    BY <1>4, <1>1, Asking DEF TransferEnds, TypeOK
  <2>2. Fresh' /\ Progress' /\ Reaped'
    BY <2>1, <1>1, <1>2 DEF ContractInv, Fresh, Progress, Reaped, TypeOK
  <2> QED BY <2>1, <2>2, <1>1, Stutter
<1> QED BY <1>3, <1>4 DEF Transfer

(* The loop delivers, completes, breaks or stutters.                       *)
LEMMA LoopContract ==
  ASSUME NeverReattached, AsksWhatIsAsked, ContractInv, Worker, ~HandleEvent
  PROVE  Fresh' /\ Progress' /\ Reaped' /\ ContractStep
<1> USE DEF vars, apiVars, loopVars, taskVars, curlVars, noteVars
<1>0. /\ TypeOK /\ AttachInv /\ mTasks \in SUBSET Tasks
      /\ \A t \in Tasks : (t \in mTasks <=> curlAdded[t]) /\ (t \in mTasks <=> xfer[t] # "idle")
      /\ UNCHANGED <<stream, created>>
  BY DEF ContractInv, AttachInv, TypeOK, Attached, InMulti, Worker, PerformReturns, PerformFails,
         ReadMessage, MessagesRead, Visit, Throttle, Reattach, KeepGoing, VisitDone, Reap,
         PollReturns, PollFails, AbortAll, SwapEvents, EventsHandled
<1>1. ASSUME UNCHANGED <<mEvts, evts>>, \A t \in Tasks : t \notin mTasks => status'[t] = status[t]
      PROVE  Fresh'
  BY <1>0, <1>1 DEF ContractInv, Fresh, AttachInv, AddedOnce
<1>2. CASE PerformReturns \/ MessagesRead \/ (\E t \in Tasks : Visit(t)) \/ PollReturns \/ EventsHandled
  <2>1. UNCHANGED <<mEvts, evts, mTasks, status, xfer, pos>>
        /\ (pc' \in {"poll", "swap", "events", "perform"} => pc \in {"poll", "swap", "events", "perform"})
    BY <1>2 DEF PerformReturns, MessagesRead, Visit, PollReturns, EventsHandled
  <2> QED BY <2>1, <1>0, <1>1, Stutter DEF ContractInv, Progress, Reaped
<1>3. CASE PerformFails \/ PollFails
  <2>1. AbortAll /\ pc \in {"poll", "perform"}
    BY <1>3 DEF PerformFails, PollFails
  <2>2. /\ UNCHANGED <<mEvts, evts>> /\ mTasks' = {}
        /\ \A t \in mTasks : status'[t] = "Fail"
        /\ \A t \in Tasks \ mTasks : status'[t] = status[t]
    BY <2>1, <1>0 DEF AbortAll, RemoveTasks
  <2>3. \A t \in mTasks : status[t] = "Running"
    BY <2>1 DEF ContractInv, Progress, Reaped
  <2>4. ContractStep
    BY <2>2, <2>3, <1>0, Breaking DEF OutcomeOf, IsEnd
  <2> QED BY <2>2, <2>4, <1>1 DEF Progress, Reaped
<1>4. ASSUME NEW t \in Tasks, ReadMessage(t) PROVE Fresh' /\ Progress' /\ Reaped' /\ ContractStep
  <2>1. /\ t \in mTasks /\ xfer[t] \in {"ok", "error"} /\ status[t] = "Running"
        /\ pos[t] = First(t) + Len(stream[t]) /\ (xfer[t] = "ok" => pos[t] = Last(t) + 1)
    BY <1>4, <1>0 DEF ReadMessage, HasMessage, ContractInv, Progress
  <2>2. /\ status' = [status EXCEPT ![t] = IF xfer[t] = "ok" THEN "Completed" ELSE "Fail"]
        /\ xfer' = [xfer EXCEPT ![t] = "reported"]
        /\ UNCHANGED <<mEvts, evts, mTasks, pos>> /\ pc' = "messages"
    BY <1>4, <2>1 DEF ReadMessage
  <2>3. Fresh' /\ Progress' /\ Reaped'
    BY <2>1, <2>2, <1>0, <1>1 DEF ContractInv, Progress, Reaped, TypeOK, IsEnd
  <2>4. CASE xfer[t] = "ok"
    <3>1. First(t) + Len(stream[t]) = Last(t) + 1
      BY <2>1, <2>4
    <3>2. \A u \in Tasks : OutcomeOf(status'[u]) = IF u = t THEN "whole" ELSE OutcomeOf(status[u])
      BY <2>2, <2>4, <1>0 DEF TypeOK, OutcomeOf
    <3>3. Contract!Complete(t)
      BY <3>1, <3>2, <2>1, <1>0, Asking DEF Contract!Complete, OutcomeOf, IsEnd
    <3> QED BY <2>3, <3>3 DEF ContractStep, Contract!Next
  <2>5. CASE xfer[t] = "error"
    <3>1. {t} \in SUBSET Tasks /\ OutcomeOf(status[t]) = "open"
      BY <2>1 DEF OutcomeOf, IsEnd
    <3>2. OutcomeOf(status'[t]) = "failed" /\ \A u \in Tasks \ {t} : status'[u] = status[u]
      BY <2>2, <2>5, <1>0 DEF TypeOK, OutcomeOf, IsEnd
    <3> QED BY <2>3, <3>1, <3>2, <1>0, Breaking
  <2> QED BY <2>1, <2>4, <2>5
<1>5. CASE Throttle \/ Reattach \/ KeepGoing
  <2>1. pc = "visit" /\ cur \in mTasks
    BY <1>5, <1>0 DEF Throttle, Reattach, KeepGoing, AttachInv, VisitsRegistered
  <2>2. ~OutOfBuf(cur) /\ curlAdded[cur]
    BY <2>1, <1>0 DEF NeverReattached, OutOfBuf
  <2>3. KeepGoing
    BY <1>5, <2>2 DEF Throttle, Reattach
  <2>4. UNCHANGED <<mEvts, evts, mTasks, status, xfer, pos>> /\ pc' = "tasks"
    BY <2>3 DEF KeepGoing, VisitDone
  <2> QED BY <2>4, <1>0, <1>1, Stutter DEF ContractInv, Progress, Reaped
<1>6. CASE Reap
  <2>1. /\ mTasks' = mTasks \ {t \in mTasks : IsEnd(status[t])}
        /\ UNCHANGED <<mEvts, evts, status, pos>> /\ pc' = "poll"
        /\ \A t \in mTasks' : xfer'[t] = xfer[t]
    BY <1>6, <1>0, RemovalAttached DEF Reap, RemoveTasks, RemoveHandles, AttachInv, TypeOK
  <2> QED BY <2>1, <1>0, <1>1, Stutter DEF ContractInv, Progress, Reaped
<1>7. CASE SwapEvents
  <2>1. UNCHANGED <<mTasks, status, xfer, pos>> /\ pc = "swap" /\ mEvts' = evts /\ evts' = mEvts
    BY <1>7 DEF SwapEvents
  <2> QED BY <2>1, <1>0, Stutter DEF ContractInv, Fresh, Progress, Reaped
<1> QED BY <1>2, <1>3, <1>4, <1>5, <1>6, <1>7 DEF Worker

(* An event handler breaks a task or stutters.                             *)
LEMMA HandlerContract ==
  ASSUME NeverReattached, AsksWhatIsAsked, ContractInv, HandleEvent
  PROVE  Fresh' /\ Progress' /\ Reaped' /\ ContractStep
<1> DEFINE e == Head(evts)
<1>0. /\ TypeOK /\ AttachInv /\ mTasks \in SUBSET Tasks
      /\ \A t \in Tasks : (t \in mTasks <=> curlAdded[t]) /\ (t \in mTasks <=> xfer[t] # "idle")
  BY DEF ContractInv, AttachInv, TypeOK, Attached, InMulti
<1>1. /\ evts \in Seq(Event) /\ evts # <<>> /\ evts' = Tail(evts) /\ pc = "events"
      /\ e \in Event /\ e.task \in Tasks /\ Dispatch(e) /\ UNCHANGED <<mEvts, created, stream>>
  BY <1>0, HeadEvent DEF HandleEvent, apiVars
<1>2. e \in Posted
  <2>1. evts \in Seq(Posted)
    BY <1>0 DEF AttachInv, PostedOnly
  <2> QED BY <2>1, <1>1
<1>3. \A t \in Tasks : t \in mTasks => /\ status[t] = "Running" /\ xfer[t] # "reported"
                                       /\ t \in created /\ ~Waiting(mEvts, t) /\ ~Waiting(evts, t)
  BY <1>0, <1>1 DEF ContractInv, Progress, Reaped, AttachInv, AddedOnce
<1>4. \A t \in Tasks : /\ Waiting(evts', t) => Waiting(evts, t) /\ e # AddEvent(t)
                       /\ e = AddEvent(t) => Waiting(evts, t) /\ ~Waiting(mEvts, t)
  BY <1>0, <1>1, TailEvents DEF AttachInv, AddedOnce
<1> HIDE DEF e
<1>5. CASE e.type = "AddTask" /\ HandleAddTaskEvent(e.task)
  <2>1. e = AddEvent(e.task) /\ Waiting(evts, e.task) /\ e.task \in created /\ e.task \notin mTasks
    BY <1>0, <1>1, <1>2, <1>4, <1>5 DEF Posted, AddEvent, AttachInv, AddedOnce
  <2>2. /\ AddHandle(e.task) /\ pc' = pc /\ mTasks' = mTasks \cup {e.task}
        /\ status' = [status EXCEPT ![e.task] = "Running"]
    BY <1>0, <1>1, <1>5, <2>1 DEF HandleAddTaskEvent, AddHandleFails, InMulti, NeverReattached
  <2>3. stream[e.task] = <<>> /\ status[e.task] = "Idle"
    BY <2>1, <1>1 DEF ContractInv, Fresh
  <2>4. /\ xfer' = [xfer EXCEPT ![e.task] = "running"]
        /\ pos' = [pos EXCEPT ![e.task] = First(e.task)]
    BY <2>2, <1>1, Asking DEF AddHandle
  <2>5. First(e.task) = First(e.task) + Len(stream[e.task])
    BY <2>3, <1>1, Asking
  <2>6. Progress' /\ Reaped'
    BY <2>2, <2>4, <2>5, <1>0, <1>1, <1>3 DEF ContractInv, Progress, Reaped, TypeOK
  <2>7. Fresh'
    BY <2>1, <2>2, <2>4, <1>0, <1>1, <1>4 DEF ContractInv, Fresh, TypeOK
  <2>8. ContractStep
    BY <2>2, <2>3, <1>0, <1>1, Stutter DEF OutcomeOf, IsEnd, TypeOK
  <2> QED BY <2>6, <2>7, <2>8
<1>6. CASE e.type = "CancelTask" /\ HandleCancelTaskEvent(e.task)
  <2>1. CASE e.task \in mTasks
    <3>1. /\ status' = [status EXCEPT ![e.task] = "Cancelled"] /\ pc' = pc
          /\ RemoveTasks({e.task})
      BY <1>1, <1>3, <1>6, <2>1 DEF HandleCancelTaskEvent, Interruptible
    <3>2. /\ mTasks' = mTasks \ {e.task} /\ pos' = pos
          /\ \A t \in mTasks' : xfer'[t] = xfer[t] /\ status'[t] = status[t]
      BY <3>1, <1>0, <1>1, RemovalAttached DEF RemoveTasks, RemoveHandles, AttachInv, TypeOK
    <3>3. Fresh' /\ Progress' /\ Reaped'
      BY <2>1, <3>1, <3>2, <1>0, <1>1, <1>3, <1>4 DEF ContractInv, Fresh, Progress, Reaped, TypeOK
    <3>4. ContractStep
      <4>1. {e.task} \in SUBSET Tasks /\ OutcomeOf(status[e.task]) = "open"
        BY <1>1, <1>3, <2>1 DEF OutcomeOf, IsEnd
      <4>2. OutcomeOf(status'[e.task]) = "failed" /\ \A t \in Tasks \ {e.task} : status'[t] = status[t]
        BY <3>1, <1>0, <1>1 DEF TypeOK, OutcomeOf, IsEnd
      <4> QED BY <4>1, <4>2, <1>1, Breaking
    <3> QED BY <3>3, <3>4
  <2>2. CASE e.task \notin mTasks
    <3>1. UNCHANGED <<status, mTasks, xfer, pos, pc>>
      BY <1>6, <2>2 DEF HandleCancelTaskEvent, Interruptible, curlVars
    <3> QED BY <3>1, <1>0, <1>1, <1>4, Stutter DEF ContractInv, Fresh, Progress, Reaped
  <2> QED BY <2>1, <2>2
<1>7. CASE BadAnyCast \/ NotDispatched
  <2>1. UNCHANGED <<status, mTasks, xfer, pos>>
    BY <1>7 DEF BadAnyCast, NotDispatched, curlVars
  <2> QED BY <2>1, <1>0, <1>1, <1>3, <1>4, Stutter DEF ContractInv, Fresh, Progress, Reaped
<1>8. ~(e.type = "PauseTask" /\ PayloadType[e.type] = "HttpDownloaderTask")
  <2>1. e.type = "PauseTask" => "PauseTask" \in Commands
    BY <1>2 DEF Posted
  <2> QED BY <2>1 DEF NeverReattached
<1> QED BY <1>1, <1>5, <1>6, <1>7, <1>8 DEF Dispatch

LEMMA ContractInit == Init => ContractInv
<1> SUFFICES ASSUME Init PROVE ContractInv
  OBVIOUS
<1>1. Fresh /\ Progress /\ Reaped
  BY DEF Init, Fresh, Progress, Reaped
<1> QED BY <1>1, AttachInit DEF ContractInv

(* Every step keeps the invariant and is one of the contract, or stutters. *)
LEMMA ContractStepping ==
  ASSUME NeverReattached, AsksWhatIsAsked, ContractInv, [Next]_vars
  PROVE  ContractInv' /\ ContractStep
<1>1. AttachInv'
  BY AttachStep DEF ContractInv
<1>2. Fresh' /\ Progress' /\ Reaped' /\ ContractStep
  <2>1. CASE UNCHANGED vars
    BY <2>1, Stutter DEF ContractInv, Fresh, Progress, Reaped, vars, apiVars, loopVars, taskVars, curlVars
  <2>2. CASE Next
    BY <2>2, ClientContract, TransferContractStep, LoopContract, HandlerContract DEF Next
  <2> QED BY <2>1, <2>2
<1> QED BY <1>1, <1>2 DEF ContractInv

(* Without reattachment and with ranges the code does ask for, the worker, *)
(* its event queue and libcurl together implement TransferContract: the    *)
(* bytes in order under their own offsets, one outcome, "Completed" only   *)
(* after the last byte, and no byte after the outcome.                     *)
THEOREM ContractIsKept == NeverReattached /\ AsksWhatIsAsked => (Spec => KeepsContract)
<1> SUFFICES ASSUME NeverReattached, AsksWhatIsAsked PROVE Spec => KeepsContract
  OBVIOUS
<1>1. Init => Contract!Init
  BY DEF Init, Contract!Init, IsEnd
<1>2. ContractInv /\ [Next]_vars => ContractInv' /\ [Contract!Next]_(Contract!contractVars)
  BY ContractStepping DEF ContractStep, Contract!contractVars, OutcomeOf
<1> QED BY <1>1, <1>2, ContractInit, PTL DEF Spec, KeepsContract, Contract!Spec
=================================================================================
