---------------------------- MODULE HttpDownloader ----------------------------
(***************************************************************************)
(* util/HttpDownloader.h with the task and downloader base classes of      *)
(* util/Downloader.h: client threads post events, one worker thread runs   *)
(* every transfer through a libcurl multi handle.                          *)
(*                                                                         *)
(* A task's buffer chain is taken at the level of its abstract queue       *)
(* (module TaskBuffer is the chain itself): stream[t] is every chunk ever  *)
(* appended, taken[t] how many of them Read() has handed out.  A chunk is  *)
(* one byte: the offset the task gives it and the resource byte it is.     *)
(* mTasks and mCurlTasks, always written together, are one set.            *)
(***************************************************************************)
EXTENDS Naturals, Sequences

CONSTANTS
  Tasks,         \* the tasks AddTask may create
  NoTask,        \* no task
  ResourceSize,  \* bytes behind each URL
  Opt,           \* Opt[t]: the Start, End and MaxBuf the caller set
  Commands,      \* which of Cancel/Pause/ResumeTask the clients call
  MaxCommands,   \* bound on the number of those calls
  PayloadType,   \* PayloadType[e]: static type AddTask & co. post with event e
  CurlFaults     \* libcurl calls that may fail: "add_handle", "perform", "poll"

EventTypes == {"AddTask", "CancelTask", "PauseTask", "ResumeTask"}

ASSUME TaskAssumption ==
  /\ NoTask \notin Tasks
  /\ ResourceSize \in Nat \ {0}
  /\ Opt \in [Tasks -> [Start : 0 .. ResourceSize - 1,
                        End : 0 .. ResourceSize - 1, MaxBuf : Nat]]
ASSUME CallAssumption ==
  /\ Commands \subseteq EventTypes \ {"AddTask"}
  /\ MaxCommands \in Nat
  /\ PayloadType \in [EventTypes -> {"DownloaderTask", "HttpDownloaderTask"}]
  /\ PayloadType["AddTask"] = "HttpDownloaderTask"
ASSUME FaultAssumption == CurlFaults \subseteq {"add_handle", "perform", "poll"}

VARIABLES
  \* the API side
  created,      \* tasks AddTask has returned
  held,         \* tasks some client still keeps a shared_ptr to
  commands,     \* calls made so far (bounded by MaxCommands)
  unsignalled,  \* postEvent calls between the push and curl_multi_wakeup
  mEvts,        \* events posted under mMtx
  wakeup,       \* the multi handle's sticky wakeup signal
  \* the worker
  pc,           \* where run() is
  evts,         \* the batch swapped out of mEvts
  mTasks,       \* registered tasks
  todo,         \* tasks the for loop has still to visit
  cur,          \* the task being visited
  notify,       \* the visit's local flag
  \* the tasks
  status, curlAdded, stream, taken,
  \* libcurl: state of each easy handle, and the next resource byte it sends
  xfer, pos,
  \* the Receiver: notified tasks not yet looked at, tasks notified as ended
  inbox, told

apiVars == <<created, held, commands, unsignalled, mEvts, wakeup>>
loopVars == <<pc, evts, mTasks, todo, cur, notify>>
taskVars == <<status, curlAdded, stream, taken>>
curlVars == <<xfer, pos>>
noteVars == <<inbox, told>>
vars == <<apiVars, loopVars, taskVars, curlVars, noteVars>>

-------------------------------------------------------------------------------
(* Task options and status *)

Statuses == {"Cancelled", "Fail", "Idle", "Running", "Paused", "Completed"}
IsEnd(st) == st \in {"Cancelled", "Fail", "Completed"}

HasData(t) == taken[t] < Len(stream[t])
OutOfBuf(t) ==
  Opt[t].MaxBuf > 0 /\ Len(stream[t]) - taken[t] > Opt[t].MaxBuf

(* CURLOPT_RANGE is set only inside both conditions of AddTask. *)
Ranged(t) == Opt[t].Start > 0 /\ Opt[t].End >= Opt[t].Start
FirstSent(t) == IF Ranged(t) THEN Opt[t].Start ELSE 0
LastSent(t) == IF Ranged(t) THEN Opt[t].End ELSE ResourceSize - 1

-------------------------------------------------------------------------------
(* libcurl: a handle added to the multi handle starts its request anew; a  *)
(* handle already in a multi handle is refused; removal drops its message. *)

InMulti(t) == xfer[t] # "idle"

AddHandle(t) ==
  /\ ~InMulti(t)
  /\ xfer' = [xfer EXCEPT ![t] = "running"]
  /\ pos' = [pos EXCEPT ![t] = FirstSent(t)]

AddHandleFails(t) ==
  /\ InMulti(t) \/ "add_handle" \in CurlFaults
  /\ UNCHANGED curlVars

RemoveHandles(S) ==
  /\ xfer' = [t \in Tasks |-> IF t \in S THEN "idle" ELSE xfer[t]]
  /\ UNCHANGED pos

(* A task lives while a client, the maps or a queued event refer to it;    *)
(* its destructor takes the handle out of the multi handle.                *)
Queued(q) == {q[i].task : i \in 1 .. Len(q)}
Alive(t) == t \in held \cup mTasks \cup Queued(mEvts) \cup Queued(evts)

-------------------------------------------------------------------------------
(* Client threads *)

(* Mutant of Post: BaseDownloader::postEvent, without the wakeup. *)
PostOnly(type, t) ==
  /\ mEvts' = Append(mEvts, [type |-> type, task |-> t])
  /\ UNCHANGED <<unsignalled, wakeup>>

Post(type, t) ==
  /\ mEvts' = Append(mEvts, [type |-> type, task |-> t])
  /\ unsignalled' = unsignalled + 1
  /\ UNCHANGED wakeup

Signal ==
  /\ pc # "aborted"
  /\ unsignalled > 0
  /\ unsignalled' = unsignalled - 1
  /\ wakeup' = TRUE
  /\ UNCHANGED <<created, held, commands, mEvts, loopVars, taskVars, curlVars, noteVars>>

AddTask(t) ==
  /\ pc # "aborted"
  /\ t \notin created
  /\ created' = created \cup {t}
  /\ held' = held \cup {t}
  /\ Post("AddTask", t)
  /\ UNCHANGED <<commands, loopVars, taskVars, curlVars, noteVars>>

(* CancelTask, PauseTask and ResumeTask *)
Command(type, t) ==
  /\ pc # "aborted"
  /\ t \in held
  /\ commands < MaxCommands
  /\ commands' = commands + 1
  /\ Post(type, t)
  /\ UNCHANGED <<created, held, loopVars, taskVars, curlVars, noteVars>>

(* Mutant of Read: the chunks before mDataHead are counted again. *)
ReadRecounting(t) ==
  /\ pc # "aborted"
  /\ t \in held
  /\ HasData(t)
  /\ taken' = [taken EXCEPT ![t] = @ + Len(stream[t])]
  /\ UNCHANGED <<apiVars, loopVars, status, curlAdded, stream, curlVars, noteVars>>

Read(t) ==
  /\ pc # "aborted"
  /\ t \in held
  /\ HasData(t)
  /\ taken' = [taken EXCEPT ![t] = Len(stream[t])]
  /\ UNCHANGED <<apiVars, loopVars, status, curlAdded, stream, curlVars, noteVars>>

(* The client drops its last shared_ptr. *)
Release(t) ==
  /\ pc # "aborted"
  /\ t \in held
  /\ held' = held \ {t}
  /\ UNCHANGED <<created, commands, unsignalled, mEvts, wakeup,
                 loopVars, taskVars, curlVars, noteVars>>

(* The Receiver looks at a notification. *)
TakeNotification(t) ==
  /\ pc # "aborted"
  /\ t \in inbox
  /\ inbox' = inbox \ {t}
  /\ UNCHANGED <<apiVars, loopVars, taskVars, curlVars, told>>

-------------------------------------------------------------------------------
(* The worker: notifications and removal *)

NotifyAll(S) ==
  /\ inbox' = inbox \cup S
  /\ told' = told \cup {t \in S : IsEnd(status'[t])}

(* removeTask on each of S: a handle whose mCurlAdded is false stays where *)
(* it is.                                                                  *)
RemoveTasks(S) ==
  /\ RemoveHandles({t \in S : curlAdded[t]})
  /\ curlAdded' = [t \in Tasks |-> curlAdded[t] /\ t \notin S]
  /\ mTasks' = mTasks \ S

AbortAll ==
  /\ status' = [t \in Tasks |-> IF t \in mTasks THEN "Fail" ELSE status[t]]
  /\ NotifyAll(mTasks)
  /\ RemoveTasks(mTasks)
  /\ pc' = "perform"
  /\ UNCHANGED <<apiVars, evts, todo, cur, notify, stream, taken>>

-------------------------------------------------------------------------------
(* curl_multi_perform: transfers advance, then the call returns *)

Transferring(t) == pc = "perform" /\ xfer[t] = "running" /\ Alive(t)

(* write() numbers the data by mOffset, which counts from Start. *)
AppendData(t) ==
  stream' = [stream EXCEPT ![t] =
    Append(@, [offset |-> Opt[t].Start + Len(@), pos |-> pos[t]])]

WriteCallback(t) ==
  /\ Transferring(t)
  /\ pos[t] <= LastSent(t)
  /\ AppendData(t)
  /\ pos' = [pos EXCEPT ![t] = @ + 1]
  /\ UNCHANGED <<apiVars, loopVars, status, curlAdded, taken, xfer, noteVars>>

TransferEnds(t) ==
  /\ Transferring(t)
  /\ \/ /\ pos[t] = LastSent(t) + 1
        /\ xfer' = [xfer EXCEPT ![t] = "ok"]
     \/ xfer' = [xfer EXCEPT ![t] = "error"]
  /\ UNCHANGED <<apiVars, loopVars, taskVars, pos, noteVars>>

PerformReturns ==
  /\ pc = "perform"
  /\ pc' = "messages"
  /\ UNCHANGED <<apiVars, evts, mTasks, todo, cur, notify, taskVars, curlVars, noteVars>>

PerformFails ==
  /\ pc = "perform"
  /\ "perform" \in CurlFaults
  /\ AbortAll

-------------------------------------------------------------------------------
(* curl_multi_info_read: mCurlTasks[c] of a handle that is no longer       *)
(* registered is a null pointer, and the call through it ends the process. *)

HasMessage(t) == xfer[t] \in {"ok", "error"} /\ Alive(t)

ReadMessage(t) ==
  /\ pc = "messages"
  /\ HasMessage(t)
  /\ xfer' = [xfer EXCEPT ![t] = "reported"]
  /\ \/ /\ t \in mTasks
        /\ status' = [status EXCEPT ![t] =
                        IF xfer[t] = "ok" THEN "Completed" ELSE "Fail"]
        /\ UNCHANGED pc
     \/ /\ t \notin mTasks
        /\ pc' = "aborted"
        /\ UNCHANGED status
  /\ UNCHANGED <<apiVars, evts, mTasks, todo, cur, notify, curlAdded, stream,
                 taken, pos, noteVars>>

MessagesRead ==
  /\ pc = "messages"
  /\ \A t \in Tasks : ~HasMessage(t)
  /\ pc' = "tasks"
  /\ todo' = mTasks
  /\ UNCHANGED <<apiVars, evts, mTasks, cur, notify, taskVars, curlVars, noteVars>>

-------------------------------------------------------------------------------
(* The for loop over mTasks, in the order of the hash map *)

(* Mutant of Visit: the end alone is not notified. *)
VisitForData(t) ==
  /\ pc = "tasks"
  /\ t \in todo
  /\ todo' = todo \ {t}
  /\ cur' = t
  /\ notify' = HasData(t)
  /\ pc' = "visit"
  /\ UNCHANGED <<apiVars, evts, mTasks, taskVars, curlVars, noteVars>>

Visit(t) ==
  /\ pc = "tasks"
  /\ t \in todo
  /\ todo' = todo \ {t}
  /\ cur' = t
  /\ notify' = (HasData(t) \/ IsEnd(status[t]))
  /\ pc' = "visit"
  /\ UNCHANGED <<apiVars, evts, mTasks, taskVars, curlVars, noteVars>>

VisitDone ==
  /\ cur' = NoTask
  /\ notify' = FALSE
  /\ pc' = "tasks"
  /\ UNCHANGED <<apiVars, evts, mTasks, todo, stream, taken>>

(* Over its buffer limit, the task leaves the multi handle. *)
Throttle ==
  /\ pc = "visit"
  /\ OutOfBuf(cur)
  /\ RemoveHandles({cur} \cap {t \in Tasks : curlAdded[t]})
  /\ curlAdded' = [curlAdded EXCEPT ![cur] = FALSE]
  /\ UNCHANGED status
  /\ NotifyAll(IF notify THEN {cur} ELSE {})
  /\ VisitDone

(* Not over the limit and mCurlAdded false: curl_multi_add_handle again.   *)
(* Its success leaves mCurlAdded as it was.                                *)
Reattach ==
  /\ pc = "visit"
  /\ ~OutOfBuf(cur)
  /\ ~curlAdded[cur]
  /\ UNCHANGED curlAdded
  /\ \/ /\ AddHandle(cur)
        /\ UNCHANGED status
        /\ NotifyAll(IF notify THEN {cur} ELSE {})
     \/ /\ AddHandleFails(cur)
        /\ status' = [status EXCEPT ![cur] = "Fail"]
        /\ NotifyAll({cur})
  /\ VisitDone

KeepGoing ==
  /\ pc = "visit"
  /\ ~OutOfBuf(cur)
  /\ curlAdded[cur]
  /\ UNCHANGED <<status, curlAdded, curlVars>>
  /\ NotifyAll(IF notify THEN {cur} ELSE {})
  /\ VisitDone

(* rmTasks holds the visited tasks that had ended; only this thread writes *)
(* a status, so they are the registered tasks that have ended now.         *)
Reap ==
  /\ pc = "tasks"
  /\ todo = {}
  /\ RemoveTasks({t \in mTasks : IsEnd(status[t])})
  /\ pc' = "poll"
  /\ UNCHANGED <<apiVars, evts, todo, cur, notify, status, stream, taken, noteVars>>

-------------------------------------------------------------------------------
(* curl_multi_poll returns on activity, on a wakeup or after ten seconds *)

PollReturns ==
  /\ pc = "poll"
  /\ wakeup' = FALSE
  /\ pc' = "swap"
  /\ UNCHANGED <<created, held, commands, unsignalled, mEvts, evts, mTasks, todo,
                 cur, notify, taskVars, curlVars, noteVars>>

PollFails ==
  /\ pc = "poll"
  /\ "poll" \in CurlFaults
  /\ AbortAll

SwapEvents ==
  /\ pc = "swap"
  /\ evts' = mEvts
  /\ mEvts' = evts
  /\ pc' = "events"
  /\ UNCHANGED <<created, held, commands, unsignalled, wakeup, mTasks, todo, cur,
                 notify, taskVars, curlVars, noteVars>>

-------------------------------------------------------------------------------
(* handleEvent and its handlers *)

(* Mutant of HandleAddTaskEvent: mCurlAdded is not set. *)
HandleAddTaskEventUnmarked(t) ==
  /\ mTasks' = mTasks \cup {t}
  /\ \/ /\ AddHandle(t)
        /\ status' = [status EXCEPT ![t] = "Running"]
        /\ UNCHANGED noteVars
     \/ /\ AddHandleFails(t)
        /\ status' = [status EXCEPT ![t] = "Fail"]
        /\ NotifyAll({t})
  /\ UNCHANGED <<pc, curlAdded>>

HandleAddTaskEvent(t) ==
  /\ mTasks' = mTasks \cup {t}
  /\ \/ /\ AddHandle(t)
        /\ curlAdded' = [curlAdded EXCEPT ![t] = TRUE]
        /\ status' = [status EXCEPT ![t] = "Running"]
        /\ UNCHANGED noteVars
     \/ /\ AddHandleFails(t)
        /\ curlAdded' = [curlAdded EXCEPT ![t] = FALSE]
        /\ status' = [status EXCEPT ![t] = "Fail"]
        /\ NotifyAll({t})
  /\ UNCHANGED pc

(* cancel() and pause() do nothing to a task that is over or paused. *)
Interruptible(t) == status[t] \in {"Idle", "Running"}

(* Mutant of HandleCancelTaskEvent: the handle stays in the multi handle. *)
HandleCancelTaskEventKeepingHandle(t) ==
  /\ \/ /\ t \in mTasks
        /\ \/ /\ Interruptible(t)
              /\ status' = [status EXCEPT ![t] = "Cancelled"]
              /\ NotifyAll({t})
           \/ /\ ~Interruptible(t)
              /\ UNCHANGED <<status, noteVars>>
        /\ mTasks' = mTasks \ {t}
     \/ /\ t \notin mTasks
        /\ UNCHANGED <<status, mTasks, noteVars>>
  /\ UNCHANGED <<pc, curlAdded, curlVars>>

HandleCancelTaskEvent(t) ==
  /\ \/ /\ t \in mTasks
        /\ \/ /\ Interruptible(t)
              /\ status' = [status EXCEPT ![t] = "Cancelled"]
              /\ NotifyAll({t})
           \/ /\ ~Interruptible(t)
              /\ UNCHANGED <<status, noteVars>>
        /\ RemoveTasks({t})
     \/ /\ t \notin mTasks
        /\ UNCHANGED <<status, curlAdded, mTasks, curlVars, noteVars>>
  /\ UNCHANGED pc

HandlePauseTaskEvent(t) ==
  /\ \/ /\ t \in mTasks
        /\ Interruptible(t)
        /\ status' = [status EXCEPT ![t] = "Paused"]
        /\ RemoveHandles({t} \cap {u \in Tasks : curlAdded[u]})
        /\ curlAdded' = [curlAdded EXCEPT ![t] = FALSE]
        /\ NotifyAll({t})
     \/ /\ t \notin mTasks \/ ~Interruptible(t)
        /\ UNCHANGED <<status, curlAdded, curlVars, noteVars>>
  /\ UNCHANGED <<pc, mTasks>>

(* std::any_cast to shared_ptr<HttpDownloaderTask> throws when the payload *)
(* was posted as shared_ptr<DownloaderTask>; nothing on the worker thread  *)
(* catches it.                                                             *)
BadAnyCast ==
  /\ pc' = "aborted"
  /\ UNCHANGED <<status, curlAdded, mTasks, curlVars, noteVars>>

(* The switch has no case for ResumeTask. *)
NotDispatched == UNCHANGED <<pc, status, curlAdded, mTasks, curlVars, noteVars>>

Dispatch(e) ==
  LET cast == PayloadType[e.type] = "HttpDownloaderTask"
  IN  \/ e.type = "AddTask" /\ HandleAddTaskEvent(e.task)
      \/ e.type = "CancelTask" /\ cast /\ HandleCancelTaskEvent(e.task)
      \/ e.type = "PauseTask" /\ cast /\ HandlePauseTaskEvent(e.task)
      \/ e.type \in {"CancelTask", "PauseTask"} /\ ~cast /\ BadAnyCast
      \/ e.type = "ResumeTask" /\ NotDispatched

HandleEvent ==
  /\ pc = "events"
  /\ evts # <<>>
  /\ evts' = Tail(evts)
  /\ Dispatch(Head(evts))
  /\ UNCHANGED <<apiVars, todo, cur, notify, stream, taken>>

EventsHandled ==
  /\ pc = "events"
  /\ evts = <<>>
  /\ pc' = "perform"
  /\ UNCHANGED <<apiVars, evts, mTasks, todo, cur, notify, taskVars, curlVars, noteVars>>

-------------------------------------------------------------------------------
Init ==
  /\ created = {} /\ held = {} /\ commands = 0 /\ unsignalled = 0
  /\ mEvts = <<>> /\ wakeup = FALSE
  /\ pc = "perform" /\ evts = <<>> /\ mTasks = {}
  /\ todo = {} /\ cur = NoTask /\ notify = FALSE
  /\ status = [t \in Tasks |-> "Idle"]
  /\ curlAdded = [t \in Tasks |-> FALSE]
  /\ stream = [t \in Tasks |-> <<>>]
  /\ taken = [t \in Tasks |-> 0]
  /\ xfer = [t \in Tasks |-> "idle"]
  /\ pos = [t \in Tasks |-> 0]
  /\ inbox = {} /\ told = {}

Client ==
  \/ Signal
  \/ \E t \in Tasks : \/ AddTask(t) \/ Read(t) \/ Release(t) \/ TakeNotification(t)
                      \/ \E type \in Commands : Command(type, t)

Transfer(t) == WriteCallback(t) \/ TransferEnds(t)

Worker ==
  \/ PerformReturns \/ PerformFails
  \/ (\E t \in Tasks : ReadMessage(t)) \/ MessagesRead
  \/ (\E t \in Tasks : Visit(t)) \/ Throttle \/ Reattach \/ KeepGoing \/ Reap
  \/ PollReturns \/ PollFails \/ SwapEvents
  \/ HandleEvent \/ EventsHandled

Next == Client \/ Worker \/ \E t \in Tasks : Transfer(t)

Spec == Init /\ [][Next]_vars

(* run() never blocks for ever and is always scheduled; a thread inside    *)
(* postEvent gets to curl_multi_wakeup; a server answers or its connection *)
(* drops.                                                                  *)
Fairness ==
  /\ WF_vars(Worker)
  /\ WF_vars(Signal)
  /\ \A t \in Tasks : SF_vars(Transfer(t))

FairSpec == Spec /\ Fairness

-------------------------------------------------------------------------------
(* Properties *)

Event == [type : EventTypes, task : Tasks]
Chunk == [offset : Nat, pos : 0 .. ResourceSize - 1]

(* Every variable of HttpDownloader and HttpDownloaderTask stays in the    *)
(* range the code gives it, and a read cursor never passes the data.       *)
TypeOK ==
  /\ created \subseteq Tasks /\ held \subseteq created
  /\ commands \in 0 .. MaxCommands /\ unsignalled \in Nat
  /\ mEvts \in Seq(Event) /\ evts \in Seq(Event) /\ wakeup \in BOOLEAN
  /\ pc \in {"perform", "messages", "tasks", "visit", "poll", "swap", "events", "aborted"}
  /\ mTasks \subseteq Tasks /\ todo \subseteq Tasks
  /\ cur \in Tasks \cup {NoTask} /\ notify \in BOOLEAN
  /\ pc = "visit" => cur \in Tasks
  /\ status \in [Tasks -> Statuses] /\ curlAdded \in [Tasks -> BOOLEAN]
  /\ stream \in [Tasks -> Seq(Chunk)] /\ taken \in [Tasks -> Nat]
  /\ \A t \in Tasks : taken[t] <= Len(stream[t])
  /\ xfer \in [Tasks -> {"idle", "running", "ok", "error", "reported"}]
  /\ pos \in [Tasks -> 0 .. ResourceSize]
  /\ inbox \subseteq Tasks /\ told \subseteq Tasks

(* A handle libcurl still drives belongs to a registered task: otherwise   *)
(* its completion message makes run() call through the null pointer that   *)
(* mCurlTasks[c] returns.  curlAdded, the maps and the multi handle are    *)
(* updated at five places that must agree.                                 *)
NoOrphanTransfer == \A t \in Tasks : InMulti(t) /\ Alive(t) => t \in mTasks

(* A task whose AddTask event was handled leaves the maps only with a      *)
(* terminal status, and after a Notify that could see that status: a       *)
(* client waiting for the end is always woken.                             *)
Added(t) == t \in created /\ \A q \in {mEvts, evts} :
              \A i \in 1 .. Len(q) : q[i] # [type |-> "AddTask", task |-> t]
EndIsNotified ==
  \A t \in Tasks : Added(t) /\ t \notin mTasks => IsEnd(status[t]) /\ t \in told

(* Even where both casts are right, limits take handles out and libcurl    *)
(* fails, one kind of task alone leaves the maps without a word: cancel()  *)
(* of a paused task returns false, and the task is removed all the same.   *)
OnlyPausedLeaveSilently ==
  \A t \in Tasks : Added(t) /\ t \notin mTasks =>
    \/ IsEnd(status[t]) /\ t \in told
    \/ status[t] = "Paused"

(* The worker never goes to sleep in curl_multi_poll over a posted event   *)
(* unless a wakeup is pending or its poster is about to send one: commands *)
(* do not wait for the ten-second timeout.                                 *)
NoLostWakeup == pc = "poll" /\ mEvts # <<>> => wakeup \/ unsignalled > 0

(* No call sequence of the API ends the process.                           *)
NeverAborts == pc # "aborted"

(* A task fails only when libcurl fails: its transfer ended with an error, *)
(* the very call that returns may fail, or a handle may be refused.        *)
FailsOnlyWithCurl ==
  [][\A t \in Tasks : status[t] # "Fail" /\ status'[t] = "Fail" =>
       \/ xfer[t] = "error"
       \/ pc \in CurlFaults
       \/ "add_handle" \in CurlFaults /\ pc \in {"visit", "events"}]_vars

(* Each task keeps the contract of module TransferContract.                *)
Contract == INSTANCE TransferContract WITH
  FirstAsked <- [t \in Tasks |-> Opt[t].Start],
  LastAsked <- [t \in Tasks |-> IF Opt[t].End >= Opt[t].Start /\ Opt[t].End > 0
                                THEN Opt[t].End ELSE ResourceSize - 1],
  outcome <- [t \in Tasks |-> IF status[t] = "Completed" THEN "whole"
                              ELSE IF IsEnd(status[t]) THEN "failed" ELSE "open"]
KeepsContract == Contract!Spec

(* Every task added is eventually notified as ended.                       *)
EveryTaskEnds == \A t \in Tasks : t \in created ~> t \in told
===============================================================================
