---------------------------- MODULE DownloadClient ----------------------------
(***************************************************************************)
(* The downloader, the buffer chains of its tasks and the client the       *)
(* repository runs it with: class Manager of util/HttpDownloaderTest.cpp,  *)
(* one thread that adds a task per URL, waits for notifications, moves the *)
(* data to a file and logs the outcome.  Its notify() inserts into         *)
(* mTaskEvents, which is inbox here.                                       *)
(***************************************************************************)
EXTENDS HttpDownloader

CONSTANT Unwritable   \* tasks whose file may fail to open or to be written

ASSUME UnwritableAssumption ==
  Unwritable \subseteq Tasks /\ (Unwritable # {} => "CancelTask" \in Commands)

VARIABLES
  step,     \* where Run() is; "undefined" once it used an erased map entry
  open,     \* Manager::mTasks, the tasks not yet reported
  job,      \* the task being looked at
  isEnd,    \* Run()'s local flag
  file,     \* file[t]: the chunks written for t
  report,   \* report[t]: what was logged for t
  mNext, mDataHead, mDataTail, mBufSize, data   \* of TaskBuffer

Buffer == INSTANCE TaskBuffer

bufferVars == <<mNext, mDataHead, mDataTail, mBufSize, data>>
clientVars == <<step, open, job, isEnd, file, report>>
allVars == <<vars, bufferVars, clientVars>>

ClientInit ==
  /\ Init /\ Buffer!Init
  /\ step = "add" /\ open = {} /\ job = NoTask /\ isEnd = FALSE
  /\ file = [t \in Tasks |-> <<>>]
  /\ report = [t \in Tasks |-> "none"]

(* The one client thread is past the curl_multi_wakeup of its last call. *)
Free == unsignalled = 0

AddUrl(t) ==
  /\ step = "add" /\ Free
  /\ AddTask(t)
  /\ open' = open \cup {t}
  /\ UNCHANGED <<bufferVars, step, job, isEnd, file, report>>

StartWaiting ==
  /\ step = "add" /\ Free
  /\ created = Tasks
  /\ step' = "wait"
  /\ UNCHANGED <<vars, bufferVars, open, job, isEnd, file, report>>

(* The wait under mMtx ends with one task taken out of mTaskEvents. *)
TakeEvent(t) ==
  /\ step = "wait"
  /\ open # {}
  /\ TakeNotification(t)
  /\ \/ t \in open /\ job' = t /\ step' = "check"
     \/ t \notin open /\ UNCHANGED <<job, step>>
  /\ UNCHANGED <<bufferVars, open, isEnd, file, report>>

CheckEnd ==
  /\ step = "check"
  /\ isEnd' = IsEnd(status[job])
  /\ step' = "read"
  /\ UNCHANGED <<vars, bufferVars, open, job, file, report>>

ReadData ==
  /\ step = "read"
  /\ \/ Read(job)
     \/ ~HasData(job) /\ UNCHANGED vars
  /\ Buffer!ReadChain(job)
  /\ step' = "write"
  /\ UNCHANGED <<open, job, isEnd, file, report>>

Write ==
  /\ step = "write"
  /\ Buffer!NextBuffer(job)
  /\ file' = [file EXCEPT ![job] = Append(@, stream[job][data[job]])]
  /\ UNCHANGED <<vars, step, open, job, isEnd, report>>

(* The stream is bad: the task is cancelled ... *)
WriteFails ==
  /\ step = "write"
  /\ job \in Unwritable
  /\ Buffer!NextBuffer(job)
  /\ Command("CancelTask", job)
  /\ step' = "erase"
  /\ UNCHANGED <<open, job, isEnd, file, report>>

(* ... and erased; `task` and `it` are used once more if there is a buffer *)
(* left to write, or if the task had ended.                                *)
Erase ==
  /\ step = "erase" /\ Free
  /\ report' = [report EXCEPT ![job] = "not written"]
  /\ open' = open \ {job}
  /\ Release(job)
  /\ \/ /\ data[job] = Buffer!Null /\ ~isEnd
        /\ step' = "wait"
        /\ job' = NoTask
     \/ /\ data[job] # Buffer!Null \/ isEnd
        /\ step' = "undefined"
        /\ UNCHANGED job
  /\ UNCHANGED <<bufferVars, isEnd, file>>

Written == step = "write" /\ data[job] = Buffer!Null

(* Mutant of Report: the status is looked at again after Read(). *)
ReportLate ==
  /\ Written
  /\ \/ /\ IsEnd(status[job])
        /\ report' = [report EXCEPT ![job] =
             IF status[job] = "Completed" THEN "success" ELSE "fail"]
        /\ open' = open \ {job}
        /\ Release(job)
     \/ ~IsEnd(status[job]) /\ UNCHANGED <<vars, open, report>>
  /\ step' = "wait"
  /\ job' = NoTask
  /\ isEnd' = FALSE
  /\ UNCHANGED <<bufferVars, file>>

Report ==
  /\ Written
  /\ \/ /\ isEnd
        /\ report' = [report EXCEPT ![job] =
             IF status[job] = "Completed" THEN "success" ELSE "fail"]
        /\ open' = open \ {job}
        /\ Release(job)
     \/ ~isEnd /\ UNCHANGED <<vars, open, report>>
  /\ step' = "wait"
  /\ job' = NoTask
  /\ isEnd' = FALSE
  /\ UNCHANGED <<bufferVars, file>>

Run ==
  \/ (Signal /\ UNCHANGED <<bufferVars, clientVars>>)
  \/ (\E t \in Tasks : AddUrl(t) \/ TakeEvent(t))
  \/ StartWaiting \/ CheckEnd \/ ReadData \/ Write \/ WriteFails \/ Erase \/ Report

(* The transfer of t: a chunk that arrives is linked to its chain. *)
Arrives(t) == WriteCallback(t) /\ Buffer!AppendBuffer(t) /\ UNCHANGED clientVars
Ends(t) == TransferEnds(t) /\ UNCHANGED <<bufferVars, clientVars>>
Works == Worker /\ UNCHANGED <<bufferVars, clientVars>>

ClientNext == Run \/ Works \/ \E t \in Tasks : Arrives(t) \/ Ends(t)

ClientSpec == ClientInit /\ [][ClientNext]_allVars

ClientFairness ==
  /\ WF_allVars(Run)
  /\ WF_allVars(Works)
  /\ \A t \in Tasks : SF_allVars(Arrives(t) \/ Ends(t))

FairClientSpec == ClientSpec /\ ClientFairness

-------------------------------------------------------------------------------
Whole(t) ==
  [n \in 1 .. LastSent(t) - FirstSent(t) + 1 |->
     [offset |-> FirstSent(t) + n - 1, pos |-> FirstSent(t) + n - 1]]

(* "success" is logged for a URL only when its file holds every byte asked *)
(* for, once and in order, whatever the worker appended between the        *)
(* client's look at the status, its Read() and its walk along the chain.   *)
SuccessIsWhole == \A t \in Tasks : report[t] = "success" => file[t] = Whole(t)

(* The linked chain, with its head, tail and size kept by append() and     *)
(* Read(), is the queue the downloader's HasData and OutOfBuf speak of.    *)
ChainIsQueue == Buffer!IsQueue([t \in Tasks |-> Len(stream[t])], taken)

(* The chain Read() returned is walked without the lock while the worker   *)
(* appends: the client is never on the buffer that append() links to.      *)
ReaderIsAlone == Buffer!ReaderIsAlone

(* Run() returns: every URL is reported, and no end is ever missed while   *)
(* notifications are merged in a set and data arrives between two looks,   *)
(* unless a failed write made Run() use an erased map entry.               *)
EveryUrlReported ==
  <>((\A t \in Tasks : report[t] # "none") \/ step = "undefined")
===============================================================================
