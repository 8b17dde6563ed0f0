------------------------------ MODULE TaskBuffer ------------------------------
(***************************************************************************)
(* The buffer chain of a DownloaderTask (util/Downloader.h): the worker    *)
(* links each new buffer to mDataTail under the task's lock, Read() hands  *)
(* the whole chain out and forgets it, and the reader follows mNext        *)
(* without the lock.                                                       *)
(*                                                                         *)
(* The buffers of a task are numbered as they are appended; each holds one *)
(* byte.  A step is a critical section, or one Next() of the reader.       *)
(***************************************************************************)
EXTENDS Naturals, Sequences

CONSTANT Tasks

VARIABLES
  mNext,       \* mNext[t][n]: the buffer that follows buffer n
  mDataHead, mDataTail, mBufSize,
  data         \* data[t]: the buffer the reader of t stands on

bufferVars == <<mNext, mDataHead, mDataTail, mBufSize, data>>

Null == 0

Init ==
  /\ mNext = [t \in Tasks |-> <<>>]
  /\ mDataHead = [t \in Tasks |-> Null]
  /\ mDataTail = [t \in Tasks |-> Null]
  /\ mBufSize = [t \in Tasks |-> 0]
  /\ data = [t \in Tasks |-> Null]

Last(t) == Len(mNext[t])

(* Mutant of Concat: the new buffer takes the place of the whole chain. *)
ConcatToNothing(t) ==
  /\ mDataHead' = [mDataHead EXCEPT ![t] = Last(t) + 1]
  /\ mNext' = [mNext EXCEPT ![t] = Append(@, Null)]

Concat(t) ==
  \/ /\ mDataTail[t] # Null
     /\ mNext' = [mNext EXCEPT ![t] =
                    Append([@ EXCEPT ![mDataTail[t]] = Last(t) + 1], Null)]
     /\ UNCHANGED mDataHead
  \/ /\ mDataTail[t] = Null
     /\ mNext' = [mNext EXCEPT ![t] = Append(@, Null)]
     /\ mDataHead' = [mDataHead EXCEPT ![t] = Last(t) + 1]

AppendBuffer(t) ==
  /\ Concat(t)
  /\ mDataTail' = [mDataTail EXCEPT ![t] = Last(t) + 1]
  /\ mBufSize' = [mBufSize EXCEPT ![t] = @ + 1]
  /\ UNCHANGED data

(* Mutant of ReadChain: the tail is kept. *)
ReadChainKeepingTail(t) ==
  /\ data' = [data EXCEPT ![t] = mDataHead[t]]
  /\ mDataHead' = [mDataHead EXCEPT ![t] = Null]
  /\ mBufSize' = [mBufSize EXCEPT ![t] = 0]
  /\ UNCHANGED <<mNext, mDataTail>>

ReadChain(t) ==
  /\ data' = [data EXCEPT ![t] = mDataHead[t]]
  /\ mDataHead' = [mDataHead EXCEPT ![t] = Null]
  /\ mDataTail' = [mDataTail EXCEPT ![t] = Null]
  /\ mBufSize' = [mBufSize EXCEPT ![t] = 0]
  /\ UNCHANGED mNext

NextBuffer(t) ==
  /\ data[t] # Null
  /\ data' = [data EXCEPT ![t] = mNext[t][@]]
  /\ UNCHANGED <<mNext, mDataHead, mDataTail, mBufSize>>

-------------------------------------------------------------------------------
(* The reader never stands on the buffer whose mNext the next append()     *)
(* writes: the unlocked Next() does not race Concat().                     *)
ReaderIsAlone == \A t \in Tasks : data[t] # Null => data[t] # mDataTail[t]

(* The chain is a queue of which `taken` buffers have been handed out: its *)
(* links run from the first one left to the last one appended, mBufSize    *)
(* counts them, and head and tail are null together.                       *)
IsQueue(appended, taken) ==
  \A t \in Tasks :
    /\ Last(t) = appended[t]
    /\ mBufSize[t] = appended[t] - taken[t]
    /\ IF taken[t] < appended[t]
       THEN /\ mDataHead[t] = taken[t] + 1 /\ mDataTail[t] = appended[t]
            /\ \A n \in taken[t] + 1 .. appended[t] :
                 mNext[t][n] = IF n = appended[t] THEN Null ELSE n + 1
       ELSE mDataHead[t] = Null /\ mDataTail[t] = Null
===============================================================================
