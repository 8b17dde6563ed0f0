-------------------------- MODULE DownloadClientProofs --------------------------
(***************************************************************************)
(* The composition of the worker, the buffer chains and class Manager: the *)
(* chain is the queue HttpDownloader takes it for, its reader is alone on  *)
(* it, and what is reported as a success is whole.                         *)
(***************************************************************************)
EXTENDS DownloadClient, HttpDownloaderProofs, SequenceTheorems

(* A step of the composition is one of the downloader, or leaves it alone. *)
LEMMA ComponentStep == ASSUME TypeOK, [ClientNext]_allVars PROVE [Next]_vars
<1>0. held \subseteq Tasks
  BY DEF TypeOK
<1>1. ASSUME NEW t \in Tasks, AddUrl(t) \/ TakeEvent(t) PROVE [Next]_vars
  BY <1>1 DEF AddUrl, TakeEvent, Next, Client
<1>2. CASE StartWaiting \/ CheckEnd \/ Write
  BY <1>2 DEF StartWaiting, CheckEnd, Write
<1>3. CASE ReadData
  <2>1. CASE Read(job)
    BY <2>1, <1>0 DEF Read, Next, Client
  <2> QED BY <2>1, <1>3 DEF ReadData
<1>4. CASE Report \/ Erase
  <2>1. CASE Release(job)
    BY <2>1, <1>0 DEF Release, Next, Client
  <2> QED BY <2>1, <1>4 DEF Report, Erase
<1>5. CASE WriteFails
  BY <1>5, UnwritableAssumption DEF WriteFails, Next, Client
<1>6. CASE Signal
  BY <1>6 DEF Next, Client
<1>7. CASE Works \/ \E t \in Tasks : Arrives(t) \/ Ends(t)
  BY <1>7 DEF Works, Arrives, Ends, Next, Transfer
<1>8. CASE UNCHANGED allVars
  BY <1>8 DEF allVars
<1> QED BY <1>1, <1>2, <1>3, <1>4, <1>5, <1>6, <1>7, <1>8 DEF ClientNext, Run

-------------------------------------------------------------------------------
(* The buffer chains                                                       *)

ChainTyping ==
  /\ mNext \in [Tasks -> Seq(Nat)]
  /\ mDataHead \in [Tasks -> Nat] /\ mDataTail \in [Tasks -> Nat]
  /\ mBufSize \in [Tasks -> Nat] /\ data \in [Tasks -> Nat]

(* A reader stands on a buffer that was handed out, and the links before   *)
(* it end with the last of those.                                          *)
ReaderBehind ==
  \A t \in Tasks : data[t] # 0 =>
    /\ data[t] <= taken[t]
    /\ \A n \in data[t] .. taken[t] : mNext[t][n] = IF n = taken[t] THEN 0 ELSE n + 1

(* Run() looks at a task only as long as its entry is in the map.          *)
JobIsOpen ==
  /\ open \subseteq created
  /\ step \in {"check", "read", "write", "erase"} => job \in open

ChainInv == TypeOK /\ JobIsOpen /\ ChainTyping /\ ChainIsQueue /\ ReaderBehind

(* ChainIsQueue, with what Buffer!IsQueue says of a task spelled out.      *)
QueueAt(t) ==
  /\ Len(mNext[t]) = Len(stream[t])
  /\ mBufSize[t] = Len(stream[t]) - taken[t]
  /\ taken[t] < Len(stream[t]) =>
       /\ mDataHead[t] = taken[t] + 1 /\ mDataTail[t] = Len(stream[t])
       /\ \A n \in taken[t] + 1 .. Len(stream[t]) :
            mNext[t][n] = IF n = Len(stream[t]) THEN 0 ELSE n + 1
  /\ ~(taken[t] < Len(stream[t])) => mDataHead[t] = 0 /\ mDataTail[t] = 0

LEMMA QueueMeans == ChainIsQueue <=> \A t \in Tasks : QueueAt(t)
BY DEF ChainIsQueue, QueueAt, Buffer!IsQueue, Buffer!Last, Buffer!Null

LEMMA QueueMeansNext == ChainIsQueue' <=> \A t \in Tasks : QueueAt(t)'
BY DEF ChainIsQueue, QueueAt, Buffer!IsQueue, Buffer!Last, Buffer!Null

(* What appending a buffer to a chain with data left, or to an empty one,  *)
(* makes of the links.                                                     *)
LEMMA Linking ==
  ASSUME NEW s \in Seq(Nat)
  PROVE  /\ Append(s, 0) \in Seq(Nat) /\ Len(Append(s, 0)) = Len(s) + 1
         /\ Append(s, 0)[Len(s) + 1] = 0
         /\ \A i \in 1 .. Len(s) : Append(s, 0)[i] = s[i]
         /\ Len(s) > 0 =>
              LET r == Append([s EXCEPT ![Len(s)] = Len(s) + 1], 0)
              IN  /\ r \in Seq(Nat) /\ Len(r) = Len(s) + 1 /\ r[Len(s) + 1] = 0
                  /\ r[Len(s)] = Len(s) + 1
                  /\ \A i \in 1 .. Len(s) - 1 : r[i] = s[i]
<1>1. ASSUME Len(s) > 0, NEW q, q = [s EXCEPT ![Len(s)] = Len(s) + 1]
      PROVE  /\ q \in Seq(Nat) /\ Len(q) = Len(s) /\ q[Len(s)] = Len(s) + 1
             /\ \A i \in 1 .. Len(s) - 1 : q[i] = s[i]
             /\ Append(q, 0) \in Seq(Nat) /\ Len(Append(q, 0)) = Len(s) + 1
             /\ Append(q, 0)[Len(s) + 1] = 0
             /\ \A i \in 1 .. Len(s) : Append(q, 0)[i] = q[i]
  <2>1. Len(s) \in 1 .. Len(s) /\ Len(s) + 1 \in Nat
    BY <1>1
  <2>2. /\ q \in Seq(Nat) /\ Len(q) = Len(s)
        /\ \A j \in 1 .. Len(s) : q[j] = IF j = Len(s) THEN Len(s) + 1 ELSE s[j]
    BY <2>1, <1>1, ExceptSeq
  <2> QED BY <2>1, <2>2, AppendProperties
<1>2. /\ Append(s, 0) \in Seq(Nat) /\ Len(Append(s, 0)) = Len(s) + 1
      /\ Append(s, 0)[Len(s) + 1] = 0
      /\ \A i \in 1 .. Len(s) : Append(s, 0)[i] = s[i]
  BY AppendProperties
<1>3. Len(s) > 0 => Len(s) \in 1 .. Len(s)
  OBVIOUS
<1> QED BY <1>1, <1>2, <1>3

(* Steps that neither append, nor read, nor walk.                          *)
Quiet == UNCHANGED <<stream, taken, bufferVars>>
Walks == Buffer!NextBuffer(job) /\ UNCHANGED <<stream, taken>>

LEMMA KindsOfStep ==
  ASSUME [ClientNext]_allVars
  PROVE  Quiet \/ (Walks /\ step = "write") \/ ReadData \/ \E t \in Tasks : Arrives(t)
<1> USE DEF vars, apiVars, loopVars, taskVars, curlVars, noteVars, Quiet, Walks
<1>1. CASE UNCHANGED allVars
  BY <1>1 DEF allVars
<1>2. CASE Run
  BY <1>2 DEF Run, Signal, AddUrl, AddTask, StartWaiting, TakeEvent, TakeNotification, CheckEnd, Write,
              WriteFails, Command, Erase, Release, Report
<1>3. CASE Works
  BY <1>3 DEF Works, Worker, PerformReturns, PerformFails, ReadMessage, MessagesRead, Visit, Throttle,
              Reattach, KeepGoing, VisitDone, Reap, PollReturns, PollFails, AbortAll, SwapEvents,
              HandleEvent, EventsHandled
<1>4. ASSUME NEW t \in Tasks, Ends(t) PROVE Quiet
  BY <1>4 DEF Ends, TransferEnds
<1> QED BY <1>1, <1>2, <1>3, <1>4 DEF ClientNext

(* A chunk is appended to the stream of t, and a buffer to its chain.      *)
LEMMA ArrivesChain ==
  ASSUME ChainInv, NEW t \in Tasks, Arrives(t)
  PROVE  ChainTyping' /\ ChainIsQueue' /\ ReaderBehind'
<1> DEFINE n == Len(stream[t])
<1>1. /\ stream[t] \in Seq(Chunk) /\ n \in Nat /\ taken[t] \in Nat /\ taken[t] <= n
      /\ mNext[t] \in Seq(Nat) /\ Len(mNext[t]) = n /\ QueueAt(t)
      /\ stream \in [Tasks -> Seq(Chunk)] /\ \A u \in Tasks : QueueAt(u)
  <2>1. \A u \in Tasks : QueueAt(u)
    BY QueueMeans DEF ChainInv
  <2>2. Len(mNext[t]) = n
    BY <2>1 DEF QueueAt
  <2> QED BY <2>1, <2>2 DEF ChainInv, TypeOK, ChainTyping
<1>2. /\ Len(stream'[t]) = n + 1 /\ taken' = taken
      /\ \A u \in Tasks : u # t => stream'[u] = stream[u]
  <2>1. PICK c : stream' = [stream EXCEPT ![t] = Append(stream[t], c)]
    BY DEF Arrives, WriteCallback, AppendData
  <2>2. Len(Append(stream[t], c)) = n + 1
    BY <1>1
  <2> QED BY <2>1, <2>2, <1>1 DEF Arrives, WriteCallback, taskVars
<1>3. /\ mDataTail' = [mDataTail EXCEPT ![t] = n + 1]
      /\ mBufSize' = [mBufSize EXCEPT ![t] = mBufSize[t] + 1] /\ data' = data
      /\ Buffer!Concat(t)
  BY <1>1 DEF Arrives, Buffer!AppendBuffer, Buffer!Last
<1>4. /\ mNext'[t] \in Seq(Nat) /\ Len(mNext'[t]) = n + 1 /\ mNext'[t][n + 1] = 0
      /\ taken[t] < n => mNext'[t][n] = n + 1
      /\ \A k \in 1 .. n - 1 : mNext'[t][k] = mNext[t][k]
      /\ ~(taken[t] < n) => \A k \in 1 .. n : mNext'[t][k] = mNext[t][k]
      /\ \A u \in Tasks : u # t => mNext'[u] = mNext[u]
      /\ mNext' \in [Tasks -> Seq(Nat)]
      /\ mDataHead' \in [Tasks -> Nat] /\ mDataHead'[t] = taken[t] + 1
      /\ \A u \in Tasks : u # t => mDataHead'[u] = mDataHead[u]
  <2>0. mNext \in [Tasks -> Seq(Nat)] /\ mDataHead \in [Tasks -> Nat]
    BY DEF ChainInv, ChainTyping
  <2>1. CASE taken[t] < n
    <3>1. mDataTail[t] = n /\ mDataHead[t] = taken[t] + 1 /\ n # 0 /\ n > 0
      BY <2>1, <1>1 DEF QueueAt
    <3> DEFINE r == Append([mNext[t] EXCEPT ![n] = n + 1], 0)
    <3>2. mNext' = [mNext EXCEPT ![t] = r] /\ mDataHead' = mDataHead
      BY <3>1, <1>1, <1>3 DEF Buffer!Concat, Buffer!Null, Buffer!Last
    <3>3. /\ r \in Seq(Nat) /\ Len(r) = n + 1 /\ r[n + 1] = 0 /\ r[n] = n + 1
          /\ \A i \in 1 .. n - 1 : r[i] = mNext[t][i]
      BY <3>1, <1>1, Linking
    <3> HIDE DEF r, n
    <3> QED BY <3>1, <3>2, <3>3, <2>0, <2>1
  <2>2. CASE ~(taken[t] < n)
    <3>1. mDataTail[t] = 0 /\ mDataHead[t] = 0 /\ taken[t] = n
      BY <2>2, <1>1 DEF QueueAt
    <3> DEFINE r == Append(mNext[t], 0)
    <3>2. mNext' = [mNext EXCEPT ![t] = r] /\ mDataHead' = [mDataHead EXCEPT ![t] = n + 1]
      BY <3>1, <1>1, <1>3 DEF Buffer!Concat, Buffer!Null, Buffer!Last
    <3>3. /\ r \in Seq(Nat) /\ Len(r) = n + 1 /\ r[n + 1] = 0
          /\ \A i \in 1 .. n : r[i] = mNext[t][i]
      BY <1>1, Linking
    <3>4. n \in Nat
      BY <1>1
    <3> HIDE DEF r, n
    <3> QED BY <3>1, <3>2, <3>3, <3>4, <2>0, <2>2
  <2> QED BY <2>1, <2>2
<1>5. /\ mBufSize'[t] = mBufSize[t] + 1 /\ mDataTail'[t] = n + 1
      /\ \A u \in Tasks : u # t => mBufSize'[u] = mBufSize[u] /\ mDataTail'[u] = mDataTail[u]
      /\ mBufSize' \in [Tasks -> Nat] /\ mDataTail' \in [Tasks -> Nat]
  BY <1>1, <1>3 DEF ChainInv, ChainTyping
<1>6. ChainTyping'
  BY <1>3, <1>4, <1>5 DEF ChainInv, ChainTyping
<1>a. n \in Nat /\ taken[t] \in Nat /\ taken[t] <= n
  BY <1>1
<1>b. /\ mNext'[t][n + 1] = 0
      /\ taken[t] < n => mNext'[t][n] = n + 1
      /\ \A k \in 1 .. n - 1 : mNext'[t][k] = mNext[t][k]
      /\ ~(taken[t] < n) => \A k \in 1 .. n : mNext'[t][k] = mNext[t][k]
  BY <1>4
<1>7. ASSUME NEW u \in Tasks PROVE QueueAt(u)'
  <2>1. CASE u = t
    <3>1. taken[t] < n => \A k \in taken[t] + 1 .. n - 1 : mNext[t][k] = k + 1
      <4> SUFFICES ASSUME taken[t] < n, NEW k \in taken[t] + 1 .. n - 1 PROVE mNext[t][k] = k + 1
        OBVIOUS
      <4>1. k \in taken[t] + 1 .. n /\ k # n
        BY <1>1
      <4> QED BY <4>1, <1>1 DEF QueueAt
    <3>2. mBufSize'[t] = n + 1 - taken[t]
      BY <1>1, <1>5 DEF QueueAt
    <3>3. ASSUME NEW k \in taken[t] + 1 .. n + 1
          PROVE  mNext'[t][k] = IF k = n + 1 THEN 0 ELSE k + 1
      <4>1. CASE k \in taken[t] + 1 .. n - 1
        BY <4>1, <3>1, <1>a, <1>b
      <4>2. CASE k = n \/ k = n + 1
        BY <4>2, <1>a, <1>b
      <4> QED BY <4>1, <4>2, <1>a
    <3>4. /\ Len(stream'[t]) = n + 1 /\ Len(mNext'[t]) = n + 1 /\ taken'[t] = taken[t]
          /\ mDataHead'[t] = taken[t] + 1 /\ mDataTail'[t] = n + 1
      BY <1>2, <1>4, <1>5
    <3> HIDE DEF n
    <3> QED BY <2>1, <3>2, <3>3, <3>4, <1>a DEF QueueAt
  <2>2. CASE u # t
    <3>1. /\ stream'[u] = stream[u] /\ taken'[u] = taken[u] /\ mNext'[u] = mNext[u]
          /\ mDataHead'[u] = mDataHead[u] /\ mDataTail'[u] = mDataTail[u]
          /\ mBufSize'[u] = mBufSize[u]
      BY <2>2, <1>2, <1>4, <1>5
    <3>2. QueueAt(u)
      BY <1>1
    <3> QED BY <3>1, <3>2 DEF QueueAt
  <2> QED BY <2>1, <2>2
<1>8. ReaderBehind'
  <2> SUFFICES ASSUME NEW u \in Tasks, data[u] # 0
               PROVE  /\ data[u] <= taken[u]
                      /\ \A k \in data[u] .. taken[u] :
                           mNext'[u][k] = IF k = taken[u] THEN 0 ELSE k + 1
    BY <1>2, <1>3 DEF ReaderBehind
  <2>1. /\ data[u] <= taken[u] /\ data[u] \in Nat /\ taken[u] \in Nat
        /\ \A k \in data[u] .. taken[u] : mNext[u][k] = IF k = taken[u] THEN 0 ELSE k + 1
    BY DEF ChainInv, ReaderBehind, ChainTyping, TypeOK
  <2>2. CASE u = t
    <3> HIDE DEF n
    <3> SUFFICES ASSUME NEW k \in data[t] .. taken[t] PROVE mNext'[t][k] = mNext[t][k]
      BY <2>1, <2>2
    <3> QED BY <2>1, <2>2, <1>a, <1>b
  <2> QED BY <2>1, <2>2, <1>4
<1>9. ChainIsQueue'
  BY <1>7, QueueMeansNext
<1> QED BY <1>6, <1>8, <1>9

(* Read() hands out the chain, and the reader begins at its first buffer.  *)
LEMMA ReadDataChain ==
  ASSUME ChainInv, ReadData
  PROVE  ChainTyping' /\ ChainIsQueue' /\ ReaderBehind'
<1>0. job \in Tasks
  BY DEF ReadData, ChainInv, JobIsOpen, TypeOK
<1>1. /\ UNCHANGED <<stream, mNext>> /\ taken' = [taken EXCEPT ![job] = Len(stream[job])]
  <2>0. taken \in [Tasks -> Nat] /\ taken[job] <= Len(stream[job]) /\ stream[job] \in Seq(Chunk)
    BY <1>0 DEF ChainInv, TypeOK
  <2>1. CASE Read(job)
    BY <2>1 DEF ReadData, Read, Buffer!ReadChain
  <2>2. CASE ~HasData(job) /\ UNCHANGED vars
    <3>1. taken[job] = Len(stream[job])
      BY <1>0, <2>0, <2>2 DEF HasData
    <3> QED BY <1>0, <2>0, <2>2, <3>1 DEF ReadData, Buffer!ReadChain, vars, taskVars
  <2> QED BY <2>1, <2>2 DEF ReadData
<1>2. /\ data' = [data EXCEPT ![job] = mDataHead[job]]
      /\ mDataHead' = [mDataHead EXCEPT ![job] = 0]
      /\ mDataTail' = [mDataTail EXCEPT ![job] = 0]
      /\ mBufSize' = [mBufSize EXCEPT ![job] = 0]
  BY DEF ReadData, Buffer!ReadChain, Buffer!Null
<1>3. /\ \A u \in Tasks : QueueAt(u)
      /\ taken[job] \in Nat /\ Len(stream[job]) \in Nat /\ taken[job] <= Len(stream[job])
  BY <1>0, QueueMeans DEF ChainInv, TypeOK
<1>4. ChainTyping'
  BY <1>1, <1>2 DEF ChainInv, ChainTyping
<1>5. ASSUME NEW u \in Tasks PROVE QueueAt(u)'
  <2>1. CASE u = job
    <3>1. /\ taken'[u] = Len(stream[u]) /\ mDataHead'[u] = 0 /\ mDataTail'[u] = 0
          /\ mBufSize'[u] = 0 /\ Len(mNext[u]) = Len(stream[u])
      BY <2>1, <1>0, <1>1, <1>2, <1>3 DEF ChainInv, ChainTyping, TypeOK, QueueAt
    <3> QED BY <2>1, <3>1, <1>1, <1>3 DEF QueueAt
  <2>2. CASE u # job
    <3>1. /\ taken'[u] = taken[u] /\ mDataHead'[u] = mDataHead[u]
          /\ mDataTail'[u] = mDataTail[u] /\ mBufSize'[u] = mBufSize[u]
      BY <2>2, <1>1, <1>2 DEF ChainInv, ChainTyping, TypeOK
    <3> QED BY <3>1, <1>1, <1>3 DEF QueueAt
  <2> QED BY <2>1, <2>2
<1>6. ASSUME NEW u \in Tasks, data'[u] # 0
      PROVE  /\ data'[u] <= taken'[u]
             /\ \A n \in data'[u] .. taken'[u] :
                  mNext[u][n] = IF n = taken'[u] THEN 0 ELSE n + 1
  <2>1. CASE u = job
    <3>1. data'[u] = mDataHead[u] /\ taken'[u] = Len(stream[u])
      BY <2>1, <1>1, <1>2 DEF ChainInv, ChainTyping, TypeOK
    <3>2. taken[u] < Len(stream[u]) /\ mDataHead[u] = taken[u] + 1
      BY <2>1, <3>1, <1>3, <1>6 DEF QueueAt
    <3> QED BY <2>1, <3>1, <3>2, <1>3 DEF QueueAt
  <2>2. CASE u # job
    <3>1. data'[u] = data[u] /\ taken'[u] = taken[u]
      BY <2>2, <1>1, <1>2 DEF ChainInv, ChainTyping, TypeOK
    <3> QED BY <3>1, <1>6 DEF ChainInv, ReaderBehind
  <2> QED BY <2>1, <2>2
<1> QED BY <1>1, <1>4, <1>5, <1>6, QueueMeansNext DEF ReaderBehind

(* The reader of job goes on to the next buffer, or is done.               *)
LEMMA WalksChain ==
  ASSUME ChainInv, Walks PROVE ChainTyping' /\ ChainIsQueue' /\ ReaderBehind'
<1>1. /\ UNCHANGED <<stream, taken, mNext, mDataHead, mDataTail, mBufSize>>
      /\ data[job] # 0 /\ data' = [data EXCEPT ![job] = mNext[job][data[job]]]
  BY DEF Walks, Buffer!NextBuffer, Buffer!Null
<1>2. ChainIsQueue'
  BY <1>1 DEF ChainInv, ChainIsQueue, Buffer!IsQueue, Buffer!Last, Buffer!Null
<1>3. CASE job \in Tasks
  <2>1. /\ data[job] \in Nat /\ taken[job] \in Nat /\ data[job] <= taken[job]
        /\ data'[job] = IF data[job] = taken[job] THEN 0 ELSE data[job] + 1
        /\ \A u \in Tasks : u # job => data'[u] = data[u]
    <3>1. data \in [Tasks -> Nat] /\ taken \in [Tasks -> Nat]
      BY DEF ChainInv, ChainTyping, TypeOK
    <3>2. /\ data[job] <= taken[job]
          /\ mNext[job][data[job]] = IF data[job] = taken[job] THEN 0 ELSE data[job] + 1
      BY <1>1, <1>3, <3>1 DEF ChainInv, ReaderBehind
    <3> QED BY <1>1, <1>3, <3>1, <3>2
  <2>2. ChainTyping'
    BY <1>1, <1>3, <2>1 DEF ChainInv, ChainTyping
  <2>3. ReaderBehind'
    BY <1>1, <2>1 DEF ChainInv, ReaderBehind
  <2> QED BY <1>2, <2>2, <2>3
<1>4. CASE job \notin Tasks
  <2>1. data' = data
    BY <1>1, <1>4 DEF ChainInv, ChainTyping
  <2> QED BY <1>1, <1>2, <2>1 DEF ChainInv, ChainTyping, ReaderBehind
<1> QED BY <1>3, <1>4

LEMMA JobStep == ASSUME TypeOK, JobIsOpen, [ClientNext]_allVars PROVE JobIsOpen'
<1>1. CASE Run
  <2>1. ASSUME NEW t \in Tasks, AddUrl(t) \/ TakeEvent(t) PROVE JobIsOpen'
    BY <2>1 DEF AddUrl, AddTask, TakeEvent, TakeNotification, JobIsOpen, apiVars
  <2>2. CASE Signal /\ UNCHANGED <<bufferVars, clientVars>>
    BY <2>2 DEF Signal, clientVars, JobIsOpen
  <2>3. CASE StartWaiting \/ CheckEnd \/ ReadData \/ Write
    BY <2>3 DEF StartWaiting, CheckEnd, ReadData, Read, Write, JobIsOpen, vars, apiVars
  <2>4. CASE WriteFails
    BY <2>4 DEF WriteFails, Command, JobIsOpen
  <2>5. CASE Erase \/ Report
    BY <2>5 DEF Erase, Report, Written, Release, JobIsOpen, vars, apiVars
  <2> QED BY <1>1, <2>1, <2>2, <2>3, <2>4, <2>5 DEF Run
<1>2. CASE Works
  <2>1. UNCHANGED <<created, clientVars>>
    BY <1>2 DEF Works, Worker, PerformReturns, PerformFails, ReadMessage, MessagesRead, Visit, Throttle,
              Reattach, KeepGoing, VisitDone, Reap, PollReturns, PollFails, AbortAll, SwapEvents,
              HandleEvent, EventsHandled, apiVars
  <2> QED BY <2>1 DEF clientVars, JobIsOpen
<1>3. ASSUME NEW t \in Tasks, Arrives(t) \/ Ends(t) PROVE JobIsOpen'
  BY <1>3 DEF Arrives, Ends, WriteCallback, TransferEnds, apiVars, clientVars, JobIsOpen
<1>4. CASE UNCHANGED allVars
  BY <1>4 DEF allVars, vars, apiVars, clientVars, JobIsOpen
<1> QED BY <1>1, <1>2, <1>3, <1>4 DEF ClientNext

LEMMA ChainInvariance == ClientSpec => []ChainInv
<1>1. ClientInit => ChainInv
  <2> SUFFICES ASSUME ClientInit PROVE ChainInv
    OBVIOUS
  <2>1. TypeOK
    BY InitTyping DEF ClientInit
  <2>2. /\ stream = [t \in Tasks |-> <<>>] /\ taken = [t \in Tasks |-> 0]
        /\ mNext = [t \in Tasks |-> <<>>] /\ mDataHead = [t \in Tasks |-> 0]
        /\ mDataTail = [t \in Tasks |-> 0] /\ mBufSize = [t \in Tasks |-> 0]
        /\ data = [t \in Tasks |-> 0]
    BY DEF ClientInit, Init, Buffer!Init, Buffer!Null
  <2>3. ChainTyping /\ ReaderBehind /\ \A t \in Tasks : QueueAt(t)
    BY <2>2 DEF ChainTyping, ReaderBehind, QueueAt
  <2>4. JobIsOpen
    BY DEF ClientInit, JobIsOpen
  <2> QED BY <2>1, <2>3, <2>4, QueueMeans DEF ChainInv
<1>2. ChainInv /\ [ClientNext]_allVars => ChainInv'
  <2> SUFFICES ASSUME ChainInv, [ClientNext]_allVars PROVE ChainInv'
    OBVIOUS
  <2>1. TypeOK' /\ JobIsOpen'
    BY ComponentStep, StepTyping, JobStep DEF ChainInv
  <2>2. CASE Quiet
    BY <2>1, <2>2 DEF Quiet, bufferVars, ChainInv, ChainTyping, ReaderBehind, ChainIsQueue,
                      Buffer!IsQueue, Buffer!Last, Buffer!Null
  <2> QED BY <2>1, <2>2, KindsOfStep, WalksChain, ReadDataChain, ArrivesChain DEF ChainInv
<1> QED BY <1>1, <1>2, PTL DEF ClientSpec

(* append() and Read(), under the lock, and Next(), without it, keep the   *)
(* linked chain of every task the queue that HasData and outOfBuf, and     *)
(* with them the worker, take it for.                                      *)
THEOREM ChainIsAlwaysQueue == ClientSpec => []ChainIsQueue
<1>1. ChainInv => ChainIsQueue
  BY DEF ChainInv
<1> QED BY <1>1, ChainInvariance, PTL

(* Whatever the worker appends while the client walks along a chain, the   *)
(* client is never on the buffer whose mNext append() writes.              *)
THEOREM ReaderIsAlwaysAlone == ClientSpec => []ReaderIsAlone
<1>1. ChainInv => ReaderIsAlone
  <2> SUFFICES ASSUME ChainInv, NEW t \in Tasks, data[t] # 0 PROVE data[t] # mDataTail[t]
    BY DEF ReaderIsAlone, Buffer!ReaderIsAlone, Buffer!Null
  <2>1. QueueAt(t) /\ data[t] <= taken[t] /\ data[t] \in Nat /\ taken[t] \in Nat
        /\ Len(stream[t]) \in Nat
    BY QueueMeans DEF ChainInv, ReaderBehind, ChainTyping, TypeOK
  <2> QED BY <2>1 DEF QueueAt
<1> QED BY <1>1, ChainInvariance, PTL

-------------------------------------------------------------------------------
(* The files                                                               *)

(* What the contract of TransferContract keeps of a task.                  *)
StreamIsAsked ==
  \A t \in Tasks :
    /\ \A n \in 1 .. Len(stream[t]) : stream[t][n] = Contract!Asked(t, n)
    /\ status[t] = "Completed" => First(t) + Len(stream[t]) = Last(t) + 1

(* A step adds to a stream at its end, and not to that of a task that has  *)
(* ended, which it leaves as it ended.                                     *)
Grows ==
  \A t \in Tasks :
    /\ Len(stream[t]) <= Len(stream'[t])
    /\ \A n \in 1 .. Len(stream[t]) : stream'[t][n] = stream[t][n]
    /\ IsEnd(status[t]) =>
         /\ stream'[t] = stream[t] /\ IsEnd(status'[t])
         /\ status[t] = "Completed" <=> status'[t] = "Completed"

LEMMA OutcomesMean ==
  ASSUME NEW st
  PROVE  (OutcomeOf(st) = "open" <=> ~IsEnd(st)) /\ (OutcomeOf(st) = "whole" <=> st = "Completed")
BY DEF OutcomeOf, IsEnd

LEMMA ContractKeeps ==
  ASSUME AsksWhatIsAsked, TypeOK, ContractStep, StreamIsAsked
  PROVE  StreamIsAsked' /\ Grows
<1> DEFINE out == [t \in Tasks |-> OutcomeOf(status[t])]
           outNext == [t \in Tasks |-> OutcomeOf(status'[t])]
           Decides == \A t \in Tasks :
             \/ OutcomeOf(status'[t]) = OutcomeOf(status[t])
             \/ OutcomeOf(status[t]) = "open" /\ OutcomeOf(status'[t]) = "failed"
             \/ OutcomeOf(status[t]) = "open" /\ First(t) + Len(stream[t]) = Last(t) + 1
<1>0. \A t \in Tasks : stream[t] \in Seq(Chunk) /\ Len(stream[t]) \in Nat
  <2> SUFFICES ASSUME NEW t \in Tasks PROVE stream[t] \in Seq(Chunk) /\ Len(stream[t]) \in Nat
    OBVIOUS
  <2>1. stream[t] \in Seq(Chunk)
    BY DEF TypeOK
  <2> QED BY <2>1, LenProperties
<1>1. ASSUME UNCHANGED stream, Decides
      PROVE  StreamIsAsked' /\ Grows
  <2>1. \A t \in Tasks : status'[t] = "Completed" =>
          status[t] = "Completed" \/ First(t) + Len(stream[t]) = Last(t) + 1
    BY <1>1, OutcomesMean
  <2>2. StreamIsAsked'
    BY <1>1, <2>1 DEF StreamIsAsked, First, Last, Contract!Asked
  <2>3. Grows
    BY <1>0, <1>1, OutcomesMean DEF Grows
  <2> QED BY <2>2, <2>3
<1>2. ASSUME NEW t \in Tasks, Contract!Deliver(t) PROVE StreamIsAsked' /\ Grows
  <2>1. /\ OutcomeOf(status[t]) = "open"
        /\ stream' = [stream EXCEPT ![t] = Append(stream[t], Contract!Asked(t, Len(stream[t]) + 1))]
        /\ \A u \in Tasks : OutcomeOf(status'[u]) = OutcomeOf(status[u])
    <3>1. out[t] = "open" /\ outNext = out
      BY <1>2 DEF Contract!Deliver, OutcomeOf
    <3> QED BY <3>1, <1>2 DEF Contract!Deliver
  <2>2. \A u \in Tasks : u # t => stream'[u] = stream[u]
    BY <2>1 DEF TypeOK
  <2>3. /\ Len(stream'[t]) = Len(stream[t]) + 1
        /\ \A n \in 1 .. Len(stream[t]) : stream'[t][n] = stream[t][n]
        /\ stream'[t][Len(stream[t]) + 1] = Contract!Asked(t, Len(stream[t]) + 1)
    <3> DEFINE a == Contract!Asked(t, Len(stream[t]) + 1)
    <3>1. /\ Len(Append(stream[t], a)) = Len(stream[t]) + 1
          /\ \A n \in 1 .. Len(stream[t]) : Append(stream[t], a)[n] = stream[t][n]
          /\ Append(stream[t], a)[Len(stream[t]) + 1] = a
      <4> HIDE DEF a
      <4> QED BY <1>0
    <3>2. stream'[t] = Append(stream[t], a)
      BY <2>1 DEF TypeOK
    <3> QED BY <3>1, <3>2
  <2>4. Grows
    BY <1>0, <2>1, <2>2, <2>3, OutcomesMean DEF Grows
  <2>5. StreamIsAsked'
    <3> SUFFICES ASSUME NEW u \in Tasks
                 PROVE  /\ \A n \in 1 .. Len(stream'[u]) : stream'[u][n] = Contract!Asked(u, n)
                        /\ status'[u] = "Completed" => First(u) + Len(stream'[u]) = Last(u) + 1
      BY DEF StreamIsAsked, Contract!Asked, First, Last
    <3>1. CASE u = t
      <4>1. status'[u] # "Completed"
        BY <3>1, <2>1, OutcomesMean
      <4>2. ASSUME NEW n \in 1 .. Len(stream'[t]) PROVE stream'[t][n] = Contract!Asked(t, n)
        <5>1. CASE n = Len(stream[t]) + 1
          BY <5>1, <2>3
        <5>2. CASE n # Len(stream[t]) + 1
          <6>1. n \in 1 .. Len(stream[t])
            BY <5>2, <2>3, <1>0
          <6> QED BY <6>1, <2>3 DEF StreamIsAsked
        <5> QED BY <5>1, <5>2
      <4> QED BY <3>1, <4>1, <4>2
    <3>2. CASE u # t
      BY <3>2, <2>1, <2>2, OutcomesMean DEF StreamIsAsked
    <3> QED BY <3>1, <3>2
  <2> QED BY <2>4, <2>5
<1>3. ASSUME NEW t \in Tasks, Contract!Complete(t) PROVE StreamIsAsked' /\ Grows
  <2>1. /\ out[t] = "open" /\ outNext = [out EXCEPT ![t] = "whole"] /\ UNCHANGED stream
        /\ First(t) + Len(stream[t]) = Last(t) + 1
    BY <1>3, Asking DEF Contract!Complete, OutcomeOf
  <2>2. \A u \in Tasks : u # t => OutcomeOf(status'[u]) = OutcomeOf(status[u])
    <3>1. \A u \in Tasks : outNext[u] = IF u = t THEN "whole" ELSE out[u]
      BY <2>1
    <3> QED BY <3>1
  <2>3. Decides
    BY <2>1, <2>2
  <2> QED BY <2>1, <2>3, <1>1
<1>4. ASSUME NEW S \in SUBSET Tasks, Contract!Break(S) PROVE StreamIsAsked' /\ Grows
  <2>1. /\ \A t \in S : out[t] = "open"
        /\ outNext = [t \in Tasks |-> IF t \in S THEN "failed" ELSE out[t]] /\ UNCHANGED stream
    BY <1>4 DEF Contract!Break, OutcomeOf
  <2>2. \A t \in Tasks : outNext[t] = IF t \in S THEN "failed" ELSE out[t]
    BY <2>1
  <2>3. Decides
    BY <2>1, <2>2
  <2> QED BY <2>1, <2>3, <1>1
<1>5. CASE UNCHANGED <<stream, out>>
  <2>1. \A t \in Tasks : outNext[t] = out[t]
    BY <1>5
  <2>2. Decides
    BY <2>1
  <2> QED BY <1>5, <2>2, <1>1
<1> QED BY <1>2, <1>3, <1>4, <1>5 DEF ContractStep, Contract!Next

-------------------------------------------------------------------------------
(* How much of a stream its file holds while the client is at work on it.  *)
Upto(t) == IF data[t] = 0 THEN taken[t] ELSE data[t] - 1

Follows(t) ==
  /\ Len(file[t]) = Upto(t)
  /\ \A n \in 1 .. Upto(t) : file[t][n] = stream[t][n]

FileTyping ==
  /\ file \in [Tasks -> Seq(Chunk)]
  /\ report \in [Tasks -> {"none", "success", "fail", "not written"}]

FileInv ==
  \A t \in Tasks :
    /\ report[t] # "none" => t \notin open /\ t \in created
    /\ data[t] # 0 => t = job /\ step \in {"write", "erase", "undefined"}
    /\ report[t] = "none" /\ ~(t = job /\ step = "erase") => Follows(t)
    /\ report[t] = "success" =>
         status[t] = "Completed" /\ Follows(t) /\ Upto(t) = Len(stream[t])

(* What Run() saw of the end still holds when it reports it, and by then   *)
(* it has read everything.                                                 *)
EndSeen ==
  /\ step \in {"read", "write"} /\ isEnd => IsEnd(status[job])
  /\ step = "write" /\ isEnd => taken[job] = Len(stream[job])

SuccessInv ==
  ChainInv /\ ContractInv /\ StreamIsAsked /\ FileTyping /\ FileInv /\ EndSeen

(* A step of the worker, or one of the client that moves no data, grows    *)
(* the streams behind what the files hold.                                 *)
LEMMA StillFollows ==
  ASSUME ChainInv, Grows, NEW t \in Tasks, Follows(t),
         data'[t] = data[t], taken'[t] = taken[t], file' = file
  PROVE  Follows(t)'
<1>1. /\ data[t] \in Nat /\ taken[t] \in Nat /\ taken[t] <= Len(stream[t])
      /\ data[t] # 0 => data[t] <= taken[t]
      /\ Len(stream[t]) \in Nat
  BY LenProperties DEF ChainInv, ChainTyping, TypeOK, ReaderBehind
<1>2. \A n \in 1 .. Upto(t) : n \in 1 .. Len(stream[t])
  BY <1>1 DEF Upto
<1> QED BY <1>2 DEF Follows, Upto, Grows

(* The client's variables, its chain's reader and what it has read stay.   *)
LEMMA BackgroundFiles ==
  ASSUME SuccessInv, Grows, UNCHANGED <<clientVars, data, taken>>, created \subseteq created'
  PROVE  FileTyping' /\ FileInv' /\ EndSeen'
<1>1. FileTyping'
  BY DEF SuccessInv, FileTyping, clientVars
<1>2. ASSUME NEW t \in Tasks
      PROVE  /\ report'[t] # "none" => t \notin open' /\ t \in created'
             /\ data'[t] # 0 => t = job' /\ step' \in {"write", "erase", "undefined"}
             /\ report'[t] = "none" /\ ~(t = job' /\ step' = "erase") => Follows(t)'
             /\ report'[t] = "success" =>
                  status'[t] = "Completed" /\ Follows(t)' /\ Upto(t)' = Len(stream'[t])
  <2>1. Follows(t) => Follows(t)'
    BY StillFollows DEF SuccessInv, clientVars
  <2>2. report[t] = "success" => stream'[t] = stream[t] /\ status'[t] = "Completed"
    BY DEF SuccessInv, FileInv, Grows, IsEnd
  <2> QED BY <2>1, <2>2 DEF SuccessInv, FileInv, Upto, clientVars
<1>3. FileInv'
  BY <1>2 DEF FileInv
<1>4. EndSeen'
  BY DEF SuccessInv, EndSeen, Grows, clientVars, ChainInv, JobIsOpen, TypeOK
<1> QED BY <1>1, <1>3, <1>4

(* Calls and looks: no file is written, no chain is read or walked.        *)
LEMMA LookingFiles ==
  ASSUME SuccessInv, UNCHANGED <<stream, status, taken, data, file, report>>, created \subseteq created',
         \A t \in Tasks : data[t] = 0,
         step # "erase" /\ step' \in {"add", "wait", "check", "read"},
         open' \subseteq open \cup (Tasks \ created),
         step' = "read" /\ isEnd' => IsEnd(status[job'])
  PROVE  FileTyping' /\ FileInv' /\ EndSeen'
<1>1. \A t \in Tasks : Follows(t)' <=> Follows(t)
  BY DEF Follows, Upto
<1>2. FileInv'
  BY <1>1 DEF SuccessInv, FileInv, Upto
<1> QED BY <1>2 DEF SuccessInv, FileTyping, EndSeen

LEMMA ReadFiles == ASSUME SuccessInv, ReadData PROVE FileTyping' /\ FileInv' /\ EndSeen'
<1>1. /\ UNCHANGED <<stream, status, created, open, job, isEnd, file, report>>
      /\ step = "read" /\ step' = "write" /\ job \in Tasks
  BY DEF ReadData, Read, vars, apiVars, taskVars, SuccessInv, ChainInv, JobIsOpen, TypeOK
<1>2. /\ taken'[job] = Len(stream[job])
      /\ data'[job] = mDataHead[job] /\ data[job] = 0
      /\ \A t \in Tasks : t # job => taken'[t] = taken[t] /\ data'[t] = data[t]
  <2>1. data' = [data EXCEPT ![job] = mDataHead[job]] /\ data \in [Tasks -> Nat]
    BY DEF ReadData, Buffer!ReadChain, SuccessInv, ChainInv, ChainTyping
  <2>2. /\ taken \in [Tasks -> Nat] /\ taken[job] <= Len(stream[job])
        /\ Len(stream[job]) \in Nat /\ taken[job] \in Nat
    BY <1>1, LenProperties DEF SuccessInv, ChainInv, TypeOK
  <2>3. taken' = taken \/ taken' = [taken EXCEPT ![job] = Len(stream[job])]
    BY DEF ReadData, Read, vars, taskVars
  <2>4. taken'[job] = Len(stream[job])
    BY <1>1, <2>2 DEF ReadData, Read, HasData, vars, taskVars
  <2>5. data[job] = 0
    BY <1>1 DEF SuccessInv, FileInv
  <2> QED BY <1>1, <2>1, <2>2, <2>3, <2>4, <2>5
<1>3. Upto(job)' = taken[job] /\ Upto(job) = taken[job]
  <2>1. QueueAt(job) /\ taken[job] \in Nat /\ taken[job] <= Len(stream[job]) /\ Len(stream[job]) \in Nat
    BY <1>1, QueueMeans, LenProperties DEF SuccessInv, ChainInv, TypeOK
  <2>2. mDataHead[job] = IF taken[job] < Len(stream[job]) THEN taken[job] + 1 ELSE 0
    BY <2>1 DEF QueueAt
  <2>3. Upto(job)' = IF mDataHead[job] = 0 THEN Len(stream[job]) ELSE mDataHead[job] - 1
    BY <1>1, <1>2 DEF Upto
  <2> QED BY <1>2, <2>1, <2>2, <2>3 DEF Upto
<1>4. \A t \in Tasks : Upto(t)' = Upto(t)
  BY <1>1, <1>2, <1>3 DEF Upto
<1>5. FileInv'
  BY <1>1, <1>2, <1>4 DEF SuccessInv, FileInv, Follows
<1> QED BY <1>1, <1>2, <1>5 DEF SuccessInv, FileTyping, EndSeen

(* One more buffer is written, or the stream is found bad.                 *)
LEMMA WriteFiles ==
  ASSUME SuccessInv, Write \/ WriteFails PROVE FileTyping' /\ FileInv' /\ EndSeen'
<1>1. /\ UNCHANGED <<stream, status, taken, created, open, job, isEnd, report>>
      /\ step = "write" /\ job \in Tasks /\ job \in open /\ Buffer!NextBuffer(job)
  BY DEF Write, WriteFails, Command, vars, apiVars, taskVars, SuccessInv, ChainInv, JobIsOpen, TypeOK
<1>2. /\ data[job] \in Nat /\ data[job] # 0 /\ data[job] <= taken[job]
      /\ taken[job] \in Nat /\ taken[job] <= Len(stream[job]) /\ Len(stream[job]) \in Nat
      /\ data'[job] = IF data[job] = taken[job] THEN 0 ELSE data[job] + 1
      /\ \A t \in Tasks : t # job => data'[t] = data[t]
  <2>1. data' = [data EXCEPT ![job] = mNext[job][data[job]]] /\ data[job] # 0
    BY <1>1 DEF Buffer!NextBuffer, Buffer!Null
  <2>2. /\ data \in [Tasks -> Nat] /\ taken[job] \in Nat /\ taken[job] <= Len(stream[job])
        /\ Len(stream[job]) \in Nat
    BY <1>1, LenProperties DEF SuccessInv, ChainInv, ChainTyping, TypeOK
  <2>3. /\ data[job] <= taken[job]
        /\ mNext[job][data[job]] = IF data[job] = taken[job] THEN 0 ELSE data[job] + 1
    BY <1>1, <2>1, <2>2 DEF SuccessInv, ChainInv, ReaderBehind
  <2> QED BY <1>1, <2>1, <2>2, <2>3
<1>3. report[job] = "none" /\ Follows(job) /\ Upto(job) = data[job] - 1 /\ Upto(job)' = data[job]
  <2>1. Upto(job)' = IF data'[job] = 0 THEN taken[job] ELSE data'[job] - 1
    BY <1>1 DEF Upto
  <2>2. Upto(job)' = data[job]
    BY <1>2, <2>1
  <2>3. report[job] = "none" /\ Follows(job)
    BY <1>1 DEF SuccessInv, FileInv
  <2> QED BY <1>2, <2>2, <2>3 DEF Upto
<1>4. ASSUME file' = file, step' = "erase" PROVE FileTyping' /\ FileInv' /\ EndSeen'
  <2>1. \A t \in Tasks : t # job => (Follows(t)' <=> Follows(t)) /\ Upto(t)' = Upto(t)
    BY <1>1, <1>2, <1>4 DEF Follows, Upto
  <2>2. FileInv'
    BY <1>1, <1>2, <1>3, <1>4, <2>1 DEF SuccessInv, FileInv
  <2> QED BY <1>1, <1>4, <2>2 DEF SuccessInv, FileTyping, EndSeen
<1>5. CASE Write
  <2>1. /\ file' = [file EXCEPT ![job] = Append(file[job], stream[job][data[job]])]
        /\ step' = "write"
    BY <1>1, <1>5 DEF Write
  <2>2. /\ file \in [Tasks -> Seq(Chunk)] /\ file[job] \in Seq(Chunk)
        /\ stream[job][data[job]] \in Chunk
    <3>1. stream[job] \in Seq(Chunk) /\ data[job] \in 1 .. Len(stream[job])
      BY <1>1, <1>2 DEF SuccessInv, ChainInv, TypeOK
    <3> QED BY <1>1, <3>1, LenProperties DEF SuccessInv, FileTyping
  <2>3. /\ file'[job] \in Seq(Chunk) /\ Len(file'[job]) = Len(file[job]) + 1
        /\ \A n \in 1 .. Len(file[job]) : file'[job][n] = file[job][n]
        /\ file'[job][Len(file[job]) + 1] = stream[job][data[job]]
    <3>1. file'[job] = Append(file[job], stream[job][data[job]])
      BY <1>1, <2>1, <2>2
    <3> QED BY <2>2, <3>1, AppendProperties
  <2>4. Follows(job)'
    <3>1. Len(file[job]) = data[job] - 1
      BY <1>3 DEF Follows
    <3>2. Len(file'[job]) = data[job]
      BY <1>2, <2>3, <3>1
    <3>3. ASSUME NEW n \in 1 .. data[job] PROVE file'[job][n] = stream[job][n]
      <4>1. CASE n = data[job]
        BY <1>2, <2>3, <3>1, <4>1
      <4>2. CASE n # data[job]
        <5>1. n \in 1 .. data[job] - 1
          BY <1>2, <4>2
        <5> QED BY <1>3, <2>3, <3>1, <5>1 DEF Follows
      <4> QED BY <4>1, <4>2
    <3> QED BY <1>1, <1>3, <3>2, <3>3 DEF Follows
  <2>5. \A t \in Tasks : t # job => (Follows(t)' <=> Follows(t)) /\ Upto(t)' = Upto(t)
    <3>1. \A t \in Tasks : t # job => file'[t] = file[t]
      BY <2>1, <2>2
    <3> QED BY <1>1, <1>2, <3>1 DEF Follows, Upto
  <2>6. FileInv'
    BY <1>1, <1>2, <1>3, <2>1, <2>4, <2>5 DEF SuccessInv, FileInv
  <2>7. file' \in [Tasks -> Seq(Chunk)]
    BY <2>1, <2>2, <2>3
  <2> QED BY <1>1, <2>1, <2>6, <2>7 DEF SuccessInv, FileTyping, EndSeen
<1>6. CASE WriteFails
  BY <1>4, <1>6 DEF WriteFails
<1> QED BY <1>5, <1>6

(* What is reported is what was written.                                   *)
LEMMA ReportFiles ==
  ASSUME SuccessInv, Report \/ Erase PROVE FileTyping' /\ FileInv' /\ EndSeen'
<1>1. /\ UNCHANGED <<stream, status, taken, created, data, file>> /\ job \in open /\ job \in Tasks
      /\ job \in created /\ step' \in {"wait", "undefined"}
      /\ \A t \in Tasks : Follows(t)' <=> Follows(t)
      /\ \A t \in Tasks : Upto(t)' = Upto(t)
  BY DEF Report, Written, Erase, Release, vars, apiVars, taskVars, bufferVars, SuccessInv, ChainInv,
         JobIsOpen, TypeOK, Follows, Upto
<1>2. CASE Report
  <2>1. /\ step = "write" /\ data[job] = 0 /\ step' = "wait" /\ report[job] = "none" /\ Follows(job)
        /\ \A t \in Tasks : data[t] = 0
    BY <1>1, <1>2 DEF Report, Written, Buffer!Null, SuccessInv, FileInv, FileTyping
  <2>2. CASE isEnd
    <3>1. /\ open' = open \ {job}
          /\ report' = [report EXCEPT ![job] = IF status[job] = "Completed" THEN "success" ELSE "fail"]
      BY <1>2, <2>2 DEF Report
    <3>2. Upto(job) = Len(stream[job])
      BY <2>1, <2>2 DEF SuccessInv, EndSeen, Upto
    <3>3. /\ report \in [Tasks -> {"none", "success", "fail", "not written"}]
          /\ report'[job] = IF status[job] = "Completed" THEN "success" ELSE "fail"
          /\ \A t \in Tasks : t # job => report'[t] = report[t]
      BY <1>1, <3>1 DEF SuccessInv, FileTyping
    <3>4. FileInv'
      BY <1>1, <2>1, <3>1, <3>2, <3>3 DEF SuccessInv, FileInv
    <3> QED BY <1>1, <2>1, <3>1, <3>3, <3>4 DEF SuccessInv, FileTyping, EndSeen
  <2>3. CASE ~isEnd
    <3>1. UNCHANGED <<open, report>>
      BY <1>2, <2>3 DEF Report
    <3>2. FileInv'
      BY <1>1, <2>1, <3>1 DEF SuccessInv, FileInv
    <3> QED BY <1>1, <2>1, <3>1, <3>2 DEF SuccessInv, FileTyping, EndSeen
  <2> QED BY <2>2, <2>3
<1>3. CASE Erase
  <2>1. /\ open' = open \ {job} /\ report' = [report EXCEPT ![job] = "not written"]
        /\ step = "erase"
        /\ \/ data[job] = 0 /\ step' = "wait"
           \/ step' = "undefined" /\ job' = job
    BY <1>3 DEF Erase, Buffer!Null
  <2>2. /\ report \in [Tasks -> {"none", "success", "fail", "not written"}]
        /\ report'[job] = "not written"
        /\ \A t \in Tasks : t # job => report'[t] = report[t]
    BY <1>1, <2>1 DEF SuccessInv, FileTyping
  <2>3. FileInv'
    BY <1>1, <2>1, <2>2 DEF SuccessInv, FileInv
  <2> QED BY <1>1, <2>1, <2>2, <2>3 DEF SuccessInv, FileTyping, EndSeen
<1> QED BY <1>2, <1>3

LEMMA FilesStep ==
  ASSUME SuccessInv, Grows, [ClientNext]_allVars PROVE FileTyping' /\ FileInv' /\ EndSeen'
<1>1. CASE UNCHANGED allVars
  BY <1>1, BackgroundFiles DEF allVars, vars, apiVars, taskVars, bufferVars
<1>2. CASE Works \/ \E t \in Tasks : Arrives(t) \/ Ends(t)
  <2>1. UNCHANGED <<clientVars, data, taken, created>>
    <3>1. CASE Works
      BY <3>1 DEF Works, Worker, PerformReturns, PerformFails, ReadMessage, MessagesRead, Visit, Throttle,
              Reattach, KeepGoing, VisitDone, Reap, PollReturns, PollFails, AbortAll, SwapEvents,
              HandleEvent, EventsHandled, apiVars, taskVars, bufferVars
    <3>2. ASSUME NEW t \in Tasks, Arrives(t) \/ Ends(t) PROVE UNCHANGED <<clientVars, data, taken, created>>
      BY <3>2 DEF Arrives, Ends, WriteCallback, TransferEnds, Buffer!AppendBuffer, apiVars, taskVars,
                  bufferVars
    <3> QED BY <1>2, <3>1, <3>2
  <2> QED BY <2>1, BackgroundFiles
<1>3. CASE Signal /\ UNCHANGED <<bufferVars, clientVars>>
  BY <1>3, BackgroundFiles DEF Signal, bufferVars, taskVars
<1>4. \A t \in Tasks : step \in {"add", "wait", "check"} => data[t] = 0
  BY DEF SuccessInv, FileInv
<1>5. ASSUME NEW t \in Tasks, AddUrl(t) PROVE FileTyping' /\ FileInv' /\ EndSeen'
  <2>1. /\ UNCHANGED <<stream, status, taken, data, file, report, step>>
        /\ step = "add" /\ created' = created \cup {t} /\ t \notin created /\ open' = open \cup {t}
    BY <1>5 DEF AddUrl, AddTask, taskVars, bufferVars
  <2> QED BY <1>4, <2>1, LookingFiles
<1>6. ASSUME NEW t \in Tasks, TakeEvent(t) PROVE FileTyping' /\ FileInv' /\ EndSeen'
  <2>1. /\ UNCHANGED <<stream, status, taken, data, file, report, open, created>>
        /\ step = "wait" /\ step' \in {"wait", "check"}
    BY <1>6 DEF TakeEvent, TakeNotification, apiVars, taskVars, bufferVars
  <2> QED BY <1>4, <2>1, LookingFiles
<1>7. CASE StartWaiting
  <2>1. /\ UNCHANGED <<stream, status, taken, data, file, report, open, created>>
        /\ step = "add" /\ step' = "wait"
    BY <1>7 DEF StartWaiting, vars, apiVars, taskVars, bufferVars
  <2> QED BY <1>4, <2>1, LookingFiles
<1>8. CASE CheckEnd
  <2>1. /\ UNCHANGED <<stream, status, taken, data, file, report, open, created, job>>
        /\ step = "check" /\ step' = "read" /\ isEnd' = IsEnd(status[job])
    BY <1>8 DEF CheckEnd, vars, apiVars, taskVars, bufferVars
  <2> QED BY <1>4, <2>1, LookingFiles
<1> QED BY <1>1, <1>2, <1>3, <1>5, <1>6, <1>7, <1>8, ReadFiles, WriteFiles, ReportFiles
        DEF ClientNext, Run

(* Without reattachment and with ranges the code does ask for: whatever    *)
(* the worker, libcurl and the calls of the client do between the client's *)
(* look at the status, its Read() and its walk, and whichever files cannot *)
(* be written, "success" is logged only for a file that holds every byte   *)
(* asked for, once and in order.                                           *)
THEOREM SuccessIsAlwaysWhole ==
  NeverReattached /\ AsksWhatIsAsked => (ClientSpec => []SuccessIsWhole)
<1> SUFFICES ASSUME NeverReattached, AsksWhatIsAsked PROVE ClientSpec => []SuccessIsWhole
  OBVIOUS
<1>1. ClientInit /\ ChainInv => SuccessInv
  <2> SUFFICES ASSUME ClientInit, ChainInv PROVE SuccessInv
    OBVIOUS
  <2>1. ContractInv
    BY ContractInit DEF ClientInit
  <2>2. /\ stream = [t \in Tasks |-> <<>>] /\ taken = [t \in Tasks |-> 0]
        /\ file = [t \in Tasks |-> <<>>] /\ report = [t \in Tasks |-> "none"]
        /\ data = [t \in Tasks |-> 0] /\ status = [t \in Tasks |-> "Idle"] /\ step = "add"
    BY DEF ClientInit, Init, Buffer!Init, Buffer!Null
  <2>3. StreamIsAsked /\ FileTyping /\ FileInv /\ EndSeen
    BY <2>2 DEF StreamIsAsked, FileTyping, FileInv, Follows, Upto, EndSeen
  <2> QED BY <2>1, <2>3 DEF SuccessInv
<1>2. SuccessInv /\ ChainInv' /\ [ClientNext]_allVars => SuccessInv'
  <2> SUFFICES ASSUME SuccessInv, ChainInv', [ClientNext]_allVars PROVE SuccessInv'
    OBVIOUS
  <2>1. [Next]_vars
    BY ComponentStep DEF SuccessInv, ChainInv
  <2>2. ContractInv' /\ ContractStep
    BY <2>1, ContractStepping DEF SuccessInv
  <2>3. StreamIsAsked' /\ Grows
    BY <2>2, ContractKeeps DEF SuccessInv, ChainInv
  <2> QED BY <2>2, <2>3, FilesStep DEF SuccessInv
<1>3. SuccessInv => SuccessIsWhole
  <2> SUFFICES ASSUME SuccessInv, NEW t \in Tasks, report[t] = "success" PROVE file[t] = Whole(t)
    BY DEF SuccessIsWhole
  <2>1. /\ status[t] = "Completed" /\ Len(file[t]) = Len(stream[t])
        /\ \A n \in 1 .. Len(stream[t]) : file[t][n] = stream[t][n]
    BY DEF SuccessInv, FileInv, Follows
  <2>2. /\ First(t) + Len(stream[t]) = Last(t) + 1
        /\ \A n \in 1 .. Len(stream[t]) : stream[t][n] = Contract!Asked(t, n)
    BY <2>1 DEF SuccessInv, StreamIsAsked
  <2>3. /\ file[t] \in Seq(Chunk) /\ stream[t] \in Seq(Chunk)
        /\ Len(stream[t]) \in Nat /\ file[t] = [n \in 1 .. Len(file[t]) |-> file[t][n]]
    <3>1. file[t] \in Seq(Chunk) /\ stream[t] \in Seq(Chunk)
      BY DEF SuccessInv, FileTyping, ChainInv, TypeOK
    <3> QED BY <3>1, LenProperties
  <2>4. LastSent(t) - FirstSent(t) + 1 = Len(stream[t])
    BY <2>2, <2>3, Asking
  <2>5. \A n \in 1 .. Len(stream[t]) :
          file[t][n] = [offset |-> FirstSent(t) + n - 1, pos |-> FirstSent(t) + n - 1]
    BY <2>1, <2>2, Asking DEF Contract!Asked
  <2> QED BY <2>1, <2>3, <2>4, <2>5 DEF Whole
<1> QED BY <1>1, <1>2, <1>3, ChainInvariance, PTL DEF ClientSpec
===============================================================================
