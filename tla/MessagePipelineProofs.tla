------------------------- MODULE MessagePipelineProofs -------------------------
(***************************************************************************)
(* Theorems about MessagePipeline, for any events and any bound on the     *)
(* queues.                                                                 *)
(***************************************************************************)
EXTENDS MessagePipeline, SequenceTheorems, WellFoundedInduction, TLAPS

(* The three loops, with what EventLoopProofs shows of each                *)
MainLoop == INSTANCE EventLoopProofs WITH
  mEvents <- mainEvents, loop <- mainLoop, call <- mainCall,
  evts <- mainEvts, Calls <- WaitAll
UploadLoop == INSTANCE EventLoopProofs WITH
  mEvents <- upEvents, loop <- upLoop, call <- upCall,
  evts <- upEvts, Calls <- WaitAll
DownloadLoop == INSTANCE EventLoopProofs WITH
  mEvents <- downEvents, loop <- downLoop, call <- downCall,
  evts <- downEvts, Calls <- WaitAll

LEMMA LoopAssumptionHolds ==
  /\ WaitAll # {} /\ MaxPending \in Nat \ {0}
  /\ WaitAll \subseteq MainLoop!Call /\ WaitAll \subseteq UploadLoop!Call
  /\ WaitAll \subseteq DownloadLoop!Call
BY PipelineAssumption DEF WaitAll, MainLoop!Call, UploadLoop!Call, DownloadLoop!Call

LEMMA SameMainLoop ==
  /\ Main!TypeOK <=> MainLoop!TypeOK
  /\ Main!TypeOK' <=> MainLoop!TypeOK'
  /\ Main!Pending = MainLoop!Pending /\ Main!Pending' = MainLoop!Pending'
  /\ \A e : Main!PostEvent(e) <=> MainLoop!PostEvent(e)
  /\ Main!Dispatch <=> MainLoop!Dispatch
  /\ Main!Between <=> MainLoop!Between
  /\ [Main!Next]_mainVars => [MainLoop!Next]_(MainLoop!loopVars)
BY DEF MainLoop!loopVars, mainVars, Main!Next, MainLoop!Next, Main!PostEvent, MainLoop!PostEvent,
   Main!Dispatch, MainLoop!Dispatch, Main!Between, MainLoop!Between, Main!Wait, MainLoop!Wait,
   Main!WaitEnds, MainLoop!WaitEnds, Main!WaitAgain, MainLoop!WaitAgain,
   Main!Take, MainLoop!Take, Main!Return, MainLoop!Return, Main!Taken, MainLoop!Taken,
   Main!Left, MainLoop!Left, Main!TypeOK, MainLoop!TypeOK, Main!Pending, MainLoop!Pending

LEMMA SameUploadLoop ==
  /\ Upload!TypeOK <=> UploadLoop!TypeOK
  /\ Upload!TypeOK' <=> UploadLoop!TypeOK'
  /\ Upload!Pending = UploadLoop!Pending /\ Upload!Pending' = UploadLoop!Pending'
  /\ \A e : Upload!PostEvent(e) <=> UploadLoop!PostEvent(e)
  /\ Upload!Dispatch <=> UploadLoop!Dispatch
  /\ Upload!Between <=> UploadLoop!Between
  /\ [Upload!Next]_upVars => [UploadLoop!Next]_(UploadLoop!loopVars)
BY DEF UploadLoop!loopVars, upVars, Upload!Next, UploadLoop!Next, Upload!PostEvent, UploadLoop!PostEvent,
   Upload!Dispatch, UploadLoop!Dispatch, Upload!Between, UploadLoop!Between, Upload!Wait, UploadLoop!Wait,
   Upload!WaitEnds, UploadLoop!WaitEnds, Upload!WaitAgain, UploadLoop!WaitAgain,
   Upload!Take, UploadLoop!Take, Upload!Return, UploadLoop!Return, Upload!Taken, UploadLoop!Taken,
   Upload!Left, UploadLoop!Left, Upload!TypeOK, UploadLoop!TypeOK, Upload!Pending, UploadLoop!Pending

LEMMA SameDownloadLoop ==
  /\ Download!TypeOK <=> DownloadLoop!TypeOK
  /\ Download!TypeOK' <=> DownloadLoop!TypeOK'
  /\ Download!Pending = DownloadLoop!Pending /\ Download!Pending' = DownloadLoop!Pending'
  /\ \A e : Download!PostEvent(e) <=> DownloadLoop!PostEvent(e)
  /\ Download!Dispatch <=> DownloadLoop!Dispatch
  /\ Download!Between <=> DownloadLoop!Between
  /\ [Download!Next]_downVars => [DownloadLoop!Next]_(DownloadLoop!loopVars)
BY DEF DownloadLoop!loopVars, downVars, Download!Next, DownloadLoop!Next, Download!PostEvent, DownloadLoop!PostEvent,
   Download!Dispatch, DownloadLoop!Dispatch, Download!Between, DownloadLoop!Between, Download!Wait, DownloadLoop!Wait,
   Download!WaitEnds, DownloadLoop!WaitEnds, Download!WaitAgain, DownloadLoop!WaitAgain,
   Download!Take, DownloadLoop!Take, Download!Return, DownloadLoop!Return, Download!Taken, DownloadLoop!Taken,
   Download!Left, DownloadLoop!Left, Download!TypeOK, DownloadLoop!TypeOK, Download!Pending, DownloadLoop!Pending

(* What a step of a loop does to its pending events and to its ranges, for *)
(* each of the three                                                       *)
LEMMA MainLoopSteps ==
  ASSUME Main!TypeOK
  PROVE  /\ Main!Pending \in Seq(Event)
         /\ \A e \in Event : Main!PostEvent(e) => Main!Pending' = Append(Main!Pending, e)
         /\ Main!Dispatch => /\ Main!Pending # <<>> /\ Head(mainEvts) = Head(Main!Pending)
                           /\ Main!Pending' = Tail(Main!Pending)
         /\ Main!Between => Main!Pending' = Main!Pending
         /\ [Main!Next]_mainVars => Main!TypeOK'
<1>1. MainLoop!TypeOK
  BY SameMainLoop
<1>2. /\ MainLoop!Pending \in Seq(Event)
      /\ \A e \in Event : MainLoop!PostEvent(e) => MainLoop!Pending' = Append(MainLoop!Pending, e)
      /\ MainLoop!Dispatch =>
           /\ MainLoop!Pending # <<>> /\ Head(mainEvts) = Head(MainLoop!Pending)
           /\ MainLoop!Pending' = Tail(MainLoop!Pending)
      /\ MainLoop!Between => MainLoop!Pending' = MainLoop!Pending
  BY <1>1, LoopAssumptionHolds, MainLoop!PendingSteps
<1>3. [Main!Next]_mainVars => MainLoop!TypeOK'
  BY <1>1, LoopAssumptionHolds, SameMainLoop, MainLoop!StepTyping
<1> QED BY <1>2, <1>3, SameMainLoop

LEMMA UploadLoopSteps ==
  ASSUME Upload!TypeOK
  PROVE  /\ Upload!Pending \in Seq(Event)
         /\ \A e \in Event : Upload!PostEvent(e) => Upload!Pending' = Append(Upload!Pending, e)
         /\ Upload!Dispatch => /\ Upload!Pending # <<>> /\ Head(upEvts) = Head(Upload!Pending)
                           /\ Upload!Pending' = Tail(Upload!Pending)
         /\ Upload!Between => Upload!Pending' = Upload!Pending
         /\ [Upload!Next]_upVars => Upload!TypeOK'
<1>1. UploadLoop!TypeOK
  BY SameUploadLoop
<1>2. /\ UploadLoop!Pending \in Seq(Event)
      /\ \A e \in Event : UploadLoop!PostEvent(e) => UploadLoop!Pending' = Append(UploadLoop!Pending, e)
      /\ UploadLoop!Dispatch =>
           /\ UploadLoop!Pending # <<>> /\ Head(upEvts) = Head(UploadLoop!Pending)
           /\ UploadLoop!Pending' = Tail(UploadLoop!Pending)
      /\ UploadLoop!Between => UploadLoop!Pending' = UploadLoop!Pending
  BY <1>1, LoopAssumptionHolds, UploadLoop!PendingSteps
<1>3. [Upload!Next]_upVars => UploadLoop!TypeOK'
  BY <1>1, LoopAssumptionHolds, SameUploadLoop, UploadLoop!StepTyping
<1> QED BY <1>2, <1>3, SameUploadLoop

LEMMA DownloadLoopSteps ==
  ASSUME Download!TypeOK
  PROVE  /\ Download!Pending \in Seq(Event)
         /\ \A e \in Event : Download!PostEvent(e) => Download!Pending' = Append(Download!Pending, e)
         /\ Download!Dispatch => /\ Download!Pending # <<>> /\ Head(downEvts) = Head(Download!Pending)
                           /\ Download!Pending' = Tail(Download!Pending)
         /\ Download!Between => Download!Pending' = Download!Pending
         /\ [Download!Next]_downVars => Download!TypeOK'
<1>1. DownloadLoop!TypeOK
  BY SameDownloadLoop
<1>2. /\ DownloadLoop!Pending \in Seq(Event)
      /\ \A e \in Event : DownloadLoop!PostEvent(e) => DownloadLoop!Pending' = Append(DownloadLoop!Pending, e)
      /\ DownloadLoop!Dispatch =>
           /\ DownloadLoop!Pending # <<>> /\ Head(downEvts) = Head(DownloadLoop!Pending)
           /\ DownloadLoop!Pending' = Tail(DownloadLoop!Pending)
      /\ DownloadLoop!Between => DownloadLoop!Pending' = DownloadLoop!Pending
  BY <1>1, LoopAssumptionHolds, DownloadLoop!PendingSteps
<1>3. [Download!Next]_downVars => DownloadLoop!TypeOK'
  BY <1>1, LoopAssumptionHolds, SameDownloadLoop, DownloadLoop!StepTyping
<1> QED BY <1>2, <1>3, SameDownloadLoop

-------------------------------------------------------------------------------
(* Induction over the numbers, said of a set: the library says it of an    *)
(* operator.                                                               *)
LEMMA LeastNumber ==
  ASSUME NEW T \in SUBSET Nat, T # {} PROVE \E n \in T : \A m \in T : n <= m
<1>1. PICK n \in T : \A m \in T : ~(<<m, n>> \in OpToRel(<, Nat))
  BY NatLessThanWellFounded, WFMin
<1>2. \A m \in T : ~(m < n)
  BY <1>1 DEF OpToRel
<1> QED BY <1>2

LEMMA AllNumbers ==
  ASSUME NEW T, 0 \in T, \A n \in Nat : n \in T => n + 1 \in T
  PROVE  \A n \in Nat : n \in T
<1> DEFINE Out == {n \in Nat : n \notin T}
<1> SUFFICES ASSUME Out # {} PROVE FALSE
  OBVIOUS
<1>1. PICK n \in Out : \A m \in Out : n <= m
  BY LeastNumber
<1>2. n # 0 /\ n - 1 \in Nat /\ n - 1 \notin Out
  BY <1>1
<1>3. n - 1 \in T /\ (n - 1) + 1 = n
  BY <1>1, <1>2
<1>4. n \in T
  BY <1>2, <1>3
<1> QED BY <1>1, <1>4

(* f is the function that OfType defines, for the prefixes up to n.        *)
Keeps(f, q, type, n) ==
  f = [i \in 0 .. n |->
         IF i = 0 THEN <<>>
         ELSE IF q[i].type = type THEN Append(f[i - 1], q[i]) ELSE f[i - 1]]

LEMMA KeepsStep ==
  ASSUME NEW f, NEW q, NEW type, NEW n \in Nat, Keeps(f, q, type, n)
  PROVE  /\ f[0] = <<>>
         /\ \A i \in 1 .. n :
              f[i] = IF q[i].type = type THEN Append(f[i - 1], q[i]) ELSE f[i - 1]
<1> DEFINE g == [i \in 0 .. n |->
                   IF i = 0 THEN <<>>
                   ELSE IF q[i].type = type THEN Append(f[i - 1], q[i]) ELSE f[i - 1]]
<1>1. f = g
  BY DEF Keeps
<1>2. g[0] = <<>> /\ \A i \in 1 .. n :
              g[i] = IF q[i].type = type THEN Append(f[i - 1], q[i]) ELSE f[i - 1]
  OBVIOUS
<1> HIDE DEF g
<1> QED BY <1>1, <1>2

LEMMA KeepsExists ==
  ASSUME NEW q, NEW type PROVE \A n \in Nat : \E f : Keeps(f, q, type, n)
<1> DEFINE T == {n \in Nat : \E f : Keeps(f, q, type, n)}
<1>1. 0 \in T
  <2>1. Keeps([i \in 0 .. 0 |-> <<>>], q, type, 0)
    BY DEF Keeps
  <2> QED BY <2>1
<1>2. ASSUME NEW n \in Nat, n \in T PROVE n + 1 \in T
  <2>1. PICK f : Keeps(f, q, type, n)
    BY <1>2
  <2> DEFINE last == IF q[n + 1].type = type THEN Append(f[n], q[n + 1]) ELSE f[n]
             g == [i \in 0 .. n + 1 |-> IF i = n + 1 THEN last ELSE f[i]]
  <2>2. n \in Nat
    OBVIOUS
  <2>3. /\ f[0] = <<>>
        /\ \A i \in 1 .. n :
             f[i] = IF q[i].type = type THEN Append(f[i - 1], q[i]) ELSE f[i - 1]
    BY <2>1, <2>2, KeepsStep
  <2> HIDE DEF last
  <2>4. /\ g[0] = <<>> /\ g[n + 1] = last
        /\ \A i \in 0 .. n : g[i] = f[i]
    BY <2>2, <2>3
  <2> DEFINE h == [i \in 0 .. n + 1 |->
                   IF i = 0 THEN <<>>
                   ELSE IF q[i].type = type THEN Append(g[i - 1], q[i]) ELSE g[i - 1]]
  <2>5. ASSUME NEW i \in 0 .. n + 1 PROVE g[i] = h[i]
    <3>1. CASE i = 0
      BY <2>4, <3>1
    <3>2. CASE i = n + 1
      BY <2>2, <2>4, <3>2 DEF last
    <3>3. CASE i \in 1 .. n
      <4>1. i - 1 \in 0 .. n /\ i \in 0 .. n /\ i # 0
        BY <2>2, <3>3
      <4> QED BY <2>3, <2>4, <3>3, <4>1
    <3> QED BY <2>2, <3>1, <3>2, <3>3
  <2>6. g = h
    BY <2>5
  <2>7. Keeps(g, q, type, n + 1)
    BY <2>6 DEF Keeps
  <2> QED BY <2>2, <2>7
<1> HIDE DEF T
<1>3. \A n \in Nat : n \in T
  BY <1>1, <1>2, AllNumbers
<1> QED BY <1>3 DEF T

LEMMA OfTypeKeeps ==
  ASSUME NEW E, NEW q \in Seq(E), NEW type
  PROVE  \E f : Keeps(f, q, type, Len(q)) /\ OfType(q, type) = f[Len(q)]
<1>1. \E f : Keeps(f, q, type, Len(q))
  BY KeepsExists, LenProperties
<1> QED BY <1>1 DEF OfType, Keeps

LEMMA KeepsType ==
  ASSUME NEW E, NEW q \in Seq(E), NEW type, NEW f, Keeps(f, q, type, Len(q))
  PROVE  \A i \in 0 .. Len(q) : f[i] \in Seq(E)
<1> DEFINE T == {n \in Nat : n <= Len(q) => f[n] \in Seq(E)}
<1>1. Len(q) \in Nat
  BY LenProperties
<1>2. /\ f[0] = <<>>
      /\ \A i \in 1 .. Len(q) :
           f[i] = IF q[i].type = type THEN Append(f[i - 1], q[i]) ELSE f[i - 1]
  BY <1>1, KeepsStep
<1>3. 0 \in T
  <2>1. f[0] \in Seq(E)
    BY <1>2
  <2> QED BY <2>1
<1>4. ASSUME NEW n \in Nat, n \in T PROVE n + 1 \in T
  <2> SUFFICES ASSUME n + 1 <= Len(q) PROVE f[n + 1] \in Seq(E)
    OBVIOUS
  <2>1. f[n] \in Seq(E) /\ n + 1 \in 1 .. Len(q) /\ q[n + 1] \in E /\ n + 1 - 1 = n
    BY <1>1, <1>4, ElementOfSeq
  <2>2. f[n + 1] = IF q[n + 1].type = type THEN Append(f[n], q[n + 1]) ELSE f[n]
    BY <1>2, <2>1
  <2> QED BY <2>1, <2>2, AppendProperties
<1> HIDE DEF T
<1>5. \A n \in Nat : n \in T
  BY <1>3, <1>4, AllNumbers
<1> QED BY <1>1, <1>5 DEF T
(* OfType, as a queue grows by an event and loses its first                *)
LEMMA OfTypeIn ==
  ASSUME NEW E, NEW q \in Seq(E), NEW type PROVE OfType(q, type) \in Seq(E)
BY OfTypeKeeps, KeepsType, LenProperties

LEMMA OfTypeEmpty == ASSUME NEW type PROVE OfType(<<>>, type) = <<>>
<1>1. <<>> \in Seq({})
  OBVIOUS
<1>2. PICK f : Keeps(f, <<>>, type, Len(<<>>)) /\ OfType(<<>>, type) = f[Len(<<>>)]
  BY <1>1, OfTypeKeeps
<1> QED BY <1>2, KeepsStep, EmptySeq

LEMMA OfTypeAppend ==
  ASSUME NEW E, NEW q \in Seq(E), NEW e \in E, NEW type
  PROVE  OfType(Append(q, e), type) =
           IF e.type = type THEN Append(OfType(q, type), e) ELSE OfType(q, type)
<1> DEFINE r == Append(q, e)
<1>1. /\ r \in Seq(E) /\ Len(q) \in Nat /\ Len(r) = Len(q) + 1
      /\ \A i \in 1 .. Len(q) : r[i] = q[i]
      /\ r[Len(q) + 1] = e
  BY AppendProperties, LenProperties
<1> HIDE DEF r
<1>2. PICK f : Keeps(f, q, type, Len(q)) /\ OfType(q, type) = f[Len(q)]
  BY OfTypeKeeps
<1>3. PICK g : Keeps(g, r, type, Len(r)) /\ OfType(r, type) = g[Len(r)]
  BY <1>1, OfTypeKeeps
<1>4. /\ f[0] = <<>>
      /\ \A i \in 1 .. Len(q) :
           f[i] = IF q[i].type = type THEN Append(f[i - 1], q[i]) ELSE f[i - 1]
  BY <1>1, <1>2, KeepsStep
<1>5. /\ g[0] = <<>>
      /\ \A i \in 1 .. Len(q) + 1 :
           g[i] = IF r[i].type = type THEN Append(g[i - 1], r[i]) ELSE g[i - 1]
  BY <1>1, <1>3, KeepsStep
<1> DEFINE T == {n \in Nat : n <= Len(q) => f[n] = g[n]}
<1>6. 0 \in T
  BY <1>4, <1>5
<1>7. ASSUME NEW n \in Nat, n \in T PROVE n + 1 \in T
  <2> SUFFICES ASSUME n + 1 <= Len(q) PROVE f[n + 1] = g[n + 1]
    OBVIOUS
  <2>1. /\ f[n] = g[n] /\ n + 1 \in 1 .. Len(q) /\ n + 1 \in 1 .. Len(q) + 1
        /\ n + 1 - 1 = n /\ r[n + 1] = q[n + 1]
    BY <1>1, <1>7
  <2> QED BY <1>4, <1>5, <2>1
<1> HIDE DEF T
<1>8. \A n \in Nat : n \in T
  BY <1>6, <1>7, AllNumbers
<1>9. f[Len(q)] = g[Len(q)]
  BY <1>1, <1>8 DEF T
<1>10. g[Len(q) + 1] = IF e.type = type THEN Append(g[Len(q)], e) ELSE g[Len(q)]
  <2>1. Len(q) + 1 \in 1 .. Len(q) + 1 /\ Len(q) + 1 - 1 = Len(q)
    BY <1>1
  <2> QED BY <1>1, <1>5, <2>1
<1> QED BY <1>1, <1>2, <1>3, <1>9, <1>10 DEF r

LEMMA OfTypeTail ==
  ASSUME NEW E, NEW q \in Seq(E), q # <<>>, NEW type
  PROVE  OfType(q, type) = (IF Head(q).type = type THEN <<Head(q)>> ELSE <<>>)
                             \o OfType(Tail(q), type)
<1> DEFINE r == Tail(q)
           pre == IF Head(q).type = type THEN <<Head(q)>> ELSE <<>>
<1>1. /\ Len(q) \in Nat \ {0} /\ r \in Seq(E) /\ Len(r) = Len(q) - 1
      /\ Head(q) = q[1] /\ q[1] \in E
      /\ \A i \in 1 .. Len(q) - 1 : r[i] = q[i + 1]
  BY EmptySeq, LenProperties, HeadTailProperties
<1>2. pre \in Seq(E) /\ pre = IF q[1].type = type THEN Append(<<>>, q[1]) ELSE <<>>
  <2> DEFINE e == q[1]
  <2> HIDE DEF e
  <2>1. e \in E /\ Append(<<>>, e) = <<e>> /\ <<e>> \in Seq(E) /\ <<>> \in Seq(E)
    BY <1>1 DEF e
  <2> QED BY <1>1, <2>1 DEF e
<1> HIDE DEF r, pre
<1>3. PICK f : Keeps(f, q, type, Len(q)) /\ OfType(q, type) = f[Len(q)]
  BY OfTypeKeeps
<1>4. PICK g : Keeps(g, r, type, Len(r)) /\ OfType(r, type) = g[Len(r)]
  BY <1>1, OfTypeKeeps
<1>5. /\ f[0] = <<>>
      /\ \A i \in 1 .. Len(q) :
           f[i] = IF q[i].type = type THEN Append(f[i - 1], q[i]) ELSE f[i - 1]
  BY <1>1, <1>3, KeepsStep
<1>6. /\ g[0] = <<>>
      /\ \A i \in 1 .. Len(q) - 1 :
           g[i] = IF r[i].type = type THEN Append(g[i - 1], r[i]) ELSE g[i - 1]
  BY <1>1, <1>4, KeepsStep
<1>7. \A i \in 0 .. Len(q) - 1 : g[i] \in Seq(E)
  BY <1>1, <1>4, KeepsType
<1> DEFINE T == {n \in Nat : n <= Len(q) - 1 => f[n + 1] = pre \o g[n]}
<1>8. 0 \in T
  <2>1. f[1] = pre
    <3>1. 1 \in 1 .. Len(q) /\ 1 - 1 = 0
      BY <1>1
    <3> QED BY <1>2, <1>5, <3>1
  <2>2. pre \o g[0] = pre
    BY <1>2, <1>6, ConcatEmptySeq
  <2> QED BY <2>1, <2>2
<1>9. ASSUME NEW n \in Nat, n \in T PROVE n + 1 \in T
  <2> SUFFICES ASSUME n + 1 <= Len(q) - 1 PROVE f[n + 1 + 1] = pre \o g[n + 1]
    OBVIOUS
  <2> DEFINE m == n + 1
             k == m + 1
  <2>1. /\ m \in 1 .. Len(q) - 1 /\ n \in 0 .. Len(q) - 1 /\ k \in 1 .. Len(q)
        /\ k - 1 = m /\ m - 1 = n /\ k = m + 1 /\ n <= Len(q) - 1
    BY <1>1
  <2>2. f[m] = pre \o g[n]
    BY <1>9, <2>1
  <2> HIDE DEF m, k
  <2>3. r[m] = q[k] /\ r[m] \in E /\ g[n] \in Seq(E)
    BY <1>1, <1>7, <2>1, ElementOfSeq
  <2>4. pre \o Append(g[n], r[m]) = Append(pre \o g[n], r[m])
    <3> DEFINE s == g[n]
               e == r[m]
    <3>1. pre \in Seq(E) /\ s \in Seq(E) /\ e \in E
      BY <1>2, <2>3
    <3> HIDE DEF s, e
    <3>2. pre \o Append(s, e) = Append(pre \o s, e)
      BY <3>1, LoopAssumptionHolds, MainLoop!AppendToConcat
    <3> QED BY <3>2 DEF s, e
  <2>5. f[k] = IF r[m].type = type THEN Append(f[m], r[m]) ELSE f[m]
    BY <1>5, <2>1, <2>3
  <2>6. g[m] = IF r[m].type = type THEN Append(g[n], r[m]) ELSE g[n]
    BY <1>6, <2>1
  <2>7. f[k] = pre \o g[m]
    BY <2>2, <2>4, <2>5, <2>6
  <2> QED BY <2>7 DEF m, k
<1> HIDE DEF T
<1>10. \A n \in Nat : n \in T
  BY <1>8, <1>9, AllNumbers
<1>11. f[Len(q)] = pre \o g[Len(r)]
  <2>1. Len(q) - 1 \in Nat /\ (Len(q) - 1) + 1 = Len(q)
    BY <1>1
  <2> QED BY <1>1, <1>10, <2>1 DEF T
<1> QED BY <1>3, <1>4, <1>11 DEF pre, r
-------------------------------------------------------------------------------
(* Every step of the pipeline is a step, or none, of each of its loops.    *)
LEMMA LoopsStep ==
  ASSUME TypeOK, [Next]_vars
  PROVE  [Main!Next]_mainVars /\ [Upload!Next]_upVars /\ [Download!Next]_downVars
<1>1. ASSUME Main!Dispatch PROVE Head(mainEvts) \in Event
  BY <1>1, HeadTailProperties DEF TypeOK, Main!Dispatch, Main!TypeOK
<1>2. ASSUME NEW e \in Event, Forward(e)
      PROVE  [Main!Next]_mainVars /\ [Upload!Next]_upVars /\ [Download!Next]_downVars
  BY <1>2 DEF Forward, Main!Next
<1>3. CASE Start \/ MainBetween
  BY <1>3 DEF Start, MainBetween, Main!Next
<1>4. CASE HandleUploadMsgEvent
  BY <1>1, <1>4 DEF HandleUploadMsgEvent, Main!Next, Upload!Next
<1>5. CASE HandleDeployMsgEvent
  BY <1>1, <1>5 DEF HandleDeployMsgEvent, Main!Next, Download!Next
<1>6. CASE UploadStep
  BY <1>6 DEF UploadStep, Upload!Next
<1>7. CASE DownloadStep
  BY <1>7 DEF DownloadStep, Download!Next
<1>8. CASE UNCHANGED vars
  BY <1>8 DEF vars
<1> QED BY <1>2, <1>3, <1>4, <1>5, <1>6, <1>7, <1>8 DEF Next, MainStep

LEMMA RunningWhen ==
  ASSUME NEW n \in 0 .. 5
  PROVE  /\ (\E i \in 1 .. n : Managers[i] = "Upload") <=> n >= 4
         /\ (\E i \in 1 .. n : Managers[i] = "Download") <=> n >= 5
<1>1. /\ Managers[1] \notin {"Upload", "Download"} /\ Managers[2] \notin {"Upload", "Download"}
      /\ Managers[3] \notin {"Upload", "Download"}
      /\ Managers[4] = "Upload" /\ Managers[5] = "Download"
  BY DEF Managers
<1>2. \A i \in 1 .. n : i = 1 \/ i = 2 \/ i = 3 \/ (i = 4 /\ n >= 4) \/ (i = 5 /\ n >= 5)
  OBVIOUS
<1>3. n >= 4 => 4 \in 1 .. n
  OBVIOUS
<1>4. n >= 5 => 5 \in 1 .. n
  OBVIOUS
<1>5. "Upload" # "Download"
  OBVIOUS
<1> QED BY <1>1, <1>2, <1>3, <1>4, <1>5

(* A loop whose thread does not run is not started by a post.              *)
LEMMA PostsKeepReady ==
  ASSUME NEW e
  PROVE  /\ Main!PostEvent(e) => (mainLoop = "ready" => mainLoop' = "ready")
         /\ Upload!PostEvent(e) => (upLoop = "ready" => upLoop' = "ready")
         /\ Download!PostEvent(e) => (downLoop = "ready" => downLoop' = "ready")
BY DEF Main!PostEvent, Upload!PostEvent, Download!PostEvent

LEMMA TypingStep == ASSUME TypeOK, [Next]_vars PROVE TypeOK'
<1>1. Main!TypeOK' /\ Upload!TypeOK' /\ Download!TypeOK'
  BY LoopsStep, MainLoopSteps, UploadLoopSteps, DownloadLoopSteps DEF TypeOK
<1>2. started \in 0 .. 5 /\ Len(Managers) = 5
  BY DEF TypeOK, Managers
<1>3. started' \in 0 .. 5 /\ started <= started'
  BY <1>2 DEF Next, MainStep, Start, MainBetween, HandleUploadMsgEvent,
     HandleDeployMsgEvent, Forward, UploadStep, DownloadStep, vars
<1>4. started < 5 => mainLoop = "ready" /\ downLoop = "ready"
  BY <1>2 DEF TypeOK
<1>5. started < 4 => upLoop = "ready"
  BY <1>2, RunningWhen DEF TypeOK, Running
<1>6. /\ UploadStep => started >= 4
      /\ DownloadStep => started >= 5
      /\ Main!Dispatch \/ MainBetween => started >= 5
  BY <1>2, <1>4, RunningWhen DEF UploadStep, DownloadStep, Running, Main!Dispatch, MainBetween
<1>7. started < 5 /\ mainLoop = "ready" => mainLoop' = "ready"
  BY <1>2, <1>6, PostsKeepReady DEF Next, MainStep, Start, HandleUploadMsgEvent,
     HandleDeployMsgEvent, Forward, UploadStep, DownloadStep, vars, mainVars
<1>8. started < 5 /\ downLoop = "ready" => downLoop' = "ready"
  BY <1>2, <1>6, PostsKeepReady DEF Next, MainStep, Start, HandleUploadMsgEvent, MainBetween,
     HandleDeployMsgEvent, Forward, UploadStep, DownloadStep, vars, downVars
<1>9. started < 4 /\ upLoop = "ready" => upLoop' = "ready"
  BY <1>2, <1>6, PostsKeepReady DEF Next, MainStep, Start, MainBetween, HandleUploadMsgEvent,
     HandleDeployMsgEvent, Forward, UploadStep, DownloadStep, vars, upVars
<1>10. Running("Upload")' <=> started' >= 4
  BY <1>3, RunningWhen DEF Running
<1> QED BY <1>1, <1>2, <1>3, <1>4, <1>5, <1>7, <1>8, <1>9, <1>10 DEF TypeOK, Managers

(* Each of the three loops keeps its ranges, and no thread takes part      *)
(* before MainManager::run has started it, although the WebSocket may post *)
(* to the main queue while managers are still being started.               *)
THEOREM PipelineTyping == Spec => []TypeOK
<1>1. Init => TypeOK
  <2> SUFFICES ASSUME Init PROVE TypeOK
    OBVIOUS
  <2>1. Main!TypeOK /\ Upload!TypeOK /\ Download!TypeOK
    BY PipelineAssumption DEF Init, Main!Init, Upload!Init, Download!Init, WaitAll,
       Main!TypeOK, Upload!TypeOK, Download!TypeOK
  <2>2. started = 0 /\ mainLoop = "ready" /\ upLoop = "ready" /\ downLoop = "ready"
    BY DEF Init, Main!Init, Upload!Init, Download!Init
  <2>3. started \in 0 .. Len(Managers)
    BY <2>2 DEF Managers
  <2> QED BY <2>1, <2>2, <2>3 DEF TypeOK
<1> QED BY <1>1, TypingStep, PTL DEF Spec

(* A message passed on is a post to one loop by the handler of another,    *)
(* and managers start while the queue fills: still each of the three is a  *)
(* loop as EventLoop.h has it, so that nothing it does is new to it.       *)
THEOREM EachIsALoop == Spec => Main!Spec /\ Upload!Spec /\ Download!Spec
<1>1. Init => Main!Init /\ Upload!Init /\ Download!Init
  BY DEF Init
<1>2. TypeOK /\ [Next]_vars => /\ [Main!Next]_(Main!loopVars)
                              /\ [Upload!Next]_(Upload!loopVars)
                              /\ [Download!Next]_(Download!loopVars)
  BY LoopsStep DEF mainVars, upVars, downVars, Main!loopVars, Upload!loopVars,
     Download!loopVars
<1> QED BY <1>1, <1>2, PipelineTyping, PTL DEF Spec, Main!Spec, Upload!Spec, Download!Spec

-------------------------------------------------------------------------------
(* The channel to a manager: what is pending at the manager itself, then   *)
(* what the main loop still has for it.                                    *)
Channel(here, main, type) == here \o OfType(main, type)

(* A post to the main loop extends the channel of its type only.           *)
LEMMA ChannelPosts ==
  ASSUME NEW here \in Seq(Event), NEW main \in Seq(Event), NEW type, NEW e \in Event
  PROVE  Channel(here, Append(main, e), type) =
           IF e.type = type THEN Append(Channel(here, main, type), e)
           ELSE Channel(here, main, type)
<1> DEFINE q == OfType(main, type)
<1>1. OfType(Append(main, e), type) = IF e.type = type THEN Append(q, e) ELSE q
  BY OfTypeAppend
<1>2. q \in Seq(Event)
  BY OfTypeIn
<1> HIDE DEF q
<1>3. here \o Append(q, e) = Append(here \o q, e)
  BY <1>2, LoopAssumptionHolds, MainLoop!AppendToConcat
<1> QED BY <1>1, <1>3 DEF q, Channel

(* Handing the first event of the main loop on to its manager changes no   *)
(* channel.                                                                *)
LEMMA ChannelPasses ==
  ASSUME NEW here \in Seq(Event), NEW main \in Seq(Event), NEW type, main # <<>>
  PROVE  Channel(IF Head(main).type = type THEN Append(here, Head(main)) ELSE here,
                 Tail(main), type) = Channel(here, main, type)
<1> DEFINE e == Head(main)
           rest == OfType(Tail(main), type)
<1>1. /\ e \in Event /\ rest \in Seq(Event)
      /\ OfType(main, type) = (IF e.type = type THEN <<e>> ELSE <<>>) \o rest
  BY HeadTailProperties, OfTypeIn, OfTypeTail
<1> HIDE DEF e, rest
<1>2. CASE e.type = type
  <2>1. <<e>> \in Seq(Event) /\ Append(here, e) = here \o <<e>>
    BY <1>1, AppendIsConcat
  <2>2. (here \o <<e>>) \o rest = here \o (<<e>> \o rest)
    BY <1>1, <2>1, ConcatAssociative
  <2> QED BY <1>1, <1>2, <2>1, <2>2 DEF e, rest, Channel
<1>3. CASE e.type # type
  <2>1. <<>> \o rest = rest
    BY <1>1, ConcatEmptySeq
  <2> QED BY <1>1, <1>3, <2>1 DEF e, rest, Channel
<1> QED BY <1>2, <1>3

(* The manager handles the first event of its channel.                     *)
LEMMA ChannelHandles ==
  ASSUME NEW here \in Seq(Event), NEW main \in Seq(Event), NEW type, here # <<>>
  PROVE  /\ Channel(here, main, type) # <<>>
         /\ Channel(Tail(here), main, type) = Tail(Channel(here, main, type))
BY OfTypeIn, LoopAssumptionHolds, MainLoop!TailOfConcat DEF Channel

(* A step of the pipeline posts to a channel, handles its first event, or  *)
(* does not show in it.                                                    *)
LEMMA UploadChannelStep ==
  ASSUME TypeOK, [Next]_vars PROVE [UploadChannel!Next]_UploadPending
<1> DEFINE here == Upload!Pending
           main == Main!Pending
<1>1. here \in Seq(Event) /\ main \in Seq(Event)
  BY MainLoopSteps, UploadLoopSteps DEF TypeOK
<1>2. /\ UploadPending = Channel(here, main, "UploadMsg")
      /\ UploadPending' = Channel(here', main', "UploadMsg")
  BY DEF UploadPending, OfType, Channel
<1>3. (UNCHANGED mainVars => main' = main) /\ (UNCHANGED upVars => here' = here)
  BY DEF mainVars, upVars, Main!Pending, Upload!Pending
<1>4. ASSUME main' = main, here' = here PROVE UploadPending' = UploadPending
  BY <1>2, <1>4
<1>5. ASSUME NEW e \in Event, Forward(e) PROVE [UploadChannel!Next]_UploadPending
  <2>1. main' = Append(main, e) /\ here' = here
    BY <1>3, <1>5, MainLoopSteps DEF Forward, TypeOK
  <2>2. UploadPending' = IF e.type = "UploadMsg" THEN Append(UploadPending, e) ELSE UploadPending
    BY <1>1, <1>2, <2>1, ChannelPosts
  <2> QED BY <2>2 DEF UploadChannel!Next, UploadChannel!Post
<1>6. CASE HandleUploadMsgEvent
  <2>1. /\ main # <<>> /\ main' = Tail(main)
        /\ Head(main).type = "UploadMsg" /\ here' = Append(here, Head(main))
    <3>1. Main!Dispatch /\ Upload!PostEvent(Head(mainEvts)) /\ Head(mainEvts).type = "UploadMsg"
      BY <1>6 DEF HandleUploadMsgEvent
    <3>2. main # <<>> /\ main' = Tail(main) /\ Head(mainEvts) = Head(main)
      BY <3>1, MainLoopSteps DEF TypeOK
    <3>3. Head(main) \in Event
      BY <1>1, <3>2, HeadTailProperties
    <3> QED BY <3>1, <3>2, <3>3, UploadLoopSteps DEF TypeOK
  <2>2. UploadPending' = UploadPending
    BY <1>1, <1>2, <2>1, ChannelPasses
  <2> QED BY <2>2
<1>7. CASE HandleDeployMsgEvent
  <2>1. /\ main # <<>> /\ main' = Tail(main)
        /\ Head(main).type # "UploadMsg" /\ here' = here
    <3>1. Main!Dispatch /\ UNCHANGED upVars /\ Head(mainEvts).type = "DeployMsg"
      BY <1>7 DEF HandleDeployMsgEvent
    <3> QED BY <1>3, <3>1, MainLoopSteps DEF TypeOK
  <2>2. UploadPending' = UploadPending
    BY <1>1, <1>2, <2>1, ChannelPasses
  <2> QED BY <2>2
<1>8. CASE UploadStep
  <2>1. main' = main /\ (Upload!Between \/ Upload!Dispatch)
    BY <1>3, <1>8 DEF UploadStep
  <2>2. CASE Upload!Between
    BY <1>4, <2>1, <2>2, UploadLoopSteps DEF TypeOK
  <2>3. CASE Upload!Dispatch
    <3>1. here # <<>> /\ here' = Tail(here)
      BY <2>3, UploadLoopSteps DEF TypeOK
    <3>2. UploadPending # <<>> /\ UploadPending' = Tail(UploadPending)
      BY <1>1, <1>2, <2>1, <3>1, ChannelHandles
    <3> QED BY <3>2 DEF UploadChannel!Next, UploadChannel!Handle
  <2> QED BY <2>1, <2>2, <2>3
<1>9. CASE Start \/ MainBetween \/ DownloadStep \/ UNCHANGED vars
  <2>1. here' = here
    BY <1>3, <1>9 DEF Start, MainBetween, DownloadStep, vars
  <2>2. UNCHANGED mainVars \/ Main!Between
    BY <1>9 DEF Start, MainBetween, DownloadStep, vars
  <2>3. main' = main
    BY <1>3, <2>2, MainLoopSteps DEF TypeOK
  <2> QED BY <1>4, <2>1, <2>3
<1> QED BY <1>5, <1>6, <1>7, <1>8, <1>9 DEF Next, MainStep

LEMMA DownloadChannelStep ==
  ASSUME TypeOK, [Next]_vars PROVE [DownloadChannel!Next]_DownloadPending
<1> DEFINE here == Download!Pending
           main == Main!Pending
<1>1. here \in Seq(Event) /\ main \in Seq(Event)
  BY MainLoopSteps, DownloadLoopSteps DEF TypeOK
<1>2. /\ DownloadPending = Channel(here, main, "DeployMsg")
      /\ DownloadPending' = Channel(here', main', "DeployMsg")
  BY DEF DownloadPending, OfType, Channel
<1>3. (UNCHANGED mainVars => main' = main) /\ (UNCHANGED downVars => here' = here)
  BY DEF mainVars, downVars, Main!Pending, Download!Pending
<1>4. ASSUME main' = main, here' = here PROVE DownloadPending' = DownloadPending
  BY <1>2, <1>4
<1>5. ASSUME NEW e \in Event, Forward(e) PROVE [DownloadChannel!Next]_DownloadPending
  <2>1. main' = Append(main, e) /\ here' = here
    BY <1>3, <1>5, MainLoopSteps DEF Forward, TypeOK
  <2>2. DownloadPending' = IF e.type = "DeployMsg" THEN Append(DownloadPending, e) ELSE DownloadPending
    BY <1>1, <1>2, <2>1, ChannelPosts
  <2> QED BY <2>2 DEF DownloadChannel!Next, DownloadChannel!Post
<1>6. CASE HandleDeployMsgEvent
  <2>1. /\ main # <<>> /\ main' = Tail(main)
        /\ Head(main).type = "DeployMsg" /\ here' = Append(here, Head(main))
    <3>1. Main!Dispatch /\ Download!PostEvent(Head(mainEvts)) /\ Head(mainEvts).type = "DeployMsg"
      BY <1>6 DEF HandleDeployMsgEvent
    <3>2. main # <<>> /\ main' = Tail(main) /\ Head(mainEvts) = Head(main)
      BY <3>1, MainLoopSteps DEF TypeOK
    <3>3. Head(main) \in Event
      BY <1>1, <3>2, HeadTailProperties
    <3> QED BY <3>1, <3>2, <3>3, DownloadLoopSteps DEF TypeOK
  <2>2. DownloadPending' = DownloadPending
    BY <1>1, <1>2, <2>1, ChannelPasses
  <2> QED BY <2>2
<1>7. CASE HandleUploadMsgEvent
  <2>1. /\ main # <<>> /\ main' = Tail(main)
        /\ Head(main).type # "DeployMsg" /\ here' = here
    <3>1. Main!Dispatch /\ UNCHANGED downVars /\ Head(mainEvts).type = "UploadMsg"
      BY <1>7 DEF HandleUploadMsgEvent
    <3> QED BY <1>3, <3>1, MainLoopSteps DEF TypeOK
  <2>2. DownloadPending' = DownloadPending
    BY <1>1, <1>2, <2>1, ChannelPasses
  <2> QED BY <2>2
<1>8. CASE DownloadStep
  <2>1. main' = main /\ (Download!Between \/ Download!Dispatch)
    BY <1>3, <1>8 DEF DownloadStep
  <2>2. CASE Download!Between
    BY <1>4, <2>1, <2>2, DownloadLoopSteps DEF TypeOK
  <2>3. CASE Download!Dispatch
    <3>1. here # <<>> /\ here' = Tail(here)
      BY <2>3, DownloadLoopSteps DEF TypeOK
    <3>2. DownloadPending # <<>> /\ DownloadPending' = Tail(DownloadPending)
      BY <1>1, <1>2, <2>1, <3>1, ChannelHandles
    <3> QED BY <3>2 DEF DownloadChannel!Next, DownloadChannel!Handle
  <2> QED BY <2>1, <2>2, <2>3
<1>9. CASE Start \/ MainBetween \/ UploadStep \/ UNCHANGED vars
  <2>1. here' = here
    BY <1>3, <1>9 DEF Start, MainBetween, UploadStep, vars
  <2>2. UNCHANGED mainVars \/ Main!Between
    BY <1>9 DEF Start, MainBetween, UploadStep, vars
  <2>3. main' = main
    BY <1>3, <2>2, MainLoopSteps DEF TypeOK
  <2> QED BY <1>4, <2>1, <2>3
<1> QED BY <1>5, <1>6, <1>7, <1>8, <1>9 DEF Next, MainStep

(* Each manager sees the messages of its type once and in the order of the *)
(* WebSocket: the main thread takes batches and passes them on one by one, *)
(* a manager takes batches of its own, and neither waits for the other;    *)
(* messages that come before the managers are started are kept.            *)
THEOREM ChannelsAlwaysInOrder == Spec => ChannelsInOrder
<1>1. ASSUME Init PROVE UploadChannel!Init /\ DownloadChannel!Init
  <2>1. Main!Pending = <<>> /\ Upload!Pending = <<>> /\ Download!Pending = <<>>
    BY <1>1, ConcatEmptySeq, EmptySeq DEF Init, Main!Init, Upload!Init, Download!Init,
       Main!Pending, Upload!Pending, Download!Pending
  <2> QED BY <2>1, OfTypeEmpty, ConcatEmptySeq, EmptySeq DEF UploadPending, DownloadPending,
          UploadChannel!Init, DownloadChannel!Init
<1> QED BY <1>1, UploadChannelStep, DownloadChannelStep, PipelineTyping, PTL
        DEF Spec, ChannelsInOrder, UploadChannel!Spec, DownloadChannel!Spec
===============================================================================
