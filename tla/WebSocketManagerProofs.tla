------------------------- MODULE WebSocketManagerProofs -------------------------
(***************************************************************************)
(* Theorems about WebSocketManager, for any values of the uninitialised    *)
(* status, any messages and any number of them.                            *)
(***************************************************************************)
EXTENDS WebSocketManager, SequenceTheorems, TLAPS

(* The loop of acknowledgements, with what EventLoopProofs shows of it     *)
Loop == INSTANCE EventLoopProofs WITH
  Event <- 1 .. MaxMessages, Calls <- {[all |-> FALSE, timed |-> TRUE]},
  MaxPending <- MaxMessages

(* A step of the manager makes at most one step of its loop.               *)
LEMMA LoopStep == ASSUME TypeOK, [Next]_vars PROVE [Acks!Next]_ackVars
<1>1. CASE PostAck
  <2>1. Last(received).cmd => received # <<>>
    BY <1>1 DEF PostAck, TypeOK
  <2>2. received # <<>> => Len(received) \in 1 .. MaxMessages
    BY SocketAssumption, EmptySeq DEF TypeOK
  <2> QED BY <1>1, <2>1, <2>2 DEF PostAck, Acks!Next
<1>2. CASE WaitEvent \/ HandleAckMsgEvent
  BY <1>2 DEF WaitEvent, HandleAckMsgEvent, Acks!Next
<1>3. CASE \/ Switch \/ Connect \/ Open \/ Connecting \/ Connected \/ Dispose \/ Reset
           \/ TimePasses \/ OnOpen \/ RemoteClose \/ OnClosed \/ Forward
           \/ Opened \/ OnError \/ \E m \in Messages : OnMessage(m)
  BY <1>3 DEF Switch, Connect, Open, Connecting, Connected, Dispose, Reset, TimePasses,
     OnOpen, RemoteClose, OnClosed, Forward, Opened, OnError, OnMessage
<1>4. CASE UNCHANGED vars
  BY <1>4 DEF vars
<1> QED BY <1>1, <1>2, <1>3, <1>4 DEF Next, Run, Callback, Peer

(* Acks and Loop are one loop, seen with and without its proofs.           *)
LEMMA SameLoop ==
  /\ Acks!TypeOK <=> Loop!TypeOK
  /\ Acks!TypeOK' <=> Loop!TypeOK'
  /\ Acks!Pending = Loop!Pending /\ Acks!Pending' = Loop!Pending'
  /\ \A e : Acks!PostEvent(e) <=> Loop!PostEvent(e)
  /\ Acks!Dispatch <=> Loop!Dispatch
  /\ Acks!Between <=> Loop!Between
  /\ [Acks!Next]_ackVars => [Loop!Next]_(Loop!loopVars)
BY DEF Loop!loopVars, ackVars, Acks!Next, Loop!Next, Acks!PostEvent, Loop!PostEvent,
   Acks!Dispatch, Loop!Dispatch, Acks!Between, Loop!Between, Acks!Wait, Loop!Wait,
   Acks!WaitEnds, Loop!WaitEnds, Acks!WaitAgain, Loop!WaitAgain, Acks!Take, Loop!Take,
   Acks!Return, Loop!Return, Acks!Taken, Loop!Taken, Acks!Left, Loop!Left,
   Acks!TypeOK, Loop!TypeOK, Acks!Pending, Loop!Pending

LEMMA LoopAssumptionHolds ==
  /\ {[all |-> FALSE, timed |-> TRUE]} # {}
  /\ {[all |-> FALSE, timed |-> TRUE]} \subseteq Loop!Call
  /\ MaxMessages \in Nat \ {0}
BY SocketAssumption DEF Loop!Call

LEMMA LoopTypingStep == ASSUME TypeOK, [Next]_vars PROVE Acks!TypeOK'
<1>1. Acks!TypeOK
  BY DEF TypeOK
<1> QED BY <1>1, LoopStep, SameLoop, LoopAssumptionHolds, Loop!StepTyping

LEMMA WiderSeq ==
  ASSUME NEW S, NEW T, S \subseteq T, NEW q \in Seq(S) PROVE q \in Seq(T)
<1>1. Len(q) \in Nat /\ q \in [1 .. Len(q) -> S]
  BY LenProperties
<1>2. q \in [1 .. Len(q) -> T]
  BY <1>1
<1> QED BY <1>1, <1>2, SeqDef

(* Ranges: the numbers in the queue are those of messages received.        *)
Ranges == TypeOK /\ Acks!Pending \in Seq(1 .. Len(received))

LEMMA RangesInit == Init => Ranges
<1> SUFFICES ASSUME Init PROVE Ranges
  OBVIOUS
<1>1. Acks!TypeOK
  BY SocketAssumption DEF Init, Acks!Init, Acks!TypeOK
<1>2. Acks!Pending = <<>>
  BY ConcatEmptySeq, EmptySeq DEF Init, Acks!Init, Acks!Pending
<1>3. \A S : <<>> \in Seq(S)
  OBVIOUS
<1>4. Len(received) = 0 /\ received \in Seq(Messages) /\ Len(received) <= MaxMessages
  BY <1>3, SocketAssumption, EmptySeq DEF Init
<1>5. /\ loop = "ready" /\ late \in BOOLEAN
      /\ mStatus \in FirstStatus \cup {"Idle", "Connecting", "Connected", "Closed"}
      /\ \A q \in {forwarded, acked} : q \in Seq(1 .. Len(received))
  BY <1>3 DEF Init, Acks!Init
<1>6. TypeOK
  BY <1>1, <1>4, <1>5 DEF Init, TypeOK
<1> QED BY <1>2, <1>3, <1>6 DEF Ranges

(* What a step does to the numbers in the queue                            *)
LEMMA PendingStep ==
  ASSUME TypeOK, [Next]_vars
  PROVE  /\ Acks!Pending \in Seq(1 .. MaxMessages)
         /\ PostAck => \/ Acks!Pending' = Acks!Pending
                       \/ /\ Last(received).cmd
                          /\ Acks!Pending' = Append(Acks!Pending, Len(received))
         /\ HandleAckMsgEvent => /\ Acks!Pending # <<>>
                                 /\ Head(evts) = Head(Acks!Pending)
                                 /\ Acks!Pending' = Tail(Acks!Pending)
         /\ ~(PostAck \/ HandleAckMsgEvent) => Acks!Pending' = Acks!Pending
<1>1. Loop!TypeOK
  BY SameLoop DEF TypeOK
<1>2. /\ Loop!Pending \in Seq(1 .. MaxMessages)
      /\ \A e \in 1 .. MaxMessages : Loop!PostEvent(e) => Loop!Pending' = Append(Loop!Pending, e)
      /\ Loop!Dispatch => /\ Loop!Pending # <<>> /\ Head(evts) = Head(Loop!Pending)
                          /\ Loop!Pending' = Tail(Loop!Pending)
      /\ Loop!Between => Loop!Pending' = Loop!Pending
  BY <1>1, LoopAssumptionHolds, Loop!PendingSteps
<1>3. UNCHANGED ackVars => Acks!Pending' = Acks!Pending
  BY DEF ackVars, Acks!Pending
<1>4. CASE PostAck
  <2>1. received # <<>> /\ Len(received) \in 1 .. MaxMessages
    BY <1>4, SocketAssumption, EmptySeq DEF PostAck, TypeOK
  <2>2. HandleAckMsgEvent => FALSE
    BY <1>4 DEF HandleAckMsgEvent, PostAck, sockVars
  <2> QED BY <1>2, <1>3, <1>4, <2>1, <2>2, SameLoop DEF PostAck
<1>5. CASE HandleAckMsgEvent
  <2>1. PostAck => FALSE
    BY <1>5 DEF HandleAckMsgEvent, PostAck, sockVars
  <2> QED BY <1>2, <1>5, <2>1, SameLoop DEF HandleAckMsgEvent
<1>6. CASE ~(PostAck \/ HandleAckMsgEvent)
  <2>1. CASE WaitEvent
    BY <1>2, <1>6, <2>1, SameLoop DEF WaitEvent
  <2>2. CASE ~WaitEvent
    <3>1. UNCHANGED ackVars
      BY <1>6, <2>2 DEF Next, Run, Callback, Peer, Switch, Connect, Open, Connecting,
         Connected, Dispose, Reset, TimePasses, OnOpen, RemoteClose, OnClosed, Forward,
         Opened, OnError, OnMessage, vars
    <3> QED BY <1>2, <1>3, <1>6, <3>1, SameLoop
  <2> QED BY <2>1, <2>2
<1> QED BY <1>4, <1>5, <1>6

(* What run() may believe of the socket at each of its places, and what    *)
(* the socket's thread still owes                                          *)
SocketPlaces ==
  /\ sock \in {"none", "made"} => due = "nothing"
  /\ mStatus = "Idle" \/ at = "connect" => sock = "none"
  /\ at = "open" <=> sock = "made"
  /\ due = "close" => mStatus # "Connecting"
  /\ ClosedIsTold

LEMMA RangesStep == ASSUME Ranges, SocketPlaces, [Next]_vars PROVE Ranges'
<1> USE DEF Ranges
<1>1. Acks!TypeOK'
  BY LoopTypingStep
<1>2. Len(received) \in Nat /\ Len(received) <= MaxMessages
  BY LenProperties DEF TypeOK
<1>3. Acks!Pending' \in Seq(1 .. Len(received))
  <2>1. CASE PostAck
    <3>1. Len(received) \in 1 .. Len(received)
      BY <1>2, <2>1, EmptySeq DEF PostAck, TypeOK
    <3> QED BY <2>1, <3>1, PendingStep
  <2>2. CASE HandleAckMsgEvent
    BY <2>2, PendingStep, HeadTailProperties
  <2> QED BY <2>1, <2>2, PendingStep
<1>4. ASSUME UNCHANGED received,
             forwarded' \in Seq(1 .. Len(received)), acked' \in Seq(1 .. Len(received)),
             mStatus' \in FirstStatus \cup {"Idle", "Connecting", "Connected", "Closed"},
             at' \in {"switch", "connect", "open", "connecting", "connected", "wait",
                     "dispose", "reset"},
             loop' # "ready" => at' = "wait", late' \in BOOLEAN,
             sock' \in {"none", "made", "connecting", "open", "closed"},
             due' \in {"nothing", "onOpen", "close", "onClosed"},
             rx' \in {"idle", "forward", "ack"},
             rx' # "idle" => received # <<>> /\ sock' \in {"open", "closed"}
      PROVE  Ranges'
  BY <1>1, <1>3, <1>4 DEF TypeOK
<1>5. CASE Switch \/ Connect \/ Open \/ Connecting \/ Connected \/ Dispose \/ Reset
  <2>1. loop = "ready" /\ loop' = loop
    BY <1>5 DEF Switch, Connect, Open, Connecting, Connected, Dispose, Reset, ackVars, TypeOK
  <2>2. at' \in {"switch", "connect", "open", "connecting", "connected", "wait",
                "dispose", "reset"}
    BY <1>5 DEF Switch, Branch, Connect, Open, Connecting, Connected, Dispose, Reset
  <2>3. UNCHANGED <<rx, received, forwarded, acked>>
    BY <1>5 DEF Switch, Connect, Open, Connecting, Connected, Dispose, Reset,
       sockVars, msgVars
  <2>7. late' \in BOOLEAN
    <3>1. late' = FALSE \/ late' = late
      BY <1>5 DEF Switch, Connect, Open, Connecting, Connected, Dispose, Reset
    <3> QED BY <3>1 DEF TypeOK
  <2>4. mStatus' \in FirstStatus \cup {"Idle", "Connecting", "Connected", "Closed"}
    BY <1>5 DEF Switch, Connect, Open, Connecting, Connected, Dispose, Reset, TypeOK
  <2>5. /\ sock' \in {"none", "made", "connecting", "open", "closed"}
        /\ due' \in {"nothing", "onOpen", "close", "onClosed"}
    BY <1>5 DEF Switch, Connect, Open, Connecting, Connected, Dispose, Reset,
       sockVars, TypeOK
  <2>6. rx # "idle" => sock' \in {"open", "closed"}
    BY <1>5 DEF Switch, Connect, Open, Connecting, Connected, Dispose, Reset,
       sockVars, TypeOK, SocketPlaces
  <2> QED BY <1>4, <2>1, <2>2, <2>3, <2>4, <2>5, <2>6, <2>7 DEF TypeOK
<1>6. CASE TimePasses \/ OnOpen \/ OnError \/ OnClosed \/ Opened \/ RemoteClose
  <2>1. UNCHANGED <<at, loop, rx, received, forwarded, acked>>
    BY <1>6 DEF TimePasses, OnOpen, OnError, OnClosed, Opened, RemoteClose,
       ackVars, sockVars, msgVars
  <2>2. /\ late' \in BOOLEAN
        /\ mStatus' \in FirstStatus \cup {"Idle", "Connecting", "Connected", "Closed"}
        /\ sock' \in {"none", "made", "connecting", "open", "closed"}
        /\ due' \in {"nothing", "onOpen", "close", "onClosed"}
        /\ rx # "idle" => sock' \in {"open", "closed"}
    BY <1>6 DEF TimePasses, OnOpen, OnError, OnClosed, Opened, RemoteClose, Quiet,
       Living, sockVars, TypeOK
  <2> QED BY <1>4, <2>1, <2>2 DEF TypeOK
<1>7. CASE WaitEvent
  <2>1. at' \in {"wait", "switch"} /\ (loop' # "ready" => at' = "wait")
    BY <1>7 DEF WaitEvent, Acks!Between, Acks!Wait, Acks!WaitEnds, Acks!WaitAgain,
       Acks!Take, Acks!Return
  <2> QED BY <1>4, <1>7, <2>1 DEF WaitEvent, sockVars, msgVars, TypeOK
<1>8. CASE HandleAckMsgEvent
  <2>1. Head(evts) \in 1 .. Len(received)
    BY <1>8, PendingStep, HeadTailProperties
  <2>2. acked' \in Seq(1 .. Len(received))
    <3> DEFINE e == Head(evts)
    <3> HIDE DEF e
    <3>1. e \in 1 .. Len(received) /\ acked' = IF sock = "open" THEN Append(acked, e) ELSE acked
      BY <1>8, <2>1 DEF e, HandleAckMsgEvent
    <3>2. acked \in Seq(1 .. Len(received))
      BY DEF TypeOK
    <3> DEFINE S == 1 .. Len(received)
    <3> HIDE DEF S
    <3>3. e \in S /\ acked \in Seq(S)
      BY <3>1, <3>2 DEF S
    <3>4. acked' \in Seq(S)
      BY <3>1, <3>3
    <3> QED BY <3>4 DEF S
  <2>3. UNCHANGED <<mStatus, at, late, sock, due, rx, received, forwarded>> /\ at' = "wait"
    BY <1>8 DEF HandleAckMsgEvent, sockVars
  <2> QED BY <1>4, <2>2, <2>3 DEF TypeOK
<1>9. ASSUME NEW m \in Messages, OnMessage(m) PROVE Ranges'
  <2>1. /\ received' \in Seq(Messages) /\ Len(received') = Len(received) + 1
        /\ received' # <<>> /\ Len(received') <= MaxMessages
    BY <1>2, <1>9, EmptySeq, SocketAssumption DEF OnMessage, TypeOK
  <2>2. \A q : q \in Seq(1 .. Len(received)) => q \in Seq(1 .. Len(received'))
    <3>1. 1 .. Len(received) \subseteq 1 .. Len(received')
      BY <1>2, <2>1
    <3> QED BY <3>1, WiderSeq
  <2> QED BY <1>1, <1>3, <1>9, <2>1, <2>2 DEF OnMessage, ackVars, TypeOK
<1>10. CASE Forward
  <2>1. received # <<>> /\ Len(received) \in 1 .. Len(received)
    BY <1>2, <1>10, EmptySeq DEF Forward, TypeOK
  <2>2. Forwarded \in Seq(1 .. Len(received))
    <3> DEFINE n == Len(received)
    <3> HIDE DEF n
    <3>1. <<n>> \in Seq(1 .. n) /\ <<>> \in Seq(1 .. n)
      BY <2>1 DEF n
    <3> QED BY <3>1 DEF n, Forwarded
  <2>3. forwarded' \in Seq(1 .. Len(received))
    BY <1>10, <2>2, ConcatProperties DEF Forward, TypeOK
  <2> QED BY <1>4, <1>10, <2>1, <2>3 DEF Forward, ackVars, TypeOK
<1>11. CASE PostAck
  <2>1. loop' # "ready" => loop # "ready"
    BY <1>11 DEF PostAck, Acks!PostEvent, ackVars
  <2> QED BY <1>4, <1>11, <2>1 DEF PostAck, msgVars, TypeOK
<1>12. CASE UNCHANGED vars
  BY <1>4, <1>12 DEF vars, ackVars, sockVars, msgVars, TypeOK
<1> QED BY <1>5, <1>6, <1>7, <1>8, <1>9, <1>10, <1>11, <1>12 DEF Next, Run, Callback, Peer

LEMMA SocketPlacesStep == ASSUME Ranges, SocketPlaces, [Next]_vars PROVE SocketPlaces'
<1> USE DEF SocketPlaces, ClosedIsTold
<1>1. CASE Switch
  BY <1>1 DEF Switch, Branch, sockVars, Ranges, TypeOK
<1>2. CASE Connect
  BY <1>2 DEF Connect
<1>3. CASE Open
  BY <1>3 DEF Open
<1>4. CASE Connecting \/ Connected
  BY <1>4 DEF Connecting, Connected, sockVars
<1>5. CASE Dispose \/ Reset
  BY <1>5 DEF Dispose, Reset
<1>6. CASE WaitEvent \/ HandleAckMsgEvent
  <2>1. at = "wait" /\ at' \in {"wait", "switch"} /\ UNCHANGED <<mStatus, sock, due>>
    BY <1>6 DEF WaitEvent, HandleAckMsgEvent, sockVars
  <2> QED BY <2>1
<1>7. CASE TimePasses \/ Forward \/ PostAck \/ \E m \in Messages : OnMessage(m)
  <2>1. UNCHANGED <<at, mStatus, sock, due>>
    BY <1>7 DEF TimePasses, Forward, PostAck, OnMessage, sockVars
  <2> QED BY <2>1
<1>8. CASE OnOpen \/ OnClosed
  BY <1>8 DEF OnOpen, OnClosed
<1>9. CASE Opened \/ OnError
  BY <1>9 DEF Opened, OnError, Quiet, Living
<1>10. CASE RemoteClose
  BY <1>10 DEF RemoteClose, Quiet, Living, Ranges, TypeOK
<1>11. CASE UNCHANGED vars
  BY <1>11 DEF vars, sockVars
<1> QED BY <1>1, <1>2, <1>3, <1>4, <1>5, <1>6, <1>7, <1>8, <1>9, <1>10, <1>11
        DEF Next, Run, Callback, Peer

LEMMA AlwaysInPlace == Spec => [](Ranges /\ SocketPlaces)
<1>1. Init => SocketPlaces
  BY DEF Init, SocketPlaces, ClosedIsTold
<1> QED BY <1>1, RangesInit, RangesStep, SocketPlacesStep, PTL DEF Spec

-------------------------------------------------------------------------------
(* The manager's variables keep their ranges: waitEvent runs only inside   *)
(* the Connected branch, and a message in work has its socket.             *)
THEOREM SocketTyping == Spec => []TypeOK
<1>1. Ranges => TypeOK
  BY DEF Ranges
<1> QED BY <1>1, AlwaysInPlace, PTL

(* connect() meets neither a living socket nor one whose onClosed, onError *)
(* or message handler could still write mStatus: disposing of the former   *)
(* socket waits for its callbacks, and nothing else leads to Idle.         *)
THEOREM AlwaysConnectsAfresh == Spec => []ConnectsAfresh
<1>1. Ranges /\ SocketPlaces => ConnectsAfresh
  BY DEF Ranges, TypeOK, SocketPlaces, ConnectsAfresh
<1> QED BY <1>1, AlwaysInPlace, PTL

(* Whatever way a socket closes, onClosed has written mStatus or is about  *)
(* to: run() never sits out WebSktConnectTimeout on a dead attempt.        *)
THEOREM ClosedIsAlwaysTold == Spec => []ClosedIsTold
<1>1. SocketPlaces => ClosedIsTold
  BY DEF SocketPlaces
<1> QED BY <1>1, AlwaysInPlace, PTL
-------------------------------------------------------------------------------
(* Ascending sequences of numbers, as they are appended to and shortened   *)
LEMMA OrderedAppend ==
  ASSUME NEW q \in Seq(Nat), NEW e \in Nat, Ordered(q), \A i \in 1 .. Len(q) : q[i] < e
  PROVE  Ordered(Append(q, e))
<1>1. Len(q) \in Nat /\ Len(Append(q, e)) = Len(q) + 1
  BY LenProperties
<1>2. \A i \in 1 .. Len(q) + 1 : Append(q, e)[i] = IF i <= Len(q) THEN q[i] ELSE e
  BY <1>1
<1> QED BY <1>1, <1>2 DEF Ordered

LEMMA OrderedTail ==
  ASSUME NEW q \in Seq(Nat), q # <<>>, Ordered(q)
  PROVE  /\ Ordered(Tail(q))
         /\ \A i \in 1 .. Len(Tail(q)) : Head(q) < Tail(q)[i] /\ Tail(q)[i] = q[i + 1]
         /\ Len(q) \in Nat \ {0} /\ Len(Tail(q)) = Len(q) - 1 /\ Head(q) = q[1]
<1>1. Len(q) \in Nat \ {0} /\ Len(Tail(q)) = Len(q) - 1 /\ Head(q) = q[1]
  BY EmptySeq, LenProperties, HeadTailProperties
<1>2. \A i \in 1 .. Len(Tail(q)) : Tail(q)[i] = q[i + 1]
  BY HeadTailProperties
<1> QED BY <1>1, <1>2 DEF Ordered

(* Message n may be acknowledged: it asks for that, and if MainManager has *)
(* to know of it, it does.                                                 *)
Follows(n) ==
  LET m == received[n]
  IN  m.cmd /\ (m.etype # "None" => \E j \in 1 .. Len(forwarded) : forwarded[j] = n)

(* The inductive form of AcksFollow: acknowledged, queued and in work, the *)
(* messages ascend, and handleRecvMsg has forwarded the last before it     *)
(* queues it.                                                              *)
AcksInOrder ==
  /\ Ordered(acked) /\ Ordered(forwarded) /\ Ordered(Acks!Pending)
  /\ \A i \in 1 .. Len(acked), j \in 1 .. Len(Acks!Pending) : acked[i] < Acks!Pending[j]
  /\ rx # "idle" => /\ \A i \in 1 .. Len(acked) : acked[i] < Len(received)
                    /\ \A j \in 1 .. Len(Acks!Pending) : Acks!Pending[j] < Len(received)
  /\ rx = "forward" => \A i \in 1 .. Len(forwarded) : forwarded[i] < Len(received)

Ackable == {n \in 1 .. Len(received) : Follows(n)}

AcksKnown ==
  /\ acked \in Seq(Ackable) /\ Acks!Pending \in Seq(Ackable)
  /\ rx = "ack" /\ Last(received).etype # "None" =>
       \E j \in 1 .. Len(forwarded) : forwarded[j] = Len(received)

(* The types of the numbers, as the following proofs need them             *)
LEMMA Numbers ==
  ASSUME Ranges
  PROVE  /\ acked \in Seq(Nat) /\ forwarded \in Seq(Nat) /\ Acks!Pending \in Seq(Nat)
         /\ Len(received) \in Nat
         /\ \A q \in {acked, forwarded, Acks!Pending} :
              Len(q) \in Nat /\ \A i \in 1 .. Len(q) : q[i] \in 1 .. Len(received)
<1>1. Len(received) \in Nat
  BY LenProperties DEF Ranges, TypeOK
<1>2. \A q : q \in Seq(1 .. Len(received)) => q \in Seq(Nat)
  BY <1>1, WiderSeq
<1>3. \A q \in {acked, forwarded, Acks!Pending} : q \in Seq(1 .. Len(received))
  BY DEF Ranges, TypeOK
<1>4. \A q \in {acked, forwarded, Acks!Pending} :
        Len(q) \in Nat /\ \A i \in 1 .. Len(q) : q[i] \in 1 .. Len(received)
  BY <1>3, LenProperties, ElementOfSeq
<1> QED BY <1>1, <1>2, <1>3, <1>4

(* Forwarding appends the message in work, or nothing.                     *)
LEMMA ForwardStep ==
  ASSUME Ranges, Forward
  PROVE  /\ Len(received) \in Nat \ {0} /\ Last(received) = received[Len(received)]
         /\ forwarded' = IF Last(received).etype # "None"
                         THEN Append(forwarded, Len(received)) ELSE forwarded
<1>1. received # <<>> /\ received \in Seq(Messages)
  BY DEF Forward, Ranges, TypeOK
<1>2. Len(received) \in Nat \ {0}
  BY <1>1, EmptySeq, LenProperties
<1>3. forwarded \in Seq(Nat)
  BY Numbers
<1>4. forwarded \o <<>> = forwarded
  BY <1>3, ConcatEmptySeq
<1>5. forwarded \o <<Len(received)>> = Append(forwarded, Len(received))
  BY <1>2, <1>3, AppendIsConcat
<1> QED BY <1>2, <1>4, <1>5 DEF Forward, Forwarded, Last

LEMMA AcksInOrderStep ==
  ASSUME Ranges, AcksInOrder, [Next]_vars PROVE AcksInOrder'
<1> USE DEF AcksInOrder
<1> DEFINE p == Acks!Pending
<1>1. TypeOK
  BY DEF Ranges
<1>2. CASE HandleAckMsgEvent
  <2>1. p # <<>> /\ Head(evts) = Head(p) /\ p' = Tail(p)
    BY <1>1, <1>2, PendingStep
  <2>2. UNCHANGED <<received, forwarded, rx>> /\ acked' \in {acked, Append(acked, Head(p))}
    BY <1>2, <2>1 DEF HandleAckMsgEvent, sockVars
  <2> HIDE DEF p
  <2>3. /\ p \in Seq(Nat) /\ acked \in Seq(Nat) /\ Len(acked) \in Nat
        /\ \A i \in 1 .. Len(acked) : acked[i] \in Nat
        /\ \A i \in 1 .. Len(p) : p[i] \in Nat
    BY Numbers DEF p
  <2>4. /\ Ordered(Tail(p))
        /\ \A i \in 1 .. Len(Tail(p)) : Head(p) < Tail(p)[i] /\ Tail(p)[i] = p[i + 1]
        /\ Len(p) \in Nat \ {0} /\ Len(Tail(p)) = Len(p) - 1 /\ Head(p) = p[1]
    BY <2>1, <2>3, OrderedTail DEF p
  <2>5. CASE acked' = acked
    BY <2>1, <2>2, <2>3, <2>4, <2>5 DEF p, Ordered
  <2>6. CASE acked' = Append(acked, Head(p))
    <3>1. \A i \in 1 .. Len(acked) : acked[i] < Head(p)
      BY <2>4 DEF p
    <3>2. Ordered(acked')
      BY <2>3, <2>4, <2>6, <3>1, OrderedAppend
    <3>3. Len(acked') = Len(acked) + 1
          /\ \A i \in 1 .. Len(acked') :
               acked'[i] = IF i <= Len(acked) THEN acked[i] ELSE Head(p)
      <4> DEFINE e == Head(p)
      <4>1. acked' = Append(acked, e) /\ e \in Nat
        BY <2>3, <2>4, <2>6
      <4> HIDE DEF e
      <4>2. Len(acked') = Len(acked) + 1
            /\ \A i \in 1 .. Len(acked') :
                 acked'[i] = IF i <= Len(acked) THEN acked[i] ELSE e
        BY <2>3, <4>1
      <4> QED BY <4>2 DEF e
    <3>4. \A i \in 1 .. Len(acked'), j \in 1 .. Len(p') : acked'[i] < p'[j]
      <4>1. \A i \in 1 .. Len(acked), j \in 1 .. Len(p) : acked[i] < p[j]
        BY DEF p
      <4>2. \A j \in 1 .. Len(Tail(p)) : j + 1 \in 1 .. Len(p) /\ 1 \in 1 .. Len(p)
        BY <2>4
      <4>3. \A i \in 1 .. Len(acked) + 1, j \in 1 .. Len(Tail(p)) :
              (IF i <= Len(acked) THEN acked[i] ELSE Head(p)) < Tail(p)[j]
        BY <2>3, <2>4, <4>1, <4>2
      <4> QED BY <2>1, <3>3, <4>3
    <3>5. rx # "idle" => /\ \A i \in 1 .. Len(acked') : acked'[i] < Len(received)
                         /\ \A j \in 1 .. Len(p') : p'[j] < Len(received)
      BY <2>1, <2>3, <2>4, <3>3 DEF p
    <3> QED BY <2>1, <2>2, <2>4, <3>2, <3>4, <3>5 DEF p, Ordered
  <2> QED BY <2>2, <2>5, <2>6
<1>3. CASE PostAck
  <2>1. UNCHANGED <<acked, forwarded, received>> /\ rx = "ack" /\ rx' = "idle"
    BY <1>3 DEF PostAck, msgVars
  <2>2. CASE p' = p
    BY <2>1, <2>2 DEF Ordered
  <2>3. CASE p' = Append(p, Len(received))
    <3> HIDE DEF p
    <3>1. /\ p \in Seq(Nat) /\ Len(received) \in Nat /\ Len(p) \in Nat
          /\ \A i \in 1 .. Len(p) : p[i] < Len(received)
          /\ \A i \in 1 .. Len(acked) : acked[i] < Len(received)
      BY <2>1, Numbers DEF p
    <3>2. Ordered(p')
      BY <2>3, <3>1, OrderedAppend DEF p
    <3>3. Len(p') = Len(p) + 1
          /\ \A i \in 1 .. Len(p') : p'[i] = IF i <= Len(p) THEN p[i] ELSE Len(received)
      BY <2>3, <3>1
    <3>4. \A i \in 1 .. Len(acked), j \in 1 .. Len(p') : acked[i] < p'[j]
      BY <3>1, <3>3 DEF p
    <3> QED BY <2>1, <3>2, <3>4 DEF p, Ordered
  <2> QED BY <1>1, <1>3, <2>2, <2>3, PendingStep
<1>4. CASE Forward
  <2>1. UNCHANGED <<acked, received>> /\ rx = "forward" /\ rx' = "ack" /\ p' = p
    <3>1. ~(PostAck \/ HandleAckMsgEvent)
      BY <1>4 DEF Forward, PostAck, HandleAckMsgEvent, sockVars
    <3> QED BY <1>1, <1>4, <3>1, PendingStep DEF Forward
  <2>2. Ordered(forwarded')
    BY <1>4, <2>1, ForwardStep, OrderedAppend, Numbers
  <2> QED BY <2>1, <2>2 DEF Ordered
<1>5. ASSUME NEW m \in Messages, OnMessage(m) PROVE AcksInOrder'
  <2>1. UNCHANGED <<acked, forwarded>> /\ rx' = "forward" /\ p' = p
    <3>1. ~(PostAck \/ HandleAckMsgEvent)
      BY <1>5 DEF OnMessage, Quiet, PostAck, HandleAckMsgEvent, sockVars
    <3> QED BY <1>1, <1>5, <3>1, PendingStep DEF OnMessage
  <2>2. Len(received') = Len(received) + 1 /\ Len(received) \in Nat
    BY <1>5, Numbers DEF OnMessage, Ranges, TypeOK
  <2>3. \A q \in {acked, forwarded, p} : \A i \in 1 .. Len(q) : q[i] < Len(received')
    BY <2>2, Numbers
  <2> QED BY <2>1, <2>3 DEF Ordered
<1>6. ASSUME UNCHANGED <<acked, forwarded, received>>, rx' \in {rx, "idle"}, p' = p
      PROVE  AcksInOrder'
  BY <1>6 DEF Ordered
<1>7. CASE WaitEvent \/ Switch \/ Connect \/ Open \/ Connecting \/ Connected \/ Dispose
           \/ Reset \/ TimePasses \/ OnOpen \/ RemoteClose \/ OnClosed \/ Opened \/ OnError
           \/ UNCHANGED vars
  <2>1. UNCHANGED <<acked, forwarded, received, rx>>
    BY <1>7 DEF WaitEvent, Switch, Connect, Open, Connecting, Connected, Dispose, Reset,
       TimePasses, OnOpen, RemoteClose, OnClosed, Opened, OnError, vars, sockVars, msgVars
  <2>2. CASE PostAck \/ HandleAckMsgEvent
    BY <1>2, <1>3, <2>2
  <2>3. CASE ~(PostAck \/ HandleAckMsgEvent)
    BY <1>1, <1>6, <2>1, <2>3, PendingStep
  <2> QED BY <2>2, <2>3
<1> HIDE DEF AcksInOrder
<1> QED BY <1>2, <1>3, <1>4, <1>5, <1>7 DEF Next, Run, Callback, Peer
(* Once a message may be acknowledged it always may.                       *)
LEMMA AckableGrows == ASSUME Ranges, [Next]_vars PROVE Ackable \subseteq Ackable'
<1>1. /\ Len(received) \in Nat /\ received \in Seq(Messages)
      /\ forwarded \in Seq(Nat) /\ Len(forwarded) \in Nat
  BY Numbers DEF Ranges, TypeOK
<1>2. received' = received \/ \E m \in Messages : received' = Append(received, m)
  BY DEF Next, Run, Callback, Peer, WaitEvent, Switch, Connect, Open, Connecting, Connected,
     Dispose, Reset, TimePasses, OnOpen, RemoteClose, OnClosed, Opened, OnError, vars,
     msgVars, HandleAckMsgEvent, Forward, PostAck, OnMessage
<1>3. /\ 1 .. Len(received) \subseteq 1 .. Len(received')
      /\ \A n \in 1 .. Len(received) : received'[n] = received[n]
  BY <1>1, <1>2
<1>4. /\ Len(forwarded') \in Nat /\ Len(forwarded) <= Len(forwarded')
      /\ \A j \in 1 .. Len(forwarded) : forwarded'[j] = forwarded[j]
  <2>1. CASE Forward
    <3> DEFINE n == Len(received)
               q == Append(forwarded, n)
    <3> HIDE DEF n, q
    <3>1. forwarded' \in {forwarded, q} /\ n \in Nat
      BY <1>1, <2>1, ForwardStep DEF n, q
    <3>2. Len(q) = Len(forwarded) + 1 /\ \A j \in 1 .. Len(forwarded) : q[j] = forwarded[j]
      BY <1>1, <3>1, AppendProperties DEF q
    <3> QED BY <1>1, <3>1, <3>2
  <2>2. CASE ~Forward
    <3>1. forwarded' = forwarded
      BY <2>2 DEF Next, Run, Callback, Peer, WaitEvent, Switch, Connect, Open, Connecting,
         Connected, Dispose, Reset, TimePasses, OnOpen, RemoteClose, OnClosed, Opened,
         OnError, vars, msgVars, HandleAckMsgEvent, PostAck, OnMessage
    <3> QED BY <1>1, <3>1
  <2> QED BY <2>1, <2>2
<1>5. \A j \in 1 .. Len(forwarded) : j \in 1 .. Len(forwarded') /\ forwarded'[j] = forwarded[j]
  BY <1>1, <1>4
<1> QED BY <1>3, <1>5 DEF Ackable, Follows

LEMMA AcksKnownStep == ASSUME Ranges, AcksKnown, [Next]_vars PROVE AcksKnown'
<1> USE DEF AcksKnown
<1> DEFINE p == Acks!Pending
<1>1. TypeOK
  BY DEF Ranges
<1>2. acked \in Seq(Ackable') /\ p \in Seq(Ackable')
  BY AckableGrows, WiderSeq
<1>3. CASE HandleAckMsgEvent
  <2> DEFINE e == Head(p)
  <2> HIDE DEF p, e
  <2>1. p # <<>> /\ p' = Tail(p) /\ acked' \in {acked, Append(acked, e)}
    BY <1>1, <1>3, PendingStep DEF p, e, HandleAckMsgEvent
  <2>2. e \in Ackable' /\ p' \in Seq(Ackable')
    BY <1>2, <2>1, HeadTailProperties DEF e
  <2>3. acked' \in Seq(Ackable')
    <3> DEFINE S == Ackable'
    <3>1. e \in S /\ acked \in Seq(S)
      BY <1>2, <2>2
    <3> HIDE DEF S
    <3>2. Append(acked, e) \in Seq(S)
      BY <3>1
    <3> QED BY <2>1, <3>1, <3>2 DEF S
  <2> QED BY <1>3, <2>2, <2>3 DEF p, HandleAckMsgEvent, sockVars
<1>4. CASE PostAck
  <2> HIDE DEF p
  <2>1. /\ UNCHANGED <<acked, forwarded, received>> /\ rx = "ack" /\ rx' = "idle"
        /\ p' = p \/ (Last(received).cmd /\ p' = Append(p, Len(received)))
    BY <1>1, <1>4, PendingStep DEF p, PostAck, msgVars
  <2>2. Last(received).cmd => Len(received) \in Ackable
    <3>1. Len(received) \in 1 .. Len(received)
      BY <2>1, <1>1, EmptySeq, Numbers DEF TypeOK
    <3>2. Last(received) = received[Len(received)]
      BY DEF Last
    <3> QED BY <2>1, <3>1, <3>2 DEF Ackable, Follows
  <2>3. p' \in Seq(Ackable')
    BY <1>2, <2>1, <2>2, AckableGrows, AppendProperties
  <2> QED BY <1>2, <2>1, <2>3 DEF p
<1>5. CASE Forward
  <2>1. UNCHANGED <<acked, received>> /\ rx = "forward" /\ rx' = "ack" /\ p' = p
    <3>1. ~(PostAck \/ HandleAckMsgEvent)
      BY <1>5 DEF Forward, PostAck, HandleAckMsgEvent, sockVars
    <3> QED BY <1>1, <1>5, <3>1, PendingStep DEF Forward
  <2>2. Last(received).etype # "None" =>
          \E j \in 1 .. Len(forwarded') : forwarded'[j] = Len(received)
    <3>1. forwarded \in Seq(Nat) /\ Len(forwarded) \in Nat /\ Len(received) \in Nat
      BY Numbers
    <3>2. Last(received).etype # "None" =>
            /\ Len(forwarded') = Len(forwarded) + 1
            /\ forwarded'[Len(forwarded) + 1] = Len(received)
      BY <1>5, <3>1, ForwardStep, AppendProperties
    <3> QED BY <3>1, <3>2
  <2> QED BY <1>2, <2>1, <2>2
<1>6. CASE ~(HandleAckMsgEvent \/ PostAck \/ Forward)
  <2>1. p' = p
    BY <1>1, <1>6, PendingStep
  <2>2. UNCHANGED <<acked, forwarded>> /\ (rx' = "ack" => rx = "ack" /\ received' = received)
    BY <1>6 DEF Next, Run, Callback, Peer, WaitEvent, Switch, Connect, Open, Connecting,
       Connected, Dispose, Reset, TimePasses, OnOpen, RemoteClose, OnClosed, Opened,
       OnError, vars, sockVars, msgVars, OnMessage
  <2> QED BY <1>2, <2>1, <2>2
<1> QED BY <1>3, <1>4, <1>5, <1>6

LEMMA AcksInit == ASSUME Init PROVE AcksInOrder /\ AcksKnown
<1>1. Acks!Pending = <<>>
  BY ConcatEmptySeq, EmptySeq DEF Init, Acks!Init, Acks!Pending
<1>2. rx = "idle" /\ acked = <<>> /\ forwarded = <<>>
  BY DEF Init
<1>3. \A S : <<>> \in Seq(S)
  OBVIOUS
<1> QED BY <1>1, <1>2, <1>3, EmptySeq DEF AcksInOrder, AcksKnown, Ordered

(* Acknowledgements leave in the order of the messages, each once and each *)
(* after its message was handed to MainManager: over every connection the  *)
(* queue outlives, whenever run() drops out of waitEvent, and whatever     *)
(* send refuses.                                                           *)
THEOREM AcksAlwaysFollow == Spec => []AcksFollow
<1>1. Ranges /\ AcksInOrder /\ AcksKnown => AcksFollow
  <2> SUFFICES ASSUME Ranges, AcksInOrder, AcksKnown PROVE AcksFollow
    OBVIOUS
  <2>1. \A i \in 1 .. Len(acked) : acked[i] \in Ackable
    BY ElementOfSeq DEF AcksKnown
  <2>2. Ordered(acked) /\ Ordered(forwarded)
    BY DEF AcksInOrder
  <2> QED BY <2>1, <2>2 DEF AcksFollow, Ackable, Follows
<1>2. Spec => [](Ranges /\ AcksInOrder /\ AcksKnown)
  BY AlwaysInPlace, AcksInit, AcksInOrderStep, AcksKnownStep, PTL DEF Spec
<1> QED BY <1>1, <1>2, PTL
(* The manager uses its event loop as EventLoop.h provides for: whatever   *)
(* holds of a loop holds of the acknowledgements.                          *)
THEOREM AcksAreALoop == Spec => Acks!Spec
<1>1. Init => Acks!Init
  BY DEF Init
<1>2. Ranges /\ [Next]_vars => [Acks!Next]_ackVars
  BY LoopStep DEF Ranges
<1>3. [Acks!Next]_ackVars => [Acks!Next]_(Acks!loopVars)
  BY DEF ackVars, Acks!loopVars
<1> QED BY <1>1, <1>2, <1>3, AlwaysInPlace, PTL DEF Spec, Acks!Spec
===============================================================================
