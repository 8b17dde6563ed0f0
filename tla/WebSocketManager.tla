---------------------------- MODULE WebSocketManager ----------------------------
(***************************************************************************)
(* dcdn/WebSocketManager.cpp: run() drives one rtc::WebSocket by mStatus,  *)
(* which the socket's callbacks, on a thread of libdatachannel, write too. *)
(* A received message is forwarded to MainManager and acknowledged through *)
(* the manager's own event loop, read one event at a time by waitEvent.    *)
(***************************************************************************)
EXTENDS Naturals, Sequences, SequencesExt

CONSTANTS
  FirstStatus,   \* what the uninitialised mStatus may hold
  Messages,      \* the messages a server may send: event type and cmd_id or not
  MaxMessages    \* bound on the messages received

MsgEvents == {"None", "UploadMsg", "DeployMsg"}

ASSUME SocketAssumption ==
  /\ FirstStatus \subseteq {"Idle", "Connecting", "Connected", "Closed", "other"}
  /\ Messages \subseteq [etype : MsgEvents, cmd : BOOLEAN]
  /\ MaxMessages \in Nat \ {0}

VARIABLES
  mStatus,
  at,          \* where run() is
  late,        \* WebSktConnectTimeout is over for this attempt
  mEvents, loop, call, evts,  \* the loop of acknowledgements, by message number
  \* libdatachannel
  sock,        \* state of the WebSocket mWebSkt points to
  due,         \* what its thread does next
  rx,          \* where handleRecvMsg is, for the last of received
  \* history
  received,    \* the messages, in the order of their callbacks
  forwarded,   \* numbers of those posted to MainManager
  acked        \* numbers of those acknowledged to the server

ackVars == <<mEvents, loop, call, evts>>
sockVars == <<sock, due, rx>>
msgVars == <<received, forwarded, acked>>
vars == <<mStatus, at, late, ackVars, sockVars, msgVars>>

Acks == INSTANCE EventLoop WITH
  Event <- 1 .. MaxMessages, Calls <- {[all |-> FALSE, timed |-> TRUE]},
  MaxPending <- MaxMessages

Init ==
  /\ mStatus \in FirstStatus
  /\ at = "switch" /\ late = FALSE
  /\ Acks!Init
  /\ sock = "none" /\ due = "nothing" /\ rx = "idle"
  /\ received = <<>> /\ forwarded = <<>> /\ acked = <<>>

-------------------------------------------------------------------------------
(* run().  No branch is taken on any other value of mStatus. *)

Branch(status) ==
  CASE status = "Idle" -> "connect" [] status = "Connecting" -> "connecting"
    [] status = "Connected" -> "connected" [] status = "Closed" -> "dispose"
    [] OTHER -> "switch"

Switch ==
  /\ at = "switch"
  /\ at' = Branch(mStatus)
  /\ UNCHANGED <<mStatus, late, ackVars, sockVars, msgVars>>

(* connect() up to mWebSkt = ws; making the socket may throw. *)
Connect ==
  /\ at = "connect"
  /\ late' = FALSE
  /\ \/ mStatus' = "Connecting" /\ sock' = "made" /\ at' = "open"
     \/ mStatus' = "Closed" /\ at' = "switch" /\ UNCHANGED sock
  /\ UNCHANGED <<ackVars, due, rx, msgVars>>

Open ==
  /\ at = "open"
  /\ at' = "switch"
  /\ \/ sock' = "connecting" /\ UNCHANGED mStatus
     \/ sock' = "closed" /\ mStatus' = "Closed"
  /\ UNCHANGED <<late, ackVars, due, rx, msgVars>>

(* Mutant of Connecting: no timeout. *)
ConnectingForEver ==
  /\ at = "connecting"
  /\ at' = "switch"
  /\ UNCHANGED <<mStatus, late, ackVars, sockVars, msgVars>>

(* The attempt has timed out, or run() sleeps a second. *)
Connecting ==
  /\ at = "connecting"
  /\ at' = "switch"
  /\ mStatus' = IF late THEN "Closed" ELSE mStatus
  /\ UNCHANGED <<late, ackVars, sockVars, msgVars>>

TimePasses ==
  /\ ~late
  /\ late' = TRUE
  /\ UNCHANGED <<mStatus, at, ackVars, sockVars, msgVars>>

Connected ==
  /\ at = "connected"
  /\ IF sock = "open"
     THEN at' = "wait" /\ UNCHANGED mStatus
     ELSE at' = "switch" /\ mStatus' = "Closed"
  /\ UNCHANGED <<late, ackVars, sockVars, msgVars>>

(* ~WebSocket: remoteClose, which calls onClosed at once, ... *)
Dispose ==
  /\ at = "dispose"
  /\ at' = "reset"
  /\ IF sock \in {"connecting", "open"}
     THEN sock' = "closed" /\ mStatus' = "Closed"
     ELSE UNCHANGED <<sock, mStatus>>
  /\ UNCHANGED <<late, ackVars, due, rx, msgVars>>

(* Mutant of Reset: mWebSkt keeps the closed socket. *)
ResetKeeping ==
  /\ at = "reset"
  /\ rx = "idle"
  /\ mStatus' = "Idle"
  /\ at' = "switch"
  /\ UNCHANGED <<late, ackVars, sockVars, msgVars>>

(* ... and resetCallbacks, which waits for the callback that runs. *)
Reset ==
  /\ at = "reset"
  /\ rx = "idle"
  /\ sock' = "none" /\ due' = "nothing"
  /\ mStatus' = "Idle"
  /\ at' = "switch"
  /\ UNCHANGED <<late, ackVars, rx, msgVars>>

-------------------------------------------------------------------------------
(* waitEvent, and handleAckMsgEvent, whose send throws on a socket that is *)
(* no longer open                                                          *)

(* Mutant of WaitEvent: the end of the wait ends waitEvent. *)
WaitEventAbandoned ==
  /\ at = "wait"
  /\ Acks!Between
  /\ at' = IF loop = "waiting" THEN "switch" ELSE at
  /\ UNCHANGED <<mStatus, late, sockVars, msgVars>>

WaitEvent ==
  /\ at = "wait"
  /\ Acks!Between
  /\ at' = IF loop = "handling" THEN "switch" ELSE at
  /\ UNCHANGED <<mStatus, late, sockVars, msgVars>>

HandleAckMsgEvent ==
  /\ at = "wait"
  /\ Acks!Dispatch
  /\ acked' = IF sock = "open" THEN Append(acked, Head(evts)) ELSE acked
  /\ UNCHANGED <<mStatus, at, late, sockVars, received, forwarded>>

-------------------------------------------------------------------------------
(* The socket's thread, one callback at a time *)

Quiet == due = "nothing" /\ rx = "idle"
Living == sock \in {"connecting", "open"}

Opened ==
  /\ sock = "connecting" /\ Quiet
  /\ sock' = "open" /\ due' = "onOpen"
  /\ UNCHANGED <<mStatus, at, late, ackVars, rx, msgVars>>

OnOpen ==
  /\ due = "onOpen"
  /\ mStatus' = "Connected" /\ due' = "nothing"
  /\ UNCHANGED <<at, late, ackVars, sock, rx, msgVars>>

(* The error is reported first, the socket closed next. *)
OnError ==
  /\ Living /\ Quiet
  /\ mStatus' = "Closed" /\ due' = "close"
  /\ UNCHANGED <<at, late, ackVars, sock, rx, msgVars>>

RemoteClose ==
  /\ \/ Living /\ Quiet
     \/ due = "close"
  /\ sock' = "closed"
  /\ due' = IF Living THEN "onClosed" ELSE "nothing"
  /\ UNCHANGED <<mStatus, at, late, ackVars, rx, msgVars>>

(* Mutant of OnClosed: the status is left alone. *)
OnClosedSilently ==
  /\ due = "onClosed"
  /\ due' = "nothing"
  /\ UNCHANGED <<mStatus, at, late, ackVars, sock, rx, msgVars>>

OnClosed ==
  /\ due = "onClosed"
  /\ mStatus' = "Closed" /\ due' = "nothing"
  /\ UNCHANGED <<at, late, ackVars, sock, rx, msgVars>>

OnMessage(m) ==
  /\ sock = "open" /\ Quiet
  /\ Len(received) < MaxMessages
  /\ received' = Append(received, m)
  /\ rx' = "forward"
  /\ UNCHANGED <<mStatus, at, late, ackVars, sock, due, forwarded, acked>>

-------------------------------------------------------------------------------
(* handleRecvMsg *)

Forwarded == IF Last(received).etype # "None" THEN <<Len(received)>> ELSE <<>>

(* mMan->PostEvent *)
Forward ==
  /\ rx = "forward"
  /\ rx' = "ack"
  /\ forwarded' = forwarded \o Forwarded
  /\ UNCHANGED <<mStatus, at, late, ackVars, sock, due, received, acked>>

(* Mutant of PostAck: a message of unknown type is not acknowledged. *)
PostAckOfForwarded ==
  /\ rx = "ack"
  /\ rx' = "idle"
  /\ IF Last(received).cmd /\ Forwarded # <<>>
     THEN Acks!PostEvent(Len(received)) ELSE UNCHANGED ackVars
  /\ UNCHANGED <<mStatus, at, late, sock, due, msgVars>>

PostAck ==
  /\ rx = "ack"
  /\ rx' = "idle"
  /\ IF Last(received).cmd THEN Acks!PostEvent(Len(received)) ELSE UNCHANGED ackVars
  /\ UNCHANGED <<mStatus, at, late, sock, due, msgVars>>

-------------------------------------------------------------------------------
Run == Switch \/ Connect \/ Open \/ Connecting \/ Connected \/ Dispose \/ Reset
       \/ WaitEvent \/ HandleAckMsgEvent

Callback == OnOpen \/ (due = "close" /\ RemoteClose) \/ OnClosed \/ Forward \/ PostAck

Peer == Opened \/ OnError \/ RemoteClose \/ \E m \in Messages : OnMessage(m)

Next == Run \/ TimePasses \/ Callback \/ Peer

(* run() and a callback in progress are scheduled and time passes; the     *)
(* server owes nothing.                                                    *)
Spec == Init /\ [][Next]_vars
             /\ WF_vars(Run) /\ WF_vars(Callback) /\ WF_vars(TimePasses)

-------------------------------------------------------------------------------
(* The variables stay in their ranges; waitEvent runs only inside the      *)
(* Connected branch, and no message is in work on a socket that is gone.   *)
TypeOK ==
  /\ mStatus \in FirstStatus \cup {"Idle", "Connecting", "Connected", "Closed"}
  /\ at \in {"switch", "connect", "open", "connecting", "connected", "wait",
             "dispose", "reset"}
  /\ late \in BOOLEAN
  /\ Acks!TypeOK
  /\ loop # "ready" => at = "wait"
  /\ sock \in {"none", "made", "connecting", "open", "closed"}
  /\ due \in {"nothing", "onOpen", "close", "onClosed"}
  /\ rx \in {"idle", "forward", "ack"}
  /\ rx # "idle" => received # <<>> /\ sock \in {"open", "closed"}
  /\ received \in Seq(Messages) /\ Len(received) <= MaxMessages
  /\ \A q \in {forwarded, acked} : q \in Seq(1 .. Len(received))

(* The server sees acknowledgements in the order of its messages, each at  *)
(* most once, over all the connections they outlive in the queue, and each *)
(* only after the message was handed to MainManager.                       *)
Ordered(q) == \A i, j \in 1 .. Len(q) : i < j => q[i] < q[j]
AcksFollow ==
  /\ Ordered(acked) /\ Ordered(forwarded)
  /\ \A i \in 1 .. Len(acked) :
       LET m == received[acked[i]]
       IN  m.cmd /\ (m.etype # "None" => \E j \in 1 .. Len(forwarded) : forwarded[j] = acked[i])

(* connect() never meets a former socket: none that lives, none whose      *)
(* callbacks could still overwrite the status of the new attempt.          *)
ConnectsAfresh == at \in {"connect", "open"} => due = "nothing" /\ rx = "idle"
                  /\ sock \in {"none", "made"} /\ (at = "connect" => sock = "none")

(* run() never waits out the connection timeout on a socket that has       *)
(* already closed: onClosed has told it, or is about to.                   *)
ClosedIsTold == sock = "closed" /\ mStatus = "Connecting" => due = "onClosed"

(* The manager never gives up: there is an open socket, or sooner or later *)
(* a new attempt, whatever the server and its timing.  Only a value of the *)
(* uninitialised mStatus that is none of the enumeration makes run() spin. *)
KeepsTrying == mStatus = "other" \/ []<>(sock = "open") \/ []<>(at = "connect")

(* A message is acknowledged if the socket it came through stays open.     *)
AckedWhileOpen ==
  \A n \in 1 .. MaxMessages :
    (rx = "ack" /\ Len(received) = n /\ Last(received).cmd /\ [](sock = "open"))
      ~> (\E i \in 1 .. Len(acked) : acked[i] = n)
===============================================================================
