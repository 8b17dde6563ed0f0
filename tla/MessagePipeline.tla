---------------------------- MODULE MessagePipeline ----------------------------
(***************************************************************************)
(* MainManager starts its five managers one after the other and forwards   *)
(* what the WebSocket posts to it: upload messages to UploadManager,       *)
(* deploy messages to DownloadManager.  Three event loops of the same      *)
(* class, each on its own thread; the handlers at the end do nothing yet.  *)
(***************************************************************************)
EXTENDS Naturals, Sequences

CONSTANTS
  Event,       \* the events the WebSocket may post: a type and a payload
  MaxPending   \* bound on each queue

EventType == {"UploadMsg", "DeployMsg"}

ASSUME PipelineAssumption ==
  /\ \A e \in Event : e.type \in EventType
  /\ MaxPending \in Nat \ {0}

VARIABLES
  started,     \* the managers MainManager::run has started
  mainEvents, mainLoop, mainCall, mainEvts,
  upEvents, upLoop, upCall, upEvts,
  downEvents, downLoop, downCall, downEvts

mainVars == <<mainEvents, mainLoop, mainCall, mainEvts>>
upVars == <<upEvents, upLoop, upCall, upEvts>>
downVars == <<downEvents, downLoop, downCall, downEvts>>
vars == <<started, mainVars, upVars, downVars>>

WaitAll == {[all |-> TRUE, timed |-> TRUE]}  \* waitAllEvents(1000 ms)

Main == INSTANCE EventLoop WITH
  mEvents <- mainEvents, loop <- mainLoop, call <- mainCall,
  evts <- mainEvts, Calls <- WaitAll
Upload == INSTANCE EventLoop WITH
  mEvents <- upEvents, loop <- upLoop, call <- upCall,
  evts <- upEvts, Calls <- WaitAll
Download == INSTANCE EventLoop WITH
  mEvents <- downEvents, loop <- downLoop, call <- downCall,
  evts <- downEvts, Calls <- WaitAll

Managers == <<"WebRtc", "WebSocket", "File", "Upload", "Download">>
Running(manager) == \E i \in 1 .. started : Managers[i] = manager

Init ==
  /\ started = 0
  /\ Main!Init /\ Upload!Init /\ Download!Init

-------------------------------------------------------------------------------
(* MainManager::run: login() returns whatever happens in it, the managers  *)
(* are started, then the loop runs.                                        *)

Start ==
  /\ started < Len(Managers)
  /\ started' = started + 1
  /\ UNCHANGED <<mainVars, upVars, downVars>>

(* Mutant of MainBetween: the loop does not wait for the managers. *)
MainBetweenEarly ==
  /\ Main!Between
  /\ UNCHANGED <<started, upVars, downVars>>

MainBetween ==
  /\ started = Len(Managers)
  /\ Main!Between
  /\ UNCHANGED <<started, upVars, downVars>>

(* Mutant of HandleUploadMsgEvent: a message that finds the manager busy   *)
(* is dropped.                                                             *)
HandleUploadMsgEventIfIdle ==
  /\ Main!Dispatch
  /\ Head(mainEvts).type = "UploadMsg"
  /\ IF upLoop = "handling" THEN UNCHANGED upVars
     ELSE Upload!PostEvent(Head(mainEvts))
  /\ UNCHANGED <<started, downVars>>

HandleUploadMsgEvent ==
  /\ Main!Dispatch
  /\ Head(mainEvts).type = "UploadMsg"
  /\ Upload!PostEvent(Head(mainEvts))
  /\ UNCHANGED <<started, downVars>>

(* Mutant of HandleDeployMsgEvent: the event is left for the next round.   *)
HandleDeployMsgEventAgain ==
  /\ mainLoop = "handling" /\ mainEvts # <<>>
  /\ Head(mainEvts).type = "DeployMsg"
  /\ mainEvts' = Append(Tail(mainEvts), Head(mainEvts))
  /\ UNCHANGED <<mainEvents, mainLoop, mainCall, started, upVars, downVars>>

HandleDeployMsgEvent ==
  /\ Main!Dispatch
  /\ Head(mainEvts).type = "DeployMsg"
  /\ Download!PostEvent(Head(mainEvts))
  /\ UNCHANGED <<started, upVars>>

-------------------------------------------------------------------------------
(* The WebSocket's thread forwards a message. *)
Forward(e) ==
  /\ Running("WebSocket")
  /\ Main!PostEvent(e)
  /\ UNCHANGED <<started, upVars, downVars>>

UploadStep ==
  /\ Running("Upload")
  /\ Upload!Between \/ Upload!Dispatch
  /\ UNCHANGED <<started, mainVars, downVars>>

DownloadStep ==
  /\ Running("Download")
  /\ Download!Between \/ Download!Dispatch
  /\ UNCHANGED <<started, mainVars, upVars>>

MainStep == Start \/ MainBetween \/ HandleUploadMsgEvent \/ HandleDeployMsgEvent

Next == (\E e \in Event : Forward(e)) \/ MainStep \/ UploadStep \/ DownloadStep

Spec == Init /\ [][Next]_vars

(* Each thread is scheduled; nothing is assumed of the server. *)
FairSpec == Spec /\ WF_vars(MainStep) /\ WF_vars(UploadStep) /\ WF_vars(DownloadStep)

-------------------------------------------------------------------------------
(* Each of the three loops keeps its variables in their ranges, and none   *)
(* runs before its thread is started.                                      *)
TypeOK ==
  /\ started \in 0 .. Len(Managers)
  /\ Main!TypeOK /\ Upload!TypeOK /\ Download!TypeOK
  /\ started < Len(Managers) => mainLoop = "ready" /\ downLoop = "ready"
  /\ ~Running("Upload") => upLoop = "ready"

(* Two threads and two queues away, each manager still sees the messages   *)
(* of its type once and in the order the WebSocket received them.          *)
OfType(q, type) ==
  LET kept[i \in 0 .. Len(q)] ==
        IF i = 0 THEN <<>>
        ELSE IF q[i].type = type THEN Append(kept[i - 1], q[i]) ELSE kept[i - 1]
  IN  kept[Len(q)]
UploadPending == Upload!Pending \o OfType(Main!Pending, "UploadMsg")
DownloadPending == Download!Pending \o OfType(Main!Pending, "DeployMsg")

UploadChannel == INSTANCE EventFifo WITH pending <- UploadPending
DownloadChannel == INSTANCE EventFifo WITH pending <- DownloadPending
ChannelsInOrder == UploadChannel!Spec /\ DownloadChannel!Spec

(* No message waits for ever: as long as some are on their way, the        *)
(* manager they are for goes on handling them.                             *)
ChannelsHandled ==
  /\ []<>(UploadPending = <<>>) \/ []<><<UploadChannel!Handle>>_UploadPending
  /\ []<>(DownloadPending = <<>>) \/ []<><<DownloadChannel!Handle>>_DownloadPending
===============================================================================
