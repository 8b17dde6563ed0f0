--------------------------- MODULE MainManagerProofs ---------------------------
(***************************************************************************)
(* Theorems about MainManager, for any number of threads that call Init.   *)
(***************************************************************************)
EXTENDS MainManager, TLAPS

(* The comparison of Init: whoever is past it has published its own        *)
(* manager, and there is a thread exactly when its maker has started it.   *)
OwnerInv ==
  /\ caller \in [Callers -> {"out", "constructed", "published", "refused",
                             "tables", "failed", "ready", "started"}]
  /\ singlet \in Callers \cup {NoOne}
  /\ threads \in {0, 1}
  /\ \A c \in Callers :
       caller[c] \in {"published", "tables", "failed", "ready", "started"} => singlet = c
  /\ threads = 1 <=> \E c \in Callers : caller[c] = "started"

(* Start() is called once.                                                 *)
LEMMA StartIsFirst == ASSUME OwnerInv, NEW c \in Callers, Start(c) PROVE threads = 0
<1> SUFFICES ASSUME threads = 1 PROVE FALSE
  BY DEF OwnerInv
<1>1. PICK d \in Callers : caller[d] = "started"
  BY DEF OwnerInv
<1>2. d = c
  BY <1>1, CallersAssumption DEF Start, OwnerInv
<1> QED BY <1>1, <1>2 DEF Start

(* No step of a caller lets a second manager past the comparison.          *)
LEMMA CallerKeepsOwner ==
  ASSUME OwnerInv, NEW c \in Callers,
         Construct(c) \/ Publish(c) \/ CreateTable(c) \/ LoadFromDB(c) \/ Start(c)
  PROVE  OwnerInv'
<1> USE CallersAssumption DEF OwnerInv
<1>1. CASE Construct(c)
  BY <1>1 DEF Construct
<1>2. CASE Publish(c)
  <2>1. CASE singlet = NoOne
    BY <1>2, <2>1 DEF Publish
  <2>2. CASE singlet # NoOne
    BY <1>2, <2>2 DEF Publish
  <2> QED BY <2>1, <2>2
<1>3. CASE CreateTable(c)
  BY <1>3 DEF CreateTable
<1>4. CASE LoadFromDB(c)
  BY <1>4 DEF LoadFromDB
<1>5. CASE Start(c)
  <2>1. threads = 0
    BY <1>5, StartIsFirst
  <2>2. threads' = 1 /\ singlet' = singlet
    BY <1>5, <2>1 DEF Start
  <2>3. caller' = [caller EXCEPT ![c] = "started"] /\ caller[c] = "ready"
    BY <1>5 DEF Start
  <2> QED BY <2>2, <2>3
<1> QED BY <1>1, <1>2, <1>3, <1>4, <1>5

LEMMA OwnerInvariance == Spec => []OwnerInv
<1>1. Init => OwnerInv
  BY CallersAssumption DEF Init, OwnerInv
<1>2. OwnerInv /\ [Next]_vars => OwnerInv'
  <2> SUFFICES ASSUME OwnerInv, [Next]_vars PROVE OwnerInv'
    OBVIOUS
  <2>1. CASE Caller
    BY <2>1, CallerKeepsOwner DEF Caller
  <2>2. CASE Login \/ StartWebRtc \/ WebRtcRuns \/ CallbackRuns \/ AgentGathers \/ TimePasses
    BY <2>2 DEF OwnerInv, Login, StartWebRtc, WebRtcRuns, CallbackRuns,
                AgentGathers, TimePasses, initVars
  <2>3. CASE UNCHANGED vars
    BY <2>3 DEF OwnerInv, vars, initVars
  <2> QED BY <2>1, <2>2, <2>3 DEF Next
<1> QED BY <1>1, <1>2, PTL DEF Spec

(* However many threads call Init at once, the published manager is run by *)
(* at most one thread, started by the one who made and initialised it.     *)
THEOREM OneManagerAlways == Spec => []OneManagerRuns
<1>1. OwnerInv => OneManagerRuns
  BY CallersAssumption DEF OwnerInv, OneManagerRuns
<1> QED BY <1>1, OwnerInvariance, PTL

-------------------------------------------------------------------------------
(* What a gathering that is under way has told and still has to tell       *)
UnderWay ==
  \/ conn = "gathering" /\ changes \subseteq {"InProgress"}
  \/ conn = "complete" /\ "Complete" \in changes /\ changes \subseteq {"InProgress", "Complete"}

Settled == conn \in {"none", "complete", "gone"} /\ changes = {}

Whole == conn = "complete" /\ changes = {}

(* Place of the thread, status and state of the connection together        *)
GatherInv ==
  /\ mGatherStatus \in {"GatherIdle", "GatherRunning", "GatherDone"}
  /\ at \in {"switch", "construct", "channel", "assign", "describe", "report"}
  /\ at = "switch" =>
       CASE mGatherStatus = "GatherIdle" -> Settled
         [] mGatherStatus = "GatherDone" -> Whole /\ mPc = "newest" /\ mSdp # "newest"
         [] OTHER -> \/ thrown /\ Settled
                     \/ UnderWay /\ mPc = "newest" /\ mSdp # "newest"
  /\ at = "construct" => Settled /\ mGatherStatus = "GatherRunning"
  /\ at = "channel" => /\ conn = "new" /\ changes = {} /\ mSdp # "newest"
                       /\ mGatherStatus = "GatherRunning"
  /\ at = "assign" => /\ mSdp # "newest"
                      /\ \/ mGatherStatus = "GatherRunning" /\ UnderWay
                         \/ mGatherStatus = "GatherDone" /\ Whole
  /\ at = "describe" => /\ Whole /\ mPc = "newest" /\ mSdp # "newest"
                        /\ mGatherStatus = "GatherIdle"
  /\ at = "report" => Whole /\ mGatherStatus = "GatherIdle"

(* The manager's thread goes through a round without losing track of the   *)
(* connection.                                                             *)
LEMMA RunKeepsGathering == ASSUME GatherInv, WebRtc!Run PROVE GatherInv'
<1> USE DEF GatherInv, Settled, Whole, UnderWay
<1>1. CASE WebRtc!Begin
  BY <1>1 DEF WebRtc!Begin
<1>2. CASE WebRtc!Sleep
  BY <1>2 DEF WebRtc!Sleep, WebRtc!vars
<1>3. CASE WebRtc!Done
  BY <1>3 DEF WebRtc!Done
<1>4. CASE WebRtc!Construct
  BY <1>4 DEF WebRtc!Construct
<1>5. CASE WebRtc!CreateDataChannel
  BY <1>5 DEF WebRtc!CreateDataChannel
<1>6. CASE WebRtc!Assign
  BY <1>6 DEF WebRtc!Assign
<1>7. CASE WebRtc!GatherThrows
  BY <1>7 DEF WebRtc!GatherThrows
<1>8. CASE WebRtc!GatherDone
  BY <1>8 DEF WebRtc!GatherDone
<1>9. CASE WebRtc!GatherDoneThrows
  BY <1>9 DEF WebRtc!GatherDoneThrows
<1>10. CASE WebRtc!Report
  BY <1>10 DEF WebRtc!Report
<1> QED
  BY <1>1, <1>2, <1>3, <1>4, <1>5, <1>6, <1>7, <1>8, <1>9, <1>10 DEF WebRtc!Run

(* The callback ends the gathering it belongs to and no other.             *)
LEMMA CallbackKeepsGathering ==
  ASSUME GatherInv, WebRtc!OnGatheringStateChange PROVE GatherInv'
<1> USE DEF GatherInv, Settled, Whole, UnderWay, WebRtc!OnGatheringStateChange
<1>1. UnderWay /\ at \in {"switch", "assign"} /\ mGatherStatus = "GatherRunning"
  OBVIOUS
<1>2. PICK change \in changes :
        /\ WebRtc!IsNext(change)
        /\ changes' = changes \ {change}
        /\ mGatherStatus' = IF change = "Complete" THEN "GatherDone" ELSE mGatherStatus
  OBVIOUS
<1>3. CASE change = "InProgress"
  BY <1>1, <1>2, <1>3
<1>4. CASE change = "Complete"
  <2>1. changes' = {}
    BY <1>1, <1>2, <1>4 DEF WebRtc!IsNext
  <2> QED BY <1>1, <1>2, <1>4, <2>1
<1> QED BY <1>1, <1>2, <1>3, <1>4

(* The agent of the connection may finish at any time.                     *)
LEMMA GatheredKeepsGathering ==
  ASSUME GatherInv, WebRtc!Gathered PROVE GatherInv'
<1> USE DEF GatherInv, Settled, Whole, UnderWay, WebRtc!Gathered
<1>1. UnderWay /\ at \in {"switch", "assign"} /\ mGatherStatus = "GatherRunning"
  OBVIOUS
<1> QED BY <1>1

(* Every step keeps GatherInv.                                             *)
LEMMA GatherInvariance == Spec => []GatherInv
<1>1. Init => GatherInv
  BY DEF Init, WebRtc!Init, GatherInv, Settled
<1>2. GatherInv /\ [Next]_vars => GatherInv'
  <2> SUFFICES ASSUME GatherInv, [Next]_vars PROVE GatherInv'
    OBVIOUS
  <2>1. CASE Caller \/ Login \/ StartWebRtc
    BY <2>1 DEF Caller, Construct, Publish, CreateTable, LoadFromDB, Start, Login,
                StartWebRtc, rtcVars, GatherInv, Settled, Whole, UnderWay
  <2>2. CASE WebRtcRuns
    BY <2>2, RunKeepsGathering DEF WebRtcRuns
  <2>3. CASE CallbackRuns
    BY <2>3, CallbackKeepsGathering DEF CallbackRuns
  <2>4. CASE AgentGathers
    BY <2>4, GatheredKeepsGathering DEF AgentGathers
  <2>5. CASE TimePasses \/ UNCHANGED vars
    BY <2>5 DEF TimePasses, WebRtc!TimePasses, vars, rtcVars, GatherInv, Settled, Whole, UnderWay
  <2> QED BY <2>1, <2>2, <2>3, <2>4, <2>5 DEF Next
<1> QED BY <1>1, <1>2, PTL DEF Spec

(* gatherDone() meets neither a null pointer nor a connection that is      *)
(* still gathering, and reports each round once.                           *)
THEOREM DescribesGatheredAlways == Spec => []DescribesGathered
<1>1. GatherInv => DescribesGathered
  BY DEF GatherInv, Whole, DescribesGathered, WebRtc!DescribesGathered
<1> QED BY <1>1, GatherInvariance, PTL

(* A connection is made only when the one before has told everything, so   *)
(* no callback of an older one meets a newer one.                          *)
THEOREM OneAtATimeAlways == Spec => OneAtATime
<1>1. GatherInv /\ [Next]_vars
        => [WebRtc!Construct => conn # "gathering" /\ changes = {}]_rtcVars
  BY DEF GatherInv, Settled, WebRtc!Construct
<1> QED
  BY <1>1, GatherInvariance, PTL DEF Spec, OneAtATime, WebRtc!OneAtATime, WebRtc!vars, rtcVars
-------------------------------------------------------------------------------
(* Where run() may be, and that nothing is gathered before it is there     *)
ThreadInv ==
  /\ thread \in {"none", "login", "starting", "running"}
  /\ threads = 0 => thread = "none"
  /\ thread # "running" => conn = "none" /\ changes = {}

(* The ranges that GatherInv leaves out                                    *)
RtcRanges ==
  /\ elapsed \in {TRUE, FALSE} /\ thrown \in {TRUE, FALSE}
  /\ mPc \in {"none", "older", "newest"}
  /\ mSdp \in {"empty", "older", "newest"}

LEMMA ThreadStep == ASSUME OwnerInv, ThreadInv, [Next]_vars PROVE ThreadInv'
<1> USE DEF ThreadInv
<1>1. ASSUME NEW c \in Callers, Start(c) PROVE ThreadInv'
  <2>1. threads = 0
    BY <1>1, StartIsFirst
  <2>2. thread = "none" /\ threads' = 1
    BY <1>1, <2>1 DEF Start
  <2> QED BY <1>1, <2>2 DEF Start, rtcVars
<1>2. ASSUME NEW c \in Callers, Construct(c) \/ Publish(c) \/ CreateTable(c) \/ LoadFromDB(c)
      PROVE  ThreadInv'
  <2>1. UNCHANGED <<threads, thread, conn, changes>>
    BY <1>2 DEF Construct, Publish, CreateTable, LoadFromDB, rtcVars
  <2> QED BY <2>1
<1>3. CASE Login \/ StartWebRtc
  BY <1>3 DEF Login, StartWebRtc, rtcVars
<1>4. CASE WebRtcRuns
  BY <1>4 DEF WebRtcRuns, initVars
<1>5. CASE CallbackRuns
  BY <1>5 DEF CallbackRuns, WebRtc!OnGatheringStateChange, initVars
<1>6. CASE AgentGathers
  BY <1>6 DEF AgentGathers, WebRtc!Gathered, initVars
<1>7. CASE TimePasses \/ UNCHANGED vars
  BY <1>7 DEF TimePasses, WebRtc!TimePasses, vars, initVars, rtcVars
<1> QED BY <1>1, <1>2, <1>3, <1>4, <1>5, <1>6, <1>7 DEF Next, Caller

LEMMA RtcRangesStep == ASSUME GatherInv, RtcRanges, [Next]_vars PROVE RtcRanges'
<1> USE DEF RtcRanges
<1>1. CASE Caller \/ Login \/ StartWebRtc \/ UNCHANGED vars
  <2>1. UNCHANGED rtcVars
    BY <1>1 DEF Caller, Construct, Publish, CreateTable, LoadFromDB, Start, Login,
       StartWebRtc, vars
  <2> QED BY <2>1 DEF rtcVars
<1>2. CASE WebRtc!GatherDone
  BY <1>2 DEF WebRtc!GatherDone, GatherInv, Whole
<1>3. CASE \/ WebRtc!Begin \/ WebRtc!Sleep \/ WebRtc!Done \/ WebRtc!Construct
           \/ WebRtc!CreateDataChannel \/ WebRtc!Assign \/ WebRtc!GatherThrows
           \/ WebRtc!GatherDoneThrows \/ WebRtc!Report
  BY <1>3 DEF WebRtc!Begin, WebRtc!Sleep, WebRtc!Done, WebRtc!Construct,
     WebRtc!CreateDataChannel, WebRtc!Assign, WebRtc!GatherThrows, WebRtc!GatherDoneThrows,
     WebRtc!Report, WebRtc!vars
<1>4. CASE CallbackRuns \/ AgentGathers \/ TimePasses
  BY <1>4 DEF CallbackRuns, AgentGathers, TimePasses, WebRtc!OnGatheringStateChange,
     WebRtc!Gathered, WebRtc!TimePasses
<1> QED BY <1>1, <1>2, <1>3, <1>4 DEF Next, WebRtcRuns, WebRtc!Run

(* Threads, pointer and gathering stay in their ranges: the status is      *)
(* GatherRunning all through gather() until the callback has the last      *)
(* change, GatherIdle all through gatherDone() and report(), and nothing   *)
(* is gathered before the one thread Start() has begun comes to it.        *)
THEOREM ManagerTyping == Spec => []TypeOK
<1>1. Init => ThreadInv /\ RtcRanges
  BY DEF Init, WebRtc!Init, ThreadInv, RtcRanges
<1>2. Spec => [](OwnerInv /\ GatherInv /\ ThreadInv /\ RtcRanges)
  BY <1>1, OwnerInvariance, GatherInvariance, ThreadStep, RtcRangesStep, PTL DEF Spec
<1>3. OwnerInv /\ GatherInv /\ ThreadInv /\ RtcRanges => TypeOK
  <2> SUFFICES ASSUME OwnerInv, GatherInv, ThreadInv, RtcRanges PROVE TypeOK
    OBVIOUS
  <2>1. conn \in {"none", "new", "gathering", "complete", "gone"}
        /\ changes \subseteq {"InProgress", "Complete"}
    BY DEF GatherInv, Settled, Whole, UnderWay
  <2>2. /\ at \in {"construct", "channel"} => mGatherStatus = "GatherRunning"
        /\ at \in {"describe", "report"} => mGatherStatus = "GatherIdle"
    BY DEF GatherInv
  <2>3. WebRtc!TypeOK
    BY <2>1, <2>2 DEF WebRtc!TypeOK, GatherInv, RtcRanges
  <2> QED BY <2>3 DEF TypeOK, OwnerInv, ThreadInv
<1> QED BY <1>2, <1>3, PTL
===============================================================================
