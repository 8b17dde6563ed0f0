------------------------------ MODULE WebRtcManager ------------------------------
(***************************************************************************)
(* dcdn/WebRtcManager.cpp: once a period the manager's thread makes a      *)
(* PeerConnection, lets it gather its candidates and reports the local     *)
(* description.  mGatherStatus is what the thread and the connection's     *)
(* callback, on a thread of libdatachannel, have in common.                *)
(***************************************************************************)
VARIABLES
  mGatherStatus,
  at,       \* where run() is
  elapsed,  \* a period is over since mLastGatherTime
  mPc,      \* the connection it points to: none, the newest or an older one
  mSdp,     \* what it describes
  thrown,   \* history: gather() has thrown
  \* libdatachannel
  conn,     \* the newest connection
  changes   \* its changes of state that the callback has not been told of

vars == <<mGatherStatus, at, elapsed, mPc, mSdp, thrown, conn, changes>>

Init ==
  /\ mGatherStatus = "GatherIdle"
  /\ at = "switch"
  /\ elapsed = TRUE   \* mLastGatherTime is 24 hours ago
  /\ mPc = "none" /\ mSdp = "empty"
  /\ thrown = FALSE
  /\ conn = "none" /\ changes = {}

-------------------------------------------------------------------------------
(* runGather, once a second *)

(* Mutant of Begin: the status stays what it is. *)
BeginStillIdle ==
  /\ at = "switch" /\ mGatherStatus = "GatherIdle" /\ elapsed
  /\ at' = "construct"
  /\ UNCHANGED <<mGatherStatus, elapsed, mPc, mSdp, thrown, conn, changes>>

Begin ==
  /\ at = "switch" /\ mGatherStatus = "GatherIdle" /\ elapsed
  /\ mGatherStatus' = "GatherRunning"
  /\ at' = "construct"
  /\ UNCHANGED <<elapsed, mPc, mSdp, thrown, conn, changes>>

Sleep ==
  /\ at = "switch"
  /\ mGatherStatus = "GatherRunning" \/ (mGatherStatus = "GatherIdle" /\ ~elapsed)
  /\ UNCHANGED vars

(* Mutant of Done: the status stays what it is. *)
DoneStillDone ==
  /\ at = "switch" /\ mGatherStatus = "GatherDone"
  /\ elapsed' = FALSE
  /\ at' = "describe"
  /\ UNCHANGED <<mGatherStatus, mPc, mSdp, thrown, conn, changes>>

Done ==
  /\ at = "switch" /\ mGatherStatus = "GatherDone"
  /\ mGatherStatus' = "GatherIdle"
  /\ elapsed' = FALSE
  /\ at' = "describe"
  /\ UNCHANGED <<mPc, mSdp, thrown, conn, changes>>

-------------------------------------------------------------------------------
(* gather, after the status has been set *)

Construct ==
  /\ at = "construct"
  /\ conn' = "new" /\ at' = "channel"
  /\ mPc' = IF mPc = "newest" THEN "older" ELSE mPc
  /\ mSdp' = IF mSdp = "newest" THEN "older" ELSE mSdp
  /\ UNCHANGED <<mGatherStatus, elapsed, thrown, changes>>

CreateDataChannel ==
  /\ at = "channel"
  /\ conn' = "gathering" /\ changes' = {"InProgress"}
  /\ at' = "assign"
  /\ UNCHANGED <<mGatherStatus, elapsed, mPc, mSdp, thrown>>


(* The older connection, which has told everything, is destroyed. *)
Assign ==
  /\ at = "assign"
  /\ mPc' = "newest"
  /\ at' = "switch"
  /\ UNCHANGED <<mGatherStatus, elapsed, mSdp, thrown, conn, changes>>

(* The constructor or createDataChannel throws; the new connection is gone *)
(* and the status stays GatherRunning.                                     *)
GatherThrows ==
  /\ at \in {"construct", "channel"}
  /\ conn' = IF at = "channel" THEN "gone" ELSE conn
  /\ thrown' = TRUE
  /\ at' = "switch"
  /\ UNCHANGED <<mGatherStatus, elapsed, mPc, mSdp, changes>>

(* gatherDone and report: without a local description the older one is     *)
(* reported.  The answer to the report is not looked at.                   *)
GatherDone ==
  /\ at = "describe"
  /\ \/ mSdp' = IF conn = "complete" THEN mPc ELSE "partial"
     \/ mSdp' = mSdp
  /\ at' = "report"
  /\ UNCHANGED <<mGatherStatus, elapsed, mPc, thrown, conn, changes>>

(* localDescription() or its conversion throws: nothing is reported. *)
GatherDoneThrows ==
  /\ at = "describe"
  /\ at' = "switch"
  /\ UNCHANGED <<mGatherStatus, elapsed, mPc, mSdp, thrown, conn, changes>>

Report ==
  /\ at = "report"
  /\ at' = "switch"
  /\ UNCHANGED <<mGatherStatus, elapsed, mPc, mSdp, thrown, conn, changes>>

-------------------------------------------------------------------------------
(* The change the callback is told of next *)
IsNext(change) ==
  change \in changes /\ (change = "Complete" => "InProgress" \notin changes)

(* Mutant of OnGatheringStateChange: any change counts as the last. *)
OnAnyStateChange ==
  /\ \E change \in changes : IsNext(change) /\ changes' = changes \ {change}
  /\ mGatherStatus' = "GatherDone"
  /\ UNCHANGED <<at, elapsed, mPc, mSdp, thrown, conn>>

OnGatheringStateChange ==
  /\ \E change \in changes :
       /\ IsNext(change)
       /\ changes' = changes \ {change}
       /\ mGatherStatus' = IF change = "Complete" THEN "GatherDone" ELSE mGatherStatus
  /\ UNCHANGED <<at, elapsed, mPc, mSdp, thrown, conn>>

Gathered ==
  /\ conn = "gathering"
  /\ conn' = "complete"
  /\ changes' = changes \cup {"Complete"}
  /\ UNCHANGED <<mGatherStatus, at, elapsed, mPc, mSdp, thrown>>

TimePasses ==
  /\ elapsed' = TRUE
  /\ UNCHANGED <<mGatherStatus, at, mPc, mSdp, thrown, conn, changes>>

-------------------------------------------------------------------------------
Run ==
  \/ Begin \/ Sleep \/ Done
  \/ Construct \/ CreateDataChannel \/ Assign \/ GatherThrows
  \/ GatherDone \/ GatherDoneThrows \/ Report

Next == Run \/ OnGatheringStateChange \/ Gathered \/ TimePasses

Spec == Init /\ [][Next]_vars

-------------------------------------------------------------------------------
(* The status says what goes on: it is GatherRunning all through gather()  *)
(* until the callback has the last change, and GatherIdle all through      *)
(* gatherDone() and report().                                              *)
TypeOK ==
  /\ mGatherStatus \in {"GatherIdle", "GatherRunning", "GatherDone"}
  /\ at \in {"switch", "construct", "channel", "assign", "describe", "report"}
  /\ elapsed \in BOOLEAN /\ thrown \in BOOLEAN
  /\ mPc \in {"none", "older", "newest"}
  /\ mSdp \in {"empty", "older", "newest"}
  /\ conn \in {"none", "new", "gathering", "complete", "gone"}
  /\ changes \subseteq {"InProgress", "Complete"}
  /\ at \in {"construct", "channel"} => mGatherStatus = "GatherRunning"
  /\ at \in {"describe", "report"} => mGatherStatus = "GatherIdle"

(* A connection is made only when the one before it has told its last      *)
(* change: a late callback never ends the gathering of another connection. *)
OneAtATime == [][Construct => conn # "gathering" /\ changes = {}]_vars

(* gatherDone() never meets a null mPc, one that is still gathering or one *)
(* of an earlier round, and reports no round twice, though the callback    *)
(* may be called before mPc is assigned.                                   *)
DescribesGathered ==
  at = "describe" =>
    mPc = "newest" /\ conn = "complete" /\ changes = {} /\ mSdp # "newest"

===============================================================================
