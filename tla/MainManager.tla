------------------------------ MODULE MainManager ------------------------------
(***************************************************************************)
(* How the one MainManager comes to be and begins to run: threads that     *)
(* call MainManager::Init at the same time, the start of run() as          *)
(* MainManagerTest does it, and the WebRtcManager run() starts.            *)
(***************************************************************************)
EXTENDS Naturals

CONSTANTS
  Callers,  \* threads of the application that call Init
  NoOne

ASSUME CallersAssumption == NoOne \notin Callers

VARIABLES
  caller,   \* where each thread is in Init and after
  singlet,  \* whose manager is published
  threads,  \* threads Start has begun for the published manager
  thread,   \* where run() is
  mGatherStatus, at, elapsed, mPc, mSdp, thrown, conn, changes

rtcVars == <<mGatherStatus, at, elapsed, mPc, mSdp, thrown, conn, changes>>
initVars == <<caller, singlet, threads, thread>>
vars == <<initVars, rtcVars>>

WebRtc == INSTANCE WebRtcManager

Init ==
  /\ caller = [c \in Callers |-> "out"]
  /\ singlet = NoOne
  /\ threads = 0 /\ thread = "none"
  /\ WebRtc!Init

-------------------------------------------------------------------------------
(* MainManager::Init and init *)

Construct(c) ==
  /\ caller[c] = "out"
  /\ caller' = [caller EXCEPT ![c] = "constructed"]
  /\ UNCHANGED <<singlet, threads, thread, rtcVars>>

(* Mutant of Publish: the pointer is stored without a comparison. *)
PublishOver(c) ==
  /\ caller[c] = "constructed"
  /\ singlet' = c
  /\ caller' = [caller EXCEPT ![c] = "published"]
  /\ UNCHANGED <<threads, thread, rtcVars>>

(* compare_exchange_strong: a second manager is deleted, Init returns 0. *)
Publish(c) ==
  /\ caller[c] = "constructed"
  /\ IF singlet = NoOne
     THEN singlet' = c /\ caller' = [caller EXCEPT ![c] = "published"]
     ELSE singlet' = singlet /\ caller' = [caller EXCEPT ![c] = "refused"]
  /\ UNCHANGED <<threads, thread, rtcVars>>

(* When the table cannot be created, Init returns the error and leaves the *)
(* manager published.                                                      *)
CreateTable(c) ==
  /\ caller[c] = "published"
  /\ \E next \in {"tables", "failed"} : caller' = [caller EXCEPT ![c] = next]
  /\ UNCHANGED <<singlet, threads, thread, rtcVars>>

(* What LoadFromDB returns is not looked at: Init returns Ok. *)
LoadFromDB(c) ==
  /\ caller[c] = "tables"
  /\ caller' = [caller EXCEPT ![c] = "ready"]
  /\ UNCHANGED <<singlet, threads, thread, rtcVars>>

(* Singlet()->Start(), only after Init has returned 1 *)
Start(c) ==
  /\ caller[c] = "ready"
  /\ threads' = threads + 1 /\ thread' = "login"
  /\ caller' = [caller EXCEPT ![c] = "started"]
  /\ UNCHANGED <<singlet, rtcVars>>

-------------------------------------------------------------------------------
(* run(): login() returns, whatever the server says *)
Login ==
  /\ thread = "login"
  /\ thread' = "starting"
  /\ UNCHANGED <<caller, singlet, threads, rtcVars>>

StartWebRtc ==
  /\ thread = "starting"
  /\ thread' = "running"
  /\ UNCHANGED <<caller, singlet, threads, rtcVars>>

WebRtcRuns == thread = "running" /\ WebRtc!Run /\ UNCHANGED initVars
CallbackRuns == WebRtc!OnGatheringStateChange /\ UNCHANGED initVars
AgentGathers == WebRtc!Gathered /\ UNCHANGED initVars
TimePasses == WebRtc!TimePasses /\ UNCHANGED initVars

Caller ==
  \E c \in Callers : Construct(c) \/ Publish(c) \/ CreateTable(c) \/ LoadFromDB(c) \/ Start(c)

Next ==
  \/ Caller \/ Login \/ StartWebRtc
  \/ WebRtcRuns \/ CallbackRuns \/ AgentGathers \/ TimePasses

Spec == Init /\ [][Next]_vars

(* The threads and the callback run, gathering ends - the agent of         *)
(* libdatachannel has timeouts of its own - and time passes.               *)
FairSpec ==
  /\ Spec
  /\ WF_vars(Caller) /\ WF_vars(Login \/ StartWebRtc)
  /\ WF_vars(WebRtcRuns) /\ WF_vars(CallbackRuns)
  /\ WF_vars(AgentGathers) /\ WF_vars(TimePasses)

-------------------------------------------------------------------------------
(* Threads, pointer and the gathering are in their ranges, and nothing is  *)
(* gathered before the manager's thread is started.                        *)
TypeOK ==
  /\ caller \in [Callers -> {"out", "constructed", "published", "refused",
                             "tables", "failed", "ready", "started"}]
  /\ singlet \in Callers \cup {NoOne}
  /\ threads \in Nat
  /\ thread \in {"none", "login", "starting", "running"}
  /\ WebRtc!TypeOK
  /\ thread # "running" => conn = "none"

(* However many threads call Init, the published manager is run by one     *)
(* thread at most, started by the caller who has made and initialised it.  *)
OneManagerRuns ==
  /\ threads <= 1
  /\ threads = 1 => singlet # NoOne /\ caller[singlet] = "started"
  /\ \A c \in Callers : caller[c] \in {"tables", "ready", "started"} => singlet = c

(* A late callback never ends the gathering of another connection.         *)
OneAtATime == WebRtc!OneAtATime

(* gatherDone() works on the connection whose gathering is over, and       *)
(* reports it once.                                                        *)
DescribesGathered == WebRtc!DescribesGathered

===============================================================================
