--------------------------- MODULE MCHttpDownloader ---------------------------
(* Constant values for checking HttpDownloader with TLC. *)
EXTENDS HttpDownloader, TLC

CONSTANTS t1, t2

(* CancelTask, PauseTask and ResumeTask receive, and post, the base class. *)
AsBuilt == [e \in EventTypes |->
              IF e = "AddTask" THEN "HttpDownloaderTask" ELSE "DownloaderTask"]
(* What the handlers expect. *)
AsExpected == [e \in EventTypes |-> "HttpDownloaderTask"]
(* The whole resource, and a closed range of it *)
PlainOpts == (t1 :> [Start |-> 0, End |-> 0, MaxBuf |-> 0]) @@
             (t2 :> [Start |-> 1, End |-> 1, MaxBuf |-> 0])

(* A buffer limit the transfer can pass *)
LimitedOpts == t1 :> [Start |-> 0, End |-> 0, MaxBuf |-> 1]

OneOpt == t1 :> [Start |-> 0, End |-> 0, MaxBuf |-> 0]
===============================================================================
