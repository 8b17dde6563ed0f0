--------------------------- MODULE MCDownloadClient ---------------------------
(* Constant values for checking DownloadClient with TLC. *)
EXTENDS DownloadClient, TLC

CONSTANTS t1, t2

(* CancelTask as its handler expects it. *)
AsExpected == [e \in EventTypes |-> "HttpDownloaderTask"]

PlainOpts == (t1 :> [Start |-> 0, End |-> 0, MaxBuf |-> 0]) @@
             (t2 :> [Start |-> 1, End |-> 1, MaxBuf |-> 0])
===============================================================================
