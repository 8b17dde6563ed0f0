--------------------------- MODULE MCMessagePipeline ---------------------------
(* Constant values for checking MessagePipeline with TLC. *)
EXTENDS MessagePipeline

(* Two messages for one manager, to tell their order, and one for the other *)
ThreeMessages == {[type |-> "UploadMsg", msg |-> "m1"],
                  [type |-> "UploadMsg", msg |-> "m2"],
                  [type |-> "DeployMsg", msg |-> "m3"]}
===============================================================================
