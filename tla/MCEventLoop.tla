----------------------------- MODULE MCEventLoop ------------------------------
(* Constant values for checking EventLoop with TLC. *)
EXTENDS EventLoop

AnyCall == Call
===============================================================================
