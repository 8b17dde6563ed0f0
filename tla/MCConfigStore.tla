----------------------------- MODULE MCConfigStore -----------------------------
(* Model values for checking ConfigStore and Login with TLC. *)
EXTENDS Login
===============================================================================
