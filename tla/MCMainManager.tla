----------------------------- MODULE MCMainManager -----------------------------
(* Model values for checking MainManager with TLC. *)
EXTENDS MainManager

CONSTANTS c1, c2
===============================================================================
