--------------------------- MODULE TransferContract ---------------------------
(***************************************************************************)
(* What a download task promises the thread that created it, without any   *)
(* worker thread, event queue or libcurl handle: the bytes asked for       *)
(* become available one after the other, in order, each under its own      *)
(* offset; the outcome is decided once; "whole" is decided only after the  *)
(* last byte; nothing arrives after the outcome is decided.                *)
(***************************************************************************)
EXTENDS Naturals, Sequences

CONSTANTS
  Tasks,       \* the tasks
  FirstAsked,  \* FirstAsked[t]: first resource byte the caller asked for
  LastAsked    \* LastAsked[t]: last resource byte the caller asked for

VARIABLES
  stream,      \* stream[t]: what became available, each a byte and its offset
  outcome      \* outcome[t]: "open" until the transfer is over

contractVars == <<stream, outcome>>

Outcomes == {"open", "whole", "failed"}

(* The n-th byte of the answer to t, under the offset it is delivered at. *)
Asked(t, n) == [offset |-> FirstAsked[t] + n - 1, pos |-> FirstAsked[t] + n - 1]

Init ==
  /\ stream = [t \in Tasks |-> <<>>]
  /\ outcome = [t \in Tasks |-> "open"]

Deliver(t) ==
  /\ outcome[t] = "open"
  /\ FirstAsked[t] + Len(stream[t]) <= LastAsked[t]
  /\ stream' = [stream EXCEPT ![t] = Append(@, Asked(t, Len(@) + 1))]
  /\ UNCHANGED outcome

Complete(t) ==
  /\ outcome[t] = "open"
  /\ FirstAsked[t] + Len(stream[t]) = LastAsked[t] + 1
  /\ outcome' = [outcome EXCEPT ![t] = "whole"]
  /\ UNCHANGED stream

(* A library-wide error fails several transfers in one step. *)
Break(S) ==
  /\ \A t \in S : outcome[t] = "open"
  /\ outcome' = [t \in Tasks |-> IF t \in S THEN "failed" ELSE outcome[t]]
  /\ UNCHANGED stream

Next ==
  \/ \E t \in Tasks : Deliver(t) \/ Complete(t)
  \/ \E S \in SUBSET Tasks : Break(S)

Spec == Init /\ [][Next]_contractVars
===============================================================================
