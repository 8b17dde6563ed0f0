------------------------------- MODULE HeaderLine -------------------------------
(***************************************************************************)
(* HttpClient::writeHeaderCallback, one step for each character it looks   *)
(* at: how a line that libcurl hands over becomes a field of the response. *)
(* Indices count from 0 as in the code: p[i] is line[i + 1].               *)
(***************************************************************************)
EXTENDS Naturals, Sequences

CONSTANTS
  Colon, Space,  \* the characters ':' and ' '
  LineEnd        \* '\r' and '\n'

VARIABLES
  line,     \* what p points to, of length size * nmemb
  i, n,     \* the indices of the code
  key, val, \* the field found
  at        \* "idle", in one of the loops, or at Set()

lineVars == <<line, i, n, key, val, at>>

LineInit ==
  /\ line = <<>> /\ i = 0 /\ n = 0
  /\ key = <<>> /\ val = <<>>
  /\ at = "idle"

(* The callback returns; what it worked on is gone. *)
Over ==
  /\ line' = <<>> /\ i' = 0 /\ n' = 0
  /\ key' = <<>> /\ val' = <<>>
  /\ at' = "idle"

Called(l) ==
  /\ at = "idle"
  /\ line' = l /\ i' = 0 /\ n' = Len(l)
  /\ key' = <<>> /\ val' = <<>>
  /\ at' = "key"

SkipKey ==
  /\ at = "key" /\ i < n
  /\ line[i + 1] # Colon
  /\ i' = i + 1
  /\ UNCHANGED <<line, n, key, val, at>>

(* The status line and the empty line at the end: no field. *)
NoField ==
  /\ at = "key" /\ i = n
  /\ Over

EndKey ==
  /\ at = "key" /\ i < n
  /\ line[i + 1] = Colon
  /\ key' = SubSeq(line, 1, i)
  /\ i' = i + 1
  /\ at' = IF i' < n THEN "space" ELSE "set"
  /\ UNCHANGED <<line, n, val>>

(* Mutant of SkipSpace: spaces are skipped as if there were always one. *)
SkipOne ==
  /\ at = "space"
  /\ i' = i + 1
  /\ at' = IF i' < n THEN "trim" ELSE "set"
  /\ UNCHANGED <<line, n, key, val>>

SkipSpace ==
  /\ at = "space"
  /\ i' = IF line[i + 1] = Space THEN i + 1 ELSE i
  /\ at' = IF i' < n THEN "trim" ELSE "set"
  /\ UNCHANGED <<line, n, key, val>>

Trim ==
  /\ at = "trim" /\ i < n
  /\ line[n] \in LineEnd
  /\ n' = n - 1
  /\ UNCHANGED <<line, i, key, val, at>>

Assign ==
  /\ at = "trim"
  /\ i < n => line[n] \notin LineEnd
  /\ val' = SubSeq(line, i + 1, n)
  /\ at' = "set"
  /\ UNCHANGED <<line, i, n, key>>

Parse == SkipKey \/ NoField \/ EndKey \/ SkipSpace \/ Trim \/ Assign

(* headers->Set() has been called with key and val. *)
FieldSet ==
  /\ at = "set"
  /\ Over

-------------------------------------------------------------------------------
(* What a field is: l is a key without a colon, the colon, at most one     *)
(* space, a value that does not end in a line end, and line ends.  The     *)
(* space belongs to the value only when another is before it.              *)
IsField(l, k, v) ==
  \E colon, first, last \in 0..Len(l) :
    /\ colon < Len(l) /\ colon + 1 <= first /\ first <= last
    /\ k = SubSeq(l, 1, colon) /\ \A j \in 1..colon : l[j] # Colon
    /\ l[colon + 1] = Colon
    /\ IF colon + 1 < Len(l) /\ l[colon + 2] = Space THEN first = colon + 2
       ELSE first = colon + 1
    /\ v = SubSeq(l, first + 1, last)
    /\ first < last => l[last] \notin LineEnd
    /\ \A j \in last + 1..Len(l) : l[j] \in LineEnd

(* The indices in range, and on their way: no read is outside of the line  *)
(* (SkipSpace and Trim have no guard of their own for it).                 *)
ReadsInside ==
  /\ i <= n /\ n <= Len(line)
  /\ at = "space" => i < n
===============================================================================
