------------------------------ MODULE ConfigStore ------------------------------
(***************************************************************************)
(* dcdn/Config.cpp: settings in memory, the map mKv of the changed ones    *)
(* under mMtx, and the table configs.db keeps of them over restarts.       *)
(* LoadFromDB runs in MainManager::init, before any other thread exists;   *)
(* the setters may come from any thread, SaveToDB from one at a time.      *)
(***************************************************************************)
CONSTANTS
  Key,      \* the settings that are kept: peerId and token
  Value,    \* what they may be set to
  Empty,    \* the empty string, their first value
  Absent    \* a key without an entry in a map, or without a row

ASSUME ConfigAssumption == Empty \in Value /\ Absent \notin Value

VARIABLES
  table,    \* the rows of the database, by key
  running,  \* the process runs, its configuration initialised
  loaded,   \* LoadFromDB succeeded
  mVal,     \* mPeerId and mToken
  mKv,      \* changed and not saved
  save,     \* where SaveToDB is
  kvs,      \* its local map
  known     \* history: what the process last read from or wrote to the table

vars == <<table, running, loaded, mVal, mKv, save, kvs, known>>

Nothing == [k \in Key |-> Absent]
AllEmpty == [k \in Key |-> Empty]
Keys(kv) == {k \in Key : kv[k] # Absent}

(* kv, and what other says of the keys kv does not have *)
Over(kv, other) == [k \in Key |-> IF kv[k] = Absent THEN other[k] ELSE kv[k]]

(* What LoadFromDB makes of the table *)
Stored(k) == IF table[k] = Absent THEN Empty ELSE table[k]

Init ==
  /\ table = Nothing
  /\ running = FALSE /\ loaded = FALSE
  /\ mVal = AllEmpty /\ mKv = Nothing
  /\ save = "idle" /\ kvs = Nothing
  /\ known = AllEmpty

-------------------------------------------------------------------------------
(* MainManager::init: nothing runs when CreateTable fails; a failure of    *)
(* LoadFromDB is ignored.                                                  *)

LoadFromDB ==
  /\ ~running
  /\ running' = TRUE /\ loaded' = TRUE
  /\ mVal' = [k \in Key |-> Stored(k)]
  /\ known' = mVal'
  /\ UNCHANGED <<table, mKv, save, kvs>>

LoadFails ==
  /\ ~running
  /\ running' = TRUE /\ loaded' = FALSE
  /\ UNCHANGED <<table, mVal, mKv, save, kvs, known>>

(* SetPeerId and SetToken *)
Set(k, v) ==
  /\ running
  /\ v # mVal[k]
  /\ mVal' = [mVal EXCEPT ![k] = v]
  /\ mKv' = [mKv EXCEPT ![k] = v]
  /\ UNCHANGED <<table, running, loaded, save, kvs, known>>

-------------------------------------------------------------------------------
(* SaveToDB, between two holds of the lock.  getDB may fail. *)

SaveToDB ==
  /\ running
  /\ save = "idle"
  /\ Keys(mKv) # {}
  /\ save' = "opening"
  /\ UNCHANGED <<table, running, loaded, mVal, mKv, kvs, known>>

OpenFails ==
  /\ save = "opening"
  /\ save' = "idle"
  /\ UNCHANGED <<table, running, loaded, mVal, mKv, kvs, known>>

Swap ==
  /\ save = "opening"
  /\ kvs' = mKv /\ mKv' = Nothing
  /\ save' = "transaction"
  /\ UNCHANGED <<table, running, loaded, mVal, known>>

(* replace() puts the rows one by one, in any order, all of them with the  *)
(* id 0, and each removes the row that has this id: the last one is left,  *)
(* of this save and of all before it.                                      *)
Replaced == {[Nothing EXCEPT ![last] = kvs[last]] : last \in Keys(kvs)}

Commit ==
  /\ save = "transaction"
  /\ table' \in Replaced
  /\ known' = Over(kvs, known)
  /\ kvs' = Nothing /\ save' = "idle"
  /\ UNCHANGED <<running, loaded, mVal, mKv>>

(* Mutant of Throws: the exception is taken for the end of the save. *)
ThrowsQuietly ==
  /\ save = "transaction"
  /\ save' = "idle" /\ kvs' = Nothing
  /\ UNCHANGED <<table, running, loaded, mVal, mKv, known>>

(* The transaction is rolled back. *)
Throws ==
  /\ save = "transaction"
  /\ save' = "failed"
  /\ UNCHANGED <<table, running, loaded, mVal, mKv, kvs, known>>

(* Mutant of Merged: what failed to be saved wins over what came after. *)
MergedUnder == Over(kvs, mKv)

Merged == Over(mKv, kvs)

(* Mutant of Merge: the local map keeps its entries. *)
MergeKeeping ==
  /\ save = "failed"
  /\ mKv' = Merged
  /\ save' = "idle"
  /\ UNCHANGED <<table, running, loaded, mVal, kvs, known>>

Merge ==
  /\ save = "failed"
  /\ mKv' = Merged
  /\ kvs' = Nothing /\ save' = "idle"
  /\ UNCHANGED <<table, running, loaded, mVal, known>>

(* The process dies; a transaction that is not committed leaves no trace. *)
Crash ==
  /\ running
  /\ running' = FALSE /\ loaded' = FALSE
  /\ mVal' = AllEmpty /\ mKv' = Nothing
  /\ save' = "idle" /\ kvs' = Nothing
  /\ known' = AllEmpty
  /\ UNCHANGED <<table>>

Next ==
  \/ LoadFromDB \/ LoadFails
  \/ \E k \in Key, v \in Value : Set(k, v)
  \/ SaveToDB \/ OpenFails \/ Swap \/ Commit \/ Throws \/ Merge
  \/ Crash

Spec == Init /\ [][Next]_vars

-------------------------------------------------------------------------------
(* Maps and table hold values of known keys; the local map of SaveToDB has *)
(* entries only between its swap and its return, and nothing is in memory  *)
(* while no process runs.                                                  *)
TypeOK ==
  /\ table \in [Key -> Value \cup {Absent}]
  /\ running \in BOOLEAN /\ loaded \in BOOLEAN
  /\ mVal \in [Key -> Value] /\ known \in [Key -> Value]
  /\ mKv \in [Key -> Value \cup {Absent}]
  /\ kvs \in [Key -> Value \cup {Absent}]
  /\ save \in {"idle", "opening", "transaction", "failed"}
  /\ save \in {"idle", "opening"} => kvs = Nothing
  /\ ~running => mVal = AllEmpty /\ mKv = Nothing /\ save = "idle" /\ ~loaded

(* What has been set and is not in the table is on its way there: read     *)
(* from the newest to the oldest, the changed values, those of a save that *)
(* has begun and what the table is known to hold give what is in memory.   *)
(* A failed save neither forgets a value nor brings an older one back over *)
(* one that was set meanwhile.                                             *)
NewestWins == mVal = Over(mKv, Over(kvs, known))

Unmarked == Key \ (Keys(mKv) \cup Keys(kvs))

(* Were the process to die now, the next one would find of each setting    *)
(* that is not marked as changed its value or nothing, never an older      *)
(* value; and when all is saved, it would find one of them at least.       *)
StoredIsCurrent ==
  loaded =>
    /\ \A k \in Unmarked : table[k] \in {mVal[k], Absent}
    /\ Unmarked = Key /\ mVal # AllEmpty => \E k \in Key : table[k] = mVal[k]

(* What the table is declared for, a row per key with an id of its own:    *)
(* the next process finds every setting that is not marked as changed.     *)
(* The id 0 breaks it.                                                     *)
SavedIsLoaded == loaded => \A k \in Unmarked : Stored(k) = mVal[k]
===============================================================================
