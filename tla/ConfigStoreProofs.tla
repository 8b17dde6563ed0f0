--------------------------- MODULE ConfigStoreProofs ---------------------------
(***************************************************************************)
(* Theorems about ConfigStore, for any keys and any values,                *)
(* and about Login, which sets two of the keys, for any number of logins.  *)
(***************************************************************************)
EXTENDS Login, TLAPS

(* The maps that have no entry, and merged maps, are maps of the keys.     *)
LEMMA Maps ==
  /\ Nothing \in [Key -> Value \cup {Absent}]
  /\ AllEmpty \in [Key -> Value]
  /\ \A kv, other \in [Key -> Value \cup {Absent}] :
       Over(kv, other) \in [Key -> Value \cup {Absent}]
  /\ \A kv \in [Key -> Value \cup {Absent}], other \in [Key -> Value] :
       Over(kv, other) \in [Key -> Value]
BY ConfigAssumption DEF Nothing, AllEmpty, Over

(* Every step keeps every variable in its range.                           *)
LEMMA StepTyping == ASSUME TypeOK, [Next]_vars PROVE TypeOK'
<1> USE Maps DEF TypeOK
<1>1. CASE LoadFromDB
  <2>1. mVal' \in [Key -> Value]
    BY <1>1, ConfigAssumption DEF LoadFromDB, Stored
  <2> QED BY <1>1, <2>1 DEF LoadFromDB
<1>2. CASE LoadFails
  BY <1>2 DEF LoadFails
<1>3. ASSUME NEW k \in Key, NEW v \in Value, Set(k, v) PROVE TypeOK'
  BY <1>3 DEF Set
<1>4. CASE SaveToDB
  BY <1>4 DEF SaveToDB
<1>5. CASE OpenFails
  BY <1>5 DEF OpenFails
<1>6. CASE Swap
  BY <1>6 DEF Swap
<1>7. CASE Commit
  <2>1. table' \in [Key -> Value \cup {Absent}]
    <3>1. PICK last \in Keys(kvs) : table' = [Nothing EXCEPT ![last] = kvs[last]]
      BY <1>7 DEF Commit, Replaced
    <3> QED BY <3>1 DEF Keys
  <2> QED BY <1>7, <2>1 DEF Commit
<1>8. CASE Throws
  BY <1>8 DEF Throws
<1>9. CASE Merge
  BY <1>9 DEF Merge, Merged
<1>10. CASE Crash
  BY <1>10 DEF Crash
<1>11. CASE UNCHANGED vars
  BY <1>11 DEF vars
<1> QED BY <1>1, <1>2, <1>3, <1>4, <1>5, <1>6, <1>7, <1>8, <1>9, <1>10, <1>11 DEF Next

(* Maps and table stay what they are, and SaveToDB's local map is empty    *)
(* whenever no save is between its swap and its return.                    *)
THEOREM StoreTyping == Spec => []TypeOK
<1>1. Init => TypeOK
  BY Maps DEF Init, TypeOK
<1> QED BY <1>1, StepTyping, PTL DEF Spec

-------------------------------------------------------------------------------
(* How maps combine: nothing on top or below changes a map, and the order  *)
(* of merging does not matter as long as the newest stays on top.          *)
LEMMA OverFacts ==
  ASSUME NEW a \in [Key -> Value \cup {Absent}],
         NEW b \in [Key -> Value \cup {Absent}],
         NEW c \in [Key -> Value]
  PROVE  /\ Over(Nothing, a) = a
         /\ Over(Nothing, c) = c
         /\ Over(Nothing, Over(a, c)) = Over(a, c)
         /\ Over(Over(a, b), c) = Over(a, Over(b, c))
BY ConfigAssumption DEF Over, Nothing

(* Setters, saves that fail anywhere and saves that succeed keep the rule  *)
(* that the newest value wins.                                             *)
LEMMA NewestWinsInductive ==
  ASSUME TypeOK, NewestWins, [Next]_vars PROVE NewestWins'
<1> USE Maps DEF TypeOK, NewestWins
<1>1. CASE LoadFromDB
  <2>1. mKv' = Nothing /\ kvs' = Nothing /\ mVal' \in [Key -> Value]
    BY <1>1, StepTyping DEF LoadFromDB, Next
  <2> QED BY <1>1, <2>1, OverFacts DEF LoadFromDB
<1>2. CASE LoadFails
  BY <1>2 DEF LoadFails
<1>3. ASSUME NEW k \in Key, NEW v \in Value, Set(k, v) PROVE NewestWins'
  BY <1>3, ConfigAssumption DEF Set, Over
<1>4. CASE SaveToDB
  BY <1>4 DEF SaveToDB
<1>5. CASE OpenFails
  BY <1>5 DEF OpenFails
<1>6. CASE Swap
  <2>1. mKv' = Nothing /\ kvs' = mKv /\ kvs = Nothing
    BY <1>6 DEF Swap
  <2>2. Over(kvs, known) = known
    BY <2>1, OverFacts
  <2>3. Over(mKv', Over(kvs', known)) = Over(mKv, known)
    BY <2>1, OverFacts
  <2> QED BY <1>6, <2>2, <2>3 DEF Swap
<1>7. CASE Commit
  <2>1. kvs' = Nothing /\ known' = Over(kvs, known) /\ known' \in [Key -> Value]
    BY <1>7 DEF Commit
  <2>2. Over(kvs', known') = known'
    BY <2>1, OverFacts
  <2> QED BY <1>7, <2>1, <2>2 DEF Commit
<1>8. CASE Throws
  BY <1>8 DEF Throws
<1>9. CASE Merge
  <2>1. mKv' = Over(mKv, kvs) /\ kvs' = Nothing
    BY <1>9 DEF Merge, Merged
  <2>2. Over(kvs', known) = known
    BY <2>1, OverFacts
  <2>3. Over(mKv', known) = Over(mKv, Over(kvs, known))
    BY <2>1, OverFacts
  <2> QED BY <1>9, <2>2, <2>3 DEF Merge
<1>10. CASE Crash
  BY <1>10, OverFacts DEF Crash
<1>11. CASE UNCHANGED vars
  BY <1>11 DEF vars
<1> QED BY <1>1, <1>2, <1>3, <1>4, <1>5, <1>6, <1>7, <1>8, <1>9, <1>10, <1>11 DEF Next

(* SaveToDB never loses a value and never lets an older one win over one   *)
(* set meanwhile, wherever it fails and however often.                     *)
THEOREM NewestAlwaysWins == Spec => []NewestWins
<1>1. Init => NewestWins
  BY Maps, OverFacts DEF Init, NewestWins
<1> QED BY <1>1, StoreTyping, NewestWinsInductive, PTL DEF Spec

-------------------------------------------------------------------------------
(* The id 0 leaves one row, of the key that was written last.              *)
OneRow == \A j, k \in Keys(table) : j = k

(* Each row is what the process knows of the table, and once something was *)
(* saved or loaded that is not empty there is one.                         *)
KnownIsStored ==
  loaded => /\ \A k \in Key : table[k] \in {known[k], Absent}
            /\ known # AllEmpty => Keys(table) # {}

(* What a commit leaves of the rows                                        *)
LEMMA CommitWrites ==
  ASSUME TypeOK, Commit
  PROVE  /\ \E last \in Keys(kvs) : table' = [Nothing EXCEPT ![last] = kvs[last]]
         /\ \A k \in Key : table'[k] \in {kvs[k], Absent}
         /\ Keys(table)' # {} /\ OneRow'
<1>1. PICK last \in Keys(kvs) : table' = [Nothing EXCEPT ![last] = kvs[last]]
  BY DEF Commit, Replaced
<1>2. last \in Key /\ kvs[last] # Absent
  BY DEF Keys
<1>3. \A k \in Key : table'[k] = IF k = last THEN kvs[last] ELSE Absent
  BY <1>1 DEF Nothing
<1> QED BY <1>1, <1>2, <1>3 DEF Keys, OneRow

LEMMA OneRowInductive == ASSUME TypeOK, OneRow, [Next]_vars PROVE OneRow'
<1>1. CASE Commit
  BY <1>1, CommitWrites
<1>2. CASE ~Commit
  <2>1. table' = table
    BY <1>2 DEF Next, LoadFromDB, LoadFails, Set, SaveToDB, OpenFails, Swap, Throws, Merge,
       Crash, vars
  <2> QED BY <2>1 DEF OneRow, Keys
<1> QED BY <1>1, <1>2

(* Loading and committing are the only steps at which table or what is     *)
(* known of it changes.                                                    *)
LEMMA KnownIsStoredInductive ==
  ASSUME TypeOK, KnownIsStored, [Next]_vars PROVE KnownIsStored'
<1> USE DEF KnownIsStored
<1>1. CASE LoadFromDB
  <2>1. table' = table /\ known' = [k \in Key |-> Stored(k)]
    BY <1>1 DEF LoadFromDB
  <2>2. \A k \in Key : table'[k] \in {known'[k], Absent}
    BY <2>1 DEF Stored
  <2>3. Keys(table) = {} => known' = AllEmpty
    BY <2>1 DEF Stored, Keys, AllEmpty
  <2>4. Keys(table)' = Keys(table)
    BY <2>1 DEF Keys
  <2> QED BY <2>2, <2>3, <2>4
<1>2. CASE LoadFails \/ Crash
  BY <1>2 DEF LoadFails, Crash
<1>3. CASE Commit
  <2>1. known' = Over(kvs, known) /\ \A k \in Key : table'[k] \in {kvs[k], Absent}
    BY <1>3, CommitWrites DEF Commit
  <2>2. \A k \in Key : table'[k] # Absent => table'[k] = known'[k]
    BY <2>1 DEF Over
  <2> QED BY <1>3, <2>2, CommitWrites
<1>4. CASE ~(LoadFromDB \/ LoadFails \/ Commit \/ Crash)
  <2>1. UNCHANGED <<table, known, loaded>>
    BY <1>4 DEF Next, Set, SaveToDB, OpenFails, Swap, Throws, Merge, vars
  <2> QED BY <2>1 DEF Keys
<1> QED BY <1>1, <1>2, <1>3, <1>4

(* A restart at any moment finds of every setting that is not marked as    *)
(* changed its value or nothing, and something once all is saved, though   *)
(* each row replaces the one before.                                       *)
THEOREM StoredIsAlwaysCurrent == Spec => []StoredIsCurrent
<1>1. Init => KnownIsStored
  BY DEF Init, KnownIsStored
<1>2. TypeOK /\ NewestWins /\ KnownIsStored => StoredIsCurrent
  <2> SUFFICES ASSUME TypeOK, NewestWins, KnownIsStored, loaded PROVE StoredIsCurrent
    BY DEF StoredIsCurrent
  <2>1. ASSUME NEW k \in Unmarked PROVE mVal[k] = known[k]
    BY <2>1 DEF Unmarked, Keys, NewestWins, Over
  <2>2. \A k \in Unmarked : table[k] \in {mVal[k], Absent}
    BY <2>1 DEF KnownIsStored, Unmarked
  <2>3. ASSUME Unmarked = Key, mVal # AllEmpty PROVE \E k \in Key : table[k] = mVal[k]
    <3>1. mVal = known
      BY <2>1, <2>3 DEF TypeOK
    <3>2. PICK k \in Key : table[k] # Absent
      BY <2>3, <3>1 DEF KnownIsStored, Keys
    <3> QED BY <3>1, <3>2 DEF KnownIsStored
  <2> QED BY <2>2, <2>3 DEF StoredIsCurrent
<1> QED
  BY <1>1, <1>2, StoreTyping, NewestAlwaysWins, KnownIsStoredInductive, PTL DEF Spec
-------------------------------------------------------------------------------
(* Login: what login() has still to keep of an answer                      *)
LoginTyping ==
  /\ issued \in Value
  /\ left \in {<<>>, <<peerId, token>>, <<token>>}

(* login() keeps the parts of an answer in the order of the code.          *)
LEMMA KeepCases ==
  ASSUME LoginTyping, Keep
  PROVE  /\ UNCHANGED <<alone, asked, has, issued>>
         /\ \/ Head(left) \notin has /\ left' = <<>> /\ UNCHANGED vars
            \/ /\ left = <<peerId, token>> /\ left' = <<token>> /\ peerId \in has
               /\ Set(peerId, issued) \/ (mVal[peerId] = issued /\ UNCHANGED vars)
            \/ /\ left = <<token>> /\ left' = <<>> /\ token \in has
               /\ Set(token, issued) \/ (mVal[token] = issued /\ UNCHANGED vars)
<1>1. CASE left = <<peerId, token>>
  <2>1. Head(left) = peerId /\ Tail(left) = <<token>>
    BY <1>1
  <2> QED BY <1>1, <2>1 DEF Keep
<1>2. CASE left = <<token>>
  <2>1. Head(left) = token /\ Tail(left) = <<>>
    BY <1>2
  <2> QED BY <1>2, <2>1 DEF Keep
<1> QED BY <1>1, <1>2 DEF Keep, LoginTyping

LEMMA LoginTypingStep ==
  ASSUME LoginTyping, [LoginNext]_<<vars, loginVars>> PROVE LoginTyping'
<1>1. CASE Answered
  <2>1. issued' \in 1..MaxIssue /\ left' = Order
    BY <1>1 DEF Answered
  <2> QED BY <2>1, LoginAssumption DEF LoginTyping, Order
<1>2. CASE Keep
  BY <1>2, KeepCases DEF LoginTyping
<1>3. CASE Boot \/ Refused \/ OtherSets \/ Saves \/ Dies \/ UNCHANGED <<vars, loginVars>>
  BY <1>3 DEF Boot, Refused, OtherSets, Saves, Dies, loginVars, LoginTyping
<1> QED BY <1>1, <1>2, <1>3 DEF LoginNext

(* Whatever login() does to the configuration, it does with the setters.   *)
LEMMA LoginStepIsStoreStep ==
  ASSUME LoginTyping, [LoginNext]_<<vars, loginVars>> PROVE [Next]_vars
<1>1. CASE Keep
  <2>1. UNCHANGED vars \/ Set(peerId, issued) \/ Set(token, issued)
    BY <1>1, KeepCases
  <2> QED BY <2>1, LoginAssumption DEF Next, LoginTyping
<1>2. CASE Boot \/ OtherSets \/ Saves \/ Dies
  BY <1>2 DEF Boot, OtherSets, Saves, Dies, Next
<1>3. CASE Refused \/ Answered \/ UNCHANGED <<vars, loginVars>>
  BY <1>3 DEF Refused, Answered
<1> QED BY <1>1, <1>2, <1>3 DEF LoginNext

LEMMA LoginStart == LoginInit => LoginTyping
BY LoginAssumption DEF LoginInit, LoginTyping

(* Login implements the configuration store, so that what is true of the   *)
(* store with setters called at any time is true of it.                    *)
THEOREM LoginIsStore == LoginSpec => Spec
BY LoginStart, LoginTypingStep, LoginStepIsStoreStep, PTL DEF LoginSpec, LoginInit, Spec

-------------------------------------------------------------------------------
(* Nothing is newer than the last answer.                                  *)
Issued(m) == \A k \in Key : m[k] # Absent => m[k] <= issued

(* The token is kept after the peer id of the same answer, which no setter *)
(* but login() replaces; before that, memory is as the restart found it.   *)
PairInv ==
  /\ Issued(table) /\ Issued(mVal) /\ Issued(mKv) /\ Issued(kvs)
  /\ left = <<token>> => peerId \in has
  /\ ~running => has = {} /\ left = <<>>
  /\ left # <<>> => issued # 0
  /\ PeerKept => mVal[peerId] = issued /\ issued # 0
  /\ ~PeerKept => mVal[token] = 0 \/ mVal[peerId] = 0 \/ mVal[token] <= mVal[peerId]
  /\ OneRow

LEMMA PairStart == LoginInit => PairInv
BY LoginAssumption, ConfigAssumption
   DEF LoginInit, Init, PairInv, Issued, PeerKept, OneRow, Keys, Nothing, AllEmpty

(* A setter that login() calls with its part of the answer                 *)
LEMMA SetKeepsPair ==
  ASSUME TypeOK, LoginTyping, PairInv, NEW k \in Key,
         Set(k, issued) \/ (mVal[k] = issued /\ UNCHANGED vars),
         UNCHANGED <<asked, has, issued>>, issued # 0, k \in has, running,
         \/ k = peerId /\ left = Order /\ left' = <<token>>
         \/ k = token /\ left = <<token>> /\ left' = <<>>
  PROVE  PairInv'
<1> USE LoginAssumption DEF TypeOK, LoginTyping, PairInv
<1>1. /\ mVal' = [mVal EXCEPT ![k] = issued] /\ kvs' = kvs /\ table' = table
      /\ mKv' = mKv \/ mKv' = [mKv EXCEPT ![k] = issued]
      /\ running' = running
  BY DEF Set, vars
<1>2. issued \in Nat /\ Order = <<peerId, token>> /\ <<token>> # Order /\ <<>> # Order
      /\ <<>> # <<token>>
  BY DEF Order
<1>3. Issued(mVal)' /\ Issued(mKv)' /\ Issued(table)' /\ Issued(kvs)' /\ OneRow'
  BY <1>1, <1>2 DEF Issued, OneRow, Keys
<1>4. PeerKept' /\ mVal'[peerId] = issued
  BY <1>1, <1>2 DEF PeerKept
<1>5. left' = <<token>> => peerId \in has'
  BY <1>2
<1> QED BY <1>1, <1>3, <1>4, <1>5

(* Saves move values between the maps and the table and leave memory be.   *)
LEMMA SaveKeepsIssued ==
  ASSUME TypeOK, PairInv, issued' = issued,
         SaveToDB \/ OpenFails \/ Swap \/ Commit \/ Throws \/ Merge
  PROVE  /\ Issued(table)' /\ Issued(mKv)' /\ Issued(kvs)'
         /\ mVal' = mVal /\ running' = running
<1> USE DEF PairInv, Issued
<1>1. CASE SaveToDB \/ OpenFails \/ Throws
  BY <1>1 DEF SaveToDB, OpenFails, Throws
<1>2. CASE Swap
  BY <1>2 DEF Swap, Nothing
<1>3. CASE Commit
  <2>1. \A k \in Key : table'[k] \in {kvs[k], Absent}
    BY <1>3, CommitWrites
  <2> QED BY <1>3, <2>1 DEF Commit, Nothing
<1>4. CASE Merge
  BY <1>4 DEF Merge, Merged, Over, Nothing
<1> QED BY <1>1, <1>2, <1>3, <1>4

LEMMA PairStep ==
  ASSUME TypeOK, LoginTyping, alone, PairInv, [LoginNext]_<<vars, loginVars>>
  PROVE  PairInv'
<1> USE DEF PairInv
<1>1. issued \in Nat /\ (\A v \in Value : v \in Nat) /\ peerId \in Key /\ token \in Key
  BY LoginAssumption DEF LoginTyping
<1>2. OneRow'
  BY LoginStepIsStoreStep, OneRowInductive
<1>3. CASE Boot
  <2>1. /\ UNCHANGED <<loginVars, table, mKv, kvs>> /\ running' /\ ~running
        /\ mVal' = mVal \/ mVal' = [k \in Key |-> Stored(k)]
    BY <1>3 DEF Boot, LoadFromDB, LoadFails
  <2>2. ~PeerKept /\ ~PeerKept'
    BY <2>1 DEF PeerKept, loginVars
  <2>3. CASE mVal' = mVal
    BY <1>2, <2>1, <2>2, <2>3 DEF loginVars, Issued
  <2>4. CASE mVal' = [k \in Key |-> Stored(k)]
    <3>1. table[peerId] = Absent \/ table[token] = Absent
      BY <1>1, LoginAssumption DEF OneRow, Keys
    <3>2. mVal'[token] = 0 \/ mVal'[peerId] = 0
      BY <1>1, <2>4, <3>1, LoginAssumption DEF Stored
    <3>3. Issued(mVal)'
      BY <1>1, <2>1, <2>4, LoginAssumption DEF Issued, Stored, loginVars
    <3> QED BY <1>2, <2>1, <2>2, <3>2, <3>3 DEF loginVars, Issued
  <2> QED BY <2>1, <2>3, <2>4
<1>4. CASE Refused \/ UNCHANGED <<vars, loginVars>>
  BY <1>2, <1>4 DEF Refused, vars, loginVars, Issued, PeerKept
<1>5. CASE Answered
  <2>1. /\ UNCHANGED vars /\ issued' \in 1..MaxIssue /\ issued' \in {issued, issued + 1}
        /\ left' = Order /\ running
    BY <1>5 DEF Answered
  <2>2. issued <= issued' /\ issued' \in Nat /\ left' # <<token>>
    BY <1>1, <2>1, LoginAssumption DEF Order
  <2>3. ~PeerKept'
    BY <2>1 DEF PeerKept
  <2>4. mVal[token] \in Nat /\ mVal[peerId] \in Nat
    BY <1>1 DEF TypeOK
  <2>5. mVal[token] = 0 \/ mVal[peerId] = 0 \/ mVal[token] <= mVal[peerId]
    BY <1>1, <2>4, ConfigAssumption DEF Issued, TypeOK
  <2>6. Issued(table)' /\ Issued(mVal)' /\ Issued(mKv)' /\ Issued(kvs)'
    BY <1>1, <2>1, <2>2, LoginAssumption DEF Issued, TypeOK, vars
  <2>7. running' /\ issued' # 0 /\ mVal' = mVal
    BY <2>1, LoginAssumption DEF vars
  <2> QED BY <1>2, <2>2, <2>3, <2>5, <2>6, <2>7
<1>6. CASE Keep
  <2>1. UNCHANGED <<alone, asked, has, issued>>
    BY <1>6, KeepCases
  <2>2. running /\ left # <<>>
    BY <1>6 DEF Keep
  <2>3. CASE Head(left) \notin has /\ left' = <<>> /\ UNCHANGED vars
    <3>1. left = Order => Head(left) = peerId
      BY DEF Order
    <3>2. left' # Order /\ left' # <<token>>
      BY <2>3 DEF Order
    <3>3. PeerKept' <=> PeerKept
      BY <2>1, <2>3, <3>1, <3>2 DEF PeerKept, LoginTyping
    <3> QED BY <1>2, <2>1, <2>2, <2>3, <3>2, <3>3 DEF vars, Issued
  <2>4. CASE /\ left = <<peerId, token>> /\ left' = <<token>> /\ peerId \in has
             /\ Set(peerId, issued) \/ (mVal[peerId] = issued /\ UNCHANGED vars)
    BY <1>1, <2>1, <2>2, <2>4, SetKeepsPair DEF Order
  <2>5. CASE /\ left = <<token>> /\ left' = <<>> /\ token \in has
             /\ Set(token, issued) \/ (mVal[token] = issued /\ UNCHANGED vars)
    BY <1>1, <2>1, <2>2, <2>5, SetKeepsPair DEF Order
  <2> QED BY <1>6, <2>3, <2>4, <2>5, KeepCases
<1>7. CASE Saves
  <2>1. UNCHANGED loginVars
    BY <1>7 DEF Saves
  <2>2. issued' = issued /\ (PeerKept' <=> PeerKept)
    BY <2>1 DEF loginVars, PeerKept
  <2>3. Issued(table)' /\ Issued(mKv)' /\ Issued(kvs)' /\ mVal' = mVal /\ running' = running
    BY <1>7, <2>2, SaveKeepsIssued DEF Saves
  <2> QED BY <1>2, <2>1, <2>2, <2>3 DEF loginVars, Issued
<1>8. CASE Dies
  <2>1. /\ mKv' = Nothing /\ kvs' = Nothing /\ mVal' = AllEmpty /\ table' = table
        /\ left' = <<>> /\ has' = {} /\ issued' = issued
    BY <1>8 DEF Dies, Crash
  <2>2. ~PeerKept' /\ left' # <<token>>
    BY <2>1 DEF PeerKept
  <2>3. \A k \in Key : mVal'[k] = 0 /\ mKv'[k] = Absent /\ kvs'[k] = Absent
    BY <2>1, LoginAssumption DEF AllEmpty, Nothing
  <2> QED BY <1>1, <1>2, <2>1, <2>2, <2>3 DEF Issued
<1>9. ~OtherSets
  BY DEF OtherSets
<1> QED BY <1>3, <1>4, <1>5, <1>6, <1>7, <1>8, <1>9 DEF LoginNext

(* The order of login()'s setters: over failing saves, crashes and         *)
(* restarts no token is used with an older peer id, nor without one once   *)
(* login() has set it.                                                     *)
THEOREM TokenAlwaysHasItsPeer == LoginSpec => []TokenHasItsPeer
<1>1. TypeOK /\ LoginTyping /\ (alone => PairInv) /\ [LoginNext]_<<vars, loginVars>>
        => (alone => PairInv)'
  <2>1. ASSUME LoginTyping, [LoginNext]_<<vars, loginVars>> PROVE alone' = alone
    BY <2>1, KeepCases DEF LoginNext, Boot, Refused, Answered, OtherSets, Saves, Dies, loginVars
  <2> QED BY <2>1, PairStep
<1>2. TypeOK /\ LoginTyping /\ (alone => PairInv) => TokenHasItsPeer
  <2> SUFFICES ASSUME TypeOK, LoginTyping, alone, PairInv PROVE TokenHasItsPeer
    BY DEF TokenHasItsPeer
  <2>1. /\ mVal[token] \in Nat /\ mVal[peerId] \in Nat /\ issued \in Nat
        /\ mVal[token] <= issued
    BY LoginAssumption, ConfigAssumption DEF TypeOK, LoginTyping, PairInv, Issued
  <2> QED BY <2>1, LoginAssumption DEF PairInv, TokenHasItsPeer
<1>3. LoginSpec => []TypeOK
  BY LoginIsStore, StoreTyping, PTL
<1> QED BY <1>1, <1>2, <1>3, PairStart, LoginStart, LoginTypingStep, PTL DEF LoginSpec
===============================================================================
