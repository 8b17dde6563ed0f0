--------------------------------- MODULE Login ---------------------------------
(***************************************************************************)
(* MainManager::login() at work on the configuration: what the API answers *)
(* is kept as peer id and token, one setter after the other, while saves   *)
(* begin, fail and end, and the process dies and comes back.  The values   *)
(* are the numbers of the logins they were first issued at.                *)
(***************************************************************************)
EXTENDS ConfigStore, Naturals, Sequences

CONSTANTS
  peerId, token,
  MaxIssue  \* bound: how often the API issues something new

ASSUME LoginAssumption ==
  /\ Key = {peerId, token} /\ peerId # token
  /\ MaxIssue \in Nat
  /\ Value = 0..MaxIssue /\ Empty = 0

VARIABLES
  alone,    \* whether nothing but login() uses the setters
  asked,    \* login() has been called in this process
  left,     \* the parts of the answer login() has still to keep
  has,      \* the parts the answer has
  issued    \* history: what the API issued last

loginVars == <<alone, asked, left, has, issued>>

LoginInit ==
  /\ Init
  /\ alone \in BOOLEAN
  /\ asked = FALSE /\ left = <<>> /\ has = {}
  /\ issued = 0

-------------------------------------------------------------------------------
(* init(), then Start(): run() begins with login() *)
Boot ==
  /\ LoadFromDB \/ LoadFails
  /\ UNCHANGED loginVars

(* No code 200, a "code" that is missing or not positive, or a body that   *)
(* is no JSON: login() only logs it.                                       *)
Refused ==
  /\ running /\ ~asked
  /\ asked' = TRUE
  /\ UNCHANGED <<vars, alone, left, has, issued>>

(* Mutant of Order: the token is kept first. *)
OrderSwapped == <<token, peerId>>

Order == <<peerId, token>>

(* A positive code.  The data may lack a part, or have something else than *)
(* a string for it; what it has is the device's last peer id and token or  *)
(* newer ones.                                                             *)
Answered ==
  /\ running /\ ~asked
  /\ asked' = TRUE
  /\ issued' \in {issued, issued + 1} \cap (1..MaxIssue)
  /\ has' \in SUBSET Key
  /\ left' = Order
  /\ UNCHANGED <<vars, alone>>

(* One part is taken from the data, or an exception ends login(). *)
Keep ==
  /\ left # <<>>
  /\ IF Head(left) \in has
     THEN /\ Set(Head(left), issued) \/ (mVal[Head(left)] = issued /\ UNCHANGED vars)
          /\ left' = Tail(left)
     ELSE left' = <<>> /\ UNCHANGED vars
  /\ UNCHANGED <<alone, asked, has, issued>>

OtherSets ==
  /\ ~alone
  /\ \E k \in Key, v \in Value : Set(k, v)
  /\ UNCHANGED loginVars

Saves ==
  /\ SaveToDB \/ OpenFails \/ Swap \/ Commit \/ Throws \/ Merge
  /\ UNCHANGED loginVars

Dies ==
  /\ Crash
  /\ asked' = FALSE /\ left' = <<>> /\ has' = {}
  /\ UNCHANGED <<alone, issued>>

LoginNext == Boot \/ Refused \/ Answered \/ Keep \/ OtherSets \/ Saves \/ Dies

LoginSpec == LoginInit /\ [][LoginNext]_<<vars, loginVars>>

-------------------------------------------------------------------------------
(* login() has set the peer id in this process. *)
PeerKept == peerId \in has /\ left # Order

(* login() may keep half of an answer, and of the two a restart finds the  *)
(* one that was written last: but no token is ever used with an older peer *)
(* id than the one it was issued to, and from the moment login() keeps a   *)
(* peer id none is used without - if login() is the only one to set them.  *)
TokenHasItsPeer ==
  alone => \/ mVal[token] <= mVal[peerId]
           \/ mVal[peerId] = Empty /\ ~PeerKept
===============================================================================
