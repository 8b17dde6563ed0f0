------------------------------- MODULE HttpClient -------------------------------
(***************************************************************************)
(* util/HttpClient.h: clients that keep one easy handle each and use it    *)
(* for call after call, what a call sets on the handle and how libcurl     *)
(* calls back with header lines while the call performs.                   *)
(*                                                                         *)
(* The objects of the n-th call - its URL, headers, body and response -    *)
(* live until it returns; an option is known by the number of the call     *)
(* that set it, which is the call whose objects libcurl will use.          *)
(***************************************************************************)
EXTENDS Naturals, Sequences

CONSTANTS
  Client, Handle, Null,
  Choice,     \* options a client sets on the handle only when it was told to
  Size,       \* the lengths of bodies
  Char, Line, \* the characters and the header lines of servers
  Colon, Space, LineEnd,
  MaxCalls    \* bound: calls in all

ASSUME ClientAssumption ==
  /\ Null \notin Client /\ Null \notin Handle
  /\ Line \subseteq Seq(Char)
  /\ Colon # Space /\ Colon \notin LineEnd
  /\ MaxCalls \in Nat

VARIABLES
  mCurl,    \* the handle of a client
  mChosen,  \* the options it was told to set
  opt,      \* by handle and option: the call that has set it, 0 if unset
  live,     \* handles made and not cleaned up
  req,      \* the request being built
  call,     \* the call a client is in
  calls,    \* how many calls were begun
  parsing,  \* the client whose callback runs: two share nothing
  line, i, n, key, val, at

lineVars == <<line, i, n, key, val, at>>
clientVars == <<mCurl, mChosen, opt, live>>
callVars == <<call, calls, parsing>>
vars == <<clientVars, req, callVars, lineVars>>

Callback == INSTANCE HeaderLine

Option == Choice \cup {"URL", "HTTPHEADER", "POST", "WRITEDATA", "HEADERDATA"}
Unset == [o \in Option |-> 0]

-------------------------------------------------------------------------------
(* HttpHeaders: the values of each name.  Only lengths are told apart.     *)
(* "Other" is any other name, Content-Type too; names compare as spelt.    *)
Name == {"Content-Length", "Other"}
NoHeader == [name \in Name |-> <<>>]

(* Mutant of Set: what the name has stays in the map. *)
SetMore(headers, name, value) == [headers EXCEPT ![name] = Append(@, value)]

Set(headers, name, value) == [headers EXCEPT ![name] = <<value>>]

(* HttpRequest::SetBody: after it there is a content type, and the length. *)
(* "own" is history: the caller has set the length since.                  *)
WithBody(r, size) ==
  [r EXCEPT !.body = size, !.own = FALSE,
            !.headers = Set(Set(@, "Other", "any"), "Content-Length", size)]

GetOf == [method |-> "Get", body |-> 0, headers |-> NoHeader, own |-> FALSE]

Init ==
  /\ mCurl = [c \in Client |-> Null]
  /\ mChosen = [c \in Client |-> {}]
  /\ opt = [h \in Handle |-> Unset]
  /\ live = {}
  /\ req = GetOf
  /\ call = [c \in Client |-> Null]
  /\ calls = 0 /\ parsing = Null
  /\ Callback!LineInit

-------------------------------------------------------------------------------
(* What a caller does with the request it is going to use *)
NewRequest ==
  /\ \/ req' = GetOf
     \/ \E size \in Size : req' = WithBody([GetOf EXCEPT !.method = "Post"], size)
  /\ UNCHANGED <<clientVars, callVars, lineVars>>

ChangeRequest ==
  /\ \/ \E size \in Size : req' = WithBody(req, size)
     \/ \E method \in {"Get", "Post"} : req' = [req EXCEPT !.method = method]
     \/ req' = [req EXCEPT !.headers = NoHeader, !.own = FALSE]
  /\ UNCHANGED <<clientVars, callVars, lineVars>>

(* SetHeader, SetUserAgent and SetContentType: the length as well is the   *)
(* caller's to set, to any number.                                         *)
SetHeader ==
  /\ \/ req' = [req EXCEPT !.headers = Set(@, "Other", "any")]
     \/ \E size \in Size :
          req' = [req EXCEPT !.headers = Set(@, "Content-Length", size), !.own = TRUE]
  /\ UNCHANGED <<clientVars, callVars, lineVars>>

(* The setters of HttpClientOption; a 0 or an empty string takes it back. *)
Choose(c) ==
  /\ call[c] = Null
  /\ \E o \in Choice :
       mChosen' = [mChosen EXCEPT ![c] = IF o \in @ THEN @ \ {o} ELSE @ \cup {o}]
  /\ UNCHANGED <<mCurl, opt, live, req, callVars, lineVars>>

-------------------------------------------------------------------------------
(* Mutant of Cleared: a handle keeps its options from call to call. *)
Kept(h) == opt[h]

(* getCurl: curl_easy_reset of a handle used before *)
Cleared(h) == Unset

(* fill() and what Do() sets: a header list only when there is one, the    *)
(* write function only for a response, the header function only for one    *)
(* that has a header already, which Get() sees to.                         *)
Asked(c, r, resp) ==
  {"URL"} \cup mChosen[c]
    \cup (IF r.headers # NoHeader THEN {"HTTPHEADER"} ELSE {})
    \cup (IF r.method = "Post" THEN {"POST"} ELSE {})
    \cup (IF resp # "none" THEN {"WRITEDATA"} ELSE {})
    \cup (IF resp = "headers" THEN {"HEADERDATA"} ELSE {})

(* What a call wants of the response: nothing, as WebRtcManager::report()  *)
(* does, the body, as Post() does, or also the headers, as Get() does.     *)
Response == {"none", "plain", "headers"}

(* Do, up to curl_easy_perform; it returns -1 when there is no handle to   *)
(* be had.                                                                 *)
Do(c) ==
  /\ call[c] = Null /\ calls < MaxCalls
  /\ \E h \in Handle, resp \in Response :
       /\ IF mCurl[c] # Null THEN h = mCurl[c] /\ live' = live
          ELSE h \notin live /\ live' = live \cup {h}
       /\ mCurl' = [mCurl EXCEPT ![c] = h]
       /\ opt' = [opt EXCEPT ![h] =
                    [o \in Option |-> IF o \in Asked(c, req, resp) THEN calls + 1
                                      ELSE Cleared(h)[o]]]
       /\ call' = [call EXCEPT ![c] =
                    [number |-> calls + 1, asked |-> Asked(c, req, resp)]]
  /\ calls' = calls + 1
  /\ req' = GetOf
  /\ UNCHANGED <<mChosen, parsing, lineVars>>

HeaderArrives(c) ==
  /\ call[c] # Null /\ parsing = Null
  /\ opt[mCurl[c]]["HEADERDATA"] # 0
  /\ \E l \in Line : Callback!Called(l)
  /\ parsing' = c
  /\ UNCHANGED <<clientVars, req, call, calls>>

Parses ==
  /\ Callback!Parse
  /\ parsing' = IF at' = "idle" THEN Null ELSE parsing
  /\ UNCHANGED <<clientVars, req, call, calls>>

(* headers->Set(key, val, false): a field is added to those of its name. *)
SetField ==
  /\ Callback!FieldSet
  /\ parsing' = Null
  /\ UNCHANGED <<clientVars, req, call, calls>>

(* curl_easy_perform is over, Do returns, and what was of the call is gone *)
Returns(c) ==
  /\ call[c] # Null /\ parsing # c
  /\ call' = [call EXCEPT ![c] = Null]
  /\ UNCHANGED <<clientVars, req, calls, parsing, lineVars>>

-------------------------------------------------------------------------------
(* Mutant of Move: both clients have the handle. *)
MoveSharing(c, d) ==
  /\ call[c] = Null /\ call[d] = Null
  /\ mCurl' = [mCurl EXCEPT ![d] = mCurl[c]]
  /\ mChosen' = [mChosen EXCEPT ![c] = {}, ![d] = mChosen[c]]
  /\ UNCHANGED <<opt, live, req, callVars, lineVars>>

(* d = std::move(c): a handle d had is lost, not cleaned up. *)
Move(c, d) ==
  /\ call[c] = Null /\ call[d] = Null
  /\ mCurl' = [[mCurl EXCEPT ![d] = mCurl[c]] EXCEPT ![c] = Null]
  /\ mChosen' = [[mChosen EXCEPT ![d] = mChosen[c]] EXCEPT ![c] = {}]
  /\ UNCHANGED <<opt, live, req, callVars, lineVars>>

(* A client is destroyed, and another made in its place. *)
Destroy(c) ==
  /\ call[c] = Null
  /\ live' = live \ {mCurl[c]}
  /\ mCurl' = [mCurl EXCEPT ![c] = Null]
  /\ mChosen' = [mChosen EXCEPT ![c] = {}]
  /\ UNCHANGED <<opt, req, callVars, lineVars>>

Next ==
  \/ NewRequest \/ ChangeRequest \/ SetHeader
  \/ \E c \in Client : Choose(c) \/ Do(c) \/ HeaderArrives(c) \/ Returns(c) \/ Destroy(c)
  \/ \E c, d \in Client : Move(c, d)
  \/ Parses \/ SetField

Spec == Init /\ [][Next]_vars

-------------------------------------------------------------------------------
(* However clients are moved and destroyed, a handle belongs to one client *)
(* at most, and no client has one that was cleaned up.                     *)
OwnHandle ==
  /\ \A c \in Client : mCurl[c] # Null => mCurl[c] \in live
  /\ \A c, d \in Client : mCurl[c] = mCurl[d] /\ mCurl[c] # Null => c = d

(* libcurl works with what the call that performs has set, and with        *)
(* nothing else: no option, body, header list or response of an earlier    *)
(* call, which is gone, nor of a client that works at the same time.  A    *)
(* header callback only runs in a call that asked for it.                  *)
TransferIsOfCall ==
  /\ \A c \in Client : call[c] # Null =>
       /\ mCurl[c] \in live
       /\ \A o \in Option :
            opt[mCurl[c]][o] = IF o \in call[c].asked THEN call[c].number ELSE 0
  /\ parsing # Null => call[parsing] # Null /\ "HEADERDATA" \in call[parsing].asked

(* A call that posts sends the request's headers and its body: at most one *)
(* length, and that of the body unless the caller has set it after the     *)
(* body.  SetBody makes good the length of an earlier body and one that    *)
(* the caller set before it.                                               *)
AnnouncesItsBody ==
  [][\A c \in Client :
       call[c] = Null /\ call'[c] # Null /\ "POST" \in call'[c].asked =>
         LET announced == req.headers["Content-Length"]
         IN  /\ Len(announced) <= 1
             /\ ~req.own => announced \in {<<>>, <<req.body>>}]_vars

(* What is set as a field of the response is what the server sent, for     *)
(* every line, and no line is read outside of its length.                  *)
FieldsAsSent ==
  /\ Callback!ReadsInside
  /\ at = "set" => Callback!IsField(line, key, val)
===============================================================================
