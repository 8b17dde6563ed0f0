---------------------------- MODULE HttpClientProofs ----------------------------
(***************************************************************************)
(* Theorems about HttpClient, for any clients, handles, options, calls and *)
(* header lines.                                                           *)
(***************************************************************************)
EXTENDS HttpClient, SequenceTheorems, TLAPS

(* Handles, options and calls are in their ranges.                         *)
HandleTyping ==
  /\ mCurl \in [Client -> Handle \cup {Null}]
  /\ opt \in [Handle -> [Option -> Nat]]
  /\ live \subseteq Handle
  /\ calls \in Nat
  /\ call = [c \in Client |-> call[c]]
  /\ parsing \in Client \cup {Null}

HandleInv == HandleTyping /\ OwnHandle /\ TransferIsOfCall

(* Do gives its handle the options of its call and takes no handle another *)
(* client has.                                                             *)
LEMMA DoKeeps == ASSUME HandleInv, NEW c \in Client, Do(c) PROVE HandleInv'
<1> USE DEF HandleInv, HandleTyping
<1>1. PICK h \in Handle, resp \in Response :
        /\ IF mCurl[c] # Null THEN h = mCurl[c] /\ live' = live
           ELSE h \notin live /\ live' = live \cup {h}
        /\ mCurl' = [mCurl EXCEPT ![c] = h]
        /\ opt' = [opt EXCEPT ![h] =
                     [o \in Option |-> IF o \in Asked(c, req, resp) THEN calls + 1
                                       ELSE Cleared(h)[o]]]
        /\ call' = [call EXCEPT ![c] =
                      [number |-> calls + 1, asked |-> Asked(c, req, resp)]]
  BY DEF Do
<1>2. calls' = calls + 1 /\ parsing' = parsing /\ call[c] = Null
  BY DEF Do
<1>3. \A o \in Option : Cleared(h)[o] = 0
  BY DEF Cleared, Unset
<1>4. HandleTyping'
  <2>1. opt' \in [Handle -> [Option -> Nat]]
    BY <1>1, <1>3
  <2>2. call' = [d \in Client |-> call'[d]]
    BY <1>1
  <2> QED BY <1>1, <1>2, <2>1, <2>2
<1>5. h \in live' /\ mCurl'[c] = h /\ live \subseteq live'
  BY <1>1 DEF OwnHandle
<1>6. ASSUME NEW d \in Client, d # c PROVE mCurl'[d] = mCurl[d] /\ mCurl[d] # h
  <2>1. mCurl'[d] = mCurl[d]
    BY <1>1, <1>6
  <2>2. CASE mCurl[c] # Null
    BY <1>1, <1>6, <2>2 DEF OwnHandle
  <2>3. CASE mCurl[c] = Null
    <3>1. Null \notin Handle
      BY ClientAssumption
    <3>2. h \notin live /\ mCurl[d] \in live \cup {Null}
      BY <1>1, <2>3 DEF OwnHandle
    <3> QED BY <2>1, <3>1, <3>2
  <2> QED BY <2>1, <2>2, <2>3
<1>7. OwnHandle'
  <2>1. ASSUME NEW d \in Client, mCurl'[d] # Null PROVE mCurl'[d] \in live'
    BY <1>5, <1>6, <2>1 DEF OwnHandle
  <2>2. ASSUME NEW d \in Client, NEW e \in Client, mCurl'[d] = mCurl'[e], mCurl'[d] # Null
        PROVE  d = e
    BY <1>5, <1>6, <2>2 DEF OwnHandle
  <2> QED BY <2>1, <2>2 DEF OwnHandle
<1>8. TransferIsOfCall'
  <2>1. ASSUME NEW d \in Client, call'[d] # Null, d # c
        PROVE  /\ mCurl'[d] \in live'
               /\ \A o \in Option :
                    opt'[mCurl'[d]][o] = IF o \in call'[d].asked THEN call'[d].number ELSE 0
    <3>1. call'[d] = call[d] /\ mCurl'[d] = mCurl[d] /\ mCurl[d] \in live
      BY <1>1, <1>6, <2>1 DEF TransferIsOfCall
    <3>2. opt'[mCurl[d]] = opt[mCurl[d]]
      BY <1>1, <1>6, <2>1, <3>1
    <3> QED BY <1>5, <2>1, <3>1, <3>2 DEF TransferIsOfCall
  <2>2. /\ mCurl'[c] \in live'
        /\ \A o \in Option :
             opt'[mCurl'[c]][o] = IF o \in call'[c].asked THEN call'[c].number ELSE 0
    <3>1. /\ opt'[h] = [o \in Option |-> IF o \in Asked(c, req, resp) THEN calls + 1
                                         ELSE Cleared(h)[o]]
          /\ call'[c].asked = Asked(c, req, resp) /\ call'[c].number = calls + 1
      BY <1>1
    <3> QED BY <1>3, <1>5, <3>1
  <2>3. parsing' # Null => call'[parsing'] # Null /\ "HEADERDATA" \in call'[parsing'].asked
    BY <1>1, <1>2 DEF TransferIsOfCall
  <2> QED BY <2>1, <2>2, <2>3 DEF TransferIsOfCall
<1> QED BY <1>4, <1>7, <1>8

(* Moves and destructions are of clients that are in no call.              *)
LEMMA MovesKeep ==
  ASSUME HandleInv, NEW c \in Client, NEW d \in Client, Move(c, d) \/ Destroy(c)
  PROVE  HandleInv'
<1> USE DEF HandleInv, HandleTyping
<1>1. CASE Move(c, d)
  <2>1. /\ mCurl' \in [Client -> Handle \cup {Null}]
        /\ \A e \in Client : mCurl'[e] = IF e = c THEN Null
                                         ELSE IF e = d THEN mCurl[c] ELSE mCurl[e]
    BY <1>1 DEF Move
  <2>2. /\ opt' = opt /\ live' = live /\ call' = call /\ calls' = calls
        /\ parsing' = parsing /\ call[c] = Null /\ call[d] = Null
    BY <1>1 DEF Move, callVars
  <2>3. OwnHandle'
    BY <2>1, <2>2 DEF OwnHandle
  <2>4. TransferIsOfCall'
    BY <2>1, <2>2 DEF TransferIsOfCall
  <2> QED BY <2>1, <2>2, <2>3, <2>4
<1>2. CASE Destroy(c)
  <2>1. /\ mCurl' \in [Client -> Handle \cup {Null}]
        /\ \A e \in Client : mCurl'[e] = IF e = c THEN Null ELSE mCurl[e]
        /\ live' = live \ {mCurl[c]}
    BY <1>2 DEF Destroy
  <2>2. /\ opt' = opt /\ call' = call /\ calls' = calls
        /\ parsing' = parsing /\ call[c] = Null
    BY <1>2 DEF Destroy, callVars
  <2>3. OwnHandle'
    BY <2>1, <2>2 DEF OwnHandle
  <2>4. TransferIsOfCall'
    <3>1. ASSUME NEW e \in Client, call[e] # Null
          PROVE  mCurl'[e] = mCurl[e] /\ mCurl[e] \in live'
      <4>1. e # c /\ mCurl[e] \in live /\ mCurl[e] # Null
        BY <2>2, <3>1, ClientAssumption DEF TransferIsOfCall
      <4> QED BY <2>1, <4>1 DEF OwnHandle
    <3> QED BY <2>2, <3>1 DEF TransferIsOfCall
  <2> QED BY <2>1, <2>2, <2>3, <2>4
<1> QED BY <1>1, <1>2

(* Handles and options are only Do's, Move's and Destroy's to change.      *)
LEMMA HandleStep == ASSUME HandleInv, [Next]_vars PROVE HandleInv'
<1> USE DEF HandleInv, HandleTyping
<1>1. CASE NewRequest \/ ChangeRequest \/ SetHeader \/ UNCHANGED vars
  <2>1. UNCHANGED <<clientVars, callVars>>
    BY <1>1 DEF NewRequest, ChangeRequest, SetHeader, vars
  <2> QED BY <2>1 DEF clientVars, callVars, OwnHandle, TransferIsOfCall
<1>2. ASSUME NEW c \in Client, Choose(c) PROVE HandleInv'
  BY <1>2 DEF Choose, callVars, OwnHandle, TransferIsOfCall
<1>3. ASSUME NEW c \in Client, Do(c) PROVE HandleInv'
  BY <1>3, DoKeeps
<1>4. ASSUME NEW c \in Client, HeaderArrives(c) PROVE HandleInv'
  <2>1. parsing' = c /\ UNCHANGED clientVars /\ call' = call /\ calls' = calls
    BY <1>4 DEF HeaderArrives
  <2>2. call[c] # Null /\ opt[mCurl[c]]["HEADERDATA"] # 0
    BY <1>4 DEF HeaderArrives
  <2>3. "HEADERDATA" \in call[c].asked
    BY <2>2 DEF TransferIsOfCall, Option
  <2> QED BY <2>1, <2>2, <2>3 DEF clientVars, OwnHandle, TransferIsOfCall
<1>5. ASSUME NEW c \in Client, Returns(c) PROVE HandleInv'
  <2>1. /\ UNCHANGED clientVars /\ calls' = calls /\ parsing' = parsing /\ parsing # c
        /\ call' = [call EXCEPT ![c] = Null]
    BY <1>5 DEF Returns
  <2>2. TransferIsOfCall'
    BY <2>1 DEF clientVars, TransferIsOfCall
  <2> QED BY <2>1, <2>2 DEF clientVars, OwnHandle
<1>6. ASSUME NEW c \in Client, NEW d \in Client, Move(c, d) \/ Destroy(c) PROVE HandleInv'
  BY <1>6, MovesKeep
<1>7. CASE Parses \/ SetField
  <2>1. /\ UNCHANGED clientVars /\ call' = call /\ calls' = calls
        /\ parsing' \in {parsing, Null}
    BY <1>7 DEF Parses, SetField
  <2> QED BY <2>1 DEF clientVars, OwnHandle, TransferIsOfCall
<1> QED BY <1>1, <1>2, <1>3, <1>4, <1>5, <1>6, <1>7 DEF Next

LEMMA HandleStart == Init => HandleInv
BY DEF Init, HandleInv, HandleTyping, OwnHandle, TransferIsOfCall, Unset

(* However clients are moved and destroyed, no handle has two owners and   *)
(* none is used after it was cleaned up.                                   *)
THEOREM HandleIsAlwaysOwn == Spec => []OwnHandle
BY HandleStart, HandleStep, PTL DEF Spec, HandleInv

(* A reused handle never brings an option, a body or a response of an      *)
(* earlier call into a transfer: getCurl resets it.                        *)
THEOREM TransferIsAlwaysOfCall == Spec => []TransferIsOfCall
BY HandleStart, HandleStep, PTL DEF Spec, HandleInv

-------------------------------------------------------------------------------
(* The headers a request has name at most one length, and that of the body *)
(* unless it is the caller's own.                                          *)
Announces(r) ==
  /\ Len(r.headers["Content-Length"]) <= 1
  /\ ~r.own => r.headers["Content-Length"] \in {<<>>, <<r.body>>}

RequestTyping(r) ==
  /\ DOMAIN r.headers = Name
  /\ r = [method |-> r.method, body |-> r.body, headers |-> r.headers, own |-> r.own]

RequestInv == RequestTyping(req) /\ Announces(req)

LEMMA FreshRequest == RequestTyping(GetOf) /\ Announces(GetOf)
BY EmptySeq DEF GetOf, NoHeader, RequestTyping, Announces, Name

LEMMA MethodIsSet ==
  ASSUME NEW r, NEW method, RequestTyping(r)
  PROVE  /\ RequestTyping([r EXCEPT !.method = method])
         /\ Announces(r) => Announces([r EXCEPT !.method = method])
<1> DEFINE p == [r EXCEPT !.method = method]
<1>1. p = [method |-> method, body |-> r.body, headers |-> r.headers, own |-> r.own]
  BY DEF RequestTyping
<1> HIDE DEF p
<1>2. RequestTyping(p) /\ (Announces(r) => Announces(p))
  BY <1>1 DEF RequestTyping, Announces
<1> QED BY <1>2 DEF p

(* One value is a sequence of length 1.                                    *)
LEMMA OneValue == ASSUME NEW value PROVE Len(<<value>>) = 1
OBVIOUS

(* Whatever a body replaces, and whatever length the caller had set, the   *)
(* length that is left is its own.                                         *)
LEMMA BodyIsAnnounced ==
  ASSUME NEW r, NEW size, RequestTyping(r)
  PROVE  RequestTyping(WithBody(r, size)) /\ Announces(WithBody(r, size))
<1> DEFINE w == WithBody(r, size)
           h == Set(Set(r.headers, "Other", "any"), "Content-Length", size)
<1>1. DOMAIN h = Name /\ h["Content-Length"] = <<size>>
  BY DEF Set, Name, RequestTyping
<1>2. w = [r EXCEPT !.body = size, !.own = FALSE, !.headers = h]
  BY DEF WithBody
<1> HIDE DEF h, w
<1>3. w = [method |-> r.method, body |-> size, headers |-> h, own |-> FALSE]
  BY <1>2 DEF RequestTyping
<1>4. w.headers = h /\ w.body = size /\ w.method = r.method /\ w.own = FALSE
  BY <1>3
<1>5. RequestTyping(w)
  BY <1>1, <1>3, <1>4 DEF RequestTyping
<1>6. Announces(w)
  <2>1. w.headers["Content-Length"] = <<w.body>>
    BY <1>1, <1>4
  <2>2. Len(w.headers["Content-Length"]) <= 1
    BY <2>1, OneValue
  <2> QED BY <2>1, <2>2, Zenon DEF Announces
<1> QED BY <1>5, <1>6 DEF w

(* A header the caller sets takes the place of those of its name.          *)
LEMMA HeaderIsSet ==
  ASSUME RequestInv, SetHeader PROVE RequestTyping(req') /\ Announces(req')
<1> USE DEF RequestInv, RequestTyping
<1>1. CASE req' = [req EXCEPT !.headers = Set(@, "Other", "any")]
  <2> DEFINE h == Set(req.headers, "Other", "any")
  <2>1. DOMAIN h = Name /\ h["Content-Length"] = req.headers["Content-Length"]
    BY DEF Set, Name
  <2> HIDE DEF h
  <2>2. req' = [method |-> req.method, body |-> req.body, headers |-> h, own |-> req.own]
    BY <1>1 DEF h
  <2> QED BY <2>1, <2>2 DEF Announces
<1>2. ASSUME NEW size \in Size,
             req' = [req EXCEPT !.headers = Set(@, "Content-Length", size), !.own = TRUE]
      PROVE  RequestTyping(req') /\ Announces(req')
  <2> DEFINE h == Set(req.headers, "Content-Length", size)
  <2>1. DOMAIN h = Name /\ Len(h["Content-Length"]) <= 1
    BY OneValue DEF Set, Name
  <2> HIDE DEF h
  <2>2. req' = [method |-> req.method, body |-> req.body, headers |-> h, own |-> TRUE]
    BY <1>2 DEF h
  <2> QED BY <2>1, <2>2 DEF Announces
<1> QED BY <1>1, <1>2 DEF SetHeader

LEMMA RequestStep == ASSUME RequestInv, [Next]_vars PROVE RequestInv'
<1> USE DEF RequestInv
<1>1. CASE NewRequest \/ ChangeRequest \/ SetHeader
  <2>1. SUFFICES RequestTyping(req') /\ Announces(req')
    BY DEF RequestTyping, Announces
  <2>3. CASE req' = GetOf
    BY <2>3, FreshRequest
  <2>4. ASSUME NEW size, req' = WithBody([GetOf EXCEPT !.method = "Post"], size)
        PROVE  RequestTyping(req') /\ Announces(req')
    BY <2>4, FreshRequest, MethodIsSet, BodyIsAnnounced
  <2>5. ASSUME NEW size, req' = WithBody(req, size)
        PROVE  RequestTyping(req') /\ Announces(req')
    BY <2>5, BodyIsAnnounced
  <2>6. ASSUME NEW method, req' = [req EXCEPT !.method = method]
        PROVE  RequestTyping(req') /\ Announces(req')
    BY <2>6, MethodIsSet
  <2>7. CASE req' = [req EXCEPT !.headers = NoHeader, !.own = FALSE]
    <3>1. req' = [method |-> req.method, body |-> req.body, headers |-> NoHeader,
                  own |-> FALSE]
      BY <2>7 DEF RequestTyping
    <3>2. DOMAIN NoHeader = Name /\ NoHeader["Content-Length"] = <<>>
      BY DEF NoHeader, Name
    <3> QED BY <3>1, <3>2, EmptySeq DEF RequestTyping, Announces
  <2> QED BY <1>1, <2>3, <2>4, <2>5, <2>6, <2>7, HeaderIsSet DEF NewRequest, ChangeRequest
<1>2. ASSUME NEW c \in Client, Do(c) PROVE RequestInv'
  BY <1>2, FreshRequest DEF Do, RequestTyping, Announces
<1>3. ASSUME NEW c \in Client, NEW d \in Client,
             Choose(c) \/ HeaderArrives(c) \/ Returns(c) \/ Destroy(c) \/ Move(c, d)
      PROVE  req' = req
  BY <1>3 DEF Choose, HeaderArrives, Returns, Destroy, Move
<1>4. CASE Parses \/ SetField \/ UNCHANGED vars
  BY <1>4 DEF Parses, SetField, vars, RequestTyping, Announces
<1>5. CASE req' = req
  BY <1>5 DEF RequestTyping, Announces
<1> QED BY <1>1, <1>2, <1>3, <1>4, <1>5 DEF Next

(* However often a request's body, method and headers are changed, a POST  *)
(* is sent with at most one length, and with no other than that of its     *)
(* body unless the caller has set one after the last body.                 *)
THEOREM BodyIsAlwaysAnnounced == Spec => AnnouncesItsBody
<1>1. Init => RequestInv
  BY FreshRequest DEF Init, RequestInv
<1>2. RequestInv =>
        \A c \in Client :
          call[c] = Null /\ call'[c] # Null /\ "POST" \in call'[c].asked =>
            LET announced == req.headers["Content-Length"]
            IN  /\ Len(announced) <= 1
                /\ ~req.own => announced \in {<<>>, <<req.body>>}
  BY DEF RequestInv, Announces
<1> QED BY <1>1, <1>2, RequestStep, PTL DEF Spec, AnnouncesItsBody

-------------------------------------------------------------------------------
(* Where the value of a line begins whose first colon has index c.         *)
First(c) == IF c + 1 < Len(line) /\ line[c + 2] = Space THEN c + 2 ELSE c + 1

(* The key is what is before index c, the first colon of the line.         *)
KeyEndsAt(c) ==
  /\ c < Len(line) /\ key = SubSeq(line, 1, c)
  /\ \A j \in 1..c : line[j] # Colon
  /\ line[c + 1] = Colon

(* What the loops have established at each place of the callback.          *)
LineInv ==
  /\ line \in Seq(Char)
  /\ i \in Nat /\ n \in Nat /\ i <= n /\ n <= Len(line)
  /\ at \in {"idle", "key", "space", "trim", "set"}
  /\ at \in {"key", "space", "trim"} => val = <<>>
  /\ at = "key" => n = Len(line) /\ \A j \in 1..i : line[j] # Colon
  /\ at = "space" =>
       n = Len(line) /\ i < n /\ \E c \in 0..n : KeyEndsAt(c) /\ i = c + 1
  /\ at = "trim" =>
       /\ \E c \in 0..Len(line) : KeyEndsAt(c) /\ i = First(c)
       /\ \A j \in n + 1..Len(line) : line[j] \in LineEnd
  /\ at = "set" => Callback!IsField(line, key, val)

(* A value from the end of the key on to index last, with line ends after  *)
(* it, makes a field.                                                      *)
LEMMA FieldFound ==
  ASSUME line \in Seq(Char), NEW c \in 0..Len(line), NEW last \in 0..Len(line),
         KeyEndsAt(c), First(c) <= last,
         First(c) < last => line[last] \notin LineEnd,
         \A j \in last + 1..Len(line) : line[j] \in LineEnd
  PROVE  Callback!IsField(line, key, SubSeq(line, First(c) + 1, last))
<1>1. First(c) \in 0..Len(line) /\ c + 1 <= First(c)
  BY LenProperties DEF First
<1> QED BY <1>1 DEF Callback!IsField, KeyEndsAt, First

(* Nothing is after the end of a sequence.                                 *)
LEMMA NothingAfter ==
  ASSUME line \in Seq(Char) PROVE SubSeq(line, Len(line) + 1, Len(line)) = <<>>
BY LenProperties, SubSeqProperties

LEMMA ParseStep == ASSUME LineInv, Callback!Parse PROVE LineInv'
<1> USE DEF LineInv
<1>1. CASE Callback!SkipKey
  <2>1. i' = i + 1 /\ line' = line /\ n' = n /\ at' = at /\ val' = val
    BY <1>1 DEF Callback!SkipKey
  <2>2. \A j \in 1..i' : line[j] # Colon
    BY <1>1, <2>1 DEF Callback!SkipKey
  <2> QED BY <1>1, <2>1, <2>2 DEF Callback!SkipKey
<1>2. CASE Callback!NoField
  BY <1>2, LenProperties, EmptySeq DEF Callback!NoField, Callback!Over
<1>3. CASE Callback!EndKey
  <2>1. /\ at = "key" /\ i < n /\ line[i + 1] = Colon /\ n = Len(line)
        /\ key' = SubSeq(line, 1, i) /\ i' = i + 1 /\ line' = line /\ n' = n /\ val' = <<>>
        /\ at' = IF i' < n THEN "space" ELSE "set"
    BY <1>3 DEF Callback!EndKey
  <2>2. PICK c \in 0..n : c = i
    OBVIOUS
  <2>3. CASE i' < n
    <3>1. KeyEndsAt(c)' /\ i' = c + 1
      BY <2>1, <2>2 DEF KeyEndsAt
    <3> QED BY <2>1, <2>3, <3>1
  <2>4. CASE ~(i' < n)
    <3>1. i + 1 = Len(line) /\ at' = "set"
      BY <2>1, <2>4
    <3>2. Callback!IsField(line, key', <<>>)
      <4>1. SubSeq(line, i + 2, i + 1) = <<>>
        BY <3>1, NothingAfter
      <4>2. /\ key' = SubSeq(line, 1, i) /\ \A j \in 1..i : line[j] # Colon
            /\ line[i + 1] = Colon /\ i \in 0..Len(line) /\ i + 1 \in 0..Len(line)
        BY <2>1, <3>1
      <4> QED BY <3>1, <4>1, <4>2 DEF Callback!IsField
    <3> QED BY <2>1, <3>1, <3>2
  <2> QED BY <2>3, <2>4
<1>4. CASE Callback!SkipSpace
  <2>1. /\ at = "space" /\ line' = line /\ n' = n /\ key' = key /\ val' = val /\ val = <<>>
        /\ i' = IF line[i + 1] = Space THEN i + 1 ELSE i
        /\ at' = IF i' < n THEN "trim" ELSE "set"
    BY <1>4 DEF Callback!SkipSpace
  <2>2. PICK c \in 0..n : KeyEndsAt(c) /\ i = c + 1
    BY <2>1
  <2>3. i' = First(c) /\ i' \in Nat /\ i' <= n /\ n = Len(line)
    BY <2>1, <2>2 DEF First
  <2>4. CASE i' < n
    BY <2>1, <2>2, <2>3, <2>4 DEF KeyEndsAt, First
  <2>5. CASE ~(i' < n)
    <3>1. First(c) = Len(line)
      BY <2>3, <2>5
    <3>2. Callback!IsField(line, key, SubSeq(line, First(c) + 1, Len(line)))
      BY <2>2, <2>3, <3>1, FieldFound
    <3>3. SubSeq(line, First(c) + 1, Len(line)) = <<>>
      BY <3>1, NothingAfter
    <3> QED BY <2>1, <2>3, <2>5, <3>2, <3>3
  <2> QED BY <2>4, <2>5
<1>5. CASE Callback!Trim
  <2>1. /\ at = "trim" /\ i < n /\ line[n] \in LineEnd /\ n' = n - 1
        /\ line' = line /\ i' = i /\ key' = key /\ val' = val /\ at' = at
    BY <1>5 DEF Callback!Trim
  <2>2. \A j \in n' + 1..Len(line) : line[j] \in LineEnd
    BY <2>1
  <2> QED BY <2>1, <2>2 DEF KeyEndsAt, First
<1>6. CASE Callback!Assign
  <2>1. /\ at = "trim" /\ (i < n => line[n] \notin LineEnd)
        /\ val' = SubSeq(line, i + 1, n) /\ at' = "set"
        /\ line' = line /\ i' = i /\ n' = n /\ key' = key
    BY <1>6 DEF Callback!Assign
  <2>2. PICK c \in 0..Len(line) : KeyEndsAt(c) /\ i = First(c)
    BY <2>1
  <2>3. Callback!IsField(line, key, SubSeq(line, First(c) + 1, n))
    BY <2>1, <2>2, FieldFound
  <2> QED BY <2>1, <2>2, <2>3
<1> QED BY <1>1, <1>2, <1>3, <1>4, <1>5, <1>6 DEF Callback!Parse

LEMMA LineStep == ASSUME LineInv, [Next]_vars PROVE LineInv'
<1>1. CASE Parses
  BY <1>1, ParseStep DEF Parses
<1>2. CASE SetField
  BY <1>2, LenProperties, EmptySeq DEF SetField, Callback!FieldSet, Callback!Over, LineInv
<1>3. ASSUME NEW c \in Client, HeaderArrives(c) PROVE LineInv'
  <2>1. PICK l \in Line : Callback!Called(l)
    BY <1>3 DEF HeaderArrives
  <2>2. l \in Seq(Char)
    BY ClientAssumption
  <2> QED BY <2>1, <2>2, LenProperties DEF Callback!Called, LineInv
<1>4. CASE UNCHANGED lineVars
  BY <1>4 DEF lineVars, LineInv, KeyEndsAt, First
<1>5. ASSUME NEW c \in Client, NEW d \in Client,
             Choose(c) \/ Do(c) \/ Returns(c) \/ Destroy(c) \/ Move(c, d)
      PROVE  UNCHANGED lineVars
  BY <1>5 DEF Choose, Do, Returns, Destroy, Move
<1>6. CASE NewRequest \/ ChangeRequest \/ SetHeader \/ UNCHANGED vars
  BY <1>4, <1>6 DEF NewRequest, ChangeRequest, SetHeader, vars
<1> QED BY <1>1, <1>2, <1>3, <1>4, <1>5, <1>6 DEF Next

(* Whatever lines a server sends, the callback reads within them, and the  *)
(* key and value it sets are those of the line: up to the first colon, and *)
(* from behind one space to the line ends.                                 *)
THEOREM FieldsAreAlwaysAsSent == Spec => []FieldsAsSent
<1>1. Init => LineInv
  BY LenProperties, EmptySeq DEF Init, Callback!LineInit, LineInv
<1>2. LineInv => FieldsAsSent
  BY DEF LineInv, FieldsAsSent, Callback!ReadsInside
<1> QED BY <1>1, <1>2, LineStep, PTL DEF Spec
===============================================================================
