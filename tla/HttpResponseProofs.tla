------------------------ MODULE HttpResponseProofs -------------------------
(* Proofs about HttpResponse, for any requests, file systems and sizes.    *)
(* MCHttpResponse is extended for its table of expected statuses alone.    *)
EXTENDS MCHttpResponse, TLAPS

----------------------------------------------------------------------------
(* The invariant.                                                          *)

Lengths == (-(IntMax + 1))..IntMax \cup {ListingSize}
Sources == {"nothing", "page", "script", "created", "moved", "listing", "file", "deleted"}
TypeInv ==
  /\ TypeOK
  /\ fs \in [Paths -> Node]
  /\ resp \in [status : 200..599, length : SUBSET Lengths, body : Nat,
               file : {"target", "index"}, from : Sources]
  /\ out \in [head : BOOLEAN, bytes : Nat, kept : BOOLEAN]

\* The steps of a request that nothing has refused, by the method they are for.
Getting == {"GET", "isDirectory", "prepareHeaders"}
Deleting == {"DELETE", "remove"}
Handling == {"handleCgiScript", "POST"} \cup Getting \cup Deleting

\* The answer is empty until a handler makes it.
Blank ==
  /\ pc \notin {"prepareHeaders", "readErrorPage", "send", "sent"} => resp.file = "target"
  /\ pc \notin {"readErrorPage", "send", "sent"} =>
       resp.length = {} /\ resp.body = 0 /\ resp.from = "nothing"
  /\ pc = "readErrorPage" => resp.body = 0 /\ resp.from = "page" /\ resp.status >= 400

\* No error was found before the method's handler; a body was stored, unless the
\* script reads it.
Accepted ==
  /\ q.early = 0 /\ resp.status = 200
  /\ q.body # "none" => MethodAllowed /\ (stored \/ q.script)

\* What is known at each step whatever happens to the files.
Control ==
  /\ pc = "idle" => changes = 0
  /\ pc \in {"idle", "RouteURI", "parseBody"} => ~stored
  /\ pc = "parseBody" => q.early = 0 /\ q.body # "none" /\ resp.status \in {200, 403, 404}
  /\ pc = "generate" /\ resp.status < 400 => Accepted
  /\ pc \in Handling => Accepted /\ (q.cgi <=> pc = "handleCgiScript")
  /\ pc \in Getting => q.method = "GET"
  /\ pc \in Deleting => q.method = "DELETE"
  /\ pc = "POST" => q.method = "POST"
  /\ pc \in {"isDirectory", "prepareHeaders", "remove"} => MethodAllowed
  /\ pc \in {"send", "sent"} /\ resp.from = "created" => stored \/ q.script
  /\ pc = "send" /\ resp.from = "deleted" =>
       resp.status = 204 /\ resp.length = {} /\ resp.body = 0

\* The status that parser and parseBody found.
Asked ==
  IF q.early # 0 THEN q.early
  ELSE IF q.body # "none" /\ ~MethodAllowed THEN 405
  ELSE checkFilePerms("target")

\* A directory with neither default file nor listing.
Bare == isDirectory("target") /\ ~q.default /\ ~q.autoIndex
PageStatus == resp.status \in ExpectedStatus \cup {500} /\ (resp.status >= 400 \/ Bare)
PageIsCut ==
  resp.status \in PageCodes /\ checkFilePerms("page") = 200 /\ resp.body < FileSize("page")

\* What each answer has to do with the files it was made from.
Answered ==
  /\ resp.from = "page" =>
       /\ PageStatus
       /\ resp.status < 400 => resp.body > 0
       /\ resp.length = {ToString(resp.body)} \/ PageIsCut
  /\ resp.from # "page" =>
       /\ resp.status \in ExpectedStatus /\ checkFilePerms("target") = 200
       /\ resp.file = "index" => resp.from = "file"
  /\ resp.from = "script" => resp.length = {ToString(resp.body)}
  /\ resp.from = "created" => resp.status = 201
  /\ resp.from = "listing" =>
       resp.length = {ListingSize} /\ resp.body = ListingSize /\ isDirectory("target")
  /\ resp.from = "file" =>
       /\ resp.length = {ToString(FileSize(resp.file))} /\ resp.body = 0 /\ resp.status = 200
       /\ checkFilePerms(resp.file) = 200
       /\ resp.file = "target" => ~isDirectory("target")
  /\ resp.from # "nothing"

\* What is known at each step as long as nobody else has touched the files.
Found ==
  changes = 0 =>
    /\ pc = "parseBody" => resp.status = checkFilePerms("target")
    /\ pc = "generate" => resp.status \in {Asked, 500}
    /\ pc \in Handling => checkFilePerms("target") = 200
    /\ pc = "isDirectory" => code = 200
    /\ pc = "prepareHeaders" =>
         IF resp.file = "target" THEN ~isDirectory("target")
         ELSE /\ isDirectory("target") /\ q.slash /\ q.redirect = 0 /\ q.default
              /\ checkFilePerms("index") = 200
    /\ pc = "setErrorPage" => PageStatus
    /\ pc = "readErrorPage" =>
         /\ PageStatus /\ resp.length = {ToString(FileSize("page"))}
         /\ resp.status \in PageCodes \/ FileSize("page") = -1
    /\ pc = "send" /\ resp.from # "deleted" => Answered

ResponseInv ==
  /\ TypeInv /\ Blank /\ Control /\ Found
  /\ KeptMeansFramed /\ SilenceNeedsChange /\ ErrorPageIsError /\ StatusIsExpected

----------------------------------------------------------------------------
(* What the system calls and the table of statuses say.                    *)

LEMMA NodeTyped ==
  ASSUME TypeInv, NEW p \in Paths
  PROVE  At(p).kind \in {"none", "file", "dir"} /\ At(p).size \in Nat
BY DEF TypeInv, At, Absent, Node, Paths

LEMMA PermsTyped ==
  ASSUME NEW p
  PROVE  /\ checkFilePerms(p) \in {200, 403, 404}
         /\ checkFilePerms(p) = 200 => At(p).kind # "none" /\ At(p).readable
         /\ At(p).kind = "none" => checkFilePerms(p) = 404
BY DEF checkFilePerms

LEMMA SizeTyped ==
  ASSUME TypeInv, NEW p \in Paths
  PROVE  /\ FileSize(p) \in Nat \cup {-1}
         /\ FileSize(p) = -1 <=> At(p).kind = "none"
         /\ FileSize(p) # -1 => FileSize(p) = At(p).size /\ FileSize(p) \in Nat
         /\ checkFilePerms(p) = 200 => FileSize(p) # -1
BY NodeTyped, PermsTyped DEF FileSize

\* An int holds what toString makes of a length; up to IntMax it is the length.
LEMMA ToStringTyped ==
  ASSUME NEW n \in Nat \cup {-1}
  PROVE  ToString(n) \in Lengths
<1> DEFINE w == 2 * (IntMax + 1)
<1>1. IntMax \in Nat /\ w \in Nat \ {0} /\ w = IntMax + 1 + (IntMax + 1)
  BY ConstantsAssumption DEF ConstantsAssumption
<1>2. n + IntMax + 1 \in Int
  BY <1>1
<1> HIDE DEF w
<1>3. (n + IntMax + 1) % w \in 0..(w - 1)
  BY <1>1, <1>2
<1>4. ToString(n) = ((n + IntMax + 1) % w) - (IntMax + 1)
  BY DEF ToString, w
<1>5. ToString(n) \in (-(IntMax + 1))..IntMax
  BY <1>1, <1>3, <1>4
<1> QED
  BY <1>5 DEF Lengths

LEMMA ToStringFits ==
  ASSUME NEW n \in Nat, n <= IntMax
  PROVE  ToString(n) = n
<1> DEFINE w == 2 * (IntMax + 1)
<1>1. IntMax \in Nat /\ w \in Nat \ {0} /\ w = IntMax + 1 + (IntMax + 1)
  BY ConstantsAssumption DEF ConstantsAssumption
<1>2. n + IntMax + 1 \in 0..(w - 1)
  BY <1>1
<1> HIDE DEF w
<1>3. (n + IntMax + 1) % w = n + IntMax + 1
  BY <1>1, <1>2
<1>4. ToString(n) = ((n + IntMax + 1) % w) - (IntMax + 1)
  BY DEF ToString, w
<1> QED
  BY <1>1, <1>3, <1>4

\* A step that leaves the files and the request alone leaves what they say.
LEMMA Steady ==
  ASSUME fs' = fs, q' = q
  PROVE  /\ checkFilePerms("target")' = checkFilePerms("target")
         /\ checkFilePerms("index")' = checkFilePerms("index")
         /\ checkFilePerms("page")' = checkFilePerms("page")
         /\ isDirectory("target")' = isDirectory("target")
         /\ isDirectory("index")' = isDirectory("index")
         /\ FileSize("target")' = FileSize("target") /\ FileSize("index")' = FileSize("index")
         /\ FileSize("page")' = FileSize("page")
         /\ ExpectedStatus' = ExpectedStatus /\ Asked' = Asked /\ Bare' = Bare
         /\ MethodAllowed' = MethodAllowed
<1>1. At("target")' = At("target") /\ At("index")' = At("index") /\ At("page")' = At("page")
  BY DEF At
<1>2. /\ checkFilePerms("target")' = checkFilePerms("target")
      /\ checkFilePerms("index")' = checkFilePerms("index")
      /\ checkFilePerms("page")' = checkFilePerms("page")
  BY <1>1 DEF checkFilePerms
<1>3. /\ isDirectory("target")' = isDirectory("target")
      /\ isDirectory("index")' = isDirectory("index")
  BY <1>1 DEF isDirectory
<1>4. /\ FileSize("target")' = FileSize("target") /\ FileSize("index")' = FileSize("index")
      /\ FileSize("page")' = FileSize("page")
  BY <1>1 DEF FileSize
<1>5. MethodAllowed' = MethodAllowed /\ Bare' = Bare
  BY <1>3 DEF MethodAllowed, Bare
<1>6. Asked' = Asked
  BY <1>2, <1>5 DEF Asked
<1>7. ExpectedStatus' = ExpectedStatus
  BY <1>2, <1>3 DEF ExpectedStatus
<1> QED
  BY <1>2, <1>3, <1>4, <1>5, <1>6, <1>7

LEMMA RequestTyped ==
  ASSUME TypeInv
  PROVE  /\ q \in RequestType /\ q.method \in {"GET", "POST", "DELETE"}
         /\ q.early \in {0} \cup (400..505) /\ q.redirect \in {0} \cup (300..308)
         /\ q.method = "POST" /\ q.body = "none" => q.early # 0
         /\ resp.status \in 200..599 /\ resp.body \in Nat
<1>1. q \in Requests
  BY DEF TypeInv, TypeOK
<1>2. q \in RequestType /\ (q.method = "POST" /\ q.body = "none" => q.early # 0)
  BY <1>1, ConstantsAssumption DEF ConstantsAssumption
<1> QED
  BY <1>2 DEF TypeInv, RequestType

LEMMA AskedTyped ==
  ASSUME TypeInv
  PROVE  /\ Asked \in {200} \cup (400..505)
         /\ Asked < 400 => /\ Asked = 200 /\ q.early = 0 /\ checkFilePerms("target") = 200
                           /\ (q.body # "none" => MethodAllowed)
BY RequestTyped, PermsTyped DEF Asked

\* The table of statuses, row by row.
LEMMA ExpectedWhenRefused ==
  ASSUME TypeInv, Asked >= 400
  PROVE  Asked \in ExpectedStatus
BY RequestTyped, PermsTyped DEF ExpectedStatus, Asked, MethodAllowed

LEMMA ExpectedWhenAccepted ==
  ASSUME TypeInv, Accepted, checkFilePerms("target") = 200
  PROVE  /\ q.cgi => ExpectedStatus = ScriptStatuses \cup {500}
         /\ ~q.cgi /\ ~MethodAllowed => ExpectedStatus = {405}
         /\ ~q.cgi /\ MethodAllowed /\ q.method = "POST" => ExpectedStatus = {201}
         /\ ~q.cgi /\ MethodAllowed /\ q.method = "DELETE" =>
              ExpectedStatus = IF isDirectory("target") \/ ~q.upload THEN {403} ELSE {204}
         /\ ~q.cgi /\ MethodAllowed /\ q.method = "GET" /\ ~isDirectory("target") =>
              ExpectedStatus = {200}
BY DEF ExpectedStatus, Accepted, MethodAllowed

LEMMA ExpectedOfDirectory ==
  ASSUME TypeInv, Accepted, checkFilePerms("target") = 200,
         ~q.cgi, MethodAllowed, q.method = "GET", isDirectory("target")
  PROVE  /\ ~q.slash => ExpectedStatus = {301}
         /\ q.slash /\ q.redirect # 0 => ExpectedStatus = {q.redirect}
         /\ q.slash /\ q.redirect = 0 /\ q.default /\ checkFilePerms("index") = 200 =>
              ExpectedStatus = {200}
         /\ q.slash /\ q.redirect = 0 /\ q.autoIndex => ExpectedStatus = {200}
         /\ (q.slash /\ q.redirect = 0 /\ ~q.autoIndex
               /\ ~(q.default /\ checkFilePerms("index") = 200)) =>
              ExpectedStatus = {IndexCode}
BY DEF ExpectedStatus, Accepted, MethodAllowed, IndexCode

----------------------------------------------------------------------------
(* The steps before the method's handler.                                  *)

\* The response with another status.
WithStatus(s) == [resp EXCEPT !.status = s]

\* Until the answer is sent the properties say no more than the types.
LEMMA BeforeSent ==
  ASSUME TypeInv', pc' # "sent", Blank', Control', Found'
  PROVE  ResponseInv'
<1>1. KeptMeansFramed' /\ SilenceNeedsChange' /\ ErrorPageIsError'
  BY DEF KeptMeansFramed, SilenceNeedsChange, ErrorPageIsError, Undisturbed, TypeInv
<1>2. StatusIsExpected'
  BY DEF StatusIsExpected, CreatedMeansStored, Undisturbed
<1> QED
  BY <1>1, <1>2 DEF ResponseInv

\* A step of the handlers that leaves the answer alone, or its status but for that.
LEMMA Retyped ==
  ASSUME TypeInv, NEW s \in 200..599, resp' = WithStatus(s),
         pc' \in {"idle", "RouteURI", "parseBody", "generate", "handleCgiScript", "GET", "POST",
                  "DELETE", "isDirectory", "prepareHeaders", "remove", "setErrorPage"},
         UNCHANGED <<fs, changes, q, out>>, stored' \in BOOLEAN, code' \in {200, 403, 404}
  PROVE  /\ TypeInv' /\ resp'.status = s /\ resp'.length = resp.length
         /\ resp'.body = resp.body /\ resp'.file = resp.file /\ resp'.from = resp.from
<1>1. /\ resp' \in [status : 200..599, length : SUBSET Lengths, body : Nat,
                    file : {"target", "index"}, from : Sources]
      /\ resp'.status = s /\ resp'.length = resp.length
      /\ resp'.body = resp.body /\ resp'.file = resp.file /\ resp'.from = resp.from
  BY DEF TypeInv, WithStatus
<1>2. TypeOK'
  <2>1. /\ \A p \in Paths : fs'[p] \in NodesAt[p] \cup {Absent}
        /\ changes' \in 0..MaxChanges /\ q' \in Requests
        /\ out'.head \in BOOLEAN /\ out'.bytes \in Nat /\ out'.kept \in BOOLEAN
    BY DEF TypeInv, TypeOK
  <2>2. /\ resp'.status \in 200..599 /\ resp'.length \subseteq -(IntMax + 1)..IntMax \cup {ListingSize}
        /\ resp'.body \in Nat /\ resp'.file \in {"target", "index"}
    BY <1>1 DEF Lengths
  <2> QED
    BY <2>1, <2>2 DEF TypeOK
<1> QED
  BY <1>1, <1>2 DEF TypeInv

\* What an answer made from the response so far holds.
Made(r, status, length, body, from) ==
  [r EXCEPT !.status = status, !.length = length, !.body = body, !.from = from]
LEMMA Rewritten ==
  ASSUME NEW r \in [status : 200..599, length : SUBSET Lengths, body : Nat,
                    file : {"target", "index"}, from : Sources],
         NEW status, NEW length, NEW body, NEW from
  PROVE  Made(r, status, length, body, from)
           = [status |-> status, length |-> length, body |-> body, file |-> r.file, from |-> from]
<1> DEFINE r1 == [r EXCEPT !.status = status]
           r2 == [r1 EXCEPT !.length = length]
           r3 == [r2 EXCEPT !.body = body]
           r4 == [r3 EXCEPT !.from = from]
<1>1. r1 = [status |-> status, length |-> r.length, body |-> r.body, file |-> r.file,
            from |-> r.from]
  OBVIOUS
<1> HIDE DEF r1
<1>2. r2 = [status |-> status, length |-> length, body |-> r.body, file |-> r.file,
            from |-> r.from]
  BY <1>1
<1> HIDE DEF r2
<1>3. r3 = [status |-> status, length |-> length, body |-> body, file |-> r.file,
            from |-> r.from]
  BY <1>2
<1> HIDE DEF r3
<1>4. r4 = [status |-> status, length |-> length, body |-> body, file |-> r.file, from |-> from]
  BY <1>3
<1> QED
  BY <1>4 DEF r1, r2, r3, r4, Made

LEMMA StatusKept ==
  ASSUME TypeInv, UNCHANGED resp
  PROVE  resp.status \in 200..599 /\ resp' = WithStatus(resp.status)
BY DEF TypeInv, WithStatus

LEMMA RequestStep ==
  ASSUME ResponseInv, NEW r \in Requests, Request(r)
  PROVE  ResponseInv'
<1>1. TypeInv /\ Blank /\ Control
  BY DEF ResponseInv
<1>2. /\ pc = "idle" /\ pc' = "RouteURI" /\ q' = r
      /\ UNCHANGED <<fs, changes, stored, code, resp, out>>
  BY DEF Request
<1>3. TypeInv'
  <2>1. TypeOK'
    BY <1>1, <1>2 DEF TypeInv, TypeOK
  <2> QED
    BY <1>1, <1>2, <2>1 DEF TypeInv
<1>4. Blank' /\ Control' /\ Found'
  BY <1>1, <1>2 DEF Blank, Control, Found, Handling, Getting, Deleting
<1> QED
  BY <1>2, <1>3, <1>4, BeforeSent

LEMMA RouteURIStep ==
  ASSUME ResponseInv, RouteURI
  PROVE  ResponseInv'
<1> DEFINE s == IF q.early # 0 THEN q.early ELSE checkFilePerms("target")
<1>1. TypeInv /\ Blank /\ Control
  BY DEF ResponseInv
<1>2. /\ pc = "RouteURI" /\ resp' = WithStatus(s)
      /\ pc' = IF q.early # 0 \/ q.body = "none" THEN "generate" ELSE "parseBody"
      /\ UNCHANGED <<fs, changes, q, stored, code, out>>
  BY DEF RouteURI, WithStatus
<1>3. q.early \in {0} \cup (400..505) /\ checkFilePerms("target") \in {200, 403, 404}
  BY <1>1, RequestTyped, PermsTyped
<1>4. /\ s \in 200..599 /\ (q.early # 0 => s >= 400 /\ s = q.early)
      /\ q.early = 0 => s = checkFilePerms("target") /\ s \in {200, 403, 404}
  BY <1>3
<1> HIDE DEF s
<1>5. stored' \in BOOLEAN /\ code' \in {200, 403, 404}
  BY <1>1, <1>2 DEF TypeInv, TypeOK
<1>6. pc' \in {"generate", "parseBody"}
  BY <1>2
<1>7. /\ TypeInv' /\ resp'.status = s /\ resp'.length = resp.length
      /\ resp'.body = resp.body /\ resp'.file = resp.file /\ resp'.from = resp.from
  BY <1>1, <1>2, <1>4, <1>5, <1>6, Retyped
<1>8. Blank'
  BY <1>1, <1>2, <1>6, <1>7 DEF Blank
<1>9. Control'
  BY <1>1, <1>2, <1>4, <1>6, <1>7 DEF Control, Accepted, Handling, Getting, Deleting
<1>10. Found'
  <2>1. checkFilePerms("target")' = checkFilePerms("target") /\ Asked' = Asked
    BY <1>2, Steady
  <2>2. pc' = "parseBody" => resp'.status = checkFilePerms("target")
    BY <1>2, <1>4, <1>7
  <2>3. pc' = "generate" => resp'.status = Asked
    BY <1>2, <1>4, <1>7 DEF Asked
  <2> QED
    BY <1>6, <2>1, <2>2, <2>3 DEF Found, Handling, Getting, Deleting
<1> QED
  BY <1>6, <1>7, <1>8, <1>9, <1>10, BeforeSent

LEMMA ParseBodyStep ==
  ASSUME ResponseInv, ParseBody
  PROVE  ResponseInv'
<1>1. TypeInv /\ Blank /\ Control /\ Found
  BY DEF ResponseInv
<1>2. /\ pc = "parseBody" /\ pc' = "generate" /\ UNCHANGED <<fs, changes, q, code, out>>
      /\ \/ /\ ~MethodAllowed /\ resp' = WithStatus(405) /\ UNCHANGED stored
         \/ /\ MethodAllowed /\ stored' = ~(q.body = "length" /\ q.script) /\ UNCHANGED resp
         \/ /\ MethodAllowed /\ resp' = WithStatus(500) /\ UNCHANGED stored
  BY DEF ParseBody, MethodAllowed, WithStatus
<1>3. /\ q.early = 0 /\ q.body # "none" /\ resp.status \in {200, 403, 404} /\ stored \in BOOLEAN
      /\ code \in {200, 403, 404} /\ (changes = 0 => resp.status = checkFilePerms("target"))
  BY <1>1, <1>2 DEF Control, Found, TypeInv, TypeOK
<1>4. PICK s \in {405, 500, resp.status} :
        /\ resp' = WithStatus(s) /\ stored' \in BOOLEAN
        /\ s < 400 => MethodAllowed /\ (stored' \/ q.script) /\ s = resp.status
        /\ s \in {Asked, 500} \/ (s = resp.status /\ MethodAllowed)
  <2>1. CASE ~MethodAllowed /\ resp' = WithStatus(405) /\ UNCHANGED stored
    <3>1. Asked = 405
      BY <1>3, <2>1 DEF Asked
    <3>2. stored' \in BOOLEAN /\ ~(405 < 400) /\ 405 \in {405, 500, resp.status}
      BY <1>3, <2>1
    <3>3. resp' = WithStatus(405)
      BY <2>1
    <3> WITNESS 405 \in {405, 500, resp.status}
    <3> QED
      BY <3>1, <3>2, <3>3
  <2>2. CASE MethodAllowed /\ stored' = ~(q.body = "length" /\ q.script) /\ UNCHANGED resp
    <3>1. resp' = WithStatus(resp.status)
      BY <1>1, <2>2, StatusKept
    <3>2. stored' \in BOOLEAN
      BY <2>2
    <3>3. stored' \/ q.script
      BY <2>2
    <3>4. MethodAllowed
      BY <2>2
    <3> WITNESS resp.status \in {405, 500, resp.status}
    <3> QED
      BY <3>1, <3>2, <3>3, <3>4
  <2>3. CASE MethodAllowed /\ resp' = WithStatus(500) /\ UNCHANGED stored
    BY <1>3, <2>3
  <2> QED
    BY <1>2, <2>1, <2>2, <2>3
<1>5. s \in 200..599 /\ (s < 400 => s = 200)
  BY <1>3, <1>4
<1>6. /\ TypeInv' /\ resp'.status = s /\ resp'.length = resp.length
      /\ resp'.body = resp.body /\ resp'.file = resp.file /\ resp'.from = resp.from
  <2>1. UNCHANGED <<fs, changes, q, out>> /\ code' \in {200, 403, 404} /\ pc' = "generate"
    BY <1>2, <1>3
  <2>2. resp' = WithStatus(s) /\ stored' \in BOOLEAN
    BY <1>4
  <2> QED
    BY <1>1, <1>5, <2>1, <2>2, Retyped
<1>7. Blank'
  BY <1>1, <1>2, <1>6 DEF Blank
<1>8. Control'
  <2>1. s < 400 => Accepted'
    BY <1>2, <1>3, <1>4, <1>5, <1>6 DEF Accepted, MethodAllowed
  <2> QED
    BY <1>2, <1>6, <2>1 DEF Control, Handling, Getting, Deleting
<1>9. Found'
  <2>1. Asked' = Asked
    BY <1>2, Steady
  <2>2. changes = 0 => s \in {Asked, 500}
    <3>1. MethodAllowed /\ changes = 0 => resp.status = Asked
      BY <1>3 DEF Asked
    <3> QED
      BY <1>4, <3>1
  <2> QED
    BY <1>2, <1>6, <2>1, <2>2 DEF Found, Handling, Getting, Deleting
<1> QED
  BY <1>2, <1>6, <1>7, <1>8, <1>9, BeforeSent

----------------------------------------------------------------------------
(* How a handler ends.                                                     *)

\* With a status for setErrorPage: one the table has for the request, or 500.
LEMMA RefuseStep ==
  ASSUME ResponseInv, NEW s \in 200..599, resp' = WithStatus(s),
         pc \in {"generate"} \cup (Handling \ {"prepareHeaders"}), pc' = "setErrorPage",
         UNCHANGED <<fs, changes, q, stored, out>>, code' \in {200, 403, 404},
         changes = 0 => s \in ExpectedStatus \cup {500} /\ (s >= 400 \/ Bare)
  PROVE  ResponseInv'
<1>1. TypeInv /\ Blank /\ Control
  BY DEF ResponseInv
<1>2. stored' \in BOOLEAN
  BY <1>1 DEF TypeInv, TypeOK
<1>3. /\ TypeInv' /\ resp'.status = s /\ resp'.length = resp.length
      /\ resp'.body = resp.body /\ resp'.file = resp.file /\ resp'.from = resp.from
  BY <1>1, <1>2, Retyped
<1>4. pc \notin {"prepareHeaders", "readErrorPage", "send", "sent"}
  BY DEF Handling, Getting, Deleting
<1>5. Blank' /\ Control'
  BY <1>1, <1>3, <1>4 DEF Blank, Control, Handling, Getting, Deleting
<1>6. Found'
  <2>1. ExpectedStatus' = ExpectedStatus /\ Bare' = Bare
    BY Steady
  <2>2. changes = 0 => PageStatus'
    BY <1>3, <2>1 DEF PageStatus
  <2> QED
    BY <2>2 DEF Found, Handling, Getting, Deleting
<1> QED
  BY <1>3, <1>5, <1>6, BeforeSent

\* With an answer that stands in the right relation to the files.
LEMMA AnswerStep ==
  ASSUME ResponseInv, pc' = "send", UNCHANGED <<changes, q, stored, out>>,
         fs' \in [Paths -> Node], \A p \in Paths : fs'[p] \in NodesAt[p] \cup {Absent},
         code' \in {200, 403, 404},
         resp' \in [status : 200..599, length : SUBSET Lengths, body : Nat,
                    file : {"target", "index"}, from : Sources],
         resp'.from = "created" => stored \/ q.script,
         resp'.from = "deleted" => resp'.status = 204 /\ resp'.length = {} /\ resp'.body = 0,
         changes = 0 /\ resp'.from # "deleted" => Answered'
  PROVE  ResponseInv'
<1>1. TypeInv
  BY DEF ResponseInv
<1>2. TypeInv'
  <2>1. TypeOK'
    BY <1>1 DEF TypeInv, TypeOK, Lengths
  <2> QED
    BY <1>1, <2>1 DEF TypeInv
<1>3. Blank' /\ Control'
  BY DEF Blank, Control, Handling, Getting, Deleting
<1>4. Found'
  BY DEF Found, Handling, Getting, Deleting
<1> QED
  BY <1>2, <1>3, <1>4, BeforeSent

\* What a handler of a request that nothing refused starts from.
LEMMA InHandler ==
  ASSUME ResponseInv, pc \in Handling
  PROVE  /\ TypeInv /\ Accepted /\ (q.cgi <=> pc = "handleCgiScript")
         /\ resp \in [status : 200..599, length : SUBSET Lengths, body : Nat,
                      file : {"target", "index"}, from : Sources]
         /\ q.early = 0 /\ resp.status = 200 /\ stored \in BOOLEAN /\ code \in {200, 403, 404}
         /\ resp.length = {} /\ resp.body = 0 /\ resp.from = "nothing"
         /\ pc # "prepareHeaders" => resp.file = "target"
         /\ changes = 0 => checkFilePerms("target") = 200
<1>1. TypeInv /\ Blank /\ Control /\ Found
  BY DEF ResponseInv
<1>2. pc \notin {"readErrorPage", "send", "sent"}
  BY DEF Handling, Getting, Deleting
<1>3. /\ resp.length = {} /\ resp.body = 0 /\ resp.from = "nothing"
      /\ pc # "prepareHeaders" => resp.file = "target"
  BY <1>1, <1>2 DEF Blank
<1>4. Accepted /\ (q.cgi <=> pc = "handleCgiScript")
  BY <1>1 DEF Control
<1>5. stored \in BOOLEAN /\ code \in {200, 403, 404}
  BY <1>1 DEF TypeInv, TypeOK
<1>6. changes = 0 => checkFilePerms("target") = 200
  BY <1>1 DEF Found
<1> QED
  BY <1>1, <1>3, <1>4, <1>5, <1>6 DEF Accepted, TypeInv

LEMMA GenerateResponseStep ==
  ASSUME ResponseInv, GenerateResponse, UNCHANGED <<fs, code, changes, q, stored, out>>
  PROVE  ResponseInv'
<1>1. TypeInv /\ Blank /\ Control /\ Found
  BY DEF ResponseInv
<1>2. pc = "generate" /\ resp' = resp /\ resp.status \in 200..599
  BY <1>1, StatusKept DEF GenerateResponse
<1>3. resp' = WithStatus(resp.status) /\ code' \in {200, 403, 404} /\ stored' \in BOOLEAN
  BY <1>1, <1>2, StatusKept DEF TypeInv, TypeOK
<1>4. changes = 0 => resp.status \in {Asked, 500}
  BY <1>1, <1>2 DEF Found
<1>5. Asked \in {200} \cup (400..505) /\ (Asked >= 400 => Asked \in ExpectedStatus)
  BY <1>1, AskedTyped, ExpectedWhenRefused
<1>6. CASE resp.status >= 400
  <2>1. pc' = "setErrorPage"
    BY <1>2, <1>6 DEF GenerateResponse
  <2>2. changes = 0 => resp.status \in ExpectedStatus \cup {500} /\ resp.status >= 400
    BY <1>4, <1>5, <1>6
  <2> QED
    BY <1>2, <1>3, <2>1, <2>2, RefuseStep
<1>7. CASE ~(resp.status >= 400)
  <2>1. Accepted
    BY <1>1, <1>2, <1>7 DEF Control
  <2>2. pc' = IF q.cgi THEN "handleCgiScript" ELSE q.method
    BY <1>2, <1>7 DEF GenerateResponse
  <2>3. q.method \in {"GET", "POST", "DELETE"}
    BY <1>1, RequestTyped
  <2>4. TypeInv'
    <3>1. pc' \in {"handleCgiScript", "GET", "POST", "DELETE"}
      BY <2>2, <2>3
    <3> QED
      BY <1>1, <1>2, <1>3, <3>1, Retyped
  <2>5. Blank'
    BY <1>1, <1>2, <2>2, <2>3 DEF Blank
  <2>6. Accepted'
    BY <1>2, <2>1 DEF Accepted, MethodAllowed
  <2>7. Control'
    BY <1>2, <2>2, <2>3, <2>6 DEF Control, Handling, Getting, Deleting
  <2>8. changes = 0 => checkFilePerms("target") = 200
    BY <1>1, <1>2, <1>4, <1>5, <1>7, AskedTyped
  <2>9. Found'
    BY <1>2, <2>2, <2>3, <2>8, Steady DEF Found, Handling, Getting, Deleting
  <2> QED
    BY <2>2, <2>3, <2>4, <2>5, <2>7, <2>9, BeforeSent
<1> QED
  BY <1>6, <1>7

----------------------------------------------------------------------------
(* The handlers.                                                           *)

LEMMA HandleCgiScriptStep ==
  ASSUME ResponseInv, HandleCgiScript, UNCHANGED <<fs, code, changes, q, stored, out>>
  PROVE  ResponseInv'
<1>1. pc = "handleCgiScript" /\ pc \in Handling
  BY DEF HandleCgiScript, Handling
<1>2. /\ TypeInv /\ Accepted /\ q.cgi /\ resp.file = "target" /\ code \in {200, 403, 404}
      /\ resp \in [status : 200..599, length : SUBSET Lengths, body : Nat,
                   file : {"target", "index"}, from : Sources]
      /\ changes = 0 => checkFilePerms("target") = 200
  BY <1>1, InHandler
<1>3. changes = 0 => ExpectedStatus = ScriptStatuses \cup {500}
  BY <1>2, ExpectedWhenAccepted
<1>4. CASE ScriptFails
  <2>1. PICK s \in {404, 500} : /\ resp' = WithStatus(s) /\ pc' = "setErrorPage"
                                /\ At("target").kind # "none" => s = 500
    BY <1>4 DEF ScriptFails, Fail, WithStatus
  <2>2. changes = 0 => s = 500
    BY <1>2, <2>1, PermsTyped
  <2>3. s \in 200..599 /\ (changes = 0 => s \in ExpectedStatus \cup {500} /\ (s >= 400 \/ Bare))
    BY <2>1, <2>2
  <2>4. pc \in {"generate"} \cup (Handling \ {"prepareHeaders"}) /\ code' \in {200, 403, 404}
    BY <1>1, <1>2
  <2>5. UNCHANGED <<fs, changes, q, stored, out>>
    OBVIOUS
  <2> QED
    BY <2>1, <2>3, <2>4, <2>5, RefuseStep
<1>5. CASE ScriptAnswers
  <2>1. PICK s \in ScriptStatuses, n \in ScriptSizes :
          /\ resp' = [resp EXCEPT !.status = s, !.length = {ToString(n)}, !.body = n,
                                  !.from = "script"]
          /\ pc' = "send"
    BY <1>5 DEF ScriptAnswers, Answer
  <2>2. s \in 200..599 /\ n \in Nat /\ ToString(n) \in Lengths
    BY ConstantsAssumption, ToStringTyped DEF ConstantsAssumption
  <2> resp' = [status |-> s, length |-> {ToString(n)}, body |-> n,
               file |-> "target", from |-> "script"]
    BY <1>2, <2>1
  <2>3. /\ resp' \in [status : 200..599, length : SUBSET Lengths, body : Nat,
                      file : {"target", "index"}, from : Sources]
        /\ resp'.status = s /\ resp'.length = {ToString(n)} /\ resp'.body = n
        /\ resp'.from = "script" /\ resp'.file = "target"
    BY <1>2, <2>1, <2>2 DEF Sources
  <2>4. changes = 0 => Answered'
    <3>1. ToString(n) = ToString(resp'.body)
      BY <2>3
    <3>2. resp'.length = {ToString(resp.body)'}
      BY <2>3 DEF ToString
    <3>3. changes = 0 => resp'.status \in ExpectedStatus' /\ (checkFilePerms("target") = 200)'
      BY <1>2, <1>3, <2>3, Steady
    <3> QED
      BY <2>3, <3>2, <3>3 DEF Answered
  <2>5. fs' \in [Paths -> Node] /\ \A p \in Paths : fs'[p] \in NodesAt[p] \cup {Absent}
    BY <1>2 DEF TypeInv, TypeOK
  <2> QED
    BY <1>2, <2>1, <2>3, <2>4, <2>5, AnswerStep
<1> QED
  BY <1>4, <1>5 DEF HandleCgiScript

LEMMA PostStep ==
  ASSUME ResponseInv, Post, UNCHANGED <<fs, code, changes, q, stored, out>>
  PROVE  ResponseInv'
<1>1. pc = "POST" /\ pc \in Handling
  BY DEF Post, Handling
<1>2. /\ TypeInv /\ Accepted /\ ~q.cgi /\ resp.file = "target" /\ code \in {200, 403, 404}
      /\ resp \in [status : 200..599, length : SUBSET Lengths, body : Nat,
                   file : {"target", "index"}, from : Sources]
      /\ changes = 0 => checkFilePerms("target") = 200
  BY <1>1, InHandler
<1>3. q.method = "POST" /\ q.body # "none"
  BY <1>1, <1>2, RequestTyped DEF ResponseInv, Control, Accepted
<1>4. MethodAllowed /\ (stored \/ q.script)
  BY <1>2, <1>3 DEF Accepted
<1>5. resp' = [resp EXCEPT !.status = 201, !.from = "created"] /\ pc' = "send"
  BY <1>4 DEF Post, Answer
<1> resp' = [status |-> 201, length |-> resp.length, body |-> resp.body,
             file |-> "target", from |-> "created"]
  BY <1>2, <1>5
<1>6. /\ resp' \in [status : 200..599, length : SUBSET Lengths, body : Nat,
                    file : {"target", "index"}, from : Sources]
      /\ resp'.status = 201 /\ resp'.from = "created" /\ resp'.file = "target"
  BY <1>2, <1>5 DEF Sources
<1>7. changes = 0 => Answered'
  <2>1. changes = 0 => ExpectedStatus = {201}
    BY <1>2, <1>3, <1>4, ExpectedWhenAccepted
  <2>2. changes = 0 => resp'.status \in ExpectedStatus' /\ (checkFilePerms("target") = 200)'
    BY <1>2, <1>6, <2>1, Steady
  <2> QED
    BY <1>6, <2>2 DEF Answered
<1>8. fs' \in [Paths -> Node] /\ \A p \in Paths : fs'[p] \in NodesAt[p] \cup {Absent}
  BY <1>2 DEF TypeInv, TypeOK
<1> QED
  BY <1>2, <1>4, <1>5, <1>6, <1>7, <1>8, AnswerStep

LEMMA GetStep ==
  ASSUME ResponseInv, Get, UNCHANGED <<fs, changes, q, stored, out>>
  PROVE  ResponseInv'
<1>1. pc = "GET" /\ pc \in Handling /\ code' = checkFilePerms("target")
  BY DEF Get, Handling, Getting
<1>2. /\ TypeInv /\ Accepted /\ ~q.cgi /\ stored \in BOOLEAN
      /\ changes = 0 => checkFilePerms("target") = 200
  BY <1>1, InHandler
<1>3. code' \in {200, 403, 404}
  BY <1>1, PermsTyped
<1>4. CASE ~MethodAllowed
  <2>1. resp' = WithStatus(405) /\ pc' = "setErrorPage"
    BY <1>4 DEF Get, Fail, WithStatus
  <2>2. changes = 0 => ExpectedStatus = {405}
    BY <1>2, <1>4, ExpectedWhenAccepted
  <2> QED
    BY <1>1, <1>3, <2>1, <2>2, RefuseStep DEF Handling, Getting
<1>5. CASE MethodAllowed
  <2>1. pc' = "isDirectory" /\ UNCHANGED resp
    BY <1>5 DEF Get
  <2>2. resp.status \in 200..599 /\ resp' = WithStatus(resp.status)
    BY <1>2, <2>1, StatusKept
  <2>3. TypeInv'
    <3>1. stored' \in BOOLEAN
      BY <1>2
    <3> QED
      BY <1>2, <1>3, <2>1, <2>2, <3>1, Retyped
  <2>4. Blank'
    BY <1>1, <2>1 DEF ResponseInv, Blank
  <2>5. Accepted' /\ MethodAllowed'
    BY <1>2, <1>5, <2>1 DEF Accepted, MethodAllowed
  <2>6. Control'
    BY <1>1, <1>2, <2>1, <2>5 DEF ResponseInv, Control, Handling, Getting, Deleting
  <2>7. Found'
    BY <1>1, <1>2, <2>1, Steady DEF Found, Handling, Getting, Deleting
  <2> QED
    BY <2>1, <2>3, <2>4, <2>6, <2>7, BeforeSent
<1> QED
  BY <1>4, <1>5

LEMMA GetFileStep ==
  ASSUME ResponseInv, GetFile, UNCHANGED <<fs, code, changes, q, stored, out>>
  PROVE  ResponseInv'
<1>1. pc = "isDirectory" /\ pc \in Handling /\ ~isDirectory("target") /\ resp' = resp
  BY DEF GetFile, Handling, Getting
<1>2. /\ TypeInv /\ Accepted /\ ~q.cgi /\ stored \in BOOLEAN /\ code \in {200, 403, 404}
      /\ resp.file = "target"
      /\ changes = 0 => checkFilePerms("target") = 200
  BY <1>1, InHandler
<1>3. resp.status \in 200..599 /\ resp' = WithStatus(resp.status)
  BY <1>1, <1>2, StatusKept
<1>4. changes = 0 => code = 200
  BY <1>1 DEF ResponseInv, Found
<1>5. CASE code # 200
  <2>1. pc' = "setErrorPage" /\ changes # 0
    BY <1>4, <1>5 DEF GetFile
  <2>2. pc \in {"generate"} \cup (Handling \ {"prepareHeaders"}) /\ code' \in {200, 403, 404}
    BY <1>1, <1>2
  <2>3. UNCHANGED <<fs, changes, q, stored, out>>
    OBVIOUS
  <2> QED
    BY <1>3, <2>1, <2>2, <2>3, RefuseStep
<1>6. CASE code = 200
  <2>1. pc' = "prepareHeaders"
    BY <1>6 DEF GetFile
  <2>2. TypeInv'
    <3>1. /\ stored' \in BOOLEAN /\ code' \in {200, 403, 404}
          /\ UNCHANGED <<fs, changes, q, out>>
      BY <1>2
    <3>2. pc' \in {"idle", "RouteURI", "parseBody", "generate", "handleCgiScript", "GET", "POST",
                   "DELETE", "isDirectory", "prepareHeaders", "remove", "setErrorPage"}
      BY <2>1
    <3>3. TypeInv
      BY <1>2
    <3>4. PICK s \in 200..599 : resp' = WithStatus(s)
      BY <1>3
    <3> QED
      BY <3>1, <3>2, <3>3, <3>4, Retyped
  <2>3. Blank'
    BY <1>1, <2>1 DEF ResponseInv, Blank
  <2>4. Accepted' /\ MethodAllowed' /\ q.method = "GET"
    BY <1>1, <1>2 DEF Accepted, MethodAllowed, ResponseInv, Control, Getting
  <2>5. Control'
    BY <1>1, <1>2, <2>1, <2>4 DEF ResponseInv, Control, Handling, Getting, Deleting
  <2>6. Found'
    BY <1>1, <1>2, <2>1, Steady DEF Found, Handling, Getting, Deleting
  <2> QED
    BY <2>1, <2>2, <2>3, <2>5, <2>6, BeforeSent
<1> QED
  BY <1>5, <1>6

LEMMA GetDirectoryStep ==
  ASSUME ResponseInv, GetDirectory, UNCHANGED <<fs, code, changes, q, stored, out>>
  PROVE  ResponseInv'
<1>1. pc = "isDirectory" /\ pc \in Handling /\ isDirectory("target")
  BY DEF GetDirectory, Handling, Getting
<1>2. /\ TypeInv /\ Accepted /\ ~q.cgi /\ stored \in BOOLEAN /\ code \in {200, 403, 404}
      /\ resp.file = "target" /\ resp.status = 200
      /\ resp.length = {} /\ resp.body = 0 /\ resp.from = "nothing"
      /\ resp \in [status : 200..599, length : SUBSET Lengths, body : Nat,
                   file : {"target", "index"}, from : Sources]
      /\ changes = 0 => checkFilePerms("target") = 200
  BY <1>1, InHandler
<1>3. MethodAllowed /\ q.method = "GET" /\ q.redirect \in {0} \cup (300..308)
  BY <1>1, <1>2, RequestTyped DEF ResponseInv, Control, Getting
<1>4. /\ fs' \in [Paths -> Node] /\ \A p \in Paths : fs'[p] \in NodesAt[p] \cup {Absent}
      /\ code' \in {200, 403, 404} /\ stored' \in BOOLEAN
  BY <1>2 DEF TypeInv, TypeOK
<1>5. /\ ExpectedStatus' = ExpectedStatus /\ isDirectory("target")' = isDirectory("target")
      /\ checkFilePerms("target")' = checkFilePerms("target")
      /\ checkFilePerms("index")' = checkFilePerms("index")
  BY Steady
<1>6. ASSUME NEW s \in 300..308, Answer(Moved(s)), changes = 0 => s \in ExpectedStatus
      PROVE  ResponseInv'
  <2>0. resp' = Made(resp, s, {}, 0, "moved")
    BY <1>6 DEF Answer, Moved, Made
  <2>1. resp' = [status |-> s, length |-> {}, body |-> 0, file |-> "target", from |-> "moved"]
    <3>1. Made(resp, s, {}, 0, "moved") =
            [status |-> s, length |-> {}, body |-> 0, file |-> resp.file, from |-> "moved"]
      BY <1>2, Rewritten
    <3> QED
      BY <1>2, <2>0, <3>1
  <2>2. /\ resp' \in [status : 200..599, length : SUBSET Lengths, body : Nat,
                      file : {"target", "index"}, from : Sources]
        /\ resp'.status = s /\ resp'.from = "moved" /\ resp'.file = "target"
    BY <2>1 DEF Sources
  <2>3. changes = 0 => Answered'
    BY <1>2, <1>5, <1>6, <2>2 DEF Answered
  <2>4. pc' = "send"
    BY <1>6 DEF Answer
  <2> QED
    BY <1>4, <2>2, <2>3, <2>4, AnswerStep
<1>7. CASE ~q.slash
  <2>1. changes = 0 => ExpectedStatus = {301}
    BY <1>1, <1>2, <1>3, <1>7, ExpectedOfDirectory
  <2>2. Answer(Moved(301))
    BY <1>7 DEF GetDirectory
  <2> QED
    BY <1>6, <2>1, <2>2
<1>8. CASE q.slash /\ q.redirect # 0
  <2>1. changes = 0 => ExpectedStatus = {q.redirect}
    BY <1>1, <1>2, <1>3, <1>8, ExpectedOfDirectory
  <2>2. Answer(Moved(q.redirect))
    BY <1>8 DEF GetDirectory
  <2>3. q.redirect \in 300..308
    BY <1>3, <1>8
  <2> QED
    BY <1>6, <2>1, <2>2, <2>3
<1>9. CASE q.slash /\ q.redirect = 0 /\ q.default /\ IndexCode = 200
  <2>1. resp' = [resp EXCEPT !.file = "index"] /\ pc' = "prepareHeaders"
    BY <1>9 DEF GetDirectory
  <2>2. /\ resp' \in [status : 200..599, length : SUBSET Lengths, body : Nat,
                      file : {"target", "index"}, from : Sources]
        /\ resp'.status = 200 /\ resp'.length = {} /\ resp'.body = 0
        /\ resp'.from = "nothing" /\ resp'.file = "index"
    BY <1>2, <2>1
  <2>3. TypeInv'
    <3>1. TypeOK'
      BY <1>2, <1>4, <2>1, <2>2 DEF TypeInv, TypeOK, Lengths
    <3> QED
      BY <1>2, <2>2, <3>1 DEF TypeInv
  <2>4. Accepted' /\ MethodAllowed'
    BY <1>2, <1>3, <2>2 DEF Accepted, MethodAllowed
  <2>5. Blank' /\ Control'
    BY <1>2, <1>3, <2>1, <2>2, <2>4 DEF Blank, Control, Handling, Getting, Deleting
  <2>6. Found'
    <3>1. checkFilePerms("index") = 200
      BY <1>9 DEF IndexCode
    <3> QED
      BY <1>1, <1>2, <1>5, <1>9, <2>1, <2>2, <3>1 DEF Found, Handling, Getting, Deleting
  <2> QED
    BY <2>1, <2>3, <2>5, <2>6, BeforeSent
<1>10. CASE q.slash /\ q.redirect = 0 /\ ~(q.default /\ IndexCode = 200) /\ q.autoIndex
  <2>0. resp' = Made(resp, 200, {ListingSize}, ListingSize, "listing") /\ pc' = "send"
    BY <1>10 DEF GetDirectory, Answer, Listing, Made
  <2>1. resp' = [status |-> 200, length |-> {ListingSize}, body |-> ListingSize,
                 file |-> "target", from |-> "listing"] /\ pc' = "send"
    <3> DEFINE l == {ListingSize}
    <3>1. resp' = Made(resp, 200, l, ListingSize, "listing")
      BY <2>0
    <3> HIDE DEF l
    <3>2. Made(resp, 200, l, ListingSize, "listing") =
            [status |-> 200, length |-> l, body |-> ListingSize,
             file |-> resp.file, from |-> "listing"]
      BY <1>2, Rewritten
    <3> QED
      BY <1>2, <2>0, <3>1, <3>2 DEF l
  <2>2. ListingSize \in Nat \ {0} /\ {ListingSize} \in SUBSET Lengths
    BY ConstantsAssumption DEF ConstantsAssumption, Lengths
  <2>3. /\ resp' \in [status : 200..599, length : SUBSET Lengths, body : Nat,
                      file : {"target", "index"}, from : Sources]
        /\ resp'.status = 200 /\ resp'.length = {ListingSize} /\ resp'.body = ListingSize
        /\ resp'.from = "listing" /\ resp'.file = "target"
    BY <2>1, <2>2 DEF Sources
  <2>4. changes = 0 => ExpectedStatus = {200}
    BY <1>1, <1>2, <1>3, <1>10, ExpectedOfDirectory
  <2>5. changes = 0 => Answered'
    BY <1>1, <1>2, <1>5, <2>3, <2>4 DEF Answered
  <2> QED
    BY <1>4, <2>1, <2>3, <2>5, AnswerStep
<1>11. CASE q.slash /\ q.redirect = 0 /\ ~(q.default /\ IndexCode = 200) /\ ~q.autoIndex
  <2>1. resp' = WithStatus(IndexCode) /\ pc' = "setErrorPage"
    BY <1>11 DEF GetDirectory, Fail, WithStatus
  <2>2. IndexCode \in {200, 403, 404} /\ IndexCode \in 200..599
    BY PermsTyped DEF IndexCode
  <2>3. changes = 0 => IndexCode \in ExpectedStatus
    <3>1. ~(q.default /\ checkFilePerms("index") = 200)
      BY <1>11 DEF IndexCode
    <3> QED
      BY <1>1, <1>2, <1>3, <1>11, <3>1, ExpectedOfDirectory
  <2>4. IndexCode >= 400 \/ Bare
    BY <1>1, <1>11, <2>2 DEF Bare
  <2>5. pc \in {"generate"} \cup (Handling \ {"prepareHeaders"})
    BY <1>1
  <2> QED
    BY <1>4, <2>1, <2>2, <2>3, <2>4, <2>5, RefuseStep
<1> QED
  BY <1>7, <1>8, <1>9, <1>10, <1>11

LEMMA PrepareHeadersStep ==
  ASSUME ResponseInv, PrepareHeaders, UNCHANGED <<fs, code, changes, q, stored, out>>
  PROVE  ResponseInv'
<1> DEFINE n == FileSize(resp.file)
<1>1. pc = "prepareHeaders" /\ pc \in Handling /\ pc' = "send"
  BY DEF PrepareHeaders, Answer, Handling, Getting
<1>2. /\ TypeInv /\ Accepted /\ ~q.cgi /\ code \in {200, 403, 404}
      /\ resp.status = 200 /\ resp.body = 0
      /\ resp \in [status : 200..599, length : SUBSET Lengths, body : Nat,
                   file : {"target", "index"}, from : Sources]
      /\ changes = 0 => checkFilePerms("target") = 200
  BY <1>1, InHandler
<1>3. MethodAllowed /\ q.method = "GET"
  BY <1>1 DEF ResponseInv, Control, Getting
<1>4. resp.file \in {"target", "index"} /\ resp.file \in Paths
  BY <1>2 DEF Paths
<1>5. n \in Nat \cup {-1} /\ ToString(n) \in Lengths
  BY <1>2, <1>4, SizeTyped, ToStringTyped
<1>6. resp' = [resp EXCEPT !.length = {ToString(n)}, !.status = IF n = -1 THEN 500 ELSE @,
                           !.from = "file"]
  BY DEF PrepareHeaders, Answer
<1> HIDE DEF n
<1> DEFINE s == IF n = -1 THEN 500 ELSE resp.status
           length == {ToString(n)}
<1> DEFINE r1 == [resp EXCEPT !.length = length]
           r2 == [r1 EXCEPT !.status = s]
           r3 == [r2 EXCEPT !.from = "file"]
<1>a. s = IF n = -1 THEN 500 ELSE 200
  BY <1>2
<1>b. length = {ToString(n)}
  OBVIOUS
<1> HIDE DEF s, length
<1>c. r1 = [status |-> 200, length |-> length, body |-> 0, file |-> resp.file,
            from |-> resp.from]
  BY <1>2
<1> HIDE DEF r1
<1>d. r2 = [status |-> s, length |-> length, body |-> 0, file |-> resp.file,
            from |-> resp.from]
  BY <1>c
<1> HIDE DEF r2
<1>7. resp' = [status |-> s, length |-> length, body |-> 0, file |-> resp.file, from |-> "file"]
  <2>1. r3 = [status |-> s, length |-> length, body |-> 0, file |-> resp.file, from |-> "file"]
    BY <1>d
  <2> QED
    BY <1>6, <2>1 DEF r1, r2, r3, s, length
<1>8. /\ resp' \in [status : 200..599, length : SUBSET Lengths, body : Nat,
                    file : {"target", "index"}, from : Sources]
      /\ resp'.status = (IF n = -1 THEN 500 ELSE 200) /\ resp'.length = {ToString(n)}
      /\ resp'.body = 0 /\ resp'.file = resp.file /\ resp'.from = "file"
  BY <1>4, <1>5, <1>7, <1>a, <1>b DEF Sources
<1>9. /\ fs' \in [Paths -> Node] /\ \A p \in Paths : fs'[p] \in NodesAt[p] \cup {Absent}
      /\ code' \in {200, 403, 404}
  BY <1>2 DEF TypeInv, TypeOK
<1>10. changes = 0 => Answered'
  <2> SUFFICES ASSUME changes = 0 PROVE Answered'
    OBVIOUS
  <2>1. IF resp.file = "target" THEN ~isDirectory("target")
        ELSE /\ isDirectory("target") /\ q.slash /\ q.redirect = 0 /\ q.default
             /\ checkFilePerms("index") = 200
    BY <1>1 DEF ResponseInv, Found
  <2>2. checkFilePerms(resp.file) = 200 /\ n # -1
    BY <1>2, <1>4, <2>1, SizeTyped DEF n
  <2>3. ExpectedStatus = {200}
    BY <1>2, <1>3, <2>1, ExpectedWhenAccepted, ExpectedOfDirectory
  <2>4. /\ ExpectedStatus' = ExpectedStatus /\ isDirectory("target")' = isDirectory("target")
        /\ checkFilePerms("target")' = checkFilePerms("target")
    BY Steady
  <2>5. At(resp.file)' = At(resp.file)
    BY <1>8 DEF At
  <2>6. checkFilePerms(resp.file)' = checkFilePerms(resp.file)
    BY <2>5 DEF checkFilePerms
  <2>7. ToString(FileSize(resp.file))' = ToString(n)
    BY <2>5 DEF FileSize, ToString, n
  <2> QED
    BY <1>2, <1>8, <2>1, <2>2, <2>3, <2>4, <2>6, <2>7 DEF Answered
<1> QED
  BY <1>1, <1>8, <1>9, <1>10, AnswerStep

LEMMA DeleteStep ==
  ASSUME ResponseInv, Delete, UNCHANGED <<fs, code, changes, q, stored, out>>
  PROVE  ResponseInv'
<1>1. pc = "DELETE" /\ pc \in {"generate"} \cup (Handling \ {"prepareHeaders"}) /\ pc \in Handling
  BY DEF Delete, Handling, Deleting
<1>2. /\ TypeInv /\ Accepted /\ ~q.cgi /\ stored \in BOOLEAN /\ code \in {200, 403, 404}
      /\ changes = 0 => checkFilePerms("target") = 200
  BY <1>1, InHandler
<1>3. q.method = "DELETE" /\ code' \in {200, 403, 404} /\ stored' \in BOOLEAN
  BY <1>1, <1>2 DEF ResponseInv, Control, Deleting
<1>4. UNCHANGED <<fs, changes, q, stored, out>>
  OBVIOUS
<1>5. CASE ~MethodAllowed
  <2>1. resp' = WithStatus(405) /\ pc' = "setErrorPage"
    BY <1>5 DEF Delete, Fail, WithStatus
  <2>2. changes = 0 => ExpectedStatus = {405}
    BY <1>2, <1>5, ExpectedWhenAccepted
  <2> QED
    BY <1>1, <1>3, <1>4, <2>1, <2>2, RefuseStep
<1>6. CASE MethodAllowed /\ (isDirectory("target") \/ ~q.upload)
  <2>1. resp' = WithStatus(403) /\ pc' = "setErrorPage"
    BY <1>6 DEF Delete, Fail, WithStatus
  <2>2. changes = 0 => ExpectedStatus = {403}
    BY <1>2, <1>3, <1>6, ExpectedWhenAccepted
  <2> QED
    BY <1>1, <1>3, <1>4, <2>1, <2>2, RefuseStep
<1>7. CASE MethodAllowed /\ ~(isDirectory("target") \/ ~q.upload)
  <2>1. pc' = "remove" /\ UNCHANGED resp
    BY <1>7 DEF Delete
  <2>2. resp.status \in 200..599 /\ resp' = WithStatus(resp.status)
    BY <1>2, <2>1, StatusKept
  <2>3. TypeInv'
    <3>1. UNCHANGED <<fs, changes, q, out>>
      OBVIOUS
    <3> QED
      BY <1>2, <1>3, <2>1, <2>2, <3>1, Retyped
  <2>4. Blank'
    BY <1>1, <2>1 DEF ResponseInv, Blank
  <2>5. Accepted' /\ MethodAllowed'
    BY <1>2, <1>7, <2>1 DEF Accepted, MethodAllowed
  <2>6. Control'
    BY <1>1, <1>2, <1>3, <2>1, <2>5 DEF ResponseInv, Control, Handling, Getting, Deleting
  <2>7. Found'
    BY <1>1, <1>2, <2>1, Steady DEF Found, Handling, Getting, Deleting
  <2> QED
    BY <2>1, <2>3, <2>4, <2>6, <2>7, BeforeSent
<1> QED
  BY <1>5, <1>6, <1>7

LEMMA RemoveStep ==
  ASSUME ResponseInv, Remove, UNCHANGED <<code, changes, q, stored, out>>
  PROVE  ResponseInv'
<1>1. pc = "remove" /\ pc \in {"generate"} \cup (Handling \ {"prepareHeaders"}) /\ pc \in Handling
  BY DEF Remove, Handling, Deleting
<1>2. /\ TypeInv /\ resp.length = {} /\ resp.body = 0 /\ code \in {200, 403, 404}
      /\ resp \in [status : 200..599, length : SUBSET Lengths, body : Nat,
                   file : {"target", "index"}, from : Sources]
  BY <1>1, InHandler
<1>3. code' \in {200, 403, 404} /\ UNCHANGED <<changes, q, stored, out>>
  BY <1>2
<1>4. CASE /\ fs' = [fs EXCEPT !["target"] = Absent]
           /\ Answer([resp EXCEPT !.status = 204, !.from = "deleted"])
  <2>1. resp' = [resp EXCEPT !.status = 204, !.from = "deleted"] /\ pc' = "send"
    BY <1>4 DEF Answer
  <2> DEFINE r1 == [resp EXCEPT !.status = 204]
  <2>a. r1 = [status |-> 204, length |-> {}, body |-> 0, file |-> resp.file, from |-> resp.from]
    BY <1>2
  <2>b. resp' = [r1 EXCEPT !.from = "deleted"]
    BY <2>1
  <2> HIDE DEF r1
  <2>c. resp' = [status |-> 204, length |-> {}, body |-> 0, file |-> resp.file,
                 from |-> "deleted"]
    BY <2>a, <2>b
  <2>2. /\ resp' \in [status : 200..599, length : SUBSET Lengths, body : Nat,
                      file : {"target", "index"}, from : Sources]
        /\ resp'.status = 204 /\ resp'.from = "deleted" /\ resp'.length = {} /\ resp'.body = 0
    BY <1>2, <2>c DEF Sources
  <2>3. fs' \in [Paths -> Node] /\ \A p \in Paths : fs'[p] \in NodesAt[p] \cup {Absent}
    <3>1. fs \in [Paths -> Node] /\ \A p \in Paths : fs[p] \in NodesAt[p] \cup {Absent}
      BY <1>2 DEF TypeInv, TypeOK
    <3>2. Absent \in Node
      BY DEF Absent, Node
    <3> QED
      BY <1>4, <3>1, <3>2
  <2> QED
    BY <1>3, <2>1, <2>2, <2>3, AnswerStep
<1>5. CASE Fail(500) /\ UNCHANGED fs
  <2>1. resp' = WithStatus(500) /\ pc' = "setErrorPage"
    BY <1>5 DEF Fail, WithStatus
  <2>2. UNCHANGED <<fs, changes, q, stored, out>>
    BY <1>5
  <2> QED
    BY <1>1, <1>3, <2>1, <2>2, RefuseStep
<1> QED
  BY <1>4, <1>5 DEF Remove

\* An error page that is made, not read.
LEMMA GeneratedStep ==
  ASSUME ResponseInv, Answer(Generated(resp.status)), changes = 0 => PageStatus,
         UNCHANGED <<fs, code, changes, q, stored, out>>
  PROVE  ResponseInv'
<1>1. /\ TypeInv /\ GeneratedSize \in Nat \ {0} /\ code \in {200, 403, 404}
      /\ resp \in [status : 200..599, length : SUBSET Lengths, body : Nat,
                   file : {"target", "index"}, from : Sources]
  BY ConstantsAssumption DEF ResponseInv, TypeInv, TypeOK, ConstantsAssumption
<1> DEFINE l == {ToString(GeneratedSize)}
<1>2. l \in SUBSET Lengths
  BY <1>1, ToStringTyped
<1>3. resp' = Made(resp, resp.status, l, GeneratedSize, "page") /\ pc' = "send"
  BY DEF Answer, Generated, Page, Made
<1>4. l = {ToString(GeneratedSize)}
  OBVIOUS
<1> HIDE DEF l
<1>5. Made(resp, resp.status, l, GeneratedSize, "page") =
        [status |-> resp.status, length |-> l, body |-> GeneratedSize, file |-> resp.file,
         from |-> "page"]
  BY <1>1, Rewritten
<1>6. /\ resp' \in [status : 200..599, length : SUBSET Lengths, body : Nat,
                    file : {"target", "index"}, from : Sources]
      /\ resp'.status = resp.status /\ resp'.length = l /\ resp'.body = GeneratedSize
      /\ resp'.from = "page"
  BY <1>1, <1>2, <1>3, <1>5 DEF Sources
<1>7. changes = 0 => Answered'
  <2>1. changes = 0 => PageStatus'
    BY <1>6, Steady DEF PageStatus
  <2>2. resp'.length = {ToString(resp.body)'}
    BY <1>4, <1>6 DEF ToString
  <2>3. resp'.body > 0
    BY <1>1, <1>6
  <2> QED
    BY <1>6, <2>1, <2>2, <2>3 DEF Answered
<1>8. /\ fs' \in [Paths -> Node] /\ \A p \in Paths : fs'[p] \in NodesAt[p] \cup {Absent}
      /\ code' \in {200, 403, 404} /\ UNCHANGED <<changes, q, stored, out>>
  BY <1>1 DEF TypeInv, TypeOK
<1> QED
  BY <1>3, <1>6, <1>7, <1>8, AnswerStep

LEMMA SetErrorPageStep ==
  ASSUME ResponseInv, SetErrorPage, UNCHANGED <<fs, code, changes, q, stored, out>>
  PROVE  ResponseInv'
<1>1. pc = "setErrorPage" /\ TypeInv /\ resp.body = 0 /\ resp.length = {}
  BY DEF SetErrorPage, ResponseInv, Blank
<1>2. changes = 0 => PageStatus
  BY <1>1 DEF ResponseInv, Found
<1>3. CASE resp.status \notin PageCodes
  <2>1. Answer(Generated(resp.status))
    BY <1>3 DEF SetErrorPage
  <2> QED
    BY <1>2, <2>1, GeneratedStep
<1>4. CASE resp.status \in PageCodes
  <2> DEFINE n == FileSize("page")
             s == IF n = -1 THEN 500 ELSE resp.status
             l == {ToString(n)}
  <2>1. n \in Nat \cup {-1} /\ l \in SUBSET Lengths
    BY <1>1, SizeTyped, ToStringTyped DEF Paths
  <2>2. resp.status \in 400..511 /\ s \in 400..511 /\ (s = resp.status \/ (s = 500 /\ n = -1))
    <3>1. PageCodes \subseteq 400..511
      BY ConstantsAssumption DEF ConstantsAssumption
    <3>2. resp.status \in 400..511
      BY <1>4, <3>1
    <3> QED
      BY <3>2
  <2>3. resp' = Made(resp, s, l, resp.body, "page") /\ pc' = "readErrorPage"
    BY <1>4 DEF SetErrorPage, Page, Made
  <2>4. l = {ToString(FileSize("page"))} /\ n = FileSize("page")
    OBVIOUS
  <2> HIDE DEF n, s, l
  <2>5. resp \in [status : 200..599, length : SUBSET Lengths, body : Nat,
                  file : {"target", "index"}, from : Sources]
    BY <1>1 DEF TypeInv
  <2>6. Made(resp, s, l, resp.body, "page") =
          [status |-> s, length |-> l, body |-> resp.body, file |-> resp.file, from |-> "page"]
    BY <2>5, Rewritten
  <2>7. /\ resp' \in [status : 200..599, length : SUBSET Lengths, body : Nat,
                      file : {"target", "index"}, from : Sources]
        /\ resp'.status = s /\ resp'.length = l /\ resp'.body = 0 /\ resp'.from = "page"
    BY <1>1, <2>1, <2>2, <2>3, <2>5, <2>6 DEF Sources
  <2>8. TypeInv'
    <3>1. TypeOK'
      BY <1>1, <2>3, <2>7 DEF TypeInv, TypeOK, Lengths
    <3> QED
      BY <1>1, <2>7, <3>1 DEF TypeInv
  <2>9. Blank' /\ Control'
    BY <2>2, <2>3, <2>7 DEF Blank, Control, Handling, Getting, Deleting
  <2>10. Found'
    <3>1. changes = 0 => PageStatus'
      BY <1>2, <2>2, <2>7, Steady DEF PageStatus
    <3>2. resp'.length = {ToString(FileSize("page"))'}
      BY <2>4, <2>7, Steady DEF ToString
    <3>3. resp'.status \in PageCodes \/ FileSize("page")' = -1
      BY <1>4, <2>2, <2>4, <2>7, Steady
    <3> QED
      BY <2>3, <3>1, <3>2, <3>3 DEF Found, Handling, Getting, Deleting
  <2> QED
    BY <2>3, <2>8, <2>9, <2>10, BeforeSent
<1> QED
  BY <1>3, <1>4

LEMMA ReadErrorPageStep ==
  ASSUME ResponseInv, ReadErrorPage, UNCHANGED <<fs, code, changes, q, stored, out>>
  PROVE  ResponseInv'
<1>1. /\ pc = "readErrorPage" /\ TypeInv /\ resp.body = 0 /\ resp.from = "page"
      /\ resp.status >= 400 /\ code \in {200, 403, 404}
      /\ resp \in [status : 200..599, length : SUBSET Lengths, body : Nat,
                   file : {"target", "index"}, from : Sources]
  BY DEF ReadErrorPage, ResponseInv, Blank, TypeInv, TypeOK
<1>2. changes = 0 =>
        /\ PageStatus /\ resp.length = {ToString(FileSize("page"))}
        /\ resp.status \in PageCodes \/ FileSize("page") = -1
  BY <1>1 DEF ResponseInv, Found
<1>3. CASE checkFilePerms("page") # 200
  <2>1. Answer(Generated(resp.status))
    BY <1>3 DEF ReadErrorPage
  <2> QED
    BY <1>2, <2>1, GeneratedStep
<1>4. CASE checkFilePerms("page") = 200
  <2> DEFINE n == FileSize("page")
             b == IF isDirectory("page") THEN 0 ELSE Smaller(n, PageBuffer)
  <2>1. n \in Nat /\ PageBuffer \in Nat
    BY <1>1, <1>4, SizeTyped, ConstantsAssumption DEF Paths, ConstantsAssumption
  <2>2. b \in Nat /\ b <= n
    BY <2>1 DEF Smaller
  <2>3. resp' = [resp EXCEPT !.body = resp.body + b] /\ pc' = "send"
    BY <1>4 DEF ReadErrorPage, Answer
  <2>4. n = FileSize("page")
    OBVIOUS
  <2> HIDE DEF n, b
  <2>5. resp.body + b = b
    BY <1>1, <2>2
  <2>6. resp' = [resp EXCEPT !.body = b]
    BY <2>3, <2>5
  <2>7. /\ resp' \in [status : 200..599, length : SUBSET Lengths, body : Nat,
                      file : {"target", "index"}, from : Sources]
        /\ resp'.status = resp.status /\ resp'.length = resp.length /\ resp'.body = b
        /\ resp'.from = "page"
    BY <1>1, <2>2, <2>6
  <2>8. changes = 0 => Answered'
    <3> SUFFICES ASSUME changes = 0 PROVE Answered'
      OBVIOUS
    <3>1. PageStatus'
      BY <1>2, <2>7, Steady DEF PageStatus
    <3>2. resp.status \in PageCodes /\ resp.status \in 200..599
      BY <1>1, <1>2, <2>1, <2>4
    <3>3. CASE b = n
      <4>1. resp'.length = {ToString(resp.body)'}
        BY <1>2, <2>4, <2>7, <3>3 DEF ToString
      <4> QED
        BY <1>1, <2>7, <3>1, <4>1 DEF Answered
    <3>4. CASE b # n
      <4>1. b < n
        BY <2>1, <2>2, <3>4
      <4>2. PageIsCut'
        BY <1>4, <2>4, <2>7, <3>2, <4>1, Steady DEF PageIsCut
      <4> QED
        BY <1>1, <2>7, <3>1, <4>2 DEF Answered
    <3> QED
      BY <3>3, <3>4
  <2>9. /\ fs' \in [Paths -> Node] /\ \A p \in Paths : fs'[p] \in NodesAt[p] \cup {Absent}
        /\ code' \in {200, 403, 404} /\ UNCHANGED <<changes, q, stored, out>>
    BY <1>1 DEF TypeInv, TypeOK
  <2> QED
    BY <2>3, <2>7, <2>8, <2>9, AnswerStep
<1> QED
  BY <1>3, <1>4

----------------------------------------------------------------------------
(* Sending, and the steps of others.                                       *)

\* What Send makes of an answer.
LEMMA Sent ==
  ASSUME TypeInv, Send
  PROVE  /\ pc = "send" /\ pc' = "sent" /\ UNCHANGED <<fs, changes, q, stored, code, resp>>
         /\ out' \in [head : BOOLEAN, bytes : Nat, kept : BOOLEAN]
         /\ out'.kept => resp.status # 201
         /\ ~FromFile => out'.head /\ out'.bytes = resp.body
         /\ FromFile /\ checkFilePerms(resp.file) = 200 =>
              /\ out'.head
              /\ out'.bytes = resp.body + IF At(resp.file).kind = "file" THEN FileSize(resp.file)
                                          ELSE 0
<1> DEFINE f == At(resp.file)
           opens == f.kind # "none" /\ f.readable
           n == IF f.kind = "file" THEN f.size ELSE 0
<1>1. resp.file \in Paths /\ resp.body \in Nat
  BY DEF TypeInv, Paths
<1>2. f.kind \in {"none", "file", "dir"} /\ f.size \in Nat /\ n \in Nat
  BY <1>1, NodeTyped
<1>3. /\ checkFilePerms(resp.file) = 200 => opens
      /\ f.kind = "file" => FileSize(resp.file) = f.size
  BY PermsTyped DEF FileSize
<1>4. Kept \in BOOLEAN /\ (Kept => resp.status # 201)
  BY DEF Kept
<1>5. CASE ~FromFile
  <2>1. out' = [head |-> TRUE, bytes |-> resp.body, kept |-> Kept]
    BY <1>5 DEF Send
  <2> HIDE DEF n, opens
  <2> QED
    BY <1>1, <1>4, <1>5, <2>1 DEF Send
<1>6. CASE FromFile /\ opens
  <2>1. out' = [head |-> TRUE, kept |-> Kept, bytes |-> resp.body + n]
    BY <1>6 DEF Send
  <2>2. resp.body + n \in Nat
    BY <1>1, <1>2
  <2>3. resp.body + n = resp.body + IF At(resp.file).kind = "file" THEN FileSize(resp.file)
                                   ELSE 0
    BY <1>3
  <2> HIDE DEF n, opens
  <2> QED
    BY <1>4, <1>6, <2>1, <2>2, <2>3 DEF Send
<1>7. CASE FromFile /\ ~opens
  <2>1. out' = [head |-> FALSE, bytes |-> 0, kept |-> Kept]
    BY <1>7 DEF Send
  <2>2. checkFilePerms(resp.file) # 200
    BY <1>3, <1>7
  <2> HIDE DEF n, opens
  <2> QED
    BY <1>4, <1>7, <2>1, <2>2 DEF Send
<1> QED
  BY <1>5, <1>6, <1>7

\* Of the answers that are not the configured error page only the file's may follow;
\* its path could be read when the answer was made.
LEMMA HeadArrives ==
  ASSUME TypeInv, Send, Answered
  PROVE  out'.head
<1>1. CASE resp.from = "page"
  <2>1. ~FromFile
    BY <1>1 DEF Answered, FromFile, TypeInv
  <2> QED
    BY <2>1, Sent
<1>2. CASE resp.from # "page"
  <2>1. checkFilePerms(resp.file) = 200
    BY <1>2 DEF Answered, TypeInv
  <2> QED
    BY <2>1, Sent
<1> QED
  BY <1>1, <1>2

\* An announced length is met, if it fits an int.
LEMMA LengthIsMet ==
  ASSUME TypeInv, out' \in [head : BOOLEAN, bytes : Nat, kept : BOOLEAN], out'.head,
         resp' = resp, resp.length = {ToString(out'.bytes)}
  PROVE  Framed' \/ LongerThanInt'
<1>1. CASE out'.bytes <= IntMax
  <2>1. ToString(out'.bytes) = out'.bytes
    BY <1>1, ToStringFits
  <2>2. resp'.length = {out'.bytes} /\ resp'.length # {}
    BY <2>1
  <2> QED
    BY <2>2 DEF Framed
<1>2. CASE ~(out'.bytes <= IntMax)
  <2>1. out'.bytes > IntMax
    BY <1>2, ConstantsAssumption DEF ConstantsAssumption
  <2> QED
    BY <2>1 DEF LongerThanInt
<1> QED
  BY <1>1, <1>2

LEMMA AnsweredIsFramed ==
  ASSUME TypeInv, Send, Answered, resp.from # "deleted"
  PROVE  out'.kept => \/ Framed' \/ RedirectWithoutLength' \/ CutErrorPage'
                      \/ DirectoryAsDefault' \/ SilentScript' \/ LongerThanInt'
<1>1. /\ out' \in [head : BOOLEAN, bytes : Nat, kept : BOOLEAN] /\ out'.head
      /\ resp' = resp /\ fs' = fs /\ q' = q /\ resp.body \in Nat
      /\ ~FromFile => out'.bytes = resp.body
      /\ out'.kept => resp.status # 201
  BY Sent, HeadArrives DEF TypeInv
<1>2. CASE resp.from = "page"
  <2>1. out'.bytes = resp.body
    BY <1>1, <1>2 DEF Answered, FromFile, TypeInv
  <2>2. CASE resp.length = {ToString(resp.body)}
    BY <1>1, <2>1, <2>2, LengthIsMet
  <2>3. CASE PageIsCut
    <3>1. CutErrorPage'
      BY <1>1, <1>2, <2>1, <2>3, Steady DEF PageIsCut, CutErrorPage
    <3> QED
      BY <3>1
  <2> QED
    BY <1>2, <2>2, <2>3 DEF Answered
<1>3. CASE resp.from = "script"
  <2>1. CASE resp.body = 0
    BY <1>1, <1>3, <2>1 DEF SilentScript
  <2>2. CASE resp.body # 0
    <3>1. out'.bytes = resp.body
      BY <1>1, <1>3, <2>2 DEF FromFile
    <3> QED
      BY <1>1, <1>3, <3>1, LengthIsMet DEF Answered
  <2> QED
    BY <2>1, <2>2
<1>4. CASE resp.from = "created"
  BY <1>1, <1>4 DEF Answered
<1>5. CASE resp.from = "moved"
  BY <1>1, <1>5 DEF RedirectWithoutLength
<1>6. CASE resp.from = "listing"
  <2>1. /\ resp.length = {ListingSize} /\ resp.body = ListingSize /\ At("target").kind = "dir"
        /\ resp.file = "target" /\ checkFilePerms("target") = 200
    BY <1>6 DEF Answered, isDirectory, TypeInv
  <2>2. out'.bytes = resp.body
    BY <1>1, <2>1, Sent
  <2> QED
    BY <1>1, <2>1, <2>2 DEF Framed
<1>7. CASE resp.from = "file"
  <2>1. /\ resp.length = {ToString(FileSize(resp.file))} /\ resp.body = 0 /\ resp.status = 200
        /\ checkFilePerms(resp.file) = 200 /\ resp.file \in Paths
        /\ resp.file = "target" => At("target").kind # "dir"
    BY <1>7 DEF Answered, isDirectory, TypeInv, Paths
  <2>2. FromFile
    BY <2>1 DEF FromFile
  <2>3. CASE At(resp.file).kind = "dir"
    <3>1. resp.file = "index" /\ isDirectory("index")
      BY <2>1, <2>3 DEF isDirectory, TypeInv
    <3>2. DirectoryAsDefault'
      BY <1>1, <3>1, Steady DEF DirectoryAsDefault
    <3> QED
      BY <3>2
  <2>4. CASE At(resp.file).kind = "file"
    <3>1. FileSize(resp.file) \in Nat
      BY <2>1, SizeTyped
    <3>2. out'.bytes = 0 + FileSize(resp.file)
      BY <2>1, <2>2, <2>4, Sent
    <3>3. out'.bytes = FileSize(resp.file)
      BY <3>1, <3>2
    <3> QED
      BY <1>1, <2>1, <3>3, LengthIsMet
  <2>5. At(resp.file).kind \in {"none", "file", "dir"} /\ At(resp.file).kind # "none"
    BY <2>1, NodeTyped, PermsTyped
  <2> QED
    BY <2>3, <2>4, <2>5
<1> QED
  <2>1. resp.from \in Sources \ {"nothing", "deleted"}
    BY DEF Answered, TypeInv
  <2> QED
    BY <1>2, <1>3, <1>4, <1>5, <1>6, <1>7, <2>1 DEF Sources

LEMMA SendStep ==
  ASSUME ResponseInv, Send
  PROVE  ResponseInv'
<1>1. TypeInv /\ Control /\ Found /\ changes \in 0..MaxChanges
  BY DEF ResponseInv, TypeInv, TypeOK
<1>2. /\ pc = "send" /\ pc' = "sent" /\ UNCHANGED <<fs, changes, q, stored, code, resp>>
      /\ out' \in [head : BOOLEAN, bytes : Nat, kept : BOOLEAN]
      /\ ~FromFile => out'.head /\ out'.bytes = resp.body
  BY <1>1, Sent
<1>3. TypeInv'
  <2>1. TypeOK'
    BY <1>1, <1>2 DEF TypeInv, TypeOK
  <2> QED
    BY <1>1, <1>2, <2>1 DEF TypeInv
<1>4. Blank' /\ Control' /\ Found'
  BY <1>1, <1>2 DEF Blank, Control, Found, Handling, Getting, Deleting
<1>5. CreatedMeansStored'
  BY <1>1, <1>2 DEF Control, CreatedMeansStored
<1>6. CASE changes # 0
  <2>1. KeptMeansFramed' /\ SilenceNeedsChange' /\ StatusIsExpected'
    BY <1>2, <1>5, <1>6 DEF KeptMeansFramed, SilenceNeedsChange, StatusIsExpected, Undisturbed
  <2>2. changes' > 0
    BY <1>1, <1>2, <1>6, ConstantsAssumption DEF ConstantsAssumption
  <2>3. ErrorPageIsError'
    BY <1>3, <2>2 DEF ErrorPageIsError, TypeInv
  <2> QED
    BY <1>3, <1>4, <2>1, <2>3 DEF ResponseInv
<1>7. CASE resp.from = "deleted"
  <2>1. resp.status = 204 /\ resp.length = {}
    BY <1>1, <1>2, <1>7 DEF Control
  <2>2. out'.head
    BY <1>2, <2>1 DEF FromFile
  <2>3. Framed'
    BY <1>2, <2>1, <2>2 DEF Framed
  <2>4. KeptMeansFramed' /\ SilenceNeedsChange'
    BY <2>2, <2>3 DEF KeptMeansFramed, SilenceNeedsChange
  <2>5. ErrorPageIsError' /\ StatusIsExpected'
    BY <1>2, <1>3, <1>5, <1>7 DEF ErrorPageIsError, StatusIsExpected, TypeInv
  <2> QED
    BY <1>3, <1>4, <2>4, <2>5 DEF ResponseInv
<1>8. CASE changes = 0 /\ resp.from # "deleted"
  <2>1. Answered
    BY <1>1, <1>2, <1>8 DEF Found
  <2>2. out'.head
    BY <1>1, <2>1, HeadArrives
  <2>3. SilenceNeedsChange'
    BY <2>2 DEF SilenceNeedsChange
  <2>4. KeptMeansFramed'
    BY <1>1, <1>8, <2>1, AnsweredIsFramed DEF KeptMeansFramed
  <2>5. ErrorPageIsError'
    <3>1. (resp.from = "page" /\ resp.status < 400) => Bare
      BY <2>1, <1>1 DEF Answered, PageStatus, TypeInv
    <3>2. (resp'.from = "page" /\ resp'.status < 400) => Bare'
      BY <1>2, <3>1, Steady
    <3> QED
      BY <1>3, <3>2 DEF ErrorPageIsError, Bare, TypeInv
  <2>6. StatusIsExpected'
    <3>1. resp.status \in ExpectedStatus \cup (IF resp.from = "page" THEN {500} ELSE {})
      BY <2>1 DEF Answered, PageStatus
    <3>2. ExpectedStatus' = ExpectedStatus
      BY <1>2, Steady
    <3> QED
      BY <1>2, <1>5, <3>1, <3>2 DEF StatusIsExpected
  <2> QED
    BY <1>3, <1>4, <2>3, <2>4, <2>5, <2>6 DEF ResponseInv
<1> QED
  BY <1>6, <1>7, <1>8

LEMMA ResetStep ==
  ASSUME ResponseInv, Reset
  PROVE  ResponseInv'
<1>1. TypeInv /\ pc' = "idle" /\ UNCHANGED <<fs, q>> /\ changes' = 0 /\ code' = 200
      /\ stored' = FALSE
  BY DEF ResponseInv, Reset
<1>2. /\ resp' \in [status : 200..599, length : SUBSET Lengths, body : Nat,
                    file : {"target", "index"}, from : Sources]
      /\ resp'.status = 200 /\ resp'.length = {} /\ resp'.body = 0
      /\ resp'.file = "target" /\ resp'.from = "nothing"
  BY DEF Reset, FreshResponse, Sources
<1>3. out' \in [head : BOOLEAN, bytes : Nat, kept : BOOLEAN]
  BY DEF Reset, NothingSent
<1>4. TypeInv'
  <2>1. TypeOK'
    <3>1. /\ resp'.status \in 200..599 /\ resp'.body \in Nat /\ resp'.file \in {"target", "index"}
          /\ resp'.length \subseteq -(IntMax + 1)..IntMax \cup {ListingSize}
          /\ out'.head \in BOOLEAN /\ out'.bytes \in Nat /\ out'.kept \in BOOLEAN
      BY <1>2, <1>3
    <3>2. /\ \A p \in Paths : fs'[p] \in NodesAt[p] \cup {Absent}
          /\ q' \in Requests
      BY <1>1 DEF TypeInv, TypeOK
    <3>3. changes' \in 0..MaxChanges
      BY <1>1, ConstantsAssumption DEF ConstantsAssumption
    <3> QED
      BY <1>1, <3>1, <3>2, <3>3 DEF TypeOK
  <2> QED
    BY <1>1, <1>2, <1>3, <2>1 DEF TypeInv
<1>5. Blank' /\ Control' /\ Found'
  BY <1>1, <1>2 DEF Blank, Control, Found, Handling, Getting, Deleting
<1> QED
  BY <1>1, <1>4, <1>5, BeforeSent

\* After a change of the files only what does not depend on them is known.
LEMMA DisturbStep ==
  ASSUME ResponseInv, Disturb
  PROVE  ResponseInv'
<1>1. /\ TypeInv /\ Blank /\ Control /\ changes \in 0..MaxChanges /\ changes < MaxChanges
      /\ changes' = changes + 1 /\ pc \notin {"idle", "sent"}
      /\ UNCHANGED <<pc, q, stored, code, resp, out>>
  BY DEF ResponseInv, Disturb, TypeInv, TypeOK
<1>2. changes' \in 0..MaxChanges /\ changes' # 0
  BY <1>1, ConstantsAssumption DEF ConstantsAssumption
<1>3. fs' \in [Paths -> Node] /\ \A p \in Paths : fs'[p] \in NodesAt[p] \cup {Absent}
  <2>0. PICK p \in Paths : \E n \in NodesAt[p] : fs' = [fs EXCEPT ![p] = n]
    BY DEF Disturb
  <2>1. PICK n \in NodesAt[p] : fs' = [fs EXCEPT ![p] = n]
    BY <2>0
  <2>2. n \in Node
    BY <2>1, ConstantsAssumption DEF ConstantsAssumption
  <2>3. fs \in [Paths -> Node] /\ \A r \in Paths : fs[r] \in NodesAt[r] \cup {Absent}
    BY <1>1 DEF TypeInv, TypeOK
  <2> QED
    BY <2>1, <2>2, <2>3
<1>4. TypeInv'
  <2>1. TypeOK'
    BY <1>1, <1>2, <1>3 DEF TypeInv, TypeOK
  <2> QED
    BY <1>1, <1>3, <2>1 DEF TypeInv
<1>5. Blank'
  BY <1>1 DEF Blank
<1>6. Accepted' = Accepted /\ MethodAllowed' = MethodAllowed
  BY <1>1 DEF Accepted, MethodAllowed
<1>7. Control'
  BY <1>1, <1>6 DEF Control
<1>8. Found'
  BY <1>2 DEF Found
<1> QED
  BY <1>1, <1>4, <1>5, <1>7, <1>8, BeforeSent

LEMMA StutterStep ==
  ASSUME ResponseInv, UNCHANGED vars
  PROVE  ResponseInv'
<1>1. UNCHANGED <<fs, changes, pc, q, stored, code, resp, out>>
  BY DEF vars
<1>2. At("target")' = At("target") /\ At("index")' = At("index") /\ At("page")' = At("page")
  BY <1>1 DEF At
<1>3. TypeInv'
  <2>1. TypeOK'
    BY <1>1 DEF ResponseInv, TypeInv, TypeOK
  <2> QED
    BY <1>1, <2>1 DEF ResponseInv, TypeInv
<1>4. Blank' /\ Control'
  <2>1. Accepted' = Accepted /\ MethodAllowed' = MethodAllowed
    BY <1>1 DEF Accepted, MethodAllowed
  <2> QED
    BY <1>1, <2>1 DEF ResponseInv, Blank, Control
<1>5. CASE pc = "sent"
  <2>1. Found'
    BY <1>1, <1>5 DEF Found, Handling, Getting, Deleting
  <2>2. KeptMeansFramed' /\ SilenceNeedsChange'
    BY <1>1, Steady DEF ResponseInv, KeptMeansFramed, SilenceNeedsChange, Undisturbed, Framed,
                        RedirectWithoutLength, CutErrorPage, DirectoryAsDefault, SilentScript,
                        LongerThanInt
  <2>3. StatusIsExpected'
    BY <1>1, Steady DEF ResponseInv, StatusIsExpected, CreatedMeansStored, Undisturbed
  <2>4. ErrorPageIsError'
    BY <1>1, <1>3, Steady DEF ResponseInv, ErrorPageIsError, TypeInv
  <2> QED
    BY <1>3, <1>4, <2>1, <2>2, <2>3, <2>4 DEF ResponseInv
<1>6. CASE pc # "sent"
  <2>1. checkFilePerms(resp.file)' = checkFilePerms(resp.file)
    <3>1. At(resp.file)' = At(resp.file)
      BY <1>1 DEF At
    <3> QED
      BY <3>1 DEF checkFilePerms
  <2>2. ToString(FileSize(resp.file))' = ToString(FileSize(resp.file))
    <3>1. At(resp.file)' = At(resp.file)
      BY <1>1 DEF At
    <3> QED
      BY <3>1 DEF FileSize, ToString
  <2>3. ToString(FileSize("page"))' = ToString(FileSize("page"))
    BY <1>1, Steady DEF ToString
  <2>4. ToString(resp.body)' = ToString(resp.body)
    BY <1>1 DEF ToString
  <2>5. PageStatus' = PageStatus /\ PageIsCut' = PageIsCut
    BY <1>1, Steady DEF PageStatus, PageIsCut
  <2>6. Answered' = Answered
    BY <1>1, <2>1, <2>2, <2>4, <2>5, Steady DEF Answered
  <2>7. Found'
    BY <1>1, <2>3, <2>5, <2>6, Steady DEF ResponseInv, Found
  <2> QED
    BY <1>1, <1>3, <1>4, <1>6, <2>7, BeforeSent
<1> QED
  BY <1>5, <1>6

LEMMA InitResponseInv == Init => ResponseInv
<1> SUFFICES ASSUME Init PROVE ResponseInv
  OBVIOUS
<1>1. /\ changes = 0 /\ pc = "idle" /\ q \in Requests /\ stored = FALSE /\ code = 200
      /\ resp = FreshResponse /\ out = NothingSent
      /\ MaxChanges \in Nat
  BY ConstantsAssumption DEF Init, ConstantsAssumption
<1>2. fs \in [Paths -> Node] /\ \A p \in Paths : fs[p] \in NodesAt[p] \cup {Absent}
  <2>1. /\ fs \in [Paths -> UNION {NodesAt[p] : p \in Paths}]
        /\ \A p \in Paths : fs[p] \in NodesAt[p]
    BY DEF Init
  <2>2. \A p \in Paths : NodesAt[p] \subseteq Node
    BY ConstantsAssumption DEF ConstantsAssumption
  <2> QED
    BY <2>1, <2>2
<1>3. /\ resp \in [status : 200..599, length : SUBSET Lengths, body : Nat,
                   file : {"target", "index"}, from : Sources]
      /\ resp.status = 200 /\ resp.length = {} /\ resp.body = 0
      /\ resp.file = "target" /\ resp.from = "nothing"
  BY <1>1 DEF FreshResponse, Sources
<1>4. out \in [head : BOOLEAN, bytes : Nat, kept : BOOLEAN]
  BY <1>1 DEF NothingSent
<1>5. TypeInv
  <2>1. TypeOK
    <3>1. /\ resp.status \in 200..599 /\ resp.body \in Nat /\ resp.file \in {"target", "index"}
          /\ resp.length \subseteq -(IntMax + 1)..IntMax \cup {ListingSize}
          /\ out.head \in BOOLEAN /\ out.bytes \in Nat /\ out.kept \in BOOLEAN
      BY <1>3, <1>4
    <3>2. changes \in 0..MaxChanges
      BY <1>1
    <3> QED
      BY <1>1, <1>2, <3>1, <3>2 DEF TypeOK
  <2> QED
    BY <1>2, <1>3, <1>4, <2>1 DEF TypeInv
<1>6. Blank /\ Control /\ Found
  BY <1>1, <1>3 DEF Blank, Control, Found, Handling, Getting, Deleting
<1>7. KeptMeansFramed /\ SilenceNeedsChange /\ ErrorPageIsError /\ StatusIsExpected
  BY <1>1, <1>5 DEF KeptMeansFramed, SilenceNeedsChange, ErrorPageIsError, StatusIsExpected,
                    CreatedMeansStored, Undisturbed, TypeInv
<1> QED
  BY <1>5, <1>6, <1>7 DEF ResponseInv

LEMMA NextResponseInv == ResponseInv /\ [Next]_vars => ResponseInv'
<1> SUFFICES ASSUME ResponseInv, [Next]_vars PROVE ResponseInv'
  OBVIOUS
<1>1. CASE \E r \in Requests : Request(r)
  BY <1>1, RequestStep
<1>2. CASE RouteURI
  BY <1>2, RouteURIStep
<1>3. CASE ParseBody
  BY <1>3, ParseBodyStep
<1>4. CASE Get /\ UNCHANGED fs /\ UNCHANGED <<changes, q, stored, out>>
  <2>1. UNCHANGED <<fs, changes, q, stored, out>>
    BY <1>4
  <2> QED
    BY <1>4, <2>1, GetStep
<1>5. CASE Remove /\ UNCHANGED code /\ UNCHANGED <<changes, q, stored, out>>
  <2>1. UNCHANGED <<code, changes, q, stored, out>>
    BY <1>5
  <2> QED
    BY <1>5, <2>1, RemoveStep
<1>6. CASE /\ \/ GenerateResponse \/ HandleCgiScript \/ Post \/ GetDirectory \/ GetFile
              \/ PrepareHeaders \/ Delete \/ SetErrorPage \/ ReadErrorPage
           /\ UNCHANGED <<fs, code>> /\ UNCHANGED <<changes, q, stored, out>>
  <2>1. UNCHANGED <<fs, code, changes, q, stored, out>>
    BY <1>6
  <2> QED
    BY <1>6, <2>1, GenerateResponseStep, HandleCgiScriptStep, PostStep, GetDirectoryStep,
       GetFileStep, PrepareHeadersStep, DeleteStep, SetErrorPageStep, ReadErrorPageStep
<1>7. CASE Send
  BY <1>7, SendStep
<1>8. CASE Reset
  BY <1>8, ResetStep
<1>9. CASE Disturb
  BY <1>9, DisturbStep
<1>10. CASE UNCHANGED vars
  BY <1>10, StutterStep
<1> QED
  BY <1>1, <1>2, <1>3, <1>4, <1>5, <1>6, <1>7, <1>8, <1>9, <1>10 DEF Next, Handler

----------------------------------------------------------------------------
(* The theorems.                                                           *)

\* A connection that is kept after an answer over files that nobody changed is at the
\* start of the next answer: Content-Length (HttpResponse::prepareHeaders, setErrorPage,
\* CGI and listing) is what sendResponse sends, but for the six ways listed.
THEOREM KeptIsFramed == Spec => []KeptMeansFramed
<1>1. ResponseInv => KeptMeansFramed
  BY DEF ResponseInv
<1> QED
  BY InitResponseInv, NextResponseInv, <1>1, PTL DEF Spec

\* sendResponse leaves a request without any answer only if a path was changed after
\* the handler had looked at it.
THEOREM EveryRequestIsAnswered == Spec => []SilenceNeedsChange
<1>1. ResponseInv => SilenceNeedsChange
  BY DEF ResponseInv
<1> QED
  BY InitResponseInv, NextResponseInv, <1>1, PTL DEF Spec

\* Types hold, and setErrorPage's page is sent with an error status, but for a path that
\* changed and for a directory with neither default file nor listing.
THEOREM ErrorPagesAreErrors == Spec => []ErrorPageIsError
<1>1. ResponseInv => ErrorPageIsError
  BY DEF ResponseInv
<1> QED
  BY InitResponseInv, NextResponseInv, <1>1, PTL DEF Spec

\* The code's chain of checks (parser, parseBody, the handlers and their tables of
\* errors) ends in the status that one table over the request and the files gives; 201
\* is answered only for a body that was stored, whatever others do to the files.
THEOREM StatusFollowsTable == Spec => []StatusIsExpected
<1>1. ResponseInv => StatusIsExpected
  BY DEF ResponseInv
<1> QED
  BY InitResponseInv, NextResponseInv, <1>1, PTL DEF Spec
============================================================================
