---------------------------- MODULE HttpResponse ----------------------------
(***************************************************************************)
(* HttpResponse of src/src/http/HttpResponse.cpp: from the path of a       *)
(* request (RouteURI) to the bytes that leave for it (sendResponse), over  *)
(* a file system that others change between any two looks at it.  The code *)
(* asks the file system several times for one answer: RouteURI checks the  *)
(* path, GET checks it again and asks whether it is a directory,           *)
(* prepareHeaders measures it, sendResponse opens it in a later event.     *)
(* Each of these is a step of its own here.                                *)
(*                                                                         *)
(* Three paths matter to one request: its own ("target"), the default file *)
(* below it ("index") and the configured error page ("page").  Bytes are   *)
(* counted, not spelled.  What an open file is read to is its size when it *)
(* was opened.                                                             *)
(***************************************************************************)
EXTENDS Integers

CONSTANTS
  Requests,        \* the requests, see RequestType
  NodesAt,         \* path |-> the nodes of the file system it may have
  PageCodes,       \* statuses with a configured error page (map ErrPages)
  PageBuffer,      \* bytes of an error page that are read (4096)
  GeneratedSize,   \* length of a generated error page
  ListingSize,     \* length of a directory listing
  ScriptStatuses,  \* statuses a CGI script may answer with
  ScriptSizes,     \* lengths of a script's body
  IntMax,          \* largest int of the build
  MaxChanges       \* bound: changes of the file system during one request

Paths == {"target", "index", "page"}
Node == [kind : {"none", "file", "dir"}, readable : BOOLEAN, size : Nat]
Absent == [kind |-> "none", readable |-> FALSE, size |-> 0]

\* What the answer depends on.  early: the parser's own status, 0 if it found no
\* error; slash: the path ends in "/"; default: the route has a default file;
\* redirect: its redirect status, 0 if none; upload: the path begins with the
\* upload directory; script: isCreatFile; cgi: isCgiScript; body: how it is framed.
RequestType ==
  [method : {"GET", "POST", "DELETE"}, allowed : SUBSET {"GET", "POST", "DELETE"},
   early : {0} \cup (400..505), slash : BOOLEAN, default : BOOLEAN, autoIndex : BOOLEAN,
   redirect : {0} \cup (300..308), upload : BOOLEAN, script : BOOLEAN, cgi : BOOLEAN,
   body : {"none", "length", "chunked"}, close : BOOLEAN]

\* The parser refuses a POST that announces no body (HttpRequest's EndOfHeaders).
ASSUME ConstantsAssumption ==
  /\ Requests \subseteq RequestType
  /\ \A r \in Requests : r.method = "POST" /\ r.body = "none" => r.early # 0
  /\ NodesAt \in [Paths -> SUBSET Node]
  /\ PageCodes \subseteq 400..511
  /\ {PageBuffer, GeneratedSize, ListingSize, IntMax} \subseteq Nat \ {0}
  /\ ScriptStatuses \subseteq 200..599 /\ ScriptSizes \subseteq Nat
  /\ MaxChanges \in Nat

VARIABLES
  fs,       \* path |-> node
  changes,  \* changes of the file system since the request line
  pc,       \* the next step of the server for this request
  q,        \* the request
  stored,   \* its body was stored in an upload file
  code,     \* what checkFilePerms last said of the target
  resp,     \* the HttpResponse object
  out       \* what the peer sees: head arrived, bytes after it, connection kept

vars == <<fs, changes, pc, q, stored, code, resp, out>>

\* length: the announced lengths, at most one; file: the path sendResponse would open; from: what made the answer.
FreshResponse == [status |-> 200, length |-> {}, body |-> 0,
                  file |-> "target", from |-> "nothing"]
NothingSent == [head |-> FALSE, bytes |-> 0, kept |-> TRUE]

(***************************************************************************)
(* The file system as the system calls show it                             *)
(***************************************************************************)
\* A file is not found under a path that ends in "/", nor anything below a path
\* that is no directory.
At(p) ==
  CASE p = "index" /\ fs["target"].kind # "dir" -> Absent
    [] p = "target" /\ q.slash /\ fs[p].kind = "file" -> Absent
    [] OTHER -> fs[p]

\* Variant: whether the path may be read is not asked.
checkFilePermsExists(p) == IF At(p).kind = "none" THEN 404 ELSE 200
checkFilePerms(p) ==
  IF At(p).kind = "none" THEN 404 ELSE IF At(p).readable THEN 200 ELSE 403
isDirectory(p) == At(p).kind = "dir"
FileSize(p) == IF At(p).kind = "none" THEN -1 ELSE At(p).size

\* toString takes an int: a longer length wraps.
ToString(n) == ((n + IntMax + 1) % (2 * (IntMax + 1))) - (IntMax + 1)

Page(status, length, body) ==
  [resp EXCEPT !.status = status, !.length = {length}, !.body = body, !.from = "page"]

(***************************************************************************)
(* The parser's part: RouteURI, then parseBody                             *)
(***************************************************************************)
\* The peer's next request.
Request(r) ==
  /\ pc = "idle"
  /\ q' = r
  /\ pc' = "RouteURI"
  /\ UNCHANGED <<fs, changes, stored, code, resp, out>>

\* Variant: the status of the path is not kept.
RouteURIUnset ==
  /\ pc = "RouteURI"
  /\ resp' = [resp EXCEPT !.status = IF q.early # 0 THEN q.early ELSE @]
  /\ pc' = IF q.early # 0 \/ q.body = "none" THEN "generate" ELSE "parseBody"
  /\ UNCHANGED <<fs, changes, q, stored, code, out>>
\* RouteURI ends with the status of the path; an error of the parser replaces it.
RouteURI ==
  /\ pc = "RouteURI"
  /\ resp' = [resp EXCEPT !.status = IF q.early # 0 THEN q.early ELSE checkFilePerms("target")]
  /\ pc' = IF q.early # 0 \/ q.body = "none" THEN "generate" ELSE "parseBody"
  /\ UNCHANGED <<fs, changes, q, stored, code, out>>

\* parseBody, for every method: 405 before anything is stored, 500 if the upload file
\* does not open; a script's body of known length is not stored.
ParseBody ==
  /\ pc = "parseBody"
  /\ pc' = "generate"
  /\ \/ /\ q.method \notin q.allowed
        /\ resp' = [resp EXCEPT !.status = 405]
        /\ UNCHANGED stored
     \/ /\ q.method \in q.allowed
        /\ stored' = ~(q.body = "length" /\ q.script)
        /\ UNCHANGED resp
     \/ /\ q.method \in q.allowed /\ ~(q.body = "length" /\ q.script)
        /\ resp' = [resp EXCEPT !.status = 500]
        /\ UNCHANGED stored
  /\ UNCHANGED <<fs, changes, q, code, out>>

(***************************************************************************)
(* generateResponse                                                        *)
(***************************************************************************)
GenerateResponse ==
  /\ pc = "generate"
  /\ pc' = CASE resp.status >= 400 -> "setErrorPage"
             [] resp.status < 400 /\ q.cgi -> "handleCgiScript"
             [] OTHER -> q.method
  /\ UNCHANGED resp

\* Ends a handler: the answer is complete, or setErrorPage finishes it.
Answer(r) == resp' = r /\ pc' = "send"
Fail(status) == resp' = [resp EXCEPT !.status = status] /\ pc' = "setErrorPage"
MethodAllowed == q.method \in q.allowed

\* The script's run is CgiExecution's: here it cannot be started or fails, or has an
\* answer.
ScriptFails == IF At("target").kind = "none" THEN Fail(404) ELSE Fail(500)
ScriptAnswers ==
  \E s \in ScriptStatuses, n \in ScriptSizes :
    Answer([resp EXCEPT !.status = s, !.length = {ToString(n)}, !.body = n,
                        !.from = "script"])
HandleCgiScript ==
  /\ pc = "handleCgiScript"
  /\ ScriptFails \/ (At("target").kind # "none" /\ ScriptAnswers)

Post ==
  /\ pc = "POST"
  /\ IF ~MethodAllowed THEN Fail(405)
     ELSE Answer([resp EXCEPT !.status = 201, !.from = "created"])

\* Variant: GET forgets that methods are restricted.
GetAny ==
  /\ pc = "GET"
  /\ code' = checkFilePerms("target")
  /\ pc' = "isDirectory" /\ UNCHANGED resp
Get ==
  /\ pc = "GET"
  /\ code' = checkFilePerms("target")
  /\ IF ~MethodAllowed THEN Fail(405) ELSE pc' = "isDirectory" /\ UNCHANGED resp

\* A directory: 301 to the path with its slash, the route's redirect, the default
\* file, the listing, or the status of the default file: 200 when there is none
\* configured and the directory itself was checked.
IndexCode == IF q.default THEN checkFilePerms("index") ELSE checkFilePerms("target")
Moved(status) ==
  [resp EXCEPT !.status = status, !.length = {}, !.body = 0, !.from = "moved"]
Listing ==
  [resp EXCEPT !.status = 200, !.length = {ListingSize}, !.body = ListingSize,
               !.from = "listing"]
GetDirectory ==
  /\ pc = "isDirectory" /\ isDirectory("target")
  /\ CASE ~q.slash -> Answer(Moved(301))
       [] q.slash /\ q.redirect # 0 -> Answer(Moved(q.redirect))
       [] q.slash /\ q.redirect = 0 /\ q.default /\ IndexCode = 200 ->
            resp' = [resp EXCEPT !.file = "index"] /\ pc' = "prepareHeaders"
       [] q.slash /\ q.redirect = 0 /\ ~(q.default /\ IndexCode = 200) /\ q.autoIndex -> Answer(Listing)
       [] OTHER -> Fail(IndexCode)

\* Anything else: the status of the request line stays when the second check fails.
GetFile ==
  /\ pc = "isDirectory" /\ ~isDirectory("target")
  /\ pc' = IF code = 200 THEN "prepareHeaders" ELSE "setErrorPage"
  /\ UNCHANGED resp

PrepareHeaders ==
  /\ pc = "prepareHeaders"
  /\ LET n == FileSize(resp.file) IN
       Answer([resp EXCEPT !.length = {ToString(n)}, !.status = IF n = -1 THEN 500 ELSE @,
                           !.from = "file"])

Delete ==
  /\ pc = "DELETE"
  /\ CASE ~MethodAllowed -> Fail(405)
       [] MethodAllowed /\ (isDirectory("target") \/ ~q.upload) -> Fail(403)
       [] OTHER -> pc' = "remove" /\ UNCHANGED resp

\* remove() takes a file or an empty directory, or fails.
Remove ==
  /\ pc = "remove"
  /\ \/ /\ At("target").kind # "none"
        /\ fs' = [fs EXCEPT !["target"] = Absent]
        /\ Answer([resp EXCEPT !.status = 204, !.from = "deleted"])
     \/ Fail(500) /\ UNCHANGED fs

\* setErrorPage: the configured page is measured for the length, then checked and
\* read up to the size of the buffer; without one the page is generated.
Generated(status) == Page(status, ToString(GeneratedSize), GeneratedSize)
SetErrorPage ==
  /\ pc = "setErrorPage"
  /\ IF resp.status \in PageCodes
     THEN LET n == FileSize("page")
          IN  /\ resp' = Page(IF n = -1 THEN 500 ELSE resp.status, ToString(n), resp.body)
              /\ pc' = "readErrorPage"
     ELSE Answer(Generated(resp.status))

Smaller(m, n) == IF m < n THEN m ELSE n
\* Variant: an unreadable page leaves the length that was measured.
ReadErrorPageStale ==
  /\ pc = "readErrorPage"
  /\ Answer([resp EXCEPT !.body = IF checkFilePerms("page") = 200 /\ ~isDirectory("page")
                                  THEN Smaller(FileSize("page"), PageBuffer) ELSE GeneratedSize])
ReadErrorPage ==
  /\ pc = "readErrorPage"
  /\ IF checkFilePerms("page") = 200
     THEN Answer([resp EXCEPT !.body = @ + IF isDirectory("page") THEN 0
                                           ELSE Smaller(FileSize("page"), PageBuffer)])
     ELSE Answer(Generated(resp.status))

(***************************************************************************)
(* sendResponse, and reset for the next request                            *)
(***************************************************************************)
\* An answer below 400 whose responseBody is empty, as a listing's is (its text is in
\* the headers), is followed by the file at the path; if that does not open, nothing
\* is sent at all.
FromFile ==
  resp.status < 400 /\ (resp.body = 0 \/ resp.from = "listing") /\ resp.status # 204
Kept == resp.status \notin {201, 301} /\ ~q.close
Send ==
  /\ pc = "send"
  /\ pc' = "sent"
  /\ LET f == At(resp.file)
         opens == f.kind # "none" /\ f.readable
     IN  out' = CASE ~FromFile -> [head |-> TRUE, bytes |-> resp.body, kept |-> Kept]
                  [] FromFile /\ opens ->
                       [head |-> TRUE, kept |-> Kept,
                        bytes |-> resp.body + IF f.kind = "file" THEN f.size ELSE 0]
                  [] OTHER -> [head |-> FALSE, bytes |-> 0, kept |-> Kept]
  /\ UNCHANGED <<fs, changes, q, stored, code, resp>>

Reset ==
  /\ pc = "sent"
  /\ pc' = "idle"
  /\ resp' = FreshResponse
  /\ out' = NothingSent
  /\ stored' = FALSE
  /\ code' = 200
  /\ changes' = 0
  /\ UNCHANGED <<fs, q>>

\* Someone else changes a path: another request, a script or a user of the machine.
Disturb ==
  /\ pc \notin {"idle", "sent"}
  /\ changes < MaxChanges
  /\ \E p \in Paths : \E n \in NodesAt[p] : n # fs[p] /\ fs' = [fs EXCEPT ![p] = n]
  /\ changes' = changes + 1
  /\ UNCHANGED <<pc, q, stored, code, resp, out>>

Init ==
  /\ fs \in {f \in [Paths -> UNION {NodesAt[p] : p \in Paths}] : \A p \in Paths : f[p] \in NodesAt[p]}
  /\ changes = 0
  /\ pc = "idle"
  /\ q \in Requests
  /\ stored = FALSE
  /\ code = 200
  /\ resp = FreshResponse
  /\ out = NothingSent

Handler ==
  /\ \/ Get /\ UNCHANGED fs
     \/ Remove /\ UNCHANGED code
     \/ /\ \/ GenerateResponse \/ HandleCgiScript \/ Post \/ GetDirectory \/ GetFile
           \/ PrepareHeaders \/ Delete \/ SetErrorPage \/ ReadErrorPage
        /\ UNCHANGED <<fs, code>>
  /\ UNCHANGED <<changes, q, stored, out>>

Next ==
  \/ \E r \in Requests : Request(r)
  \/ RouteURI \/ ParseBody \/ Handler \/ Send \/ Reset
  \/ Disturb

Spec == Init /\ [][Next]_vars

(***************************************************************************)
(* Properties                                                              *)
(***************************************************************************)
\* Every variable has its type.
TypeOK ==
  /\ \A p \in Paths : fs[p] \in NodesAt[p] \cup {Absent}
  /\ changes \in 0..MaxChanges
  /\ pc \in {"idle", "RouteURI", "parseBody", "generate", "handleCgiScript", "GET", "POST", "DELETE",
             "isDirectory", "prepareHeaders", "remove", "setErrorPage", "readErrorPage", "send", "sent"}
  /\ q \in Requests
  /\ stored \in BOOLEAN
  /\ code \in {200, 403, 404}
  /\ resp.status \in 200..599 /\ resp.length \subseteq -(IntMax + 1)..IntMax \cup {ListingSize}
  /\ resp.body \in Nat /\ resp.file \in {"target", "index"}
  /\ out.head \in BOOLEAN /\ out.bytes \in Nat /\ out.kept \in BOOLEAN

Undisturbed == pc = "sent" /\ changes = 0

\* The peer can tell where the answer ends: by its length, or because it is a 204.
Framed ==
  /\ out.head
  /\ IF resp.length = {} THEN resp.status = 204 ELSE resp.length = {out.bytes}

\* The ways the code has of keeping a connection after an answer that is not framed,
\* when nobody touches the files: a redirect without a length, an error page that is
\* longer than the buffer or is a directory, a default file that is a directory, a
\* script without output (its source follows), and an answer longer than an int.
RedirectWithoutLength == resp.from = "moved"
CutErrorPage ==
  /\ resp.from = "page" /\ resp.status \in PageCodes
  /\ checkFilePerms("page") = 200 /\ out.bytes < FileSize("page")
DirectoryAsDefault == resp.file = "index" /\ isDirectory("index")
SilentScript == resp.from = "script" /\ resp.body = 0
LongerThanInt == out.bytes > IntMax

\* Only these leave a kept connection whose next answer the peer cannot find:
\* Content-Length is computed at one place, the bytes are sent from another.
KeptMeansFramed ==
  Undisturbed /\ out.kept
    => \/ Framed \/ RedirectWithoutLength \/ CutErrorPage \/ DirectoryAsDefault
       \/ SilentScript \/ LongerThanInt

\* A request is left without any answer only if its file went away or changed after
\* it was checked.
SilenceNeedsChange == Undisturbed => out.head

\* Every variable has its type, and setErrorPage answers with an error status, unless
\* the target changed between the request line and GET, or GET names a directory
\* without default file and listing.
ErrorPageIsError ==
  /\ TypeOK
  /\ pc = "sent" /\ resp.from = "page" /\ resp.status < 400
    => changes > 0 \/ (isDirectory("target") /\ ~q.default /\ ~q.autoIndex)

\* 201 is answered only for a body that is in an upload file, or was a script's.
CreatedMeansStored ==
  pc = "sent" /\ resp.status = 201 /\ resp.from = "created" => stored \/ q.script
=============================================================================
