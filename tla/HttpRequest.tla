---------------------------- MODULE HttpRequest ----------------------------
(***************************************************************************)
(* HttpRequest::parse of src/src/http/HttpRequest.cpp: an incremental      *)
(* parser.  Each recv() appends what arrived to the buffer and calls       *)
(* parse(), which resumes where it stopped; when a line or a body is not   *)
(* complete it gives up until the next recv().  The cuts between segments  *)
(* are the network's: they may fall anywhere, between a CR and its LF too. *)
(*                                                                         *)
(* A byte is a member of Byte: a line's content counts as one byte, CR, LF *)
(* and the data of a body are bytes of their own.  One step of this module *)
(* is one line, one chunk or one body of the parser's loops; the network   *)
(* only moves while the parser waits (pc = "recv").                        *)
(*                                                                         *)
(* The client sends its next request when the one before is answered, on   *)
(* the same connection.                                                    *)
(***************************************************************************)
EXTENDS Integers, Sequences, FiniteSets, FiniteSetsExt

CONSTANTS
  Byte,          \* the alphabet of the stream; CR and LF are in it
  RequestLines,  \* request lines that parse: content |-> its LineInfo
  ContentLength, \* content-length header lines: content |-> the value atoull gives
  ChunkSize,     \* chunk-size lines that are hexadecimal: content |-> value
  MaxBodySize,   \* Config::max_body_size
  MaxRecv,       \* READ_BUFFER_SIZE: what one recv() returns at most
  UploadsFail,   \* whether opening or writing an upload file may fail
  Requests,      \* the requests a client sends: [bytes, payload, status]
  MaxRequests    \* bound: requests on the connection

Methods == {"GET", "POST", "DELETE"}

\* What a request line says: its method; the status checkFilePerms gives for its
\* path; whether a Location matches and the methods allowed there; whether
\* isCreatFile() holds of the path.
LineInfo == [method : Methods, path : Nat, routed : BOOLEAN,
             allowed : SUBSET Methods, script : BOOLEAN]

ASSUME HttpRequestAssumption ==
  /\ {"CR", "LF", "host", "chunked", "gzip", "bad"} \subseteq Byte
  /\ DOMAIN RequestLines \subseteq Byte
  /\ RequestLines \in [DOMAIN RequestLines -> LineInfo]
  /\ DOMAIN ContentLength \subseteq Byte
  /\ ContentLength \in [DOMAIN ContentLength -> Nat]
  /\ DOMAIN ChunkSize \subseteq Byte
  /\ ChunkSize \in [DOMAIN ChunkSize -> Nat]
  /\ MaxBodySize \in Nat /\ MaxRecv \in Nat \ {0} /\ MaxRequests \in Nat
  /\ UploadsFail \in BOOLEAN
  /\ \A r \in Requests :
       r.bytes \in Seq(Byte) /\ r.payload \in Seq(Byte) /\ r.status \in Nat

NoChunk == -1      \* _currentChunkSize between two chunks
NoLine == [method |-> "", path |-> 200, routed |-> FALSE, allowed |-> {}, script |-> FALSE]
NoRequest == [bytes |-> <<>>, payload |-> <<>>, status |-> 200]

VARIABLES
  wire,        \* what the client sent and recv() has not returned
  current,     \* the request the client sent last
  answered,    \* whether it was answered
  served,      \* how many were
  synced,      \* whether each was received whole before its answer
  pc,          \* "recv", "parse", "chunk" (parseChunkedBody's loop), "answer"
  request,     \* HttpRequest::request, the buffer
  _pos, state, statusCode, headers, isChunked, body,
  line,        \* method, uriPath and routeConf, taken from the request line
  _currentChunkSize, _currentChunkBytesRead, _totalBodysize,
  fileCreated,
  upload       \* the content of outfilename on disk, or nothing

network == <<wire, current, answered, served, synced>>
chunk == <<_currentChunkSize, _currentChunkBytesRead, _totalBodysize>>
parser == <<pc, request, _pos, state, statusCode, headers, isChunked, body,
            line, chunk, fileCreated, upload>>
vars == <<network, parser>>

_bufferLen == Len(request)

Init ==
  /\ wire = <<>> /\ current = NoRequest /\ answered = TRUE
  /\ served = 0 /\ synced = TRUE
  /\ pc = "recv" /\ request = <<>> /\ _pos = 0 /\ state = "REQUESTLINE"
  /\ statusCode = 200 /\ headers = {} /\ isChunked = FALSE /\ body = <<>>
  /\ line = NoLine
  /\ _currentChunkSize = NoChunk /\ _currentChunkBytesRead = 0 /\ _totalBodysize = 0
  /\ fileCreated = FALSE /\ upload = {}
----------------------------------------------------------------------------
(* readLine: the line at _pos ends with the first CR LF after it.          *)

LineEnds == {i \in (_pos + 1)..(_bufferLen - 1) : request[i] = "CR" /\ request[i + 1] = "LF"}
HasLine == LineEnds # {}
Line == SubSeq(request, _pos + 1, Min(LineEnds) - 1)
AfterLine == Min(LineEnds) + 1

\* HttpIncompleteRequest: parse returns and waits for more data.
Incomplete ==
  /\ pc' = "recv"
  /\ UNCHANGED <<network, request, _pos, state, statusCode, headers, isChunked,
                 body, line, chunk, fileCreated, upload>>

\* An error code is thrown; what the handler set before is kept.
Fail(code) ==
  /\ statusCode' = code /\ request' = <<>> /\ state' = "COMPLETE" /\ pc' = "answer"
  /\ UNCHANGED <<network, headers, isChunked>>
----------------------------------------------------------------------------
(* parseRequestLine.  An empty line before the request is skipped, but the *)
(* rest of the buffer waits for the next recv().                           *)

WaitForRequestLine == ~HasLine /\ Incomplete

SkipEmptyLine ==
  /\ HasLine /\ Line = <<>> /\ _pos' = AfterLine /\ pc' = "recv"
  /\ UNCHANGED <<network, request, state, statusCode, headers, isChunked, body,
                 line, chunk, fileCreated, upload>>

IsRequestLine == Len(Line) = 1 /\ Line[1] \in DOMAIN RequestLines

RejectRequestLine ==
  /\ HasLine /\ Line # <<>> /\ ~IsRequestLine
  /\ Fail(400) /\ _pos' = AfterLine
  /\ UNCHANGED <<body, line, chunk, fileCreated, upload>>

\* A line whose path no Location matches keeps the routeConf there was.
AcceptRequestLine ==
  /\ HasLine /\ IsRequestLine
  /\ LET info == RequestLines[Line[1]] IN
     /\ line' = IF info.routed THEN info ELSE [info EXCEPT !.allowed = line.allowed]
     /\ statusCode' = info.path
  /\ _pos' = AfterLine /\ state' = "HEADERS"
  /\ UNCHANGED <<network, pc, request, headers, isChunked, body, chunk, fileCreated, upload>>

ParseRequestLine ==
  /\ pc = "parse" /\ state = "REQUESTLINE"
  /\ \/ WaitForRequestLine
     \/ SkipEmptyLine
     \/ RejectRequestLine
     \/ AcceptRequestLine
----------------------------------------------------------------------------
(* parseHeaders: the lines read so far stay read when one is incomplete.   *)

\* Variant: an incomplete header block is read again from its first line that
\* was not complete, dropping what was collected.
WaitForHeaderForgets ==
  /\ ~HasLine /\ headers' = {} /\ pc' = "recv"
  /\ UNCHANGED <<network, request, _pos, state, statusCode, isChunked, body,
                 line, chunk, fileCreated, upload>>

WaitForHeader == ~HasLine /\ Incomplete

HeaderLine ==
  /\ HasLine /\ Line # <<>> /\ _pos' = AfterLine
  /\ IF Line = <<"bad">> THEN Fail(400)
     ELSE /\ headers' = headers \cup {Line}
          /\ UNCHANGED <<network, pc, request, state, statusCode, isChunked>>
  /\ UNCHANGED <<body, line, chunk, fileCreated, upload>>

Has(h) == <<h>> \in headers
HasLength == \E h \in DOMAIN ContentLength : Has(h)

HeadersFault ==
  IF Has("gzip") THEN 501
  ELSE IF \/ Has("chunked") /\ HasLength
          \/ line.method = "POST" /\ ~Has("chunked") /\ ~HasLength
          \/ ~Has("host")
       THEN 400
  ELSE 0

EndOfHeaders ==
  /\ HasLine /\ Line = <<>> /\ _pos' = AfterLine
  /\ isChunked' = (Has("chunked") /\ ~Has("gzip"))
  /\ IF HeadersFault # 0
     THEN /\ statusCode' = HeadersFault /\ request' = <<>>
          /\ state' = "COMPLETE" /\ pc' = "answer"
     ELSE state' = "BODY" /\ UNCHANGED <<pc, request, statusCode>>
  /\ UNCHANGED <<network, headers, body, line, chunk, fileCreated, upload>>

ParseHeaders ==
  /\ pc = "parse" /\ state = "HEADERS"
  /\ WaitForHeader \/ HeaderLine \/ EndOfHeaders
----------------------------------------------------------------------------
(* parseBody with a Content-Length.  The file is written in one go, but    *)
(* not for a script, which reads the body itself.                          *)

Length == ContentLength[CHOOSE h \in DOMAIN ContentLength : Has(h)]

\* Variant: one byte more is waited for.
BodyArrivedOffByOne == _bufferLen - _pos > Length

BodyArrived == _bufferLen - _pos >= Length

NoBody ==
  /\ ~HasLength /\ ~isChunked
  /\ state' = "COMPLETE" /\ pc' = "answer"
  /\ UNCHANGED <<network, request, _pos, statusCode, headers, isChunked, body,
                 line, chunk, fileCreated, upload>>

BodyFault ==
  IF line.method \notin line.allowed THEN 405
  ELSE IF ~isChunked /\ Length > MaxBodySize THEN 413
  ELSE 0

RejectBody ==
  /\ HasLength \/ isChunked
  /\ BodyFault # 0 /\ Fail(BodyFault)
  /\ UNCHANGED <<_pos, body, line, chunk, fileCreated, upload>>

StoreBody ==
  /\ HasLength /\ ~isChunked /\ BodyFault = 0 /\ BodyArrived
  /\ body' = body \o SubSeq(request, _pos + 1, _pos + Length)
  /\ \/ /\ upload' = IF line.script THEN {}
                     ELSE {SubSeq(request, _pos + 1, _pos + Length)}
        /\ _pos' = _pos + Length /\ state' = "COMPLETE" /\ pc' = "answer"
        /\ UNCHANGED <<network, request, statusCode, headers, isChunked>>
     \/ UploadsFail /\ ~line.script /\ Fail(500) /\ UNCHANGED <<_pos, upload>>
  /\ UNCHANGED <<line, chunk, fileCreated>>

WaitForBody ==
  /\ HasLength /\ ~isChunked /\ BodyFault = 0 /\ ~BodyArrived
  /\ Incomplete

\* Variant: parseChunkedBody opens the file anew instead of appending to it.
StartChunkedTruncates ==
  /\ isChunked /\ BodyFault = 0
  /\ fileCreated' = TRUE
  /\ \/ /\ pc' = "chunk" /\ upload' = {<<>>}
        /\ UNCHANGED <<network, request, _pos, state, statusCode, headers, isChunked>>
     \/ UploadsFail /\ Fail(500) /\ UNCHANGED <<_pos, upload>>
  /\ UNCHANGED <<body, line, chunk>>

\* parseChunkedBody opens its file, named on the first call, to append.
StartChunked ==
  /\ isChunked /\ BodyFault = 0
  /\ fileCreated' = TRUE
  /\ \/ /\ pc' = "chunk"
        /\ upload' = IF upload = {} THEN {<<>>} ELSE upload
        /\ UNCHANGED <<network, request, _pos, state, statusCode, headers, isChunked>>
     \/ UploadsFail /\ Fail(500) /\ UNCHANGED <<_pos, upload>>
  /\ UNCHANGED <<body, line, chunk>>

ParseBody ==
  /\ pc = "parse" /\ state = "BODY"
  /\ NoBody \/ RejectBody \/ StoreBody \/ WaitForBody \/ StartChunked
----------------------------------------------------------------------------
(* parseChunkedBody's loop: a size line, then data up to the chunk's end.  *)

Exhausted == _pos >= _bufferLen /\ Incomplete

WaitForSize ==
  /\ _pos < _bufferLen /\ _currentChunkSize = NoChunk /\ ~HasLine
  /\ Incomplete

AtSizeLine == _pos < _bufferLen /\ _currentChunkSize = NoChunk /\ HasLine
SizeOf(l) == IF Len(l) = 1 /\ l[1] \in DOMAIN ChunkSize THEN ChunkSize[l[1]] ELSE -1

BadSize ==
  /\ AtSizeLine /\ SizeOf(Line) < 0
  /\ _currentChunkSize' = -1 /\ _pos' = AfterLine /\ Fail(400)
  /\ UNCHANGED <<body, line, _currentChunkBytesRead, _totalBodysize, fileCreated, upload>>

\* The last chunk completes the request; a trailer line is read if it is there.
LastChunk ==
  /\ AtSizeLine /\ SizeOf(Line) = 0
  /\ _currentChunkSize' = 0 /\ state' = "COMPLETE" /\ pc' = "answer"
  /\ LET after == {i \in (AfterLine + 1)..(_bufferLen - 1) :
                     request[i] = "CR" /\ request[i + 1] = "LF"}
     IN _pos' = IF after = {} THEN AfterLine ELSE Min(after) + 1
  /\ UNCHANGED <<network, request, statusCode, headers, isChunked, body, line,
                 _currentChunkBytesRead, _totalBodysize, fileCreated, upload>>

\* Variants of NextChunk: the limit is applied to each chunk; the file is left.
NextChunkForgetsTotal ==
  /\ AtSizeLine /\ SizeOf(Line) > 0 /\ _pos' = AfterLine
  /\ _currentChunkSize' = SizeOf(Line) /\ _totalBodysize' = SizeOf(Line)
  /\ IF SizeOf(Line) > MaxBodySize
     THEN upload' = {} /\ Fail(413)
     ELSE UNCHANGED <<network, pc, request, state, statusCode, headers, isChunked, upload>>
  /\ UNCHANGED <<body, line, _currentChunkBytesRead, fileCreated>>
NextChunkKeepsFile ==
  /\ AtSizeLine /\ SizeOf(Line) > 0 /\ _pos' = AfterLine
  /\ _currentChunkSize' = SizeOf(Line) /\ _totalBodysize' = _totalBodysize + SizeOf(Line)
  /\ IF _totalBodysize' > MaxBodySize THEN Fail(413)
     ELSE UNCHANGED <<network, pc, request, state, statusCode, headers, isChunked>>
  /\ UNCHANGED <<body, line, _currentChunkBytesRead, fileCreated, upload>>

\* A body that grows beyond max_body_size is rejected, its file removed.
NextChunk ==
  /\ AtSizeLine /\ SizeOf(Line) > 0 /\ _pos' = AfterLine
  /\ _currentChunkSize' = SizeOf(Line) /\ _totalBodysize' = _totalBodysize + SizeOf(Line)
  /\ IF _totalBodysize' > MaxBodySize
     THEN upload' = {} /\ Fail(413)
     ELSE UNCHANGED <<network, pc, request, state, statusCode, headers, isChunked, upload>>
  /\ UNCHANGED <<body, line, _currentChunkBytesRead, fileCreated>>

\* The data of the chunk that is there; none, and the parser waits.
BytesToRead == Min({_currentChunkSize - _currentChunkBytesRead, _bufferLen - _pos})

WaitForData ==
  /\ _pos < _bufferLen /\ _currentChunkSize # NoChunk /\ BytesToRead = 0
  /\ Incomplete

ChunkIsRead(n) == _currentChunkBytesRead + n = _currentChunkSize

\* The end of the CR LF after the chunk, 0 when it has not arrived.
EndOfChunk(p) ==
  LET ends == {i \in (p + 1)..(_bufferLen - 1) : request[i] = "CR" /\ request[i + 1] = "LF"}
  IN IF ends = {} THEN 0 ELSE Min(ends) + 1

\* Data is appended to body and file.  At the chunk's end its CR LF must be there
\* already: readLine throws otherwise, with the chunk read but not closed.
ChunkData ==
  LET n == BytesToRead
      data == SubSeq(request, _pos + 1, _pos + n)
      after == EndOfChunk(_pos + n) IN
  /\ _pos < _bufferLen /\ _currentChunkSize # NoChunk /\ n > 0
  /\ body' = body \o data
  /\ \/ /\ upload' = {c \o data : c \in upload}
        /\ IF ChunkIsRead(n) /\ after # 0
           THEN _pos' = after /\ _currentChunkSize' = NoChunk /\ _currentChunkBytesRead' = 0
           ELSE /\ _pos' = _pos + n /\ _currentChunkBytesRead' = _currentChunkBytesRead + n
                /\ UNCHANGED _currentChunkSize
        /\ pc' = IF ChunkIsRead(n) /\ after = 0 THEN "recv" ELSE pc
        /\ UNCHANGED <<network, request, state, statusCode, headers, isChunked>>
     \/ /\ UploadsFail /\ upload' = {} /\ Fail(500)
        /\ UNCHANGED <<_pos, _currentChunkSize, _currentChunkBytesRead>>
  /\ UNCHANGED <<line, _totalBodysize, fileCreated>>

ParseChunkedBody ==
  /\ pc = "chunk"
  /\ \/ Exhausted \/ WaitForSize \/ BadSize \/ LastChunk \/ NextChunk
     \/ WaitForData \/ ChunkData
----------------------------------------------------------------------------
(* readRequest, the answer, and the client.                                *)

\* recv() returns the next segment and parse() is called.
Recv(n) ==
  /\ pc = "recv" /\ n <= Len(wire)
  /\ wire' = SubSeq(wire, n + 1, Len(wire))
  /\ request' = request \o SubSeq(wire, 1, n)
  /\ pc' = "parse"
  /\ UNCHANGED <<current, answered, served, synced, _pos, state, statusCode,
                 headers, isChunked, body, line, chunk, fileCreated, upload>>

\* What reset() assigns besides _pos and body.
ClearRequest ==
  /\ request' = <<>> /\ state' = "REQUESTLINE" /\ statusCode' = 200
  /\ headers' = {} /\ isChunked' = FALSE
  /\ line' = [NoLine EXCEPT !.allowed = line.allowed]
  /\ _currentChunkSize' = NoChunk /\ _currentChunkBytesRead' = 0 /\ _totalBodysize' = 0
  /\ fileCreated' = FALSE /\ upload' = {}

\* Variants of Reset: an assignment left out.
ResetKeepsPos == ClearRequest /\ body' = <<>> /\ UNCHANGED _pos
ResetKeepsBody == ClearRequest /\ _pos' = 0 /\ UNCHANGED body

\* reset() clears the request, but not routeConf.  (The file stays on disk; upload
\* is about the current request's.)
Reset == ClearRequest /\ _pos' = 0 /\ body' = <<>>

\* The response is sent and the connection kept.  Bytes of the request that have
\* not been received stay on the wire.
Answer ==
  /\ pc = "answer" /\ pc' = "recv"
  /\ answered' = TRUE /\ served' = served + 1
  /\ synced' = (synced /\ wire = <<>>)
  /\ Reset
  /\ UNCHANGED <<wire, current>>

ClientSends(r) ==
  /\ answered /\ served < MaxRequests
  /\ wire' = wire \o r.bytes /\ current' = r /\ answered' = FALSE
  /\ UNCHANGED <<served, synced, parser>>

Next ==
  \/ \E n \in 1..MaxRecv : Recv(n)
  \/ ParseRequestLine \/ ParseHeaders \/ ParseBody \/ ParseChunkedBody
  \/ Answer
  \/ \E r \in Requests : ClientSends(r)

Spec == Init /\ [][Next]_vars
----------------------------------------------------------------------------
(* Properties.                                                             *)

IsPrefixOf(s, t) == Len(s) <= Len(t) /\ s = SubSeq(t, 1, Len(s))

\* Every variable has its type.
TypeOK ==
  /\ wire \in Seq(Byte) /\ current \in Requests \cup {NoRequest}
  /\ answered \in BOOLEAN /\ served \in Nat /\ synced \in BOOLEAN
  /\ pc \in {"recv", "parse", "chunk", "answer"}
  /\ request \in Seq(Byte) /\ _pos \in Nat
  /\ state \in {"REQUESTLINE", "HEADERS", "BODY", "COMPLETE"}
  /\ statusCode \in Nat /\ headers \subseteq Seq(Byte) /\ isChunked \in BOOLEAN
  /\ body \in Seq(Byte) /\ line \in [method : Methods \cup {""}, path : Nat,
       routed : BOOLEAN, allowed : SUBSET Methods, script : BOOLEAN]
  /\ _currentChunkSize \in Nat \cup {-1} /\ _currentChunkBytesRead \in Nat
  /\ _totalBodysize \in Nat /\ fileCreated \in BOOLEAN
  /\ upload \subseteq Seq(Byte)

\* Every variable has its type, and the unsigned differences of the parser do not wrap, over any number of recv()s
\* and requests: _bufferLen - _pos wherever parse() resumes, and
\* _currentChunkSize - _currentChunkBytesRead within a chunk.
CursorInBuffer ==
  /\ TypeOK
  /\ pc # "answer" => _pos <= _bufferLen
  /\ _currentChunkSize > 0 => _currentChunkBytesRead <= _currentChunkSize

\* However the network cuts the stream, what is stored of a request's body is
\* always a beginning of what the client sent, and all of it once the request is
\* accepted.
BodyIsPayload ==
  synced /\ ~answered =>
    /\ IsPrefixOf(body, current.payload)
    /\ pc = "answer" /\ statusCode < 400 => body = current.payload

\* However the network cuts the stream, the status is the one of the request read
\* in one piece on a fresh connection (or 500 when the upload cannot be written).
AnswerIsExpected ==
  synced /\ pc = "answer" =>
    statusCode = current.status \/ (UploadsFail /\ statusCode = 500)

\* The body in memory never exceeds max_body_size, whatever bytes arrive.
BodyWithinLimit == Len(body) <= MaxBodySize

\* The file on disk has the bytes of the body, after any number of reopenings.
UploadMatchesBody == \A content \in upload : content = body

\* A request that is answered with an error leaves no upload, however far it had come
\* and over however many recv()s, but in three cases: its path alone is wrong (the body
\* is stored all the same), a chunk size is bad, or the file does not open again.
ErrorLeavesNoUpload ==
  pc = "answer" /\ statusCode >= 400 /\ upload # {} =>
    \/ statusCode = line.path
    \/ statusCode \in {400, 500} /\ isChunked /\ fileCreated

\* The parser waits only for bytes that will come: HttpIncompleteRequest's "Need
\* more data to complete request" is true of every request that waits.
NeedsMoreData == pc = "recv" /\ synced /\ ~answered => wire # <<>>

\* The same, of a parser that is between two requests: it does not wait with a
\* complete line before it.
NoRequestLineWaits ==
  pc = "recv" /\ state = "REQUESTLINE" /\ ~answered /\ wire = <<>> => ~HasLine

\* The only request that waits although it was received whole is one with a chunk
\* whose data was there at the end of a recv() and whose CR LF was not.
NeedsMoreDataOrChunkEnd ==
  pc = "recv" /\ synced /\ ~answered /\ wire = <<>> =>
    _currentChunkSize > 0 /\ _currentChunkBytesRead = _currentChunkSize
============================================================================
