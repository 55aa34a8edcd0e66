------------------------- MODULE HttpRequestProofs -------------------------
(***************************************************************************)
(* Proofs about HttpRequest, for any alphabet, requests, limit and cuts.   *)
(* First the parser by itself (RequestInv: its cursor, its counters, its   *)
(* file, its limit), whatever the bytes.  Then the parser and the stream   *)
(* (StreamInv): the requests are those of RequestGrammar, and what is left *)
(* of the stream is always what is left to read of the request.            *)
(***************************************************************************)
EXTENDS RequestGrammar, SequenceTheorems, WellFoundedInduction, TLAPS

----------------------------------------------------------------------------
(* The invariant.                                                          *)

\* What is known of the request at each state of the parser.
Phases ==
  /\ pc # "answer" => state # "COMPLETE"
  /\ pc = "chunk" => state = "BODY" /\ isChunked /\ fileCreated
  /\ pc # "answer" /\ state # "BODY" => ~isChunked
  /\ pc # "answer" /\ state \in {"HEADERS", "BODY"} => statusCode = line.path

\* What the chunk that is being read still owes.
Owed == IF _currentChunkSize > 0 THEN _currentChunkSize - _currentChunkBytesRead ELSE 0

\* The chunk's counter; the body is what the chunks announced but for what the
\* last one owes.
Counters ==
  /\ IF _currentChunkSize > 0 THEN _currentChunkBytesRead <= _currentChunkSize
     ELSE _currentChunkBytesRead = 0
  /\ pc # "answer" => _totalBodysize <= MaxBodySize /\ Len(body) = _totalBodysize - Owed

\* Before parseChunkedBody has run there is neither file nor body; since, the
\* file has the body's bytes, and the route allows the method.
Stored ==
  pc # "answer" =>
    IF fileCreated
    THEN /\ isChunked /\ state = "BODY" /\ line.method \in line.allowed
         /\ upload = {body}
    ELSE upload = {} /\ body = <<>> /\ _totalBodysize = 0 /\ _currentChunkSize = NoChunk

RequestInv ==
  /\ CursorInBuffer /\ Phases /\ Counters /\ Stored
  /\ BodyWithinLimit /\ UploadMatchesBody /\ ErrorLeavesNoUpload

----------------------------------------------------------------------------
(* The operators of the parser.                                            *)

\* Min is what it says: the least of a set of naturals, when there is one.
LEMMA MinIsLeast ==
  ASSUME NEW M \in SUBSET Nat, M # {}
  PROVE  Min(M) \in M /\ \A y \in M : Min(M) <= y
<1>1. PICK x \in M : \A y \in M : ~(<<y, x>> \in OpToRel(<, Nat))
  BY NatLessThanWellFounded, WFMin
<1>2. ASSUME NEW y \in M PROVE x =< y
  <2>1. x \in Nat /\ y \in Nat
    OBVIOUS
  <2>2. y < x => <<y, x>> \in OpToRel(<, Nat)
    BY <2>1 DEF OpToRel
  <2>3. ~(y < x)
    BY <1>1, <2>2
  <2> QED
    BY <2>1, <2>3
<1> QED
  BY <1>2 DEF Min

\* A piece of a sequence of bytes.
LEMMA Slice ==
  ASSUME NEW s \in Seq(Byte), NEW a \in Nat, NEW n \in Nat, a + n <= Len(s)
  PROVE  SubSeq(s, a + 1, a + n) \in Seq(Byte) /\ Len(SubSeq(s, a + 1, a + n)) = n
<1>1. Len(s) \in Nat /\ \A i \in 1..Len(s) : s[i] \in Byte
  BY LenProperties, ElementOfSeq
<1>2. a + 1 \in Int /\ a + n \in Int /\ \A i \in (a + 1)..(a + n) : s[i] \in Byte
  BY <1>1
<1>3. /\ SubSeq(s, a + 1, a + n) \in Seq(Byte)
      /\ Len(SubSeq(s, a + 1, a + n)) = IF a + 1 <= a + n THEN (a + n) - (a + 1) + 1 ELSE 0
  BY <1>2, SubSeqProperties
<1> QED
  BY <1>3

\* The least CR LF after a place of the buffer ends within the buffer.
LEMMA LineEndInBuffer ==
  ASSUME NEW s \in Seq(Byte), NEW p \in Nat,
         NEW ends \in SUBSET ((p + 1)..(Len(s) - 1)), ends # {}
  PROVE  /\ Min(ends) \in Nat /\ p + 1 <= Min(ends) /\ Min(ends) + 1 <= Len(s)
<1>1. Len(s) \in Nat
  BY LenProperties
<1>2. ends \in SUBSET Nat
  BY <1>1
<1>3. Min(ends) \in (p + 1)..(Len(s) - 1)
  BY <1>2, MinIsLeast
<1> DEFINE end == Min(ends)
<1>4. end \in (p + 1)..(Len(s) - 1)
  BY <1>3
<1> HIDE DEF end
<1>5. end \in Nat /\ p + 1 <= end /\ end + 1 <= Len(s)
  BY <1>1, <1>4
<1> QED
  BY <1>5 DEF end

LEMMA LineInBuffer ==
  ASSUME request \in Seq(Byte), _pos \in Nat, HasLine
  PROVE  /\ AfterLine \in Nat /\ AfterLine <= _bufferLen
         /\ Line \in Seq(Byte)
<1> DEFINE end == Min(LineEnds)
<1>1. LineEnds \in SUBSET ((_pos + 1)..(Len(request) - 1)) /\ LineEnds # {}
  BY DEF LineEnds, HasLine, _bufferLen
<1>2. end \in Nat /\ _pos + 1 <= end /\ end + 1 <= Len(request)
  BY <1>1, LineEndInBuffer
<1>3. Len(request) \in Nat
  BY LenProperties
<1> HIDE DEF end
<1>4. (end - 1) - _pos \in Nat /\ _pos + ((end - 1) - _pos) = end - 1
  BY <1>2, <1>3
<1>5. _pos + ((end - 1) - _pos) <= Len(request)
  BY <1>2, <1>3, <1>4
<1>6. SubSeq(request, _pos + 1, _pos + ((end - 1) - _pos)) \in Seq(Byte)
  BY <1>4, <1>5, Slice
<1> QED
  BY <1>2, <1>4, <1>6 DEF end, AfterLine, Line, _bufferLen

\* What a chunk's data step reads: no more than is owed, nor than is there.
LEMMA BytesToReadBounds ==
  ASSUME _currentChunkSize \in Nat, _currentChunkBytesRead \in Nat,
         _currentChunkBytesRead <= _currentChunkSize,
         request \in Seq(Byte), _pos \in Nat, _pos <= _bufferLen
  PROVE  /\ BytesToRead \in Nat /\ _pos + BytesToRead <= _bufferLen
         /\ _currentChunkBytesRead + BytesToRead <= _currentChunkSize
<1> DEFINE owed == _currentChunkSize - _currentChunkBytesRead
           there == _bufferLen - _pos
<1>1. _bufferLen \in Nat
  BY LenProperties DEF _bufferLen
<1>2. owed \in Nat /\ there \in Nat
  BY <1>1
<1>3. BytesToRead = Min({owed, there})
  BY DEF BytesToRead
<1> HIDE DEF owed, there
<1>4. Min({owed, there}) \in {owed, there} /\ \A y \in {owed, there} : Min({owed, there}) <= y
  BY <1>2, MinIsLeast
<1>5. BytesToRead \in Nat /\ BytesToRead <= owed /\ BytesToRead <= there
  BY <1>2, <1>3, <1>4
<1> QED
  BY <1>1, <1>5 DEF owed, there

LEMMA EndOfChunkInBuffer ==
  ASSUME request \in Seq(Byte), NEW p \in Nat
  PROVE  EndOfChunk(p) \in Nat /\ EndOfChunk(p) <= _bufferLen
<1> DEFINE ends == {i \in (p + 1)..(_bufferLen - 1) : request[i] = "CR" /\ request[i + 1] = "LF"}
<1>1. _bufferLen \in Nat
  BY LenProperties DEF _bufferLen
<1>2. ends \in SUBSET ((p + 1)..(Len(request) - 1))
  BY DEF _bufferLen
<1>3. EndOfChunk(p) = IF ends = {} THEN 0 ELSE Min(ends) + 1
  BY DEF EndOfChunk
<1> HIDE DEF ends
<1>4. CASE ends = {}
  BY <1>1, <1>3, <1>4
<1>5. CASE ends # {}
  <2>1. Min(ends) \in Nat /\ Min(ends) + 1 <= Len(request)
    BY <1>2, <1>5, LineEndInBuffer
  <2> QED
    BY <1>3, <1>5, <2>1 DEF _bufferLen
<1> QED
  BY <1>4, <1>5

\* A length that is there is a number, and a size line has one or is refused.
LEMMA LengthTyped == ASSUME HasLength PROVE Length \in Nat
BY HttpRequestAssumption DEF HttpRequestAssumption, HasLength, Length

LEMMA SizeTyped == ASSUME NEW l PROVE SizeOf(l) \in Nat \cup {-1}
BY HttpRequestAssumption DEF HttpRequestAssumption, SizeOf

\* How what is read joins the body and the file.
LEMMA Joined ==
  ASSUME NEW s \in Seq(Byte), NEW t \in Seq(Byte)
  PROVE  s \o t \in Seq(Byte) /\ Len(s \o t) = Len(s) + Len(t) /\ Len(s) \in Nat /\ Len(t) \in Nat
BY ConcatProperties, LenProperties

----------------------------------------------------------------------------
(* Steps that end the reading, with or without an answer.                  *)

LEMMA IncompleteStep ==
  ASSUME RequestInv, pc # "answer", Incomplete
  PROVE  RequestInv'
<1> USE DEF RequestInv, Incomplete, network, chunk
<1>1. CursorInBuffer'
  <2>1. TypeOK
    BY DEF CursorInBuffer
  <2>2. TypeOK'
    BY <2>1 DEF TypeOK
  <2> QED
    BY <2>2 DEF CursorInBuffer, _bufferLen
<1>2. Phases'
  BY DEF Phases
<1>3. Counters'
  BY DEF Counters, Owed
<1>4. Stored'
  BY DEF Stored
<1>5. BodyWithinLimit' /\ UploadMatchesBody' /\ ErrorLeavesNoUpload'
  BY DEF BodyWithinLimit, UploadMatchesBody, ErrorLeavesNoUpload
<1> QED
  BY <1>1, <1>2, <1>3, <1>4, <1>5

\* A step that fails has only to keep the counters of the chunk, the limit and the
\* file's bytes, and to leave a file only in the cases that do.
LEMMA FailStep ==
  ASSUME RequestInv, NEW code \in Nat, Fail(code), code >= 400,
         _pos' \in Nat, body' \in Seq(Byte), Len(body') <= MaxBodySize, line' = line,
         _currentChunkSize' \in Nat \cup {-1}, _currentChunkBytesRead' \in Nat,
         IF _currentChunkSize' > 0 THEN _currentChunkBytesRead' <= _currentChunkSize'
         ELSE _currentChunkBytesRead' = 0,
         _totalBodysize' \in Nat, fileCreated' \in BOOLEAN,
         upload' \subseteq Seq(Byte), \A content \in upload' : content = body',
         upload' # {} => code \in {400, 500} /\ isChunked /\ fileCreated'
  PROVE  RequestInv'
<1> USE DEF RequestInv, Fail, network
<1>1. <<>> \in Seq(Byte)
  BY EmptySeq
<1>2. CursorInBuffer'
  <2>1. TypeOK
    BY DEF CursorInBuffer
  <2>2. TypeOK'
    BY <1>1, <2>1 DEF TypeOK
  <2>3. pc' = "answer" /\ (_currentChunkSize' > 0 => _currentChunkBytesRead' <= _currentChunkSize')
    OBVIOUS
  <2> QED
    BY <2>2, <2>3 DEF CursorInBuffer
<1>3. Phases' /\ Counters' /\ Stored'
  BY DEF Phases, Counters, Stored
<1>4. BodyWithinLimit' /\ UploadMatchesBody'
  BY DEF BodyWithinLimit, UploadMatchesBody
<1>5. ErrorLeavesNoUpload'
  BY DEF ErrorLeavesNoUpload
<1> QED
  BY <1>2, <1>3, <1>4, <1>5

\* The usual failure: nothing but the cursor moves besides.
LEMMA RejectStep ==
  ASSUME RequestInv, NEW code \in Nat, Fail(code), code >= 400, _pos' \in Nat,
         UNCHANGED <<body, line, chunk, fileCreated, upload>>,
         upload # {} => code \in {400, 500} /\ isChunked /\ fileCreated
  PROVE  RequestInv'
<1>1. /\ body' = body /\ line' = line /\ fileCreated' = fileCreated /\ upload' = upload
      /\ _currentChunkSize' = _currentChunkSize /\ _totalBodysize' = _totalBodysize
      /\ _currentChunkBytesRead' = _currentChunkBytesRead
  BY DEF chunk
<1>2. /\ body \in Seq(Byte) /\ Len(body) <= MaxBodySize
      /\ _currentChunkSize \in Nat \cup {-1} /\ _currentChunkBytesRead \in Nat
      /\ _totalBodysize \in Nat /\ fileCreated \in BOOLEAN /\ upload \subseteq Seq(Byte)
  BY DEF RequestInv, CursorInBuffer, TypeOK, BodyWithinLimit
<1>3. IF _currentChunkSize > 0 THEN _currentChunkBytesRead <= _currentChunkSize
      ELSE _currentChunkBytesRead = 0
  BY DEF RequestInv, Counters
<1>4. \A content \in upload : content = body
  BY DEF RequestInv, UploadMatchesBody
<1> QED
  BY <1>1, <1>2, <1>3, <1>4, FailStep

----------------------------------------------------------------------------
(* The request line and the headers.                                       *)

LEMMA ParseRequestLineStep ==
  ASSUME RequestInv, ParseRequestLine
  PROVE  RequestInv'
<1> USE DEF ParseRequestLine
<1>1. /\ pc = "parse" /\ state = "REQUESTLINE" /\ request \in Seq(Byte) /\ _pos \in Nat
      /\ upload = {} /\ body = <<>> /\ _totalBodysize = 0 /\ _currentChunkSize = NoChunk
      /\ ~fileCreated /\ ~isChunked /\ fileCreated = FALSE
  BY DEF RequestInv, CursorInBuffer, TypeOK, Stored, Phases
<1>2. CASE WaitForRequestLine
  BY <1>1, <1>2, IncompleteStep DEF WaitForRequestLine
<1>3. CASE SkipEmptyLine
  <2> USE <1>1, <1>3 DEF SkipEmptyLine, RequestInv, network, chunk
  <2>1. AfterLine \in Nat /\ AfterLine <= _bufferLen
    BY LineInBuffer
  <2>2. CursorInBuffer'
    BY <2>1 DEF CursorInBuffer, TypeOK, _bufferLen
  <2>3. Phases' /\ Stored'
    BY DEF Phases, Stored
  <2>4. Counters'
    BY DEF Counters, Owed
  <2>5. BodyWithinLimit' /\ UploadMatchesBody' /\ ErrorLeavesNoUpload'
    BY DEF BodyWithinLimit, UploadMatchesBody, ErrorLeavesNoUpload
  <2> QED
    BY <2>2, <2>3, <2>4, <2>5
<1>4. CASE RejectRequestLine
  <2>1. AfterLine \in Nat
    BY <1>1, <1>4, LineInBuffer DEF RejectRequestLine
  <2> QED
    BY <1>1, <1>4, <2>1, RejectStep DEF RejectRequestLine
<1>5. CASE AcceptRequestLine
  <2> DEFINE info == RequestLines[Line[1]]
  <2>1. info \in LineInfo
    BY <1>5, HttpRequestAssumption DEF AcceptRequestLine, IsRequestLine, HttpRequestAssumption
  <2>2. /\ line' = IF info.routed THEN info ELSE [info EXCEPT !.allowed = line.allowed]
        /\ statusCode' = info.path
    BY <1>5 DEF AcceptRequestLine
  <2>3. /\ HasLine /\ _pos' = AfterLine /\ state' = "HEADERS"
        /\ UNCHANGED <<network, pc, request, headers, isChunked, body, chunk, fileCreated, upload>>
    BY <1>5 DEF AcceptRequestLine
  <2>4. AfterLine \in Nat /\ AfterLine <= _bufferLen
    BY <1>1, <2>3, LineInBuffer
  <2>5. line \in [method : Methods \cup {""}, path : Nat, routed : BOOLEAN,
                  allowed : SUBSET Methods, script : BOOLEAN]
    BY DEF RequestInv, CursorInBuffer, TypeOK
  <2> HIDE DEF info
  <2>6. /\ line' \in [method : Methods \cup {""}, path : Nat, routed : BOOLEAN,
                      allowed : SUBSET Methods, script : BOOLEAN]
        /\ line'.path = info.path /\ statusCode' \in Nat
    BY <2>1, <2>2, <2>5 DEF LineInfo
  <2> USE <1>1, <2>3, <2>6 DEF RequestInv, network, chunk
  <2>7. CursorInBuffer'
    BY <2>4 DEF CursorInBuffer, TypeOK, _bufferLen
  <2>8. Phases'
    BY <2>2 DEF Phases
  <2>9. Stored' /\ UploadMatchesBody' /\ ErrorLeavesNoUpload'
    BY DEF Stored, UploadMatchesBody, ErrorLeavesNoUpload
  <2>10. Counters' /\ BodyWithinLimit'
    BY DEF Counters, Owed, BodyWithinLimit
  <2> QED
    BY <2>7, <2>8, <2>9, <2>10
<1> QED
  BY <1>2, <1>3, <1>4, <1>5

LEMMA ParseHeadersStep ==
  ASSUME RequestInv, ParseHeaders
  PROVE  RequestInv'
<1>1. /\ pc = "parse" /\ state = "HEADERS" /\ request \in Seq(Byte) /\ _pos \in Nat
      /\ upload = {} /\ body = <<>> /\ _totalBodysize = 0 /\ _currentChunkSize = NoChunk
      /\ fileCreated = FALSE /\ isChunked = FALSE /\ statusCode = line.path
  BY DEF ParseHeaders, RequestInv, CursorInBuffer, TypeOK, Stored, Phases
<1>2. CASE WaitForHeader
  BY <1>1, <1>2, IncompleteStep DEF WaitForHeader
<1>3. CASE HeaderLine
  <2>1. /\ HasLine /\ _pos' = AfterLine
        /\ UNCHANGED <<body, line, chunk, fileCreated, upload>>
    BY <1>3 DEF HeaderLine
  <2>2. AfterLine \in Nat /\ AfterLine <= _bufferLen /\ Line \in Seq(Byte)
    BY <1>1, <2>1, LineInBuffer
  <2>3. CASE Line = <<"bad">>
    <3>1. Fail(400)
      BY <1>3, <2>3 DEF HeaderLine
    <3> QED
      BY <1>1, <2>1, <2>2, <3>1, RejectStep
  <2>4. CASE Line # <<"bad">>
    <3>1. /\ headers' = headers \cup {Line}
          /\ UNCHANGED <<network, pc, request, state, statusCode, isChunked>>
      BY <1>3, <2>4 DEF HeaderLine
    <3> USE <1>1, <2>1, <3>1 DEF RequestInv, network, chunk
    <3>2. CursorInBuffer'
      BY <2>2 DEF CursorInBuffer, TypeOK, _bufferLen
    <3>3. Phases' /\ Stored' /\ UploadMatchesBody' /\ ErrorLeavesNoUpload'
      BY DEF Phases, Stored, UploadMatchesBody, ErrorLeavesNoUpload
    <3>4. Counters' /\ BodyWithinLimit'
      BY DEF Counters, Owed, BodyWithinLimit
    <3> QED
      BY <3>2, <3>3, <3>4
  <2> QED
    BY <2>3, <2>4
<1>4. CASE EndOfHeaders
  <2>1. /\ HasLine /\ _pos' = AfterLine
        /\ isChunked' = (Has("chunked") /\ ~Has("gzip"))
        /\ UNCHANGED <<network, headers, body, line, chunk, fileCreated, upload>>
    BY <1>4 DEF EndOfHeaders
  <2>2. AfterLine \in Nat /\ AfterLine <= _bufferLen
    BY <1>1, <2>1, LineInBuffer
  <2>3. /\ HeadersFault # 0 => /\ statusCode' = HeadersFault /\ request' = <<>>
                               /\ state' = "COMPLETE" /\ pc' = "answer"
        /\ HeadersFault = 0 => state' = "BODY" /\ UNCHANGED <<pc, request, statusCode>>
    BY <1>4 DEF EndOfHeaders
  <2>4. HeadersFault \in Nat /\ isChunked' \in BOOLEAN
    BY <2>1 DEF HeadersFault
  <2> USE <1>1, <2>1, <2>3 DEF RequestInv, network, chunk
  <2>5. CursorInBuffer'
    BY <2>2, <2>4, EmptySeq DEF CursorInBuffer, TypeOK, _bufferLen
  <2>6. Phases'
    BY DEF Phases
  <2>7. Stored' /\ UploadMatchesBody' /\ ErrorLeavesNoUpload'
    BY DEF Stored, UploadMatchesBody, ErrorLeavesNoUpload
  <2>8. Counters' /\ BodyWithinLimit'
    BY DEF Counters, Owed, BodyWithinLimit
  <2> QED
    BY <2>5, <2>6, <2>7, <2>8
<1> QED
  BY <1>2, <1>3, <1>4 DEF ParseHeaders

----------------------------------------------------------------------------
(* A body with a length, and the opening of a chunked one's file.          *)

LEMMA NoBodyStep ==
  ASSUME RequestInv, ParseBody, NoBody
  PROVE  RequestInv'
<1>1. pc = "parse" /\ state = "BODY" /\ upload = {} /\ statusCode = line.path
  BY DEF ParseBody, NoBody, RequestInv, Stored, Phases
<1> USE <1>1 DEF NoBody, RequestInv, network, chunk
<1>2. CursorInBuffer'
  <2>1. TypeOK
    BY DEF CursorInBuffer
  <2>2. TypeOK'
    BY <2>1 DEF TypeOK
  <2> QED
    BY <2>2 DEF CursorInBuffer
<1>3. Phases' /\ Stored' /\ UploadMatchesBody' /\ ErrorLeavesNoUpload'
  BY DEF Phases, Stored, UploadMatchesBody, ErrorLeavesNoUpload
<1>4. Counters' /\ BodyWithinLimit'
  BY DEF Counters, Owed, BodyWithinLimit
<1> QED
  BY <1>2, <1>3, <1>4

\* A method the route does not allow is refused before anything is stored.
LEMMA RejectBodyStep ==
  ASSUME RequestInv, ParseBody, RejectBody
  PROVE  RequestInv'
<1>1. pc = "parse" /\ state = "BODY" /\ BodyFault # 0 /\ Fail(BodyFault) /\ _pos' = _pos
      /\ UNCHANGED <<body, line, chunk, fileCreated, upload>> /\ _pos \in Nat
  BY DEF ParseBody, RejectBody, RequestInv, CursorInBuffer, TypeOK
<1>2. BodyFault \in {405, 413}
  BY <1>1 DEF BodyFault
<1>3. ASSUME fileCreated PROVE FALSE
  <2>1. isChunked /\ line.method \in line.allowed
    BY <1>1, <1>3 DEF RequestInv, Stored
  <2> QED
    BY <1>1, <2>1 DEF BodyFault
<1>4. upload = {}
  BY <1>1, <1>3 DEF RequestInv, Stored
<1> QED
  BY <1>1, <1>2, <1>4, RejectStep

LEMMA StoreBodyStep ==
  ASSUME RequestInv, ParseBody, StoreBody
  PROVE  RequestInv'
<1> DEFINE data == SubSeq(request, _pos + 1, _pos + Length)
<1>1. /\ pc = "parse" /\ state = "BODY" /\ HasLength /\ ~isChunked /\ BodyFault = 0
      /\ BodyArrived /\ body' = body \o data /\ UNCHANGED <<line, chunk, fileCreated>>
      /\ \/ /\ upload' = IF line.script THEN {} ELSE {data}
            /\ _pos' = _pos + Length /\ state' = "COMPLETE" /\ pc' = "answer"
            /\ UNCHANGED <<network, request, statusCode, headers, isChunked>>
         \/ Fail(500) /\ UNCHANGED <<_pos, upload>>
  BY DEF ParseBody, StoreBody
<1>2. /\ upload = {} /\ body = <<>> /\ fileCreated = FALSE /\ statusCode = line.path
      /\ request \in Seq(Byte) /\ _pos \in Nat /\ _pos <= _bufferLen
      /\ _currentChunkSize = NoChunk /\ _currentChunkBytesRead = 0 /\ _totalBodysize = 0
  <2>1. Stored /\ Phases /\ Counters /\ CursorInBuffer /\ TypeOK
    BY DEF RequestInv, CursorInBuffer
  <2>2. ~fileCreated /\ statusCode = line.path
    BY <1>1, <2>1 DEF Stored, Phases
  <2>3. upload = {} /\ body = <<>> /\ _totalBodysize = 0 /\ _currentChunkSize = NoChunk
    BY <1>1, <2>1, <2>2 DEF Stored
  <2>4. _currentChunkBytesRead = 0
    BY <2>1, <2>3 DEF Counters, NoChunk
  <2>5. request \in Seq(Byte) /\ _pos \in Nat /\ _pos <= _bufferLen /\ fileCreated \in BOOLEAN
    BY <1>1, <2>1 DEF CursorInBuffer, TypeOK
  <2> QED
    BY <2>2, <2>3, <2>4, <2>5
<1>3. Length \in Nat /\ Length <= MaxBodySize
  <2>1. Length \in Nat
    BY <1>1, LengthTyped
  <2>2. ~(Length > MaxBodySize)
    BY <1>1 DEF BodyFault
  <2> QED
    BY <2>1, <2>2, HttpRequestAssumption DEF HttpRequestAssumption
<1>4. data \in Seq(Byte) /\ Len(data) = Length
  <2>1. Len(request) \in Nat
    BY <1>2, LenProperties
  <2>2. _pos + Length <= Len(request)
    BY <1>1, <1>2, <1>3, <2>1 DEF BodyArrived, _bufferLen
  <2> QED
    BY <1>2, <1>3, <2>2, Slice
<1> HIDE DEF data
<1>5. body' = data
  BY <1>1, <1>2, <1>4, ConcatEmptySeq
<1>6. CASE Fail(500) /\ UNCHANGED <<_pos, upload>>
  <2>1. /\ line' = line /\ fileCreated' = FALSE /\ upload' = {} /\ _pos' = _pos
        /\ _currentChunkSize' = -1 /\ _totalBodysize' = 0 /\ _currentChunkBytesRead' = 0
    BY <1>1, <1>2, <1>6 DEF chunk, NoChunk
  <2>2. body' \in Seq(Byte) /\ Len(body') <= MaxBodySize
    BY <1>3, <1>4, <1>5
  <2>3. /\ upload' \subseteq Seq(Byte) /\ \A content \in upload' : content = body'
        /\ (upload' # {} => 500 \in {400, 500} /\ isChunked /\ fileCreated')
    BY <2>1
  <2>4. 500 \in Nat /\ Fail(500) /\ 500 >= 400 /\ _pos' \in Nat
    BY <1>2, <1>6
  <2>5. /\ _currentChunkSize' \in Nat \cup {-1} /\ _currentChunkBytesRead' \in Nat
        /\ _totalBodysize' \in Nat /\ fileCreated' \in BOOLEAN /\ line' = line
        /\ (IF _currentChunkSize' > 0 THEN _currentChunkBytesRead' <= _currentChunkSize'
            ELSE _currentChunkBytesRead' = 0)
    <3>1. /\ _currentChunkSize' \in Nat \cup {-1} /\ ~(_currentChunkSize' > 0)
      BY <2>1
    <3> QED
      BY <2>1, <3>1
  <2> QED
    BY <2>2, <2>3, <2>4, <2>5, FailStep
<1>7. CASE ~(Fail(500) /\ UNCHANGED <<_pos, upload>>)
  <2>1. /\ upload' = IF line.script THEN {} ELSE {data}
        /\ _pos' = _pos + Length /\ state' = "COMPLETE" /\ pc' = "answer"
        /\ UNCHANGED <<network, request, statusCode, headers, isChunked>>
    BY <1>1, <1>7
  <2>2. UNCHANGED <<line, chunk, fileCreated>>
    BY <1>1
  <2> USE <1>2, <1>3, <1>4, <1>5, <2>1, <2>2 DEF network, chunk
  <2>3. CursorInBuffer'
    <3>1. TypeOK
      BY DEF RequestInv, CursorInBuffer
    <3>2. body' \in Seq(Byte) /\ upload' \subseteq Seq(Byte) /\ _pos' \in Nat
      OBVIOUS
    <3>3. TypeOK'
      BY <3>1, <3>2 DEF TypeOK
    <3> QED
      BY <3>3 DEF CursorInBuffer, NoChunk
  <2>4. Phases' /\ Stored' /\ UploadMatchesBody' /\ ErrorLeavesNoUpload'
    BY DEF Phases, Stored, UploadMatchesBody, ErrorLeavesNoUpload
  <2>5. Counters' /\ BodyWithinLimit'
    BY DEF Counters, BodyWithinLimit, NoChunk
  <2> QED
    BY <2>3, <2>4, <2>5 DEF RequestInv
<1> QED
  BY <1>6, <1>7

LEMMA StartChunkedStep ==
  ASSUME RequestInv, ParseBody, StartChunked
  PROVE  RequestInv'
<1> line.method \in line.allowed
  BY DEF StartChunked, BodyFault
<1>1. /\ pc = "parse" /\ state = "BODY" /\ isChunked
      /\ fileCreated' = TRUE /\ UNCHANGED <<body, line, chunk>>
      /\ \/ /\ pc' = "chunk"
            /\ upload' = IF upload = {} THEN {<<>>} ELSE upload
            /\ UNCHANGED <<network, request, _pos, state, statusCode, headers, isChunked>>
         \/ Fail(500) /\ UNCHANGED <<_pos, upload>>
  BY DEF ParseBody, StartChunked
<1>2. CASE Fail(500) /\ UNCHANGED <<_pos, upload>>
  <2>1. /\ _pos' = _pos /\ upload' = upload /\ body' = body /\ line' = line
        /\ _currentChunkSize' = _currentChunkSize /\ _totalBodysize' = _totalBodysize
        /\ _currentChunkBytesRead' = _currentChunkBytesRead
    BY <1>1, <1>2 DEF chunk
  <2>2. /\ body \in Seq(Byte) /\ Len(body) <= MaxBodySize /\ _pos \in Nat
        /\ _currentChunkSize \in Nat \cup {-1} /\ _currentChunkBytesRead \in Nat
        /\ _totalBodysize \in Nat /\ upload \subseteq Seq(Byte)
    BY DEF RequestInv, CursorInBuffer, TypeOK, BodyWithinLimit
  <2>3. /\ \A content \in upload : content = body
        /\ IF _currentChunkSize > 0 THEN _currentChunkBytesRead <= _currentChunkSize
           ELSE _currentChunkBytesRead = 0
    BY DEF RequestInv, UploadMatchesBody, Counters
  <2> QED
    BY <1>1, <1>2, <2>1, <2>2, <2>3, FailStep
<1>3. CASE /\ pc' = "chunk"
           /\ upload' = IF upload = {} THEN {<<>>} ELSE upload
           /\ UNCHANGED <<network, request, _pos, state, statusCode, headers, isChunked>>
  <2>1. upload' = {body}
    BY <1>1, <1>3 DEF RequestInv, Stored
  <2>2. CursorInBuffer'
    <3>1. TypeOK /\ CursorInBuffer
      BY DEF RequestInv, CursorInBuffer
    <3>2. /\ UNCHANGED <<wire, current, answered, served, synced, request, _pos, state, statusCode>>
          /\ UNCHANGED <<headers, isChunked, body, line, chunk>>
          /\ fileCreated' = TRUE /\ pc' = "chunk"
      BY <1>1, <1>3 DEF network
    <3>3. upload' \subseteq Seq(Byte)
      BY <2>1, <3>1 DEF TypeOK
    <3>4. TypeOK'
      BY <3>1, <3>2, <3>3 DEF TypeOK, chunk
    <3> QED
      BY <1>1, <3>1, <3>2, <3>4 DEF CursorInBuffer, _bufferLen, chunk
  <2> USE <1>1, <1>3, <2>1 DEF RequestInv, network, chunk
  <2>3. Phases' /\ Stored' /\ UploadMatchesBody' /\ ErrorLeavesNoUpload'
    BY DEF Phases, Stored, UploadMatchesBody, ErrorLeavesNoUpload
  <2>4. Counters' /\ BodyWithinLimit'
    BY DEF Counters, Owed, BodyWithinLimit
  <2> QED
    BY <2>2, <2>3, <2>4
<1> QED
  BY <1>1, <1>2, <1>3

LEMMA ParseBodyStep ==
  ASSUME RequestInv, ParseBody
  PROVE  RequestInv'
<1>1. pc = "parse"
  BY DEF ParseBody
<1>2. CASE WaitForBody
  BY <1>1, <1>2, IncompleteStep DEF WaitForBody
<1> QED
  BY <1>2, NoBodyStep, RejectBodyStep, StoreBodyStep, StartChunkedStep DEF ParseBody

----------------------------------------------------------------------------
(* The chunks.                                                             *)

\* What is known in parseChunkedBody's loop.
LEMMA InChunks ==
  ASSUME RequestInv, pc = "chunk"
  PROVE  /\ state = "BODY" /\ isChunked /\ fileCreated = TRUE /\ upload = {body}
         /\ statusCode = line.path /\ line.method \in line.allowed
         /\ request \in Seq(Byte) /\ body \in Seq(Byte) /\ upload \subseteq Seq(Byte)
         /\ _pos \in Nat /\ _pos <= _bufferLen
         /\ _currentChunkSize \in Nat \cup {-1} /\ _currentChunkBytesRead \in Nat
         /\ _totalBodysize \in Nat /\ _totalBodysize <= MaxBodySize
         /\ Len(body) = _totalBodysize - Owed /\ Len(body) \in Nat /\ Len(body) <= MaxBodySize
<1>1. /\ CursorInBuffer /\ TypeOK /\ Phases /\ Counters /\ Stored /\ BodyWithinLimit
  BY DEF RequestInv, CursorInBuffer
<1>2. /\ state = "BODY" /\ isChunked /\ fileCreated /\ statusCode = line.path
  BY <1>1 DEF Phases
<1>3. upload = {body} /\ line.method \in line.allowed
  BY <1>1, <1>2 DEF Stored
<1>4. /\ request \in Seq(Byte) /\ body \in Seq(Byte) /\ upload \subseteq Seq(Byte)
      /\ _pos \in Nat /\ _pos <= _bufferLen
      /\ _currentChunkSize \in Nat \cup {-1} /\ _currentChunkBytesRead \in Nat
      /\ _totalBodysize \in Nat /\ fileCreated \in BOOLEAN
  BY <1>1 DEF CursorInBuffer, TypeOK
<1>5. /\ _totalBodysize <= MaxBodySize /\ Len(body) = _totalBodysize - Owed
      /\ Len(body) <= MaxBodySize
  BY <1>1 DEF Counters, BodyWithinLimit
<1>6. Len(body) \in Nat
  BY <1>4, LenProperties
<1> QED
  BY <1>2, <1>3, <1>4, <1>5, <1>6

LEMMA BadSizeStep ==
  ASSUME RequestInv, pc = "chunk", BadSize
  PROVE  RequestInv'
<1>1. /\ isChunked /\ fileCreated = TRUE /\ upload = {body} /\ body \in Seq(Byte)
      /\ upload \subseteq Seq(Byte) /\ request \in Seq(Byte) /\ _pos \in Nat
      /\ _currentChunkBytesRead \in Nat /\ _totalBodysize \in Nat /\ Len(body) <= MaxBodySize
  BY InChunks
<1>2. /\ HasLine /\ _currentChunkSize = -1 /\ _currentChunkSize' = -1 /\ _pos' = AfterLine
      /\ Fail(400) /\ body' = body /\ line' = line /\ fileCreated' = TRUE /\ upload' = {body}
      /\ _currentChunkBytesRead' = _currentChunkBytesRead /\ _totalBodysize' = _totalBodysize
  BY <1>1 DEF BadSize, AtSizeLine, NoChunk
<1>3. _currentChunkBytesRead = 0
  BY <1>2 DEF RequestInv, Counters
<1>4. _pos' \in Nat
  BY <1>1, <1>2, LineInBuffer
<1>5. /\ _currentChunkSize' \in Nat \cup {-1} /\ ~(_currentChunkSize' > 0)
      /\ _currentChunkBytesRead' = 0
  BY <1>2, <1>3
<1>6. /\ upload' \subseteq Seq(Byte) /\ \A content \in upload' : content = body'
      /\ (upload' # {} => 400 \in {400, 500} /\ isChunked /\ fileCreated')
  BY <1>1, <1>2
<1> QED
  BY <1>1, <1>2, <1>4, <1>5, <1>6, FailStep

LEMMA LastChunkStep ==
  ASSUME RequestInv, pc = "chunk", LastChunk
  PROVE  RequestInv'
<1>1. /\ isChunked /\ fileCreated = TRUE /\ upload = {body} /\ statusCode = line.path
      /\ request \in Seq(Byte) /\ _pos \in Nat
  BY InChunks
<1>2. /\ HasLine /\ _currentChunkSize = -1 /\ _currentChunkSize' = 0
      /\ state' = "COMPLETE" /\ pc' = "answer"
      /\ UNCHANGED <<network, request, statusCode, headers, isChunked, body, line,
                     _currentChunkBytesRead, _totalBodysize, fileCreated, upload>>
  BY DEF LastChunk, AtSizeLine, NoChunk
<1>3. _currentChunkBytesRead = 0
  BY <1>2 DEF RequestInv, Counters
<1>4. _pos' \in Nat
  <2> DEFINE after == {i \in (AfterLine + 1)..(_bufferLen - 1) :
                         request[i] = "CR" /\ request[i + 1] = "LF"}
  <2>1. AfterLine \in Nat
    BY <1>1, <1>2, LineInBuffer
  <2>2. _pos' = IF after = {} THEN AfterLine ELSE Min(after) + 1
    BY DEF LastChunk
  <2>3. after \in SUBSET ((AfterLine + 1)..(Len(request) - 1))
    BY DEF _bufferLen
  <2> HIDE DEF after
  <2>4. ASSUME after # {} PROVE Min(after) \in Nat
    BY <1>1, <2>1, <2>3, <2>4, LineEndInBuffer
  <2> QED
    BY <2>1, <2>2, <2>4
<1> USE <1>1, <1>2, <1>3, <1>4 DEF network
<1>5. TypeOK /\ BodyWithinLimit
  BY DEF RequestInv, CursorInBuffer
<1>6. TypeOK'
  BY <1>5 DEF TypeOK
<1>7. CursorInBuffer'
  BY <1>6 DEF CursorInBuffer
<1>8. Phases' /\ Stored' /\ Counters' /\ BodyWithinLimit'
  BY <1>5 DEF Phases, Stored, Counters, BodyWithinLimit
<1>9. UploadMatchesBody' /\ ErrorLeavesNoUpload'
  BY DEF UploadMatchesBody, ErrorLeavesNoUpload
<1> QED
  BY <1>7, <1>8, <1>9 DEF RequestInv

LEMMA NextChunkStep ==
  ASSUME RequestInv, pc = "chunk", NextChunk
  PROVE  RequestInv'
<1> DEFINE size == SizeOf(Line)
<1>1. /\ HasLine /\ size > 0 /\ _pos' = AfterLine /\ _currentChunkSize = -1
      /\ _currentChunkSize' = size /\ _totalBodysize' = _totalBodysize + size
      /\ IF _totalBodysize' > MaxBodySize
         THEN upload' = {} /\ Fail(413)
         ELSE UNCHANGED <<network, pc, request, state, statusCode, headers, isChunked, upload>>
      /\ UNCHANGED <<body, line, _currentChunkBytesRead, fileCreated>>
  BY DEF NextChunk, AtSizeLine, NoChunk
<1>2. size \in Nat \cup {-1}
  BY SizeTyped
<1> HIDE DEF size
<1>3. size \in Nat
  BY <1>1, <1>2
<1>4. /\ state = "BODY" /\ isChunked /\ fileCreated = TRUE /\ upload = {body}
      /\ statusCode = line.path /\ line.method \in line.allowed
      /\ request \in Seq(Byte) /\ body \in Seq(Byte) /\ _pos \in Nat
      /\ _currentChunkBytesRead \in Nat /\ _totalBodysize \in Nat
      /\ Len(body) = _totalBodysize - Owed /\ Len(body) <= MaxBodySize
  BY InChunks
<1>5. _currentChunkBytesRead = 0 /\ Owed = 0
  BY <1>1 DEF RequestInv, Counters, Owed
<1>6. AfterLine \in Nat /\ AfterLine <= _bufferLen
  BY <1>1, <1>4, LineInBuffer
<1>7. _totalBodysize' \in Nat /\ MaxBodySize \in Nat
  BY <1>1, <1>3, <1>4, HttpRequestAssumption DEF HttpRequestAssumption
<1>8. CASE _totalBodysize' > MaxBodySize
  <2>1. upload' = {} /\ Fail(413) /\ body' = body /\ line' = line /\ fileCreated' = TRUE
        /\ _currentChunkBytesRead' = 0
    BY <1>1, <1>4, <1>5, <1>8
  <2>2. _currentChunkSize' \in Nat \cup {-1} /\ _currentChunkBytesRead' <= _currentChunkSize'
    BY <1>1, <1>3, <2>1
  <2> QED
    BY <1>1, <1>4, <1>6, <1>7, <2>1, <2>2, FailStep
<1>9. CASE ~(_totalBodysize' > MaxBodySize)
  <2>1. /\ UNCHANGED <<network, pc, request, state, statusCode, headers, isChunked, upload>>
        /\ UNCHANGED <<body, line, _currentChunkBytesRead, fileCreated>>
    BY <1>1, <1>9
  <2>2. TypeOK /\ BodyWithinLimit
    BY DEF RequestInv, CursorInBuffer
  <2>3. TypeOK'
    BY <1>1, <1>3, <1>6, <1>7, <2>1, <2>2 DEF TypeOK, network
  <2>4. CursorInBuffer'
    BY <1>1, <1>3, <1>5, <1>6, <2>1, <2>3 DEF CursorInBuffer, _bufferLen
  <2>5. Counters'
    <3>1. Len(body') = _totalBodysize /\ _totalBodysize' <= MaxBodySize
      BY <1>4, <1>5, <1>7, <1>9, <2>1
    <3>2. Owed' = size
      BY <1>1, <1>3, <1>5, <2>1 DEF Owed
    <3>3. _totalBodysize' - size = _totalBodysize
      BY <1>1, <1>3, <1>4
    <3> QED
      BY <1>1, <1>3, <1>5, <2>1, <3>1, <3>2, <3>3 DEF Counters
  <2>6. Phases' /\ Stored'
    BY <1>4, <2>1 DEF RequestInv, Phases, Stored
  <2>7. BodyWithinLimit' /\ UploadMatchesBody' /\ ErrorLeavesNoUpload'
    BY <1>4, <2>1, <2>2 DEF RequestInv, BodyWithinLimit, UploadMatchesBody, ErrorLeavesNoUpload
  <2> QED
    BY <2>4, <2>5, <2>6, <2>7 DEF RequestInv
<1> QED
  BY <1>8, <1>9

\* The data is cut to what the chunk owes, so that the body stays the difference of
\* what was announced and what is owed.
LEMMA ChunkDataStep ==
  ASSUME RequestInv, pc = "chunk", ChunkData
  PROVE  RequestInv'
<1> DEFINE n == BytesToRead
           data == SubSeq(request, _pos + 1, _pos + n)
           after == EndOfChunk(_pos + n)
<1>1. /\ _currentChunkSize # -1 /\ n > 0
      /\ body' = body \o data
      /\ \/ /\ upload' = {c \o data : c \in upload}
            /\ IF ChunkIsRead(n) /\ after # 0
               THEN _pos' = after /\ _currentChunkSize' = -1 /\ _currentChunkBytesRead' = 0
               ELSE /\ _pos' = _pos + n /\ _currentChunkBytesRead' = _currentChunkBytesRead + n
                    /\ _currentChunkSize' = _currentChunkSize
            /\ pc' = IF ChunkIsRead(n) /\ after = 0 THEN "recv" ELSE pc
            /\ UNCHANGED <<network, request, state, statusCode, headers, isChunked>>
         \/ /\ upload' = {} /\ Fail(500)
            /\ UNCHANGED <<_pos, _currentChunkSize, _currentChunkBytesRead>>
      /\ UNCHANGED <<line, _totalBodysize, fileCreated>>
  BY DEF ChunkData, NoChunk
<1>2. /\ state = "BODY" /\ isChunked /\ fileCreated = TRUE /\ upload = {body}
      /\ statusCode = line.path /\ line.method \in line.allowed
      /\ request \in Seq(Byte) /\ body \in Seq(Byte) /\ _pos \in Nat /\ _pos <= _bufferLen
      /\ _currentChunkSize \in Nat \cup {-1} /\ _currentChunkBytesRead \in Nat
      /\ _totalBodysize \in Nat /\ _totalBodysize <= MaxBodySize
      /\ Len(body) = _totalBodysize - Owed /\ Len(body) <= MaxBodySize
  BY InChunks
<1>3. _currentChunkSize \in Nat /\ _currentChunkBytesRead <= _currentChunkSize
  <2>1. _currentChunkSize \in Nat
    BY <1>1, <1>2
  <2>2. IF _currentChunkSize > 0 THEN _currentChunkBytesRead <= _currentChunkSize
        ELSE _currentChunkBytesRead = 0
    BY DEF RequestInv, Counters
  <2> QED
    BY <2>1, <2>2
<1>4. /\ n \in Nat /\ _pos + n <= _bufferLen
      /\ _currentChunkBytesRead + n <= _currentChunkSize
  BY <1>2, <1>3, BytesToReadBounds
<1>5. data \in Seq(Byte) /\ Len(data) = n
  BY <1>2, <1>4, Slice DEF _bufferLen
<1>6. after \in Nat /\ after <= _bufferLen
  <2>1. _pos + n \in Nat
    BY <1>2, <1>4
  <2> HIDE DEF n
  <2> QED
    BY <1>2, <2>1, EndOfChunkInBuffer
<1> HIDE DEF n, data, after
<1>7. body' \in Seq(Byte) /\ Len(body') = Len(body) + n /\ Len(body) \in Nat
  BY <1>1, <1>2, <1>5, Joined
<1>8. _currentChunkSize > 0 /\ Owed = _currentChunkSize - _currentChunkBytesRead
  <2>1. _currentChunkSize > 0
    BY <1>1, <1>2, <1>3, <1>4
  <2> QED
    BY <2>1 DEF Owed
<1>9. MaxBodySize \in Nat /\ Len(body') <= MaxBodySize
  <2>1. MaxBodySize \in Nat
    BY HttpRequestAssumption DEF HttpRequestAssumption
  <2>2. n <= Owed
    BY <1>2, <1>3, <1>4, <1>8
  <2> QED
    BY <1>2, <1>3, <1>4, <1>7, <1>8, <2>1, <2>2
<1>10. CASE /\ upload' = {} /\ Fail(500)
            /\ UNCHANGED <<_pos, _currentChunkSize, _currentChunkBytesRead>>
  <2>1. line' = line /\ _totalBodysize' = _totalBodysize /\ fileCreated' = TRUE
        /\ _pos' = _pos /\ _currentChunkSize' = _currentChunkSize
        /\ _currentChunkBytesRead' = _currentChunkBytesRead
    BY <1>1, <1>2, <1>10
  <2> QED
    BY <1>2, <1>3, <1>7, <1>8, <1>9, <1>10, <2>1, FailStep
<1>11. CASE /\ upload' = {c \o data : c \in upload}
            /\ IF ChunkIsRead(n) /\ after # 0
               THEN _pos' = after /\ _currentChunkSize' = -1 /\ _currentChunkBytesRead' = 0
               ELSE /\ _pos' = _pos + n /\ _currentChunkBytesRead' = _currentChunkBytesRead + n
                    /\ _currentChunkSize' = _currentChunkSize
            /\ pc' = IF ChunkIsRead(n) /\ after = 0 THEN "recv" ELSE pc
            /\ UNCHANGED <<network, request, state, statusCode, headers, isChunked>>
  <2>1. upload' = {body'} /\ upload' \subseteq Seq(Byte)
    BY <1>1, <1>2, <1>7, <1>11
  <2>2. /\ pc' \in {"recv", "chunk"} /\ _totalBodysize' = _totalBodysize /\ line' = line
        /\ fileCreated' = TRUE
        /\ UNCHANGED <<network, request, state, statusCode, headers, isChunked>>
    BY <1>1, <1>2, <1>11
  <2>3. /\ _pos' \in Nat /\ _pos' <= _bufferLen
        /\ _currentChunkSize' \in Nat \cup {-1} /\ _currentChunkBytesRead' \in Nat
        /\ IF _currentChunkSize' > 0 THEN _currentChunkBytesRead' <= _currentChunkSize'
           ELSE _currentChunkBytesRead' = 0
        /\ _totalBodysize - Owed' = Len(body) + n
    <3>1. CASE ChunkIsRead(n) /\ after # 0
      <4>1. _pos' = after /\ _currentChunkSize' = -1 /\ _currentChunkBytesRead' = 0
        BY <1>11, <3>1
      <4>2. Owed' = 0 /\ _currentChunkSize' \in Nat \cup {-1} /\ ~(_currentChunkSize' > 0)
        BY <4>1 DEF Owed
      <4>3. _currentChunkBytesRead + n = _currentChunkSize
        BY <3>1 DEF ChunkIsRead
      <4>4. _totalBodysize = Len(body) + n
        BY <1>2, <1>3, <1>4, <1>7, <1>8, <4>3
      <4> QED
        BY <1>2, <1>6, <4>1, <4>2, <4>4
    <3>2. CASE ~(ChunkIsRead(n) /\ after # 0)
      <4>1. /\ _pos' = _pos + n /\ _currentChunkBytesRead' = _currentChunkBytesRead + n
            /\ _currentChunkSize' = _currentChunkSize
        BY <1>11, <3>2
      <4>2. Owed' = _currentChunkSize - (_currentChunkBytesRead + n)
        BY <1>8, <4>1 DEF Owed
      <4> QED
        BY <1>2, <1>3, <1>4, <1>7, <1>8, <4>1, <4>2
    <3> QED
      BY <3>1, <3>2
  <2>4. TypeOK
    BY DEF RequestInv, CursorInBuffer
  <2>5. TypeOK'
    BY <1>7, <2>1, <2>2, <2>3, <2>4 DEF TypeOK, network
  <2>6. CursorInBuffer'
    BY <2>2, <2>3, <2>5 DEF CursorInBuffer, _bufferLen
  <2>7. Counters'
    BY <1>2, <1>7, <2>2, <2>3 DEF Counters
  <2>8. Phases' /\ Stored'
    BY <1>2, <2>1, <2>2 DEF Phases, Stored
  <2>9. BodyWithinLimit' /\ UploadMatchesBody' /\ ErrorLeavesNoUpload'
    BY <1>9, <2>1, <2>2 DEF BodyWithinLimit, UploadMatchesBody, ErrorLeavesNoUpload
  <2> QED
    BY <2>6, <2>7, <2>8, <2>9 DEF RequestInv
<1> QED
  BY <1>1, <1>10, <1>11

LEMMA ParseChunkedBodyStep ==
  ASSUME RequestInv, ParseChunkedBody
  PROVE  RequestInv'
<1>1. pc = "chunk" /\ pc # "answer"
  BY DEF ParseChunkedBody
<1>2. CASE Exhausted \/ WaitForSize \/ WaitForData
  BY <1>1, <1>2, IncompleteStep DEF Exhausted, WaitForSize, WaitForData
<1> QED
  BY <1>1, <1>2, BadSizeStep, LastChunkStep, NextChunkStep, ChunkDataStep DEF ParseChunkedBody

----------------------------------------------------------------------------
(* The network, the answer and the client.                                 *)

LEMMA RecvStep ==
  ASSUME RequestInv, NEW n \in 1..MaxRecv, Recv(n)
  PROVE  RequestInv'
<1>1. /\ pc = "recv" /\ n <= Len(wire)
      /\ wire' = SubSeq(wire, n + 1, Len(wire)) /\ request' = request \o SubSeq(wire, 1, n)
      /\ pc' = "parse"
      /\ UNCHANGED <<current, answered, served, synced, _pos, state, statusCode,
                     headers, isChunked, body, line, chunk, fileCreated, upload>>
  BY DEF Recv
<1>2. TypeOK /\ CursorInBuffer /\ n \in Nat
  BY HttpRequestAssumption DEF RequestInv, CursorInBuffer, HttpRequestAssumption
<1>3. wire \in Seq(Byte) /\ request \in Seq(Byte) /\ Len(wire) \in Nat
  BY <1>2, LenProperties DEF TypeOK
<1>4. SubSeq(wire, 1, n) \in Seq(Byte)
  <2>1. SubSeq(wire, 0 + 1, 0 + n) \in Seq(Byte)
    BY <1>1, <1>2, <1>3, Slice
  <2>2. 0 + 1 = 1 /\ 0 + n = n
    BY <1>2
  <2> QED
    BY <2>1, <2>2
<1>5. wire' \in Seq(Byte)
  <2>1. (Len(wire) - n) \in Nat /\ n + (Len(wire) - n) = Len(wire)
    BY <1>1, <1>2, <1>3
  <2>2. SubSeq(wire, n + 1, n + (Len(wire) - n)) \in Seq(Byte)
    BY <1>2, <1>3, <2>1, Slice
  <2> QED
    BY <1>1, <2>1, <2>2
<1>6. request' \in Seq(Byte) /\ Len(request) \in Nat /\ Len(request) <= Len(request')
  BY <1>1, <1>3, <1>4, Joined
<1>7. TypeOK'
  BY <1>1, <1>2, <1>5, <1>6 DEF TypeOK, chunk
<1>8. CursorInBuffer'
  <2>1. _pos \in Nat /\ _pos <= Len(request) /\ _pos' = _pos
    BY <1>1, <1>2 DEF CursorInBuffer, TypeOK, _bufferLen
  <2>2. _pos' <= Len(request')
    <3>1. Len(request') \in Nat
      BY <1>6, LenProperties
    <3> QED
      BY <1>6, <2>1, <3>1
  <2> QED
    BY <1>1, <1>2, <1>7, <2>2 DEF CursorInBuffer, _bufferLen, chunk
<1>9. Phases' /\ Stored' /\ Counters'
  BY <1>1 DEF RequestInv, Phases, Stored, Counters, Owed, chunk
<1>10. BodyWithinLimit' /\ UploadMatchesBody' /\ ErrorLeavesNoUpload'
  BY <1>1 DEF RequestInv, BodyWithinLimit, UploadMatchesBody, ErrorLeavesNoUpload
<1> QED
  BY <1>8, <1>9, <1>10 DEF RequestInv

\* An emptied request satisfies the invariant, whatever the connection's past.
LEMMA Cleared ==
  ASSUME pc' = "recv", request' = <<>>, _pos' = 0, state' = "REQUESTLINE", isChunked' = FALSE,
         body' = <<>>, _currentChunkSize' = NoChunk, _currentChunkBytesRead' = 0,
         _totalBodysize' = 0, fileCreated' = FALSE, upload' = {}, TypeOK'
  PROVE  RequestInv'
<1>1. MaxBodySize \in Nat /\ Len(<<>>) = 0
  BY HttpRequestAssumption, EmptySeq DEF HttpRequestAssumption
<1>2. CursorInBuffer'
  BY <1>1 DEF CursorInBuffer, _bufferLen, NoChunk
<1>3. Counters' /\ BodyWithinLimit'
  BY <1>1 DEF Counters, Owed, BodyWithinLimit, NoChunk
<1>4. Phases' /\ Stored' /\ UploadMatchesBody' /\ ErrorLeavesNoUpload'
  BY DEF Phases, Stored, UploadMatchesBody, ErrorLeavesNoUpload
<1> QED
  BY <1>2, <1>3, <1>4 DEF RequestInv

LEMMA AnswerStep ==
  ASSUME RequestInv, Answer
  PROVE  RequestInv'
<1> USE DEF Answer, Reset, ClearRequest
<1>1. TypeOK
  BY DEF RequestInv, CursorInBuffer
<1>2. line' \in [method : Methods \cup {""}, path : Nat, routed : BOOLEAN,
                 allowed : SUBSET Methods, script : BOOLEAN]
  BY <1>1 DEF TypeOK, NoLine
<1>3. <<>> \in Seq(Byte)
  BY EmptySeq
<1>4. synced' \in BOOLEAN /\ served' \in Nat
  <2>1. served' \in Nat
    <3>1. served \in Nat /\ served' = served + 1
      BY <1>1 DEF TypeOK
    <3> HIDE DEF Answer
    <3> QED
      BY <3>1
  <2>2. synced' = (synced /\ wire = <<>>)
    OBVIOUS
  <2>3. synced' = TRUE \/ synced' = FALSE
    BY <2>2
  <2> QED
    BY <2>1, <2>3
<1>5. TypeOK'
  BY <1>1, <1>2, <1>3, <1>4 DEF TypeOK, NoChunk
<1> QED
  BY <1>5, Cleared

LEMMA ClientSendsStep ==
  ASSUME RequestInv, NEW r \in Requests, ClientSends(r)
  PROVE  RequestInv'
<1>1. TypeOK /\ CursorInBuffer
  BY DEF RequestInv, CursorInBuffer
<1>2. r.bytes \in Seq(Byte)
  BY HttpRequestAssumption DEF HttpRequestAssumption
<1>3. /\ wire' = wire \o r.bytes /\ current' = r /\ answered' = FALSE
      /\ UNCHANGED <<served, synced, parser>>
  BY DEF ClientSends
<1>4. wire' \in Seq(Byte)
  BY <1>1, <1>2, <1>3, Joined DEF TypeOK
<1>5. TypeOK'
  BY <1>1, <1>3, <1>4 DEF TypeOK, parser, chunk
<1> USE <1>3 DEF parser, chunk
<1>6. CursorInBuffer'
  BY <1>1, <1>5 DEF CursorInBuffer, _bufferLen
<1>7. Phases' /\ Stored' /\ Counters'
  BY DEF RequestInv, Phases, Stored, Counters, Owed
<1>8. BodyWithinLimit' /\ UploadMatchesBody' /\ ErrorLeavesNoUpload'
  BY DEF RequestInv, BodyWithinLimit, UploadMatchesBody, ErrorLeavesNoUpload
<1> QED
  BY <1>6, <1>7, <1>8 DEF RequestInv

----------------------------------------------------------------------------
(* The theorems.                                                           *)

LEMMA InitRequestInv == Init => RequestInv
<1> SUFFICES ASSUME Init PROVE RequestInv
  OBVIOUS
<1> USE DEF Init
<1>1. /\ MaxBodySize \in Nat /\ <<>> \in Seq(Byte) /\ Len(<<>>) = 0
  BY HttpRequestAssumption, EmptySeq DEF HttpRequestAssumption
<1>2. TypeOK
  BY <1>1 DEF TypeOK, NoLine, NoChunk
<1>3. CursorInBuffer
  BY <1>1, <1>2 DEF CursorInBuffer, _bufferLen, NoChunk
<1>4. Counters /\ BodyWithinLimit
  BY <1>1 DEF Counters, Owed, BodyWithinLimit, NoChunk
<1>5. Phases /\ Stored /\ UploadMatchesBody /\ ErrorLeavesNoUpload
  BY DEF Phases, Stored, UploadMatchesBody, ErrorLeavesNoUpload
<1> QED
  BY <1>3, <1>4, <1>5 DEF RequestInv

LEMMA NextRequestInv == RequestInv /\ [Next]_vars => RequestInv'
<1> SUFFICES ASSUME RequestInv, [Next]_vars PROVE RequestInv'
  OBVIOUS
<1>1. CASE \E n \in 1..MaxRecv : Recv(n)
  BY <1>1, RecvStep
<1>2. CASE ParseRequestLine \/ ParseHeaders \/ ParseBody \/ ParseChunkedBody
  BY <1>2, ParseRequestLineStep, ParseHeadersStep, ParseBodyStep, ParseChunkedBodyStep
<1>3. CASE Answer
  BY <1>3, AnswerStep
<1>4. CASE \E r \in Requests : ClientSends(r)
  BY <1>4, ClientSendsStep
<1>5. CASE UNCHANGED vars
  <2>1. CursorInBuffer'
    <3>1. TypeOK /\ CursorInBuffer
      BY DEF RequestInv, CursorInBuffer
    <3>2. /\ wire' = wire /\ current' = current /\ answered' = answered /\ served' = served
          /\ synced' = synced /\ pc' = pc /\ request' = request /\ _pos' = _pos
          /\ state' = state /\ statusCode' = statusCode /\ headers' = headers
          /\ isChunked' = isChunked /\ body' = body /\ line' = line
          /\ fileCreated' = fileCreated /\ upload' = upload
          /\ _currentChunkSize' = _currentChunkSize /\ _totalBodysize' = _totalBodysize
          /\ _currentChunkBytesRead' = _currentChunkBytesRead
      BY <1>5 DEF vars, network, parser, chunk
    <3>3. /\ wire' \in Seq(Byte) /\ current' \in Requests \cup {NoRequest}
          /\ answered' \in BOOLEAN /\ served' \in Nat /\ synced' \in BOOLEAN
          /\ pc' \in {"recv", "parse", "chunk", "answer"}
          /\ request' \in Seq(Byte) /\ _pos' \in Nat
          /\ state' \in {"REQUESTLINE", "HEADERS", "BODY", "COMPLETE"}
      BY <3>1, <3>2 DEF TypeOK
    <3>4. /\ statusCode' \in Nat /\ headers' \subseteq Seq(Byte) /\ isChunked' \in BOOLEAN
          /\ body' \in Seq(Byte)
          /\ line' \in [method : Methods \cup {""}, path : Nat, routed : BOOLEAN,
                        allowed : SUBSET Methods, script : BOOLEAN]
      BY <3>1, <3>2 DEF TypeOK
    <3>5. /\ _currentChunkSize' \in Nat \cup {-1} /\ _currentChunkBytesRead' \in Nat
          /\ _totalBodysize' \in Nat /\ fileCreated' \in BOOLEAN
          /\ upload' \subseteq Seq(Byte)
      BY <3>1, <3>2 DEF TypeOK
    <3>6. TypeOK'
      BY <3>3, <3>4, <3>5 DEF TypeOK
    <3> QED
      BY <3>1, <3>2, <3>6 DEF CursorInBuffer, _bufferLen
  <2> USE <1>5 DEF vars, network, parser, chunk, RequestInv
  <2>2. Phases' /\ Stored' /\ Counters'
    BY DEF Phases, Stored, Counters, Owed
  <2>3. BodyWithinLimit' /\ UploadMatchesBody' /\ ErrorLeavesNoUpload'
    BY DEF BodyWithinLimit, UploadMatchesBody, ErrorLeavesNoUpload
  <2> QED
    BY <2>1, <2>2, <2>3
<1> QED
  BY <1>1, <1>2, <1>3, <1>4, <1>5 DEF Next

\* Wherever parse() resumes, over any number of recv()s and requests and whatever
\* bytes come, the cursor is within the buffer and the bytes read of a chunk within
\* its size: the unsigned differences of the parser do not wrap.
THEOREM CursorStaysInBuffer == Spec => []CursorInBuffer
<1>1. RequestInv => CursorInBuffer
  BY DEF RequestInv
<1> QED
  BY InitRequestInv, NextRequestInv, <1>1, PTL DEF Spec

\* No bytes, in no cuts, make parseBody or parseChunkedBody keep a body larger than
\* max_body_size: neither one announced at once nor one that grows by chunks.
THEOREM BodyStaysWithinLimit == Spec => []BodyWithinLimit
<1>1. RequestInv => BodyWithinLimit
  BY DEF RequestInv
<1> QED
  BY InitRequestInv, NextRequestInv, <1>1, PTL DEF Spec

\* The upload that parseChunkedBody opens anew at each recv(), to append, has at
\* every moment the bytes of the body in memory.
THEOREM UploadIsBody == Spec => []UploadMatchesBody
<1>1. RequestInv => UploadMatchesBody
  BY DEF RequestInv
<1> QED
  BY InitRequestInv, NextRequestInv, <1>1, PTL DEF Spec

\* Whatever request fails, at whatever point, a file stays on disk only when the
\* path alone was wrong, a chunk size was bad or the file did not open again.
THEOREM FailureLeavesNoUpload == Spec => []ErrorLeavesNoUpload
<1>1. RequestInv => ErrorLeavesNoUpload
  BY DEF RequestInv
<1> QED
  BY InitRequestInv, NextRequestInv, <1>1, PTL DEF Spec

----------------------------------------------------------------------------
(* Texts.                                                                  *)

\* Induction over the naturals, for a set.
LEMMA EveryNat ==
  ASSUME NEW M, 0 \in M, \A n \in Nat : n \in M => n + 1 \in M
  PROVE  Nat \subseteq M
<1> DEFINE Others == Nat \ M
<1>1. ASSUME Others # {} PROVE FALSE
  <2>1. PICK x \in Others : \A y \in Others : ~(<<y, x>> \in OpToRel(<, Nat))
    BY <1>1, NatLessThanWellFounded, WFMin
  <2>2. x \in Nat /\ x # 0 /\ x \notin M
    OBVIOUS
  <2>3. x - 1 \in Nat /\ x - 1 < x /\ (x - 1) + 1 = x
    BY <2>2
  <2>4. <<x - 1, x>> \in OpToRel(<, Nat)
    BY <2>2, <2>3 DEF OpToRel
  <2>5. x - 1 \in M
    BY <2>1, <2>3, <2>4
  <2> QED
    BY <2>2, <2>3, <2>5
<1> QED
  BY <1>1

IsFollowing(f, s, from) ==
  f = [k \in from..Len(s) |-> IF k = Len(s) THEN <<>> ELSE s[k + 1] \o f[k + 1]]

LEMMA FollowingExists ==
  ASSUME NEW s, Len(s) \in Nat
  PROVE  \E f : IsFollowing(f, s, 0)
<1> DEFINE M == {m \in Nat : m <= Len(s) => \E f : IsFollowing(f, s, Len(s) - m)}
<1>1. 0 \in M
  <2> DEFINE g == [k \in Len(s)..Len(s) |-> <<>>]
  <2>1. \A k \in Len(s)..Len(s) : k = Len(s)
    OBVIOUS
  <2>2. Len(s) - 0 = Len(s)
    OBVIOUS
  <2>3. IsFollowing(g, s, Len(s) - 0)
    BY <2>1, <2>2 DEF IsFollowing
  <2> QED
    BY <2>3
<1>2. ASSUME NEW m \in Nat, m \in M, m + 1 <= Len(s)
      PROVE  \E f : IsFollowing(f, s, Len(s) - (m + 1))
  <2> DEFINE from == Len(s) - (m + 1)
  <2>1. /\ from \in Nat /\ Len(s) - m = from + 1 /\ m <= Len(s)
    BY <1>2
  <2>2. PICK f : IsFollowing(f, s, from + 1)
    BY <1>2, <2>1
  <2> HIDE DEF from
  <2> DEFINE g == [k \in from..Len(s) |-> IF k = Len(s) THEN <<>> ELSE s[k + 1] \o f[k + 1]]
  <2>3. \A k \in (from + 1)..Len(s) : g[k] = f[k]
    <3>1. f = [k \in (from + 1)..Len(s) |-> IF k = Len(s) THEN <<>> ELSE s[k + 1] \o f[k + 1]]
      BY <2>2 DEF IsFollowing
    <3> TAKE k \in (from + 1)..Len(s)
    <3>2. k \in from..Len(s)
      BY <2>1
    <3>3. g[k] = IF k = Len(s) THEN <<>> ELSE s[k + 1] \o f[k + 1]
      BY <3>2
    <3> HIDE DEF g
    <3>4. f[k] = IF k = Len(s) THEN <<>> ELSE s[k + 1] \o f[k + 1]
      BY <3>1, Zenon
    <3> QED
      BY <3>3, <3>4
  <2>4. \A k \in from..Len(s) : g[k] = IF k = Len(s) THEN <<>> ELSE s[k + 1] \o g[k + 1]
    <3> TAKE k \in from..Len(s)
    <3>1. g[k] = IF k = Len(s) THEN <<>> ELSE s[k + 1] \o f[k + 1]
      OBVIOUS
    <3>2. k # Len(s) => k + 1 \in (from + 1)..Len(s)
      BY <2>1
    <3> HIDE DEF g
    <3> QED
      BY <2>3, <3>1, <3>2
  <2>5. g = [k \in from..Len(s) |-> g[k]]
    OBVIOUS
  <2> HIDE DEF g
  <2>6. IsFollowing(g, s, from)
    BY <2>4, <2>5 DEF IsFollowing
  <2> QED
    BY <2>6 DEF from
<1>3. ASSUME NEW m \in Nat, m \in M PROVE m + 1 \in M
  <2>1. m + 1 \in Nat
    OBVIOUS
  <2> QED
    BY <1>2, <1>3, <2>1
<1> HIDE DEF M
<1>4. Len(s) \in M
  BY <1>1, <1>3, EveryNat
<1>5. Len(s) - Len(s) = 0
  OBVIOUS
<1> QED
  BY <1>4, <1>5 DEF M

\* What follows the first k pieces is the next piece and what follows that.
LEMMA FollowingIs ==
  ASSUME NEW s \in Seq(Seq(Byte))
  PROVE  /\ Following(s)[Len(s)] = <<>>
         /\ \A k \in 0..(Len(s) - 1) : Following(s)[k] = s[k + 1] \o Following(s)[k + 1]
         /\ \A k \in 0..Len(s) : Following(s)[k] \in Seq(Byte)
<1> DEFINE F == Following(s)
<1>1. Len(s) \in Nat /\ \A k \in 1..Len(s) : s[k] \in Seq(Byte)
  BY LenProperties, ElementOfSeq
<1>2. F = CHOOSE f : IsFollowing(f, s, 0)
  BY DEF Following, IsFollowing
<1>3. IsFollowing(F, s, 0)
  BY <1>1, <1>2, FollowingExists
<1> HIDE DEF F
<1>4. \A k \in 0..Len(s) : F[k] = IF k = Len(s) THEN <<>> ELSE s[k + 1] \o F[k + 1]
  BY <1>3 DEF IsFollowing
<1>5. F[Len(s)] = <<>>
  BY <1>1, <1>4
<1>6. ASSUME NEW k \in 0..(Len(s) - 1) PROVE F[k] = s[k + 1] \o F[k + 1]
  <2>1. k \in 0..Len(s) /\ k # Len(s)
    BY <1>1
  <2>2. F[k] = IF k = Len(s) THEN <<>> ELSE s[k + 1] \o F[k + 1]
    BY <1>4, <2>1, Zenon
  <2> QED
    BY <2>1, <2>2
<1>7. \A k \in 0..Len(s) : F[k] \in Seq(Byte)
  <2> DEFINE M == {m \in Nat : m <= Len(s) => F[Len(s) - m] \in Seq(Byte)}
  <2>1. 0 \in M
    <3>1. Len(s) - 0 = Len(s) /\ <<>> \in Seq(Byte)
      BY <1>1, EmptySeq
    <3> QED
      BY <1>5, <3>1
  <2>2. ASSUME NEW m \in Nat, m \in M, m + 1 <= Len(s)
        PROVE  F[Len(s) - (m + 1)] \in Seq(Byte)
    <3> DEFINE k == Len(s) - (m + 1)
    <3>1. k \in 0..(Len(s) - 1) /\ k + 1 = Len(s) - m /\ m <= Len(s) /\ k + 1 \in 1..Len(s)
      BY <1>1, <2>2
    <3>2. F[k + 1] \in Seq(Byte)
      BY <2>2, <3>1
    <3> HIDE DEF k
    <3>3. s[k + 1] \in Seq(Byte) /\ F[k] = s[k + 1] \o F[k + 1]
      BY <1>1, <1>6, <3>1
    <3>4. F[k] \in Seq(Byte)
      BY <3>2, <3>3, Joined
    <3> QED
      BY <3>4 DEF k
  <2>3. ASSUME NEW m \in Nat, m \in M PROVE m + 1 \in M
    <3>1. m + 1 \in Nat
      OBVIOUS
    <3> QED
      BY <2>2, <2>3, <3>1
  <2> HIDE DEF M
  <2>4. Nat \subseteq M
    BY <2>1, <2>3, EveryNat
  <2> TAKE k \in 0..Len(s)
  <2>5. Len(s) - k \in Nat /\ Len(s) - k <= Len(s) /\ Len(s) - (Len(s) - k) = k
    BY <1>1
  <2>6. Len(s) - k \in M
    BY <2>4, <2>5
  <2> QED
    BY <2>5, <2>6 DEF M
<1> QED
  BY <1>5, <1>6, <1>7 DEF F

----------------------------------------------------------------------------
(* The stream: what is left of it in the buffer and on the wire.           *)

Left(buffer, p, w) == SubSeq(buffer, p + 1, Len(buffer)) \o w
Rest == Left(request, _pos, wire)

LEMMA EndPiece ==
  ASSUME NEW s \in Seq(Byte), NEW p \in Nat, p <= Len(s)
  PROVE  /\ SubSeq(s, p + 1, Len(s)) \in Seq(Byte)
         /\ Len(SubSeq(s, p + 1, Len(s))) = Len(s) - p
         /\ \A i \in 1..(Len(s) - p) : SubSeq(s, p + 1, Len(s))[i] = s[p + i]
<1> DEFINE n == Len(s) - p
           x == SubSeq(s, p + 1, p + n)
<1>1. Len(s) \in Nat /\ n \in Nat /\ p + n = Len(s) /\ n = Len(s) - p
  BY LenProperties
<1>2. \A i \in 1..Len(s) : s[i] \in Byte
  BY ElementOfSeq
<1> HIDE DEF n
<1>3. x \in Seq(Byte) /\ Len(x) = n
  <2>1. p + n <= Len(s)
    BY <1>1
  <2> QED
    BY <1>1, <2>1, Slice
<1>4. \A i \in 1..((p + n) - (p + 1) + 1) : x[i] = s[(p + 1) + i - 1]
  <2>1. p + 1 \in Int /\ p + n \in Int /\ \A i \in (p + 1)..(p + n) : s[i] \in Byte
    BY <1>1, <1>2
  <2> QED
    BY <2>1, SubSeqProperties
<1> HIDE DEF x
<1>5. ASSUME NEW i \in 1..n PROVE x[i] = s[p + i]
  <2>1. (p + 1) + i - 1 = p + i /\ i \in 1..((p + n) - (p + 1) + 1)
    BY <1>1
  <2> QED
    BY <1>4, <2>1
<1>6. x = SubSeq(s, p + 1, Len(s))
  BY <1>1 DEF x
<1> QED
  BY <1>1, <1>3, <1>5, <1>6

LEMMA LeftTyped ==
  ASSUME NEW buffer \in Seq(Byte), NEW w \in Seq(Byte), NEW p \in Nat, p <= Len(buffer)
  PROVE  /\ Left(buffer, p, w) \in Seq(Byte) /\ Len(w) \in Nat /\ Len(buffer) \in Nat
         /\ Len(Left(buffer, p, w)) = (Len(buffer) - p) + Len(w)
         /\ \A i \in 1..(Len(buffer) - p) : Left(buffer, p, w)[i] = buffer[p + i]
<1> DEFINE n == Len(buffer) - p
           x == SubSeq(buffer, p + 1, Len(buffer))
<1>1. Len(buffer) \in Nat /\ Len(w) \in Nat /\ n \in Nat
  BY LenProperties
<1>2. x \in Seq(Byte) /\ Len(x) = n /\ \A i \in 1..n : x[i] = buffer[p + i]
  BY EndPiece
<1> HIDE DEF n, x
<1>3. /\ x \o w \in Seq(Byte) /\ Len(x \o w) = Len(x) + Len(w)
      /\ \A i \in 1..(Len(x) + Len(w)) : (x \o w)[i] = IF i <= Len(x) THEN x[i] ELSE w[i - Len(x)]
  BY <1>2, ConcatProperties
<1>4. \A i \in 1..n : (x \o w)[i] = buffer[p + i]
  BY <1>1, <1>2, <1>3
<1>5. Left(buffer, p, w) = x \o w
  BY DEF Left, x
<1> QED
  BY <1>1, <1>2, <1>3, <1>4, <1>5 DEF n

LEMMA Associative ==
  ASSUME NEW a \in Seq(Byte), NEW b \in Seq(Byte), NEW c \in Seq(Byte)
  PROVE  (a \o b) \o c = a \o (b \o c)
BY ConcatAssociative

LEMMA Cancel ==
  ASSUME NEW a \in Seq(Byte), NEW b \in Seq(Byte), NEW x \in Seq(Byte), NEW y \in Seq(Byte),
         Len(a) = Len(x), a \o b = x \o y
  PROVE  a = x /\ b = y
<1>1. Len(a) \in Nat /\ Len(b) \in Nat /\ Len(y) \in Nat
  BY LenProperties
<1>2. \A i \in 1..Len(a) : a[i] = x[i]
  <2> TAKE i \in 1..Len(a)
  <2>1. (a \o b)[i] = a[i]
    BY <1>1, ConcatProperties
  <2>2. (x \o y)[i] = x[i]
    BY <1>1, ConcatProperties
  <2> QED
    BY <2>1, <2>2
<1>3. a = x
  BY <1>2, SeqEqual
<1> QED
  BY <1>3, ConcatSimplifications

\* Reading on past a in the buffer.
LEMMA Advance ==
  ASSUME NEW buffer \in Seq(Byte), NEW w \in Seq(Byte), NEW p \in Nat,
         NEW a \in Seq(Byte), NEW b \in Seq(Byte),
         p + Len(a) <= Len(buffer), Left(buffer, p, w) = a \o b
  PROVE  SubSeq(buffer, p + 1, p + Len(a)) = a /\ Left(buffer, p + Len(a), w) = b
<1> DEFINE q == p + Len(a)
           x == SubSeq(buffer, p + 1, q)
           y == SubSeq(buffer, q + 1, Len(buffer))
<1>1. Len(buffer) \in Nat /\ Len(a) \in Nat /\ q \in Nat
  BY LenProperties
<1>2. x \in Seq(Byte) /\ Len(x) = Len(a)
  BY <1>1, Slice
<1>3. y \in Seq(Byte)
  <2>1. Len(buffer) - q \in Nat /\ q + (Len(buffer) - q) = Len(buffer)
    BY <1>1
  <2>2. SubSeq(buffer, q + 1, q + (Len(buffer) - q)) \in Seq(Byte)
    BY <1>1, <2>1, Slice
  <2> QED
    BY <2>1, <2>2
<1>4. x \o y = SubSeq(buffer, p + 1, Len(buffer))
  <2>1. /\ p + 1 \in 1..(Len(buffer) + 1) /\ q \in ((p + 1) - 1)..Len(buffer)
        /\ Len(buffer) \in q..Len(buffer)
    BY <1>1
  <2> HIDE DEF q
  <2> QED
    BY <2>1, ConcatAdjacentSubSeq
<1>5. Left(buffer, q, w) = y \o w
  BY DEF Left
<1> HIDE DEF x, y, q
<1>6. Left(buffer, p, w) = (x \o y) \o w
  BY <1>4 DEF Left
<1>7. (x \o y) \o w = x \o (y \o w)
  <2>1. x \in Seq(Byte) /\ y \in Seq(Byte)
    BY <1>2, <1>3
  <2> QED
    BY <2>1, Associative
<1>8. y \o w \in Seq(Byte)
  BY <1>3, Joined
<1>9. x = a /\ y \o w = b
  BY <1>2, <1>6, <1>7, <1>8, Cancel
<1> QED
  BY <1>5, <1>9 DEF x, q

\* What recv() moves from the wire to the buffer is still left.
LEMMA Received ==
  ASSUME NEW buffer \in Seq(Byte), NEW w \in Seq(Byte), NEW p \in Nat, p <= Len(buffer),
         NEW n \in Nat, n <= Len(w)
  PROVE  Left(buffer \o SubSeq(w, 1, n), p, SubSeq(w, n + 1, Len(w))) = Left(buffer, p, w)
<1> DEFINE u == SubSeq(w, 1, n)
           v == SubSeq(w, n + 1, Len(w))
           x == SubSeq(buffer, p + 1, Len(buffer))
           z == SubSeq(buffer \o u, p + 1, Len(buffer \o u))
<1>1. Len(buffer) \in Nat /\ Len(w) \in Nat
  BY LenProperties
<1>2. u \in Seq(Byte)
  <2>1. SubSeq(w, 0 + 1, 0 + n) \in Seq(Byte)
    BY <1>1, Slice
  <2> QED
    BY <2>1
<1>3. v \in Seq(Byte)
  <2>1. Len(w) - n \in Nat /\ n + (Len(w) - n) = Len(w)
    BY <1>1
  <2>2. SubSeq(w, n + 1, n + (Len(w) - n)) \in Seq(Byte)
    BY <1>1, <2>1, Slice
  <2> QED
    BY <2>1, <2>2
<1>4. u \o v = w
  <2>1. 1 \in 1..(Len(w) + 1) /\ n \in (1 - 1)..Len(w) /\ Len(w) \in n..Len(w)
    BY <1>1
  <2>2. SubSeq(w, 1, n) \o SubSeq(w, n + 1, Len(w)) = SubSeq(w, 1, Len(w))
    BY <2>1, ConcatAdjacentSubSeq
  <2> QED
    BY <2>2, SubSeqFull
<1>5. x \in Seq(Byte) /\ Len(x) = Len(buffer) - p /\ \A i \in 1..Len(x) : x[i] = buffer[p + i]
  BY EndPiece
<1> HIDE DEF u, v
<1>6. /\ buffer \o u \in Seq(Byte) /\ Len(buffer \o u) = Len(buffer) + Len(u) /\ Len(u) \in Nat
      /\ \A i \in 1..(Len(buffer) + Len(u)) :
           (buffer \o u)[i] = IF i <= Len(buffer) THEN buffer[i] ELSE u[i - Len(buffer)]
  BY <1>2, ConcatProperties, LenProperties
<1>7. /\ z \in Seq(Byte) /\ Len(z) = (Len(buffer) - p) + Len(u)
      /\ \A i \in 1..Len(z) : z[i] = (buffer \o u)[p + i]
  <2>1. p <= Len(buffer \o u) /\ Len(buffer \o u) - p = (Len(buffer) - p) + Len(u)
    BY <1>1, <1>6
  <2> QED
    BY <1>6, <2>1, EndPiece
<1> HIDE DEF x, z
<1>8. /\ x \o u \in Seq(Byte) /\ Len(x \o u) = Len(x) + Len(u)
      /\ \A i \in 1..(Len(x) + Len(u)) : (x \o u)[i] = IF i <= Len(x) THEN x[i] ELSE u[i - Len(x)]
  BY <1>2, <1>5, ConcatProperties
<1>9. z = x \o u
  <2>1. Len(z) = Len(x \o u)
    BY <1>5, <1>7, <1>8
  <2>2. \A i \in 1..Len(z) : z[i] = (x \o u)[i]
    <3> TAKE i \in 1..Len(z)
    <3>1. i \in 1..(Len(x) + Len(u)) /\ p + i \in 1..(Len(buffer) + Len(u)) /\ i \in Nat
      BY <1>1, <1>5, <1>6, <1>7
    <3>2. z[i] = IF p + i <= Len(buffer) THEN buffer[p + i] ELSE u[(p + i) - Len(buffer)]
      BY <1>6, <1>7, <3>1
    <3>3. (x \o u)[i] = IF i <= Len(x) THEN x[i] ELSE u[i - Len(x)]
      BY <1>8, <3>1
    <3>4. (p + i <= Len(buffer) <=> i <= Len(x)) /\ (p + i) - Len(buffer) = i - Len(x)
      BY <1>1, <1>5, <3>1
    <3>5. i <= Len(x) => x[i] = buffer[p + i]
      BY <1>1, <1>5, <3>1
    <3> QED
      BY <3>2, <3>3, <3>4, <3>5
  <2> QED
    BY <1>7, <1>8, <2>1, <2>2, SeqEqual
<1>10. (x \o u) \o v = x \o w
  <2>1. (x \o u) \o v = x \o (u \o v)
    BY <1>2, <1>3, <1>5, Associative
  <2> QED
    BY <1>4, <2>1
<1> QED
  BY <1>9, <1>10 DEF Left, u, v, x, z

----------------------------------------------------------------------------
(* Lines.                                                                  *)

LEMMA CRLFTyped == CRLF \in Seq(Byte) /\ Len(CRLF) = 2 /\ CRLF[1] = "CR" /\ CRLF[2] = "LF"
BY HttpRequestAssumption DEF HttpRequestAssumption, CRLF

LEMMA TokenText ==
  ASSUME NEW s \in Seq(Token)
  PROVE  s \in Seq(Byte) /\ Len(s) \in Nat /\ \A i \in 1..Len(s) : s[i] \in Byte /\ s[i] # "CR"
<1>1. Token \subseteq Byte
  BY DEF Token
<1>2. s \in Seq(Byte)
  BY <1>1, SeqMonotonic
<1> QED
  BY <1>2, LenProperties, ElementOfSeq DEF Token

EndsAfter(buffer, p) ==
  {i \in (p + 1)..(Len(buffer) - 1) : buffer[i] = "CR" /\ buffer[i + 1] = "LF"}

\* The first CR LF of a stream that begins with a line is the line's.
LEMMA FirstLineEnd ==
  ASSUME NEW buffer \in Seq(Byte), NEW w \in Seq(Byte), NEW p \in Nat, p <= Len(buffer),
         NEW s \in Seq(Token), NEW b \in Seq(Byte), Left(buffer, p, w) = s \o (CRLF \o b)
  PROVE  /\ p + Len(s) + 2 <= Len(buffer) =>
              EndsAfter(buffer, p) # {} /\ Min(EndsAfter(buffer, p)) = p + Len(s) + 1
         /\ ~(p + Len(s) + 2 <= Len(buffer)) => EndsAfter(buffer, p) = {} /\ w # <<>>
<1> DEFINE ends == EndsAfter(buffer, p)
           all == Left(buffer, p, w)
           n == Len(s)
           end == p + n + 1
<1>1. /\ s \in Seq(Byte) /\ n \in Nat /\ \A i \in 1..n : s[i] # "CR"
  BY TokenText
<1>2. /\ CRLF \o b \in Seq(Byte) /\ Len(CRLF \o b) = 2 + Len(b) /\ Len(b) \in Nat
      /\ (CRLF \o b)[1] = "CR" /\ (CRLF \o b)[2] = "LF"
  <2>1. Len(b) \in Nat
    BY LenProperties
  <2>2. /\ CRLF \o b \in Seq(Byte) /\ Len(CRLF \o b) = Len(CRLF) + Len(b)
        /\ \A i \in 1..(Len(CRLF) + Len(b)) :
             (CRLF \o b)[i] = IF i <= Len(CRLF) THEN CRLF[i] ELSE b[i - Len(CRLF)]
    BY CRLFTyped, ConcatProperties
  <2> QED
    BY <2>1, <2>2, CRLFTyped
<1>3. /\ all \in Seq(Byte) /\ Len(all) = n + (2 + Len(b))
      /\ \A i \in 1..(n + (2 + Len(b))) : all[i] = IF i <= n THEN s[i] ELSE (CRLF \o b)[i - n]
  <2> DEFINE t == CRLF \o b
  <2>1. t \in Seq(Byte) /\ Len(t) = 2 + Len(b) /\ Left(buffer, p, w) = s \o t
    BY <1>2
  <2> HIDE DEF t
  <2>2. /\ s \o t \in Seq(Byte) /\ Len(s \o t) = Len(s) + Len(t)
        /\ \A i \in 1..(Len(s) + Len(t)) : (s \o t)[i] = IF i <= Len(s) THEN s[i] ELSE t[i - Len(s)]
    <3>1. s \in Seq(Byte) /\ t \in Seq(Byte)
      BY <1>1, <2>1
    <3> QED
      BY <3>1, ConcatProperties
  <2> QED
    BY <2>1, <2>2 DEF t
<1>4. /\ Len(w) \in Nat /\ Len(buffer) \in Nat /\ Len(all) = (Len(buffer) - p) + Len(w)
      /\ \A i \in 1..(Len(buffer) - p) : all[i] = buffer[p + i]
  BY LeftTyped
<1> HIDE DEF all, n
<1>5. all[n + 1] = "CR" /\ all[n + 2] = "LF"
  <2>1. /\ n + 1 \in 1..(n + (2 + Len(b))) /\ ~(n + 1 <= n) /\ (n + 1) - n = 1
        /\ n + 2 \in 1..(n + (2 + Len(b))) /\ ~(n + 2 <= n) /\ (n + 2) - n = 2
    BY <1>1, <1>2
  <2> QED
    BY <1>2, <1>3, <2>1
<1>6. \A j \in ends : ~(j < end)
  <2> SUFFICES ASSUME NEW j \in ends, j < end PROVE FALSE
    OBVIOUS
  <2>1. j \in (p + 1)..(Len(buffer) - 1) /\ buffer[j] = "CR"
    BY DEF EndsAfter
  <2>2. /\ j - p \in 1..n /\ j - p \in 1..(Len(buffer) - p) /\ p + (j - p) = j /\ j - p <= n
        /\ j - p \in 1..(n + (2 + Len(b)))
    BY <1>1, <1>2, <1>4, <2>1
  <2>3. all[j - p] = "CR"
    BY <1>4, <2>1, <2>2
  <2>4. all[j - p] = s[j - p]
    BY <1>3, <2>2
  <2> QED
    BY <1>1, <2>2, <2>3, <2>4
<1>7. CASE p + n + 2 <= Len(buffer)
  <2>1. end \in ends
    <3>1. /\ end \in (p + 1)..(Len(buffer) - 1) /\ n + 1 \in 1..(Len(buffer) - p)
          /\ n + 2 \in 1..(Len(buffer) - p) /\ p + (n + 1) = end /\ p + (n + 2) = end + 1
      BY <1>1, <1>4, <1>7
    <3>2. buffer[end] = "CR" /\ buffer[end + 1] = "LF"
      BY <1>4, <1>5, <3>1
    <3> HIDE DEF end
    <3> QED
      BY <3>1, <3>2 DEF EndsAfter
  <2>2. ends \in SUBSET Nat /\ end \in Nat
    BY <1>1, <1>4 DEF EndsAfter
  <2> HIDE DEF end, ends
  <2>3. Min(ends) \in ends /\ Min(ends) <= end
    BY <2>1, <2>2, MinIsLeast
  <2>4. Min(ends) \in Nat /\ ~(Min(ends) < end)
    BY <1>6, <2>2, <2>3
  <2>5. Min(ends) = end
    BY <2>2, <2>3, <2>4
  <2> QED
    BY <1>7, <2>1, <2>5 DEF end, ends, n
<1>8. CASE ~(p + n + 2 <= Len(buffer))
  <2>1. \A j \in (p + 1)..(Len(buffer) - 1) : j < end
    BY <1>1, <1>4, <1>8
  <2>2. ends = {}
    <3>1. ends \subseteq (p + 1)..(Len(buffer) - 1)
      BY DEF EndsAfter
    <3> QED
      BY <1>6, <2>1, <3>1
  <2>3. Len(w) > 0
    BY <1>1, <1>2, <1>3, <1>4, <1>8
  <2>4. w # <<>>
    BY <2>3, EmptySeq
  <2> QED
    BY <1>8, <2>2, <2>4 DEF n
<1> QED
  BY <1>7, <1>8

\* readLine finds the line s, when it is whole, and goes to what follows it.
LEMMA LineIs ==
  ASSUME request \in Seq(Byte), wire \in Seq(Byte), _pos \in Nat, _pos <= _bufferLen,
         NEW s \in Seq(Token), NEW b \in Seq(Byte), Rest = s \o (CRLF \o b)
  PROVE  /\ HasLine => Line = s /\ Left(request, AfterLine, wire) = b
         /\ ~HasLine => wire # <<>>
<1> DEFINE n == Len(s)
<1>1. LineEnds = EndsAfter(request, _pos)
  BY DEF LineEnds, EndsAfter, _bufferLen
<1>2. Left(request, _pos, wire) = s \o (CRLF \o b) /\ _pos <= Len(request)
  BY DEF Rest, _bufferLen
<1>3. /\ _pos + n + 2 <= Len(request) => HasLine /\ Min(LineEnds) = _pos + n + 1
      /\ ~(_pos + n + 2 <= Len(request)) => ~HasLine /\ wire # <<>>
  BY <1>1, <1>2, FirstLineEnd DEF HasLine
<1>4. s \in Seq(Byte) /\ n \in Nat /\ Len(request) \in Nat
  BY TokenText, LenProperties
<1>5. CRLF \in Seq(Byte) /\ Len(CRLF) = 2 /\ CRLF \o b \in Seq(Byte)
  BY CRLFTyped, Joined
<1> HIDE DEF n
<1>6. ASSUME HasLine PROVE Line = s /\ Left(request, AfterLine, wire) = b
  <2>1. /\ _pos + n + 2 <= Len(request) /\ Min(LineEnds) = _pos + n + 1
    BY <1>3, <1>6
  <2>2. Min(LineEnds) - 1 = _pos + n /\ AfterLine = _pos + (n + 2) /\ _pos + n <= Len(request)
    BY <1>4, <2>1 DEF AfterLine
  <2>3. Line = s
    <3>1. SubSeq(request, _pos + 1, _pos + n) = s
      BY <1>2, <1>4, <1>5, <2>2, Advance DEF n
    <3> QED
      BY <2>2, <3>1 DEF Line
  <2>4. s \o CRLF \in Seq(Byte) /\ Len(s \o CRLF) = n + 2
    <3>1. s \o CRLF \in Seq(Byte) /\ Len(s \o CRLF) = Len(s) + Len(CRLF)
      BY <1>4, <1>5, Joined
    <3> QED
      BY <1>5, <3>1 DEF n
  <2>5. (s \o CRLF) \o b = s \o (CRLF \o b)
    BY <1>4, <1>5, Associative
  <2>6. _pos + Len(s \o CRLF) <= Len(request)
    BY <1>4, <2>1, <2>4
  <2>7. Left(request, _pos + Len(s \o CRLF), wire) = b
    <3> DEFINE a == s \o CRLF
    <3>1. a \in Seq(Byte) /\ Left(request, _pos, wire) = a \o b /\ _pos + Len(a) <= Len(request)
      BY <1>2, <2>4, <2>5, <2>6
    <3> HIDE DEF a
    <3>2. Left(request, _pos + Len(a), wire) = b
      BY <3>1, Advance
    <3> QED
      BY <3>2 DEF a
  <2> QED
    BY <2>2, <2>3, <2>4, <2>7
<1> QED
  BY <1>3, <1>6

\* The CR LF after a chunk's data, when it is whole, is two bytes.
LEMMA ChunkEndIs ==
  ASSUME request \in Seq(Byte), wire \in Seq(Byte), NEW p \in Nat, p <= _bufferLen,
         NEW b \in Seq(Byte), Left(request, p, wire) = CRLF \o b, EndOfChunk(p) # 0
  PROVE  Left(request, EndOfChunk(p), wire) = b
<1> DEFINE ends == EndsAfter(request, p)
<1>1. EndOfChunk(p) = IF ends = {} THEN 0 ELSE Min(ends) + 1
  BY DEF EndOfChunk, EndsAfter, _bufferLen
<1>2. <<>> \in Seq(Token) /\ Len(<<>>) = 0 /\ Len(request) \in Nat /\ p <= Len(request)
  BY EmptySeq, LenProperties DEF _bufferLen
<1>3. CRLF \in Seq(Byte) /\ Len(CRLF) = 2 /\ CRLF \o b \in Seq(Byte)
  BY CRLFTyped, Joined
<1>4. Left(request, p, wire) = <<>> \o (CRLF \o b)
  BY <1>3, ConcatEmptySeq
<1>5. /\ p + Len(<<>>) + 2 <= Len(request) => ends # {} /\ Min(ends) = p + Len(<<>>) + 1
      /\ ~(p + Len(<<>>) + 2 <= Len(request)) => ends = {} /\ wire # <<>>
  BY <1>2, <1>4, FirstLineEnd
<1> HIDE DEF ends
<1>6. p + 0 + 2 = p + 2 /\ p + 0 + 1 = p + 1
  OBVIOUS
<1>7. p + 2 <= Len(request) /\ Min(ends) = p + 1 /\ ends # {}
  BY <1>1, <1>2, <1>5, <1>6
<1>8. EndOfChunk(p) = p + Len(CRLF)
  BY <1>1, <1>3, <1>7
<1>9. Left(request, p + Len(CRLF), wire) = b
  BY <1>3, <1>7, Advance
<1> QED
  BY <1>8, <1>9

----------------------------------------------------------------------------
(* What a request is made of.                                              *)

LEMMA FunctionSeq ==
  ASSUME NEW S, NEW n \in Nat, NEW f \in [1..n -> S]
  PROVE  f \in Seq(S) /\ Len(f) = n
<1>1. f \in Seq(S)
  BY SeqDef
<1>2. DOMAIN f = 1..Len(f) /\ Len(f) \in Nat /\ DOMAIN f = 1..n
  BY <1>1, LenProperties
<1>3. Len(f) = n
  <2>1. n \in 1..n \/ n = 0
    OBVIOUS
  <2>2. Len(f) \in 1..Len(f) \/ Len(f) = 0
    BY <1>2
  <2> QED
    BY <1>2, <2>1, <2>2
<1> QED
  BY <1>1, <1>3

LEMMA Parts ==
  ASSUME NEW q, WellFormed(q)
  PROVE  /\ q.line \in Token /\ q.fields \in Seq(Token) /\ q.data \in Seq(Byte) /\ q.last \in Token
         /\ Len(q.fields) \in Nat /\ \A i \in 1..Len(q.fields) : q.fields[i] \in Token
         /\ Len(q.chunks) \in Nat
         /\ \A i \in 1..Len(q.chunks) : /\ q.chunks[i].size \in Token
                                        /\ q.chunks[i].data \in Seq(Byte)
<1> DEFINE C == [size : Token, data : Seq(Byte)]
<1>1. q \in [line : Token, fields : Seq(Token), data : Seq(Byte), chunks : Seq(C), last : Token]
  BY DEF WellFormed, Meaning
<1> HIDE DEF C
<1>2. /\ q.line \in Token /\ q.fields \in Seq(Token) /\ q.data \in Seq(Byte) /\ q.last \in Token
      /\ q.chunks \in Seq(C)
  BY <1>1
<1>3. Len(q.fields) \in Nat /\ \A i \in 1..Len(q.fields) : q.fields[i] \in Token
  BY <1>2, LenProperties, ElementOfSeq
<1>4. Len(q.chunks) \in Nat /\ \A i \in 1..Len(q.chunks) : q.chunks[i] \in C
  BY <1>2, LenProperties, ElementOfSeq
<1>5. \A i \in 1..Len(q.chunks) : q.chunks[i].size \in Token /\ q.chunks[i].data \in Seq(Byte)
  BY <1>4 DEF C
<1> QED
  BY <1>2, <1>3, <1>4, <1>5

LEMMA OneToken ==
  ASSUME NEW t \in Token
  PROVE  /\ <<t>> \in Seq(Token) /\ <<t>> \in Seq(Byte) /\ Len(<<t>>) = 1 /\ <<t>>[1] = t
         /\ t \in Byte /\ <<t>> # <<>>
BY DEF Token

LEMMA LineText ==
  ASSUME NEW t \in Token, NEW b \in Seq(Byte)
  PROVE  /\ <<t>> \o CRLF \in Seq(Byte)
         /\ (<<t>> \o CRLF) \o b = <<t>> \o (CRLF \o b)
         /\ CRLF \o b \in Seq(Byte) /\ <<t>> \o (CRLF \o b) \in Seq(Byte)
<1>1. <<t>> \in Seq(Byte) /\ CRLF \in Seq(Byte)
  BY OneToken, CRLFTyped
<1>2. CRLF \o b \in Seq(Byte) /\ <<t>> \o CRLF \in Seq(Byte)
  BY <1>1, Joined
<1>3. <<t>> \o (CRLF \o b) \in Seq(Byte)
  BY <1>1, <1>2, Joined
<1> QED
  BY <1>1, <1>2, <1>3, Associative

\* A chunked body from the place after its k-th chunk.
LEMMA ChunksFromIs ==
  ASSUME NEW q, WellFormed(q)
  PROVE  /\ \A k \in 0..Len(q.chunks) : ChunksFrom(q, k) \in Seq(Byte)
         /\ ChunksFrom(q, Len(q.chunks)) = <<q.last>> \o (CRLF \o CRLF)
         /\ \A k \in 0..(Len(q.chunks) - 1) :
              ChunksFrom(q, k) = <<q.chunks[k + 1].size>> \o
                (CRLF \o (q.chunks[k + 1].data \o (CRLF \o ChunksFrom(q, k + 1))))
<1> DEFINE n == Len(q.chunks)
           T == ChunkTexts(q)
           F == Following(T)
           tail == (<<q.last>> \o CRLF) \o CRLF
<1>1. /\ n \in Nat /\ q.last \in Token
      /\ \A i \in 1..n : q.chunks[i].size \in Token /\ q.chunks[i].data \in Seq(Byte)
  BY Parts
<1>2. CRLF \in Seq(Byte) /\ Len(CRLF) = 2
  BY CRLFTyped
<1>3. tail \in Seq(Byte) /\ tail = <<q.last>> \o (CRLF \o CRLF)
  BY <1>1, <1>2, LineText
<1>4. T = [i \in 1..n |-> ((<<q.chunks[i].size>> \o CRLF) \o q.chunks[i].data) \o CRLF]
  BY DEF ChunkTexts
<1>5. T \in Seq(Seq(Byte)) /\ Len(T) = n
  <2>1. ASSUME NEW i \in 1..n
        PROVE  ((<<q.chunks[i].size>> \o CRLF) \o q.chunks[i].data) \o CRLF \in Seq(Byte)
    <3>1. q.chunks[i].size \in Token /\ q.chunks[i].data \in Seq(Byte)
      BY <1>1
    <3>2. <<q.chunks[i].size>> \o CRLF \in Seq(Byte)
      BY <1>2, <3>1, LineText
    <3>3. (<<q.chunks[i].size>> \o CRLF) \o q.chunks[i].data \in Seq(Byte)
      BY <3>1, <3>2, Joined
    <3> QED
      BY <1>2, <3>3, Joined
  <2>2. T \in [1..n -> Seq(Byte)]
    BY <1>4, <2>1
  <2> HIDE DEF T, n
  <2> QED
    BY <1>1, <2>2, FunctionSeq
<1> HIDE DEF T, n
<1>6. /\ F[n] = <<>> /\ \A k \in 0..n : F[k] \in Seq(Byte)
      /\ \A k \in 0..(n - 1) : F[k] = T[k + 1] \o F[k + 1]
  BY <1>5, FollowingIs
<1>7. \A k \in 0..n : ChunksFrom(q, k) = ((F[k] \o <<q.last>>) \o CRLF) \o CRLF
  BY DEF ChunksFrom, T
<1> HIDE DEF F
<1>8. ASSUME NEW k \in 0..n PROVE ChunksFrom(q, k) = F[k] \o tail
  <2>1. F[k] \in Seq(Byte) /\ <<q.last>> \in Seq(Byte)
    BY <1>1, <1>6, OneToken
  <2>2. (F[k] \o <<q.last>>) \o CRLF = F[k] \o (<<q.last>> \o CRLF)
    BY <1>2, <2>1, Associative
  <2>3. <<q.last>> \o CRLF \in Seq(Byte)
    BY <1>2, <2>1, Joined
  <2>4. (F[k] \o (<<q.last>> \o CRLF)) \o CRLF = F[k] \o tail
    BY <1>2, <2>1, <2>3, Associative
  <2> QED
    BY <1>7, <2>2, <2>4
<1> HIDE DEF tail
<1>9. \A k \in 0..n : ChunksFrom(q, k) \in Seq(Byte)
  BY <1>3, <1>6, <1>8, Joined
<1>10. ChunksFrom(q, n) = tail
  <2>1. n \in 0..n
    BY <1>1
  <2>2. ChunksFrom(q, n) = <<>> \o tail
    BY <1>6, <1>8, <2>1
  <2> QED
    BY <1>3, <2>2, ConcatEmptySeq
<1>11. ASSUME NEW k \in 0..(n - 1)
       PROVE  ChunksFrom(q, k) = <<q.chunks[k + 1].size>> \o
                (CRLF \o (q.chunks[k + 1].data \o (CRLF \o ChunksFrom(q, k + 1))))
  <2> DEFINE t == q.chunks[k + 1].size
             d == q.chunks[k + 1].data
             b == ChunksFrom(q, k + 1)
             f == F[k + 1]
  <2>1. k \in 0..n /\ k + 1 \in 0..n /\ k + 1 \in 1..n
    BY <1>1
  <2>2. t \in Token /\ d \in Seq(Byte) /\ b \in Seq(Byte) /\ f \in Seq(Byte)
    BY <1>1, <1>6, <1>9, <2>1
  <2>3. F[k] = (((<<t>> \o CRLF) \o d) \o CRLF) \o f /\ b = f \o tail
        /\ ChunksFrom(q, k) = F[k] \o tail
    BY <1>4, <1>6, <1>8, <2>1
  <2> HIDE DEF t, d, b, f
  <2>4. <<t>> \o CRLF \in Seq(Byte) /\ (<<t>> \o CRLF) \o d \in Seq(Byte)
        /\ ((<<t>> \o CRLF) \o d) \o CRLF \in Seq(Byte)
    BY <1>2, <2>2, LineText, Joined
  <2>5. ChunksFrom(q, k) = (((<<t>> \o CRLF) \o d) \o CRLF) \o b
    <3> DEFINE h == ((<<t>> \o CRLF) \o d) \o CRLF
    <3>1. h \in Seq(Byte) /\ f \in Seq(Byte) /\ tail \in Seq(Byte) /\ F[k] = h \o f
      BY <1>3, <2>2, <2>3, <2>4
    <3> HIDE DEF h
    <3>2. (h \o f) \o tail = h \o (f \o tail)
      BY <3>1, Associative
    <3>3. ChunksFrom(q, k) = h \o b
      BY <2>3, <3>1, <3>2
    <3> QED
      BY <3>3 DEF h
  <2>6. (((<<t>> \o CRLF) \o d) \o CRLF) \o b = ((<<t>> \o CRLF) \o d) \o (CRLF \o b)
    <3> DEFINE h == (<<t>> \o CRLF) \o d
    <3>1. h \in Seq(Byte)
      BY <2>4
    <3> HIDE DEF h
    <3>2. (h \o CRLF) \o b = h \o (CRLF \o b)
      BY <1>2, <2>2, <3>1, Associative
    <3> QED
      BY <3>2 DEF h
  <2>7. CRLF \o b \in Seq(Byte) /\ d \o (CRLF \o b) \in Seq(Byte)
    BY <1>2, <2>2, Joined
  <2>8. ((<<t>> \o CRLF) \o d) \o (CRLF \o b) = (<<t>> \o CRLF) \o (d \o (CRLF \o b))
    <3> DEFINE h == <<t>> \o CRLF
               e == CRLF \o b
    <3>1. h \in Seq(Byte) /\ e \in Seq(Byte)
      BY <2>4, <2>7
    <3> HIDE DEF h, e
    <3>2. (h \o d) \o e = h \o (d \o e)
      BY <2>2, <3>1, Associative
    <3> QED
      BY <3>2 DEF h, e
  <2>9. (<<t>> \o CRLF) \o (d \o (CRLF \o b)) = <<t>> \o (CRLF \o (d \o (CRLF \o b)))
    BY <2>2, <2>7, LineText
  <2>10. ChunksFrom(q, k) = <<t>> \o (CRLF \o (d \o (CRLF \o b)))
    BY <2>5, <2>6, <2>8, <2>9
  <2> QED
    BY <2>10 DEF t, d, b
<1> QED
  BY <1>3, <1>9, <1>10, <1>11 DEF n

LEMMA FieldsFromIs ==
  ASSUME NEW q, WellFormed(q)
  PROVE  /\ BodyText(q) \in Seq(Byte) /\ \A k \in 0..Len(q.fields) : FieldsFrom(q, k) \in Seq(Byte)
         /\ FieldsFrom(q, Len(q.fields)) = CRLF \o BodyText(q)
         /\ \A k \in 0..(Len(q.fields) - 1) :
              FieldsFrom(q, k) = <<q.fields[k + 1]>> \o (CRLF \o FieldsFrom(q, k + 1))
<1> DEFINE n == Len(q.fields)
           T == FieldLines(q)
           F == Following(T)
           tail == CRLF \o BodyText(q)
<1>1. n \in Nat /\ \A i \in 1..n : q.fields[i] \in Token
  BY Parts
<1>2. CRLF \in Seq(Byte) /\ Len(CRLF) = 2
  BY CRLFTyped
<1>3. BodyText(q) \in Seq(Byte)
  <2>1. q.data \in Seq(Byte) /\ 0 \in 0..Len(q.chunks)
    BY Parts
  <2>2. ChunksFrom(q, 0) \in Seq(Byte)
    BY <2>1, ChunksFromIs
  <2> QED
    BY <2>1, <2>2 DEF BodyText
<1>4. tail \in Seq(Byte)
  BY <1>2, <1>3, Joined
<1>5. T \in Seq(Seq(Byte)) /\ Len(T) = n /\ \A i \in 1..n : T[i] = <<q.fields[i]>> \o CRLF
  <2>1. \A i \in 1..n : <<q.fields[i]>> \o CRLF \in Seq(Byte)
    BY <1>1, <1>2, LineText
  <2>2. T \in [1..n -> Seq(Byte)] /\ \A i \in 1..n : T[i] = <<q.fields[i]>> \o CRLF
    BY <2>1 DEF FieldLines
  <2> HIDE DEF T, n
  <2> QED
    BY <1>1, <2>2, FunctionSeq
<1> HIDE DEF T, n
<1>6. /\ F[n] = <<>> /\ \A k \in 0..n : F[k] \in Seq(Byte)
      /\ \A k \in 0..(n - 1) : F[k] = T[k + 1] \o F[k + 1]
  BY <1>5, FollowingIs
<1>7. \A k \in 0..n : FieldsFrom(q, k) = (F[k] \o CRLF) \o BodyText(q)
  BY DEF FieldsFrom, T
<1> HIDE DEF F
<1>8. \A k \in 0..n : FieldsFrom(q, k) = F[k] \o tail
  BY <1>2, <1>3, <1>6, <1>7, Associative
<1> HIDE DEF tail
<1>9. \A k \in 0..n : FieldsFrom(q, k) \in Seq(Byte)
  BY <1>4, <1>6, <1>8, Joined
<1>10. FieldsFrom(q, n) = tail
  <2>1. n \in 0..n
    BY <1>1
  <2>2. FieldsFrom(q, n) = <<>> \o tail
    BY <1>6, <1>8, <2>1
  <2> QED
    BY <1>4, <2>2, ConcatEmptySeq
<1>11. ASSUME NEW k \in 0..(n - 1)
       PROVE  FieldsFrom(q, k) = <<q.fields[k + 1]>> \o (CRLF \o FieldsFrom(q, k + 1))
  <2> DEFINE t == q.fields[k + 1]
             b == FieldsFrom(q, k + 1)
             f == F[k + 1]
  <2>1. k \in 0..n /\ k + 1 \in 0..n /\ k + 1 \in 1..n
    BY <1>1
  <2>2. t \in Token /\ b \in Seq(Byte) /\ f \in Seq(Byte)
    BY <1>1, <1>6, <1>9, <2>1
  <2>3. F[k] = (<<t>> \o CRLF) \o f /\ b = f \o tail /\ FieldsFrom(q, k) = F[k] \o tail
    BY <1>5, <1>6, <1>8, <2>1
  <2> HIDE DEF t, b, f
  <2>4. <<t>> \o CRLF \in Seq(Byte)
    BY <2>2, LineText
  <2>5. FieldsFrom(q, k) = (<<t>> \o CRLF) \o b
    <3> DEFINE h == <<t>> \o CRLF
    <3>1. h \in Seq(Byte) /\ f \in Seq(Byte) /\ tail \in Seq(Byte) /\ F[k] = h \o f
      BY <1>4, <2>2, <2>3, <2>4
    <3> HIDE DEF h
    <3>2. (h \o f) \o tail = h \o (f \o tail)
      BY <3>1, Associative
    <3>3. FieldsFrom(q, k) = h \o b
      BY <2>3, <3>1, <3>2
    <3> QED
      BY <3>3 DEF h
  <2>6. FieldsFrom(q, k) = <<t>> \o (CRLF \o b)
    BY <2>2, <2>5, LineText
  <2> QED
    BY <2>6 DEF t, b
<1> QED
  BY <1>3, <1>9, <1>10, <1>11 DEF n, tail

LEMMA BytesIs ==
  ASSUME NEW q, WellFormed(q)
  PROVE  Bytes(q) = <<q.line>> \o (CRLF \o FieldsFrom(q, 0)) /\ FieldsFrom(q, 0) \in Seq(Byte)
<1>1. q.line \in Token /\ 0 \in 0..Len(q.fields)
  BY Parts
<1>2. FieldsFrom(q, 0) \in Seq(Byte)
  BY <1>1, FieldsFromIs
<1> QED
  BY <1>1, <1>2, LineText DEF Bytes

\* The data from the place after the k-th chunk.
DataFrom(q, k) == Following(ChunksData(q))[k]

LEMMA DataFromIs ==
  ASSUME NEW q, WellFormed(q)
  PROVE  /\ \A k \in 0..Len(q.chunks) : DataFrom(q, k) \in Seq(Byte)
         /\ DataFrom(q, Len(q.chunks)) = <<>>
         /\ \A k \in 0..(Len(q.chunks) - 1) : DataFrom(q, k) = q.chunks[k + 1].data \o DataFrom(q, k + 1)
         /\ Payload(q) \in Seq(Byte)
<1> DEFINE n == Len(q.chunks)
           T == ChunksData(q)
<1>1. n \in Nat /\ \A i \in 1..n : q.chunks[i].data \in Seq(Byte)
  BY Parts
<1>2. T \in [1..n -> Seq(Byte)] /\ \A i \in 1..n : T[i] = q.chunks[i].data
  BY <1>1 DEF ChunksData
<1>3. DataFrom(q, 0) = Following(T)[0] /\ \A k \in 0..n : DataFrom(q, k) = Following(T)[k]
  BY DEF DataFrom
<1>4. Payload(q) = q.data \/ Payload(q) = DataFrom(q, 0)
  BY DEF Payload, DataFrom
<1> HIDE DEF T, n
<1>5. T \in Seq(Seq(Byte)) /\ Len(T) = n
  BY <1>1, <1>2, FunctionSeq
<1>6. /\ Following(T)[n] = <<>> /\ \A k \in 0..n : Following(T)[k] \in Seq(Byte)
      /\ \A k \in 0..(n - 1) : Following(T)[k] = T[k + 1] \o Following(T)[k + 1]
  BY <1>5, FollowingIs
<1>7. \A k \in 0..n : DataFrom(q, k) \in Seq(Byte)
  BY <1>3, <1>6
<1>8. DataFrom(q, n) = <<>>
  BY <1>1, <1>3, <1>6
<1>9. ASSUME NEW k \in 0..(n - 1) PROVE DataFrom(q, k) = q.chunks[k + 1].data \o DataFrom(q, k + 1)
  <2>1. k \in 0..n /\ k + 1 \in 0..n /\ k + 1 \in 1..n
    BY <1>1
  <2> QED
    BY <1>2, <1>3, <1>6, <2>1
<1>10. q.data \in Seq(Byte) /\ 0 \in 0..n
  BY <1>1, Parts
<1> QED
  BY <1>4, <1>7, <1>8, <1>9, <1>10 DEF n

----------------------------------------------------------------------------
(* The invariant of the stream.                                            *)

\* Between two requests nothing is left anywhere.
Idle ==
  /\ pc = "recv" /\ state = "REQUESTLINE" /\ headers = {}
  /\ wire = <<>> /\ request = <<>> /\ _pos = 0

\* Of a request q the request line, and the first k header lines, have been read.
LineRead(q) == q.line \in DOMAIN RequestLines /\ line = RequestLines[q.line]
FieldsRead(q, k) ==
  headers = {<<q.fields[i]>> : i \in 1..k} /\ \A i \in 1..k : q.fields[i] # "bad"
HeadersRead(q) ==
  /\ LineRead(q) /\ FieldsRead(q, Len(q.fields)) /\ FaultOfFields(q) = 0
  /\ isChunked <=> Field(q, "chunked")

\* The first k chunks have been read, or all before the k-th and some of that one.
BetweenChunks(q, k) ==
  /\ _currentChunkSize = NoChunk /\ Rest = ChunksFrom(q, k)
  /\ body \o DataFrom(q, k) = Payload(q)
DataLeft(q, k) == SubSeq(q.chunks[k].data, _currentChunkBytesRead + 1, Len(q.chunks[k].data))
InChunk(q, k) ==
  /\ _currentChunkSize = Len(q.chunks[k].data)
  /\ Rest = DataLeft(q, k) \o (CRLF \o ChunksFrom(q, k))
  /\ body \o (DataLeft(q, k) \o DataFrom(q, k)) = Payload(q)

\* What is left of the stream is what the parser has not read of the request.
AtRequestLine(q) == Rest = Bytes(q) /\ headers = {}
AtHeaders(q) ==
  LineRead(q) /\ \E k \in 0..Len(q.fields) : Rest = FieldsFrom(q, k) /\ FieldsRead(q, k)
AtChunks(q) ==
  \/ \E k \in 0..Len(q.chunks) : BetweenChunks(q, k)
  \/ \E k \in 1..Len(q.chunks) : InChunk(q, k)
AtBody(q) == HeadersRead(q) /\ IF isChunked THEN AtChunks(q) ELSE Rest = q.data
Progress(q) ==
  /\ state = "REQUESTLINE" => AtRequestLine(q)
  /\ state = "HEADERS" => AtHeaders(q)
  /\ state = "BODY" => AtBody(q)

Answered ==
  \/ statusCode = current.status /\ (statusCode < 400 => body = current.payload)
  \/ UploadsFail /\ statusCode = 500

StreamInv ==
  synced =>
    /\ answered => Idle
    /\ ~answered => /\ current \in Requests /\ IsPrefixOf(body, current.payload)
                    /\ pc = "answer" => Answered
                    /\ pc # "answer" => Progress(current.meant) /\ NeedsMoreDataOrChunkEnd

\* A request that is being read.
Reading == RequestInv /\ StreamInv /\ synced /\ answered = FALSE /\ pc # "answer"

LEMMA Known ==
  ASSUME Reading
  PROVE  /\ WellFormed(current.meant) /\ current \in Requests
         /\ current.payload = Payload(current.meant) /\ current.status = Outcome(current.meant)
         /\ IsPrefixOf(body, current.payload) /\ Progress(current.meant)
         /\ request \in Seq(Byte) /\ wire \in Seq(Byte) /\ _pos \in Nat /\ _pos <= _bufferLen
         /\ body \in Seq(Byte) /\ _bufferLen \in Nat
<1>1. /\ current \in Requests /\ IsPrefixOf(body, current.payload) /\ Progress(current.meant)
  BY DEF Reading, StreamInv
<1>2. WellFormed(current.meant) /\ current = RequestOf(current.meant)
  BY <1>1, GrammarAssumption
<1> DEFINE q == current.meant
<1>3. current = RequestOf(q)
  BY <1>2
<1> HIDE DEF q
<1>4. current.payload = Payload(q) /\ current.status = Outcome(q)
  BY <1>3 DEF RequestOf
<1>5. /\ request \in Seq(Byte) /\ wire \in Seq(Byte) /\ _pos \in Nat /\ _pos <= _bufferLen
      /\ body \in Seq(Byte)
  BY DEF Reading, RequestInv, CursorInBuffer, TypeOK
<1>6. _bufferLen \in Nat
  BY <1>5, LenProperties DEF _bufferLen
<1> QED
  BY <1>1, <1>2, <1>4, <1>5, <1>6 DEF q

\* How a step may end: with an answer, ...
LEMMA StreamAnswered ==
  ASSUME Reading, UNCHANGED <<current, answered, synced>>, pc' = "answer",
         IsPrefixOf(body', current.payload),
         \/ statusCode' = current.status /\ (statusCode' < 400 => body' = current.payload)
         \/ UploadsFail /\ statusCode' = 500
  PROVE  StreamInv'
<1>1. current' = current /\ answered' = FALSE /\ synced' = synced /\ current \in Requests
  BY Known DEF Reading
<1>2. Answered' /\ IsPrefixOf(body', current'.payload)
  BY <1>1 DEF Answered
<1> QED
  BY <1>1, <1>2 DEF StreamInv

\* ... with an error that keeps the body, ...
LEMMA StreamFailed ==
  ASSUME Reading, NEW code \in Nat, Fail(code), body' = body, code >= 400,
         code = Outcome(current.meant) \/ (UploadsFail /\ code = 500)
  PROVE  StreamInv'
<1>1. /\ UNCHANGED <<current, answered, synced>> /\ pc' = "answer" /\ statusCode' = code
      /\ ~(statusCode' < 400)
  BY DEF Fail, network
<1>2. IsPrefixOf(body', current.payload) /\ current.status = Outcome(current.meant)
  BY Known
<1> QED
  BY <1>1, <1>2, StreamAnswered

\* ... waiting for more, ...
LEMMA StreamWaits ==
  ASSUME Reading, Incomplete,
         wire = <<>> => _currentChunkSize > 0 /\ _currentChunkBytesRead = _currentChunkSize
  PROVE  StreamInv'
<1> USE DEF Incomplete, network, chunk
<1>1. current' = current /\ answered' = FALSE /\ synced' = synced /\ pc' = "recv"
  BY DEF Reading
<1>q. PICK q : q = current.meant
  OBVIOUS
<1>2. Progress(q) /\ current \in Requests /\ IsPrefixOf(body', current.payload)
  BY <1>q, Known
<1>3. Rest' = Rest
  BY DEF Rest, Left
<1>4. HeadersRead(q)' = HeadersRead(q) /\ AtHeaders(q)' = AtHeaders(q)
  BY <1>3 DEF HeadersRead, AtHeaders, LineRead, FieldsRead
<1>5. AtChunks(q)' = AtChunks(q) /\ AtRequestLine(q)' = AtRequestLine(q)
  BY <1>3 DEF AtChunks, BetweenChunks, InChunk, DataLeft, AtRequestLine
<1>6. Progress(q)'
  BY <1>2, <1>3, <1>4, <1>5 DEF Progress, AtBody
<1>7. NeedsMoreDataOrChunkEnd'
  BY DEF NeedsMoreDataOrChunkEnd
<1> QED
  BY <1>1, <1>2, <1>6, <1>7, <1>q DEF StreamInv

\* ... or ready to go on.
LEMMA StreamGoesOn ==
  ASSUME Reading, UNCHANGED <<current, answered, synced>>, pc' # "answer",
         pc' = "recv" => _currentChunkSize' > 0 /\ _currentChunkBytesRead' = _currentChunkSize',
         IsPrefixOf(body', current.payload), NEW q, q = current.meant, Progress(q)'
  PROVE  StreamInv'
<1>1. current' = current /\ answered' = FALSE /\ synced' = synced /\ current \in Requests
  BY Known DEF Reading
<1>2. NeedsMoreDataOrChunkEnd' /\ IsPrefixOf(body', current'.payload)
  BY <1>1 DEF NeedsMoreDataOrChunkEnd
<1> QED
  BY <1>1, <1>2 DEF StreamInv

----------------------------------------------------------------------------
(* The request line and the headers of a request.                          *)

LEMMA RequestLineStream ==
  ASSUME Reading, ParseRequestLine
  PROVE  StreamInv'
<1>q. PICK q : q = current.meant
  OBVIOUS
<1>1. pc = "parse" /\ state = "REQUESTLINE"
  BY DEF ParseRequestLine
<1>2. /\ WellFormed(q) /\ Progress(q) /\ IsPrefixOf(body, current.payload)
      /\ request \in Seq(Byte) /\ wire \in Seq(Byte) /\ _pos \in Nat /\ _pos <= _bufferLen
  BY <1>q, Known
<1>3. Rest = Bytes(q) /\ headers = {}
  BY <1>1, <1>2 DEF Progress, AtRequestLine
<1> DEFINE s == <<q.line>>
           b == FieldsFrom(q, 0)
<1>4. Bytes(q) = s \o (CRLF \o b) /\ b \in Seq(Byte) /\ q.line \in Token
  BY <1>2, BytesIs, Parts
<1>5. s \in Seq(Token) /\ s # <<>> /\ Len(s) = 1 /\ s[1] = q.line
  BY <1>4, OneToken
<1> HIDE DEF s, b
<1>6. /\ HasLine => Line = s /\ Left(request, AfterLine, wire) = b
      /\ ~HasLine => wire # <<>>
  BY <1>2, <1>3, <1>4, <1>5, LineIs
<1>7. CASE WaitForRequestLine
  BY <1>6, <1>7, StreamWaits DEF WaitForRequestLine
<1>8. CASE SkipEmptyLine
  BY <1>5, <1>6, <1>8 DEF SkipEmptyLine
<1>9. CASE RejectRequestLine
  <2>1. Fail(400) /\ body' = body /\ q.line \notin DOMAIN RequestLines
    BY <1>5, <1>6, <1>9 DEF RejectRequestLine, IsRequestLine
  <2>2. Outcome(q) = 400
    BY <2>1 DEF Outcome
  <2> QED
    BY <1>q, <2>1, <2>2, StreamFailed
<1>10. CASE AcceptRequestLine
  <2>1. q.line \in DOMAIN RequestLines /\ HasLine /\ Line = s
    BY <1>5, <1>6, <1>10 DEF AcceptRequestLine, IsRequestLine
  <2>2. RequestLines[q.line].routed
    BY <1>2, <2>1 DEF WellFormed
  <2>3. /\ line' = RequestLines[q.line] /\ _pos' = AfterLine /\ state' = "HEADERS"
        /\ request' = request /\ wire' = wire /\ headers' = {} /\ pc' = "parse" /\ body' = body
        /\ UNCHANGED <<current, answered, synced>>
    BY <1>1, <1>3, <1>5, <1>10, <2>1, <2>2 DEF AcceptRequestLine, network
  <2>4. Rest' = FieldsFrom(q, 0)
    BY <1>6, <2>1, <2>3 DEF Rest, b
  <2>5. FieldsRead(q, 0)' /\ 0 \in 0..Len(q.fields) /\ LineRead(q)'
    <3>1. Len(q.fields) \in Nat
      BY <1>2, Parts
    <3>2. 0 \in 0..Len(q.fields)
      BY <3>1
    <3>3. FieldsRead(q, 0)'
      BY <2>3 DEF FieldsRead
    <3>4. LineRead(q)'
      BY <2>1, <2>3 DEF LineRead
    <3> QED
      BY <3>2, <3>3, <3>4
  <2>6. Progress(q)'
    BY <2>3, <2>4, <2>5 DEF Progress, AtHeaders
  <2>7. IsPrefixOf(body', current.payload) /\ pc' \notin {"answer", "recv"}
    BY <1>2, <2>3
  <2> QED
    BY <1>q, <2>3, <2>6, <2>7, StreamGoesOn
<1> QED
  BY <1>7, <1>8, <1>9, <1>10 DEF ParseRequestLine

\* A header line that was read is a field of the request.
LEMMA FieldsHave ==
  ASSUME NEW q, NEW k \in Nat, FieldsRead(q, k), NEW h
  PROVE  Has(h) <=> \E i \in 1..k : q.fields[i] = h
<1>1. headers = {<<q.fields[i]>> : i \in 1..k}
  BY DEF FieldsRead
<1>2. ASSUME Has(h) PROVE \E i \in 1..k : q.fields[i] = h
  <2>1. PICK i \in 1..k : <<h>> = <<q.fields[i]>>
    BY <1>1, <1>2 DEF Has
  <2> QED
    BY <2>1
<1>3. ASSUME NEW i \in 1..k, q.fields[i] = h PROVE Has(h)
  BY <1>1, <1>3 DEF Has
<1> QED
  BY <1>2, <1>3

\* The headers' verdict is the request's.
LEMMA HeadersVerdict ==
  ASSUME NEW q, WellFormed(q), LineRead(q), FieldsRead(q, Len(q.fields))
  PROVE  /\ HeadersFault = FaultOfFields(q) /\ HeadersFault \in {0, 400, 501}
         /\ \A h : Has(h) <=> Field(q, h)
         /\ HasLength <=> Lengths(q) # {}
         /\ ~Field(q, "bad")
<1>1. Len(q.fields) \in Nat
  BY Parts
<1>2. \A h : Has(h) <=> Field(q, h)
  BY <1>1, FieldsHave DEF Field
<1>3. HasLength <=> Lengths(q) # {}
  BY <1>2 DEF HasLength, Lengths
<1>4. ~Field(q, "bad")
  BY DEF FieldsRead, Field
<1>5. line.method = RequestLines[q.line].method
  BY DEF LineRead
<1>6. HeadersFault = FaultOfFields(q)
  BY <1>2, <1>3, <1>4, <1>5 DEF HeadersFault, FaultOfFields
<1> QED
  BY <1>2, <1>3, <1>4, <1>6 DEF HeadersFault

LEMMA HeaderLineStream ==
  ASSUME Reading, pc = "parse", state = "HEADERS", HeaderLine,
         NEW q, q = current.meant, NEW k \in 0..Len(q.fields), LineRead(q), FieldsRead(q, k),
         NEW f, k < Len(q.fields), f = q.fields[k + 1], Line = <<f>>,
         Left(request, AfterLine, wire) = FieldsFrom(q, k + 1)
  PROVE  StreamInv'
<1>1. /\ WellFormed(q) /\ IsPrefixOf(body, current.payload) /\ Len(q.fields) \in Nat
      /\ k \in Nat /\ k + 1 \in 0..Len(q.fields) /\ k + 1 \in 1..Len(q.fields)
  <2>1. WellFormed(q) /\ IsPrefixOf(body, current.payload)
    BY Known
  <2>2. Len(q.fields) \in Nat
    BY <2>1, Parts
  <2> QED
    BY <2>1, <2>2
<1>2. _pos' = AfterLine /\ UNCHANGED <<body, line>>
  BY DEF HeaderLine
<1>3. CASE Line = <<"bad">>
  <2>1. Fail(400)
    BY <1>3 DEF HeaderLine
  <2>2. f = "bad"
    BY <1>3
  <2>3. Field(q, "bad")
    BY <1>1, <2>2 DEF Field
  <2>4. Outcome(q) = 400
    BY <2>3 DEF Outcome, FaultOfFields, LineRead
  <2> QED
    BY <1>2, <2>1, <2>4, StreamFailed
<1>4. CASE Line # <<"bad">>
  <2>1. /\ headers' = headers \cup {<<f>>}
        /\ UNCHANGED <<network, pc, request, state, statusCode, isChunked>>
    BY <1>4 DEF HeaderLine
  <2>2. f # "bad"
    BY <1>4
  <2>3. Rest' = FieldsFrom(q, k + 1)
    BY <1>2, <2>1 DEF Rest, network
  <2>4. FieldsRead(q, k + 1)'
    <3>1. /\ headers = {<<q.fields[i]>> : i \in 1..k} /\ \A i \in 1..k : q.fields[i] # "bad"
      BY DEF FieldsRead
    <3>2. 1..(k + 1) = (1..k) \cup {k + 1}
      BY <1>1
    <3>3. headers' = {<<q.fields[i]>> : i \in 1..(k + 1)}
      BY <2>1, <3>1, <3>2
    <3>4. \A i \in 1..(k + 1) : q.fields[i] # "bad"
      BY <2>2, <3>1, <3>2
    <3> QED
      BY <3>3, <3>4 DEF FieldsRead
  <2>5. LineRead(q)'
    BY <1>2 DEF LineRead
  <2>6. Progress(q)'
    BY <1>1, <2>1, <2>3, <2>4, <2>5 DEF Progress, AtHeaders
  <2>7. UNCHANGED <<current, answered, synced>> /\ pc' = "parse" /\ body' = body
    BY <1>2, <2>1 DEF network
  <2> QED
    BY <1>1, <2>6, <2>7, StreamGoesOn
<1> QED
  BY <1>3, <1>4

LEMMA EndOfHeadersStream ==
  ASSUME Reading, pc = "parse", state = "HEADERS", EndOfHeaders,
         NEW q, q = current.meant, LineRead(q), FieldsRead(q, Len(q.fields)),
         Left(request, AfterLine, wire) = BodyText(q)
  PROVE  StreamInv'
<1>1. /\ WellFormed(q) /\ IsPrefixOf(body, current.payload) /\ current.status = Outcome(q)
  BY Known
<1>2. /\ HeadersFault = FaultOfFields(q) /\ HeadersFault \in {0, 400, 501}
      /\ \A h : Has(h) <=> Field(q, h)
  BY <1>1, HeadersVerdict
<1>3. /\ _pos' = AfterLine /\ isChunked' = (Has("chunked") /\ ~Has("gzip"))
      /\ UNCHANGED <<network, headers, body, line, chunk, fileCreated, upload>>
      /\ HeadersFault # 0 => statusCode' = HeadersFault /\ pc' = "answer"
      /\ HeadersFault = 0 => state' = "BODY" /\ UNCHANGED <<pc, request, statusCode>>
  BY DEF EndOfHeaders
<1>4. CASE HeadersFault # 0
  <2>1. Outcome(q) = HeadersFault
    BY <1>2, <1>4 DEF Outcome, LineRead
  <2>2. ~(statusCode' < 400) /\ statusCode' = current.status /\ pc' = "answer"
    BY <1>1, <1>2, <1>3, <1>4, <2>1
  <2>3. UNCHANGED <<current, answered, synced>> /\ IsPrefixOf(body', current.payload)
    BY <1>1, <1>3 DEF network
  <2> QED
    BY <2>2, <2>3, StreamAnswered
<1>5. CASE HeadersFault = 0
  <2>1. ~Field(q, "gzip")
    BY <1>2, <1>5 DEF HeadersFault
  <2>2. isChunked' <=> Field(q, "chunked")
    BY <1>2, <1>3, <2>1
  <2>3. /\ state' = "BODY" /\ pc' = "parse" /\ request' = request /\ wire' = wire
        /\ line' = line /\ headers' = headers /\ body' = body /\ (isChunked' <=> Field(q, "chunked"))
        /\ _currentChunkSize' = _currentChunkSize /\ UNCHANGED <<current, answered, synced>>
    BY <1>3, <1>5, <2>2 DEF network, chunk
  <2>4. Rest' = BodyText(q)
    BY <1>3, <2>3 DEF Rest
  <2>5. HeadersRead(q)'
    BY <1>2, <1>5, <2>3 DEF HeadersRead, LineRead, FieldsRead
  <2>6. CASE Field(q, "chunked")
    <3>1. body = <<>> /\ _currentChunkSize = NoChunk
      BY DEF Reading, RequestInv, Stored
    <3>2. Rest' = ChunksFrom(q, 0)
      BY <2>4, <2>6 DEF BodyText
    <3>3. DataFrom(q, 0) = Payload(q) /\ Payload(q) \in Seq(Byte) /\ 0 \in 0..Len(q.chunks)
      <4>1. Payload(q) \in Seq(Byte) /\ Len(q.chunks) \in Nat
        BY <1>1, DataFromIs, Parts
      <4>2. DataFrom(q, 0) = Payload(q)
        BY <2>6 DEF Payload, DataFrom
      <4> QED
        BY <4>1, <4>2
    <3>4. body \o DataFrom(q, 0) = Payload(q)
      BY <3>1, <3>3, ConcatEmptySeq
    <3>5. AtChunks(q)'
      BY <2>3, <3>1, <3>2, <3>3, <3>4 DEF AtChunks, BetweenChunks
    <3>6. Progress(q)'
      BY <2>3, <2>5, <2>6, <3>5 DEF Progress, AtBody
    <3> QED
      BY <1>1, <2>3, <3>6, StreamGoesOn
  <2>7. CASE ~Field(q, "chunked")
    <3>1. Rest' = q.data
      BY <2>4, <2>7 DEF BodyText
    <3>2. Progress(q)'
      BY <2>3, <2>5, <2>7, <3>1 DEF Progress, AtBody
    <3> QED
      BY <1>1, <2>3, <3>2, StreamGoesOn
  <2> QED
    BY <2>6, <2>7
<1> QED
  BY <1>4, <1>5

LEMMA HeadersStream ==
  ASSUME Reading, ParseHeaders
  PROVE  StreamInv'
<1>q. PICK q : q = current.meant
  OBVIOUS
<1>1. pc = "parse" /\ state = "HEADERS"
  BY DEF ParseHeaders
<1>2. /\ WellFormed(q) /\ Progress(q)
      /\ request \in Seq(Byte) /\ wire \in Seq(Byte) /\ _pos \in Nat /\ _pos <= _bufferLen
  BY <1>q, Known
<1>3. AtHeaders(q)
  BY <1>1, <1>2 DEF Progress
<1>4. LineRead(q)
  BY <1>3 DEF AtHeaders
<1>5. PICK k \in 0..Len(q.fields) : Rest = FieldsFrom(q, k) /\ FieldsRead(q, k)
  BY <1>3 DEF AtHeaders
<1>6. Len(q.fields) \in Nat /\ \A i \in 1..Len(q.fields) : q.fields[i] \in Token
  BY <1>2, Parts
<1>7. CASE k < Len(q.fields)
  <2>1. PICK f : f = q.fields[k + 1]
    OBVIOUS
  <2> DEFINE s == <<f>>
             b == FieldsFrom(q, k + 1)
  <2>2. /\ k \in 0..(Len(q.fields) - 1) /\ k + 1 \in 1..Len(q.fields) /\ k + 1 \in 0..Len(q.fields)
    BY <1>6, <1>7
  <2>3. f \in Token /\ FieldsFrom(q, k) = s \o (CRLF \o b) /\ b \in Seq(Byte)
    BY <1>2, <1>6, <2>1, <2>2, FieldsFromIs
  <2>4. s \in Seq(Token) /\ s # <<>>
    BY <2>3, OneToken
  <2> HIDE DEF s, b
  <2>5. /\ HasLine => Line = s /\ Left(request, AfterLine, wire) = b
        /\ ~HasLine => wire # <<>>
    BY <1>2, <1>5, <2>3, <2>4, LineIs
  <2>6. CASE WaitForHeader
    BY <2>5, <2>6, StreamWaits DEF WaitForHeader
  <2>7. CASE HeaderLine
    <3>1. Line = <<f>> /\ Left(request, AfterLine, wire) = FieldsFrom(q, k + 1)
      BY <2>5, <2>7 DEF HeaderLine, s, b
    <3> QED
      BY <1>1, <1>4, <1>5, <1>7, <1>q, <2>1, <2>7, <3>1, HeaderLineStream
  <2>8. CASE EndOfHeaders
    BY <2>4, <2>5, <2>8 DEF EndOfHeaders
  <2> QED
    BY <2>6, <2>7, <2>8 DEF ParseHeaders
<1>8. CASE k = Len(q.fields)
  <2> DEFINE b == BodyText(q)
  <2>1. b \in Seq(Byte) /\ Rest = CRLF \o b
    BY <1>2, <1>5, <1>8, FieldsFromIs
  <2> HIDE DEF b
  <2>2. CRLF \o b \in Seq(Byte) /\ <<>> \in Seq(Token)
    BY <2>1, CRLFTyped, Joined, EmptySeq
  <2>3. Rest = <<>> \o (CRLF \o b)
    BY <2>1, <2>2, ConcatEmptySeq
  <2>4. /\ HasLine => Line = <<>> /\ Left(request, AfterLine, wire) = b
        /\ ~HasLine => wire # <<>>
    BY <1>2, <2>1, <2>2, <2>3, LineIs
  <2>5. CASE WaitForHeader
    BY <2>4, <2>5, StreamWaits DEF WaitForHeader
  <2>6. CASE HeaderLine
    BY <2>4, <2>6 DEF HeaderLine
  <2>7. CASE EndOfHeaders
    <3>1. Left(request, AfterLine, wire) = BodyText(q) /\ FieldsRead(q, Len(q.fields))
      BY <1>5, <1>8, <2>4, <2>7 DEF EndOfHeaders, b
    <3> QED
      BY <1>1, <1>4, <1>q, <2>7, <3>1, EndOfHeadersStream
  <2> QED
    BY <2>5, <2>6, <2>7 DEF ParseHeaders
<1> QED
  BY <1>6, <1>7, <1>8

----------------------------------------------------------------------------
(* The body of a request.                                                  *)

LEMMA WholeIsPrefix == ASSUME NEW s \in Seq(Byte) PROVE IsPrefixOf(s, s)
BY SubSeqFull, LenProperties DEF IsPrefixOf

\* The verdict on the body is all that is open.
LEMMA BodyKnown ==
  ASSUME Reading, state = "BODY", NEW q, q = current.meant
  PROVE  /\ WellFormed(q) /\ HeadersRead(q) /\ (isChunked => AtChunks(q)) /\ (~isChunked => Rest = q.data)
         /\ line = RequestLines[q.line] /\ statusCode = line.path
         /\ Outcome(q) = IF FaultOfBody(q) # 0 THEN FaultOfBody(q) ELSE line.path
         /\ (isChunked <=> Field(q, "chunked")) /\ (HasLength <=> Lengths(q) # {})
         /\ (isChunked => ~HasLength)
<1>1. WellFormed(q) /\ Progress(q)
  BY Known
<1>2. HeadersRead(q) /\ (isChunked => AtChunks(q)) /\ (~isChunked => Rest = q.data)
  BY <1>1 DEF Progress, AtBody
<1>3. /\ LineRead(q) /\ FieldsRead(q, Len(q.fields)) /\ FaultOfFields(q) = 0
      /\ (isChunked <=> Field(q, "chunked"))
  BY <1>2 DEF HeadersRead
<1>4. line = RequestLines[q.line] /\ q.line \in DOMAIN RequestLines /\ statusCode = line.path
  BY <1>3 DEF LineRead, Reading, RequestInv, Phases
<1>5. HasLength <=> Lengths(q) # {}
  BY <1>1, <1>3, HeadersVerdict
<1>6. ~(Field(q, "chunked") /\ Lengths(q) # {})
  BY <1>3 DEF FaultOfFields
<1>7. Outcome(q) = IF FaultOfBody(q) # 0 THEN FaultOfBody(q) ELSE line.path
  BY <1>3, <1>4 DEF Outcome
<1> QED
  BY <1>1, <1>2, <1>3, <1>4, <1>5, <1>6, <1>7

LEMMA LengthIs ==
  ASSUME NEW q, WellFormed(q), HeadersRead(q), HasLength
  PROVE  /\ Length \in Nat /\ \A h \in Lengths(q) : ContentLength[h] = Length
         /\ Lengths(q) # {}
<1>1. \A h : Has(h) <=> Field(q, h)
  BY HeadersVerdict DEF HeadersRead
<1>2. PICK c : c = CHOOSE h \in DOMAIN ContentLength : Has(h)
  OBVIOUS
<1>3. c \in DOMAIN ContentLength /\ Has(c) /\ Length = ContentLength[c]
  BY <1>2 DEF HasLength, Length
<1>4. c \in Lengths(q)
  BY <1>1, <1>3 DEF Lengths
<1>5. \A g, h \in Lengths(q) : ContentLength[g] = ContentLength[h]
  BY DEF WellFormed
<1> QED
  BY <1>3, <1>4, <1>5, LengthTyped

LEMMA NoBodyStream ==
  ASSUME Reading, ParseBody, NoBody
  PROVE  StreamInv'
<1>q. PICK q : q = current.meant
  OBVIOUS
<1>1. pc = "parse" /\ state = "BODY" /\ ~HasLength /\ ~isChunked
  BY DEF ParseBody, NoBody
<1>2. /\ WellFormed(q) /\ Lengths(q) = {} /\ ~Field(q, "chunked") /\ statusCode = line.path
      /\ Outcome(q) = IF FaultOfBody(q) # 0 THEN FaultOfBody(q) ELSE line.path
  BY <1>1, <1>q, BodyKnown
<1>3. Outcome(q) = line.path
  BY <1>2 DEF FaultOfBody
<1>4. Payload(q) = <<>>
  BY <1>2 DEF WellFormed, Payload
<1>5. body = <<>>
  BY <1>1 DEF Reading, RequestInv, Stored
<1>6. /\ UNCHANGED <<current, answered, synced>> /\ pc' = "answer"
      /\ statusCode' = statusCode /\ body' = body
  BY DEF NoBody, network
<1>7. /\ IsPrefixOf(body, current.payload) /\ current.payload = Payload(q)
      /\ current.status = Outcome(q)
  BY <1>q, Known
<1> QED
  BY <1>2, <1>3, <1>4, <1>5, <1>6, <1>7, StreamAnswered

LEMMA RejectBodyStream ==
  ASSUME Reading, ParseBody, RejectBody
  PROVE  StreamInv'
<1>q. PICK q : q = current.meant
  OBVIOUS
<1>1. /\ pc = "parse" /\ state = "BODY" /\ (HasLength \/ isChunked) /\ BodyFault # 0
      /\ Fail(BodyFault) /\ body' = body
  BY DEF ParseBody, RejectBody
<1>2. /\ WellFormed(q) /\ HeadersRead(q) /\ line = RequestLines[q.line]
      /\ Outcome(q) = IF FaultOfBody(q) # 0 THEN FaultOfBody(q) ELSE line.path
      /\ (isChunked <=> Field(q, "chunked")) /\ (HasLength <=> Lengths(q) # {})
  BY <1>1, <1>q, BodyKnown
<1>3. BodyFault \in {405, 413} /\ FaultOfBody(q) = BodyFault
  <2>1. CASE line.method \notin line.allowed
    BY <1>1, <1>2, <2>1 DEF BodyFault, FaultOfBody
  <2>2. CASE line.method \in line.allowed
    <3>1. ~isChunked /\ Length > MaxBodySize /\ BodyFault = 413
      BY <1>1, <2>2 DEF BodyFault
    <3>2. \E h \in Lengths(q) : ContentLength[h] > MaxBodySize
      BY <1>1, <1>2, <3>1, LengthIs
    <3> QED
      BY <1>2, <2>2, <3>1, <3>2 DEF FaultOfBody
  <2> QED
    BY <2>1, <2>2
<1>4. Outcome(q) = BodyFault
  BY <1>2, <1>3
<1>5. PICK code : code = BodyFault
  OBVIOUS
<1>6. code \in Nat /\ code >= 400 /\ Fail(code) /\ code = Outcome(q)
  BY <1>1, <1>3, <1>4, <1>5
<1> QED
  BY <1>1, <1>6, <1>q, StreamFailed

\* A body that is announced within the limit is the request's data.
LEMMA AnnouncedBody ==
  ASSUME Reading, pc = "parse", state = "BODY", HasLength, ~isChunked, BodyFault = 0,
         NEW q, q = current.meant
  PROVE  /\ WellFormed(q) /\ Rest = q.data /\ q.data \in Seq(Byte) /\ Len(q.data) = Length
         /\ Length \in Nat /\ Payload(q) = q.data /\ Outcome(q) = statusCode /\ body = <<>>
<1>1. /\ WellFormed(q) /\ HeadersRead(q) /\ Rest = q.data
      /\ line = RequestLines[q.line] /\ statusCode = line.path
      /\ Outcome(q) = IF FaultOfBody(q) # 0 THEN FaultOfBody(q) ELSE line.path
      /\ ~Field(q, "chunked") /\ (HasLength <=> Lengths(q) # {})
  BY BodyKnown
<1>2. Length \in Nat /\ \A h \in Lengths(q) : ContentLength[h] = Length
  BY <1>1, LengthIs
<1>3. line.method \in line.allowed /\ ~(Length > MaxBodySize)
  BY DEF BodyFault
<1>4. MaxBodySize \in Nat
  BY HttpRequestAssumption DEF HttpRequestAssumption
<1>5. FaultOfBody(q) = 0
  BY <1>1, <1>2, <1>3 DEF FaultOfBody
<1>6. PICK h \in Lengths(q) : TRUE
  BY <1>1
<1>7. ContentLength[h] <= MaxBodySize
  BY <1>2, <1>3, <1>4
<1>8. Len(q.data) = Length
  BY <1>1, <1>2, <1>7 DEF WellFormed
<1>9. q.data \in Seq(Byte)
  BY <1>1, Parts
<1>10. Payload(q) = q.data
  BY <1>1 DEF Payload
<1>11. body = <<>>
  BY DEF Reading, RequestInv, Stored
<1> QED
  BY <1>1, <1>2, <1>5, <1>8, <1>9, <1>10, <1>11

LEMMA StoreBodyStream ==
  ASSUME Reading, ParseBody, StoreBody
  PROVE  StreamInv'
<1>q. PICK q : q = current.meant
  OBVIOUS
<1>1. /\ pc = "parse" /\ state = "BODY" /\ HasLength /\ ~isChunked /\ BodyFault = 0 /\ BodyArrived
      /\ body' = body \o SubSeq(request, _pos + 1, _pos + Length)
      /\ \/ pc' = "answer" /\ UNCHANGED <<network, statusCode>>
         \/ UploadsFail /\ Fail(500)
  BY DEF ParseBody, StoreBody
<1>2. /\ Rest = q.data /\ q.data \in Seq(Byte) /\ Len(q.data) = Length /\ Length \in Nat
      /\ Payload(q) = q.data /\ Outcome(q) = statusCode /\ body = <<>>
  BY <1>1, <1>q, AnnouncedBody
<1>3. /\ current.payload = Payload(q) /\ current.status = Outcome(q)
      /\ request \in Seq(Byte) /\ wire \in Seq(Byte) /\ _pos \in Nat /\ _bufferLen \in Nat
  BY <1>q, Known
<1>4. SubSeq(request, _pos + 1, _pos + Length) = q.data
  <2>1. _pos + Len(q.data) <= Len(request)
    BY <1>1, <1>2, <1>3 DEF BodyArrived, _bufferLen
  <2>2. Left(request, _pos, wire) = q.data \o <<>> /\ <<>> \in Seq(Byte)
    BY <1>2, ConcatEmptySeq, EmptySeq DEF Rest
  <2>3. SubSeq(request, _pos + 1, _pos + Len(q.data)) = q.data
    <3>1. PICK d : d = q.data
      OBVIOUS
    <3>2. d \in Seq(Byte) /\ _pos + Len(d) <= Len(request) /\ Left(request, _pos, wire) = d \o <<>>
      BY <1>2, <2>1, <2>2, <3>1
    <3>3. SubSeq(request, _pos + 1, _pos + Len(d)) = d
      BY <1>3, <2>2, <3>2, Advance
    <3> QED
      BY <3>1, <3>3
  <2> QED
    BY <1>2, <2>3
<1>5. body' = current.payload
  BY <1>1, <1>2, <1>3, <1>4, ConcatEmptySeq
<1>6. IsPrefixOf(body', current.payload)
  BY <1>2, <1>3, <1>5, WholeIsPrefix
<1>7. /\ pc' = "answer" /\ UNCHANGED <<current, answered, synced>>
      /\ statusCode' = statusCode \/ (UploadsFail /\ statusCode' = 500)
  BY <1>1 DEF Fail, network
<1> QED
  BY <1>2, <1>3, <1>5, <1>6, <1>7, StreamAnswered

LEMMA WaitForBodyStream ==
  ASSUME Reading, ParseBody, WaitForBody
  PROVE  StreamInv'
<1>q. PICK q : q = current.meant
  OBVIOUS
<1>1. /\ pc = "parse" /\ state = "BODY" /\ HasLength /\ ~isChunked /\ BodyFault = 0
      /\ ~BodyArrived /\ Incomplete
  BY DEF ParseBody, WaitForBody
<1>2. Rest = q.data /\ q.data \in Seq(Byte) /\ Len(q.data) = Length /\ Length \in Nat
  BY <1>1, <1>q, AnnouncedBody
<1>3. /\ request \in Seq(Byte) /\ wire \in Seq(Byte) /\ _pos \in Nat /\ _pos <= Len(request)
      /\ Len(request) \in Nat
  BY <1>q, Known DEF _bufferLen
<1>4. Len(wire) \in Nat /\ Length = (Len(request) - _pos) + Len(wire)
  <2>1. /\ Len(wire) \in Nat
        /\ Len(Left(request, _pos, wire)) = (Len(request) - _pos) + Len(wire)
    BY <1>3, LeftTyped
  <2>2. Len(Left(request, _pos, wire)) = Length
    BY <1>2 DEF Rest
  <2> QED
    BY <2>1, <2>2
<1>5. ~(Len(request) - _pos >= Length)
  BY <1>1 DEF BodyArrived, _bufferLen
<1>6. Len(wire) # 0
  BY <1>2, <1>3, <1>4, <1>5
<1>7. wire # <<>>
  BY <1>6, EmptySeq
<1> QED
  BY <1>1, <1>7, StreamWaits

LEMMA StartChunkedStream ==
  ASSUME Reading, ParseBody, StartChunked
  PROVE  StreamInv'
<1>q. PICK q : q = current.meant
  OBVIOUS
<1>1. /\ state = "BODY" /\ body' = body /\ line' = line /\ UNCHANGED chunk
      /\ \/ /\ pc' = "chunk"
            /\ UNCHANGED <<network, request, _pos, state, statusCode, headers, isChunked>>
         \/ UploadsFail /\ Fail(500)
  BY DEF ParseBody, StartChunked
<1>2. CASE UploadsFail /\ Fail(500)
  BY <1>1, <1>2, StreamFailed
<1>3. CASE /\ pc' = "chunk"
           /\ UNCHANGED <<network, request, _pos, state, statusCode, headers, isChunked>>
  <2>1. Progress(q) /\ IsPrefixOf(body, current.payload)
    BY <1>q, Known
  <2>2. Rest' = Rest
    BY <1>3 DEF Rest, Left, network
  <2>3. HeadersRead(q)' = HeadersRead(q)
    BY <1>1, <1>3 DEF HeadersRead, LineRead, FieldsRead
  <2>4. AtChunks(q)' = AtChunks(q)
    BY <1>1, <2>2 DEF AtChunks, BetweenChunks, InChunk, DataLeft, chunk
  <2>5. Progress(q)'
    BY <1>1, <1>3, <2>1, <2>2, <2>3, <2>4 DEF Progress, AtBody
  <2>6. UNCHANGED <<current, answered, synced>> /\ pc' \notin {"answer", "recv"}
    BY <1>3 DEF network
  <2> QED
    BY <1>1, <1>q, <2>1, <2>5, <2>6, StreamGoesOn
<1> QED
  BY <1>1, <1>2, <1>3

LEMMA BodyStream ==
  ASSUME Reading, ParseBody
  PROVE  StreamInv'
BY NoBodyStream, RejectBodyStream, StoreBodyStream, WaitForBodyStream, StartChunkedStream
   DEF ParseBody

----------------------------------------------------------------------------
(* The chunks of a request.                                                *)

LEMMA BeginningIsPrefix ==
  ASSUME NEW s \in Seq(Byte), NEW t \in Seq(Byte)
  PROVE  IsPrefixOf(s, s \o t)
<1> DEFINE all == s \o t
<1>1. all \in Seq(Byte) /\ Len(all) = Len(s) + Len(t) /\ Len(s) \in Nat /\ Len(t) \in Nat
  BY Joined
<1>2. Len(s) <= Len(all)
  BY <1>1
<1>3. s = SubSeq(all, 1, Len(s))
  <2>1. CASE s = <<>>
    <3>1. Len(s) = 0
      BY <2>1
    <3>2. SubSeq(all, 1, 0) = <<>>
      BY SubSeqEmpty
    <3> QED
      BY <2>1, <3>1, <3>2
  <2>2. CASE s # <<>>
    <3>1. 1 \in 1..Len(s) /\ Len(s) \in 1..Len(s)
      BY <2>2, EmptySeq
    <3>2. SubSeq(all, 1, Len(s)) = SubSeq(s, 1, Len(s))
      BY <3>1, SubSeqOfConcat1
    <3> QED
      BY <3>2, SubSeqFull
  <2> QED
    BY <2>1, <2>2
<1> QED
  BY <1>2, <1>3 DEF IsPrefixOf

LEMMA ChunkParts ==
  ASSUME NEW q, WellFormed(q)
  PROVE  /\ Len(q.chunks) \in Nat /\ q.last \in Token
         /\ \A i \in 1..Len(q.chunks) :
              /\ q.chunks[i].size \in Token /\ SizeOf(<<q.chunks[i].size>>) = Len(q.chunks[i].data)
              /\ q.chunks[i].data \in Seq(Byte) /\ Len(q.chunks[i].data) \in Nat
              /\ Len(q.chunks[i].data) > 0
         /\ SizeOf(<<q.last>>) = IF q.last \in DOMAIN ChunkSize THEN 0 ELSE -1
<1>1. /\ Len(q.chunks) \in Nat /\ q.last \in Token
      /\ \A i \in 1..Len(q.chunks) : q.chunks[i].size \in Token /\ q.chunks[i].data \in Seq(Byte)
  BY Parts
<1>2. ASSUME NEW i \in 1..Len(q.chunks)
      PROVE  /\ SizeOf(<<q.chunks[i].size>>) = Len(q.chunks[i].data)
             /\ Len(q.chunks[i].data) \in Nat /\ Len(q.chunks[i].data) > 0
  <2>1. /\ q.chunks[i].size \in DOMAIN ChunkSize /\ q.chunks[i].data # <<>>
        /\ ChunkSize[q.chunks[i].size] = Len(q.chunks[i].data)
    BY DEF WellFormed
  <2>2. PICK t : t = q.chunks[i].size
    OBVIOUS
  <2>3. <<t>>[1] = t /\ Len(<<t>>) = 1
    OBVIOUS
  <2>4. SizeOf(<<t>>) = Len(q.chunks[i].data)
    BY <2>1, <2>2, <2>3 DEF SizeOf
  <2>5. PICK d : d = q.chunks[i].data
    OBVIOUS
  <2>6. d \in Seq(Byte) /\ d # <<>>
    BY <1>1, <2>1, <2>5
  <2>7. Len(d) \in Nat \ {0}
    BY <2>6, EmptySeq
  <2> QED
    BY <2>2, <2>4, <2>5, <2>7
<1>3. SizeOf(<<q.last>>) = IF q.last \in DOMAIN ChunkSize THEN 0 ELSE -1
  <2>1. PICK t : t = q.last
    OBVIOUS
  <2>2. <<t>>[1] = t /\ Len(<<t>>) = 1
    OBVIOUS
  <2>3. t \in DOMAIN ChunkSize => ChunkSize[t] = 0
    BY <2>1 DEF WellFormed
  <2> QED
    BY <2>1, <2>2, <2>3 DEF SizeOf
<1> QED
  BY <1>1, <1>2, <1>3

\* What is known of the request in parseChunkedBody's loop.
LEMMA LoopKnown ==
  ASSUME Reading, pc = "chunk", NEW q, q = current.meant
  PROVE  /\ WellFormed(q) /\ AtChunks(q) /\ HeadersRead(q) /\ state = "BODY" /\ isChunked
         /\ statusCode = line.path
         /\ Outcome(q) = IF Len(Payload(q)) > MaxBodySize THEN 413
                         ELSE IF q.last \notin DOMAIN ChunkSize THEN 400
                         ELSE line.path
<1>1. /\ state = "BODY" /\ isChunked /\ statusCode = line.path /\ line.method \in line.allowed
  BY InChunks DEF Reading
<1>2. /\ WellFormed(q) /\ HeadersRead(q) /\ AtChunks(q) /\ line = RequestLines[q.line]
      /\ Outcome(q) = IF FaultOfBody(q) # 0 THEN FaultOfBody(q) ELSE line.path
      /\ Field(q, "chunked") /\ Lengths(q) = {}
  BY <1>1, BodyKnown
<1>3. FaultOfBody(q) = IF Len(Payload(q)) > MaxBodySize THEN 413
                       ELSE IF q.last \notin DOMAIN ChunkSize THEN 400 ELSE 0
  BY <1>1, <1>2 DEF FaultOfBody
<1> QED
  BY <1>1, <1>2, <1>3

\* In the loop between two chunks the next line is a size line.
LEMMA SizeLineIs ==
  ASSUME Reading, NEW q, WellFormed(q), NEW k \in 0..Len(q.chunks), BetweenChunks(q, k)
  PROVE  /\ ~HasLine => wire # <<>>
         /\ HasLine /\ k < Len(q.chunks) =>
              /\ SizeOf(Line) = Len(q.chunks[k + 1].data)
              /\ Left(request, AfterLine, wire) =
                   q.chunks[k + 1].data \o (CRLF \o ChunksFrom(q, k + 1))
         /\ HasLine /\ k = Len(q.chunks) =>
              SizeOf(Line) = IF q.last \in DOMAIN ChunkSize THEN 0 ELSE -1
<1>1. /\ request \in Seq(Byte) /\ wire \in Seq(Byte) /\ _pos \in Nat /\ _pos <= _bufferLen
  BY Known
<1>2. Rest = ChunksFrom(q, k)
  BY DEF BetweenChunks
<1>3. CASE k < Len(q.chunks)
  <2>1. Len(q.chunks) \in Nat
    BY ChunkParts
  <2>2. k + 1 \in 1..Len(q.chunks) /\ k + 1 \in 0..Len(q.chunks) /\ k \in 0..(Len(q.chunks) - 1)
    BY <1>3, <2>1
  <2>3. PICK t : t = q.chunks[k + 1].size
    OBVIOUS
  <2>4. PICK b : b = q.chunks[k + 1].data \o (CRLF \o ChunksFrom(q, k + 1))
    OBVIOUS
  <2>5. t \in Token /\ SizeOf(<<t>>) = Len(q.chunks[k + 1].data)
    BY <2>2, <2>3, ChunkParts
  <2>6. b \in Seq(Byte)
    <3>1. q.chunks[k + 1].data \in Seq(Byte) /\ ChunksFrom(q, k + 1) \in Seq(Byte)
      BY <2>2, ChunkParts, ChunksFromIs
    <3>2. CRLF \o ChunksFrom(q, k + 1) \in Seq(Byte)
      BY <3>1, CRLFTyped, Joined
    <3> QED
      BY <2>4, <3>1, <3>2, Joined
  <2>7. Rest = <<t>> \o (CRLF \o b)
    BY <1>2, <2>2, <2>3, <2>4, ChunksFromIs
  <2>8. <<t>> \in Seq(Token)
    BY <2>5, OneToken
  <2>9. /\ HasLine => Line = <<t>> /\ Left(request, AfterLine, wire) = b
        /\ ~HasLine => wire # <<>>
    BY <1>1, <2>6, <2>7, <2>8, LineIs
  <2>10. k # Len(q.chunks)
    BY <1>3, <2>1
  <2>11. ASSUME HasLine
         PROVE  /\ SizeOf(Line) = Len(q.chunks[k + 1].data)
                /\ Left(request, AfterLine, wire) =
                     q.chunks[k + 1].data \o (CRLF \o ChunksFrom(q, k + 1))
    BY <2>4, <2>5, <2>9, <2>11
  <2> QED
    BY <2>9, <2>10, <2>11, Zenon
<1>4. CASE k = Len(q.chunks)
  <2>1. PICK t : t = q.last
    OBVIOUS
  <2>2. /\ t \in Token /\ SizeOf(<<t>>) = IF q.last \in DOMAIN ChunkSize THEN 0 ELSE -1
        /\ Len(q.chunks) \in Nat
    BY <2>1, ChunkParts
  <2>3. Rest = <<t>> \o (CRLF \o CRLF)
    BY <1>2, <1>4, <2>1, ChunksFromIs
  <2>4. <<t>> \in Seq(Token) /\ CRLF \in Seq(Byte)
    BY <2>2, OneToken, CRLFTyped
  <2>5. /\ HasLine => Line = <<t>>
        /\ ~HasLine => wire # <<>>
    BY <1>1, <2>3, <2>4, LineIs
  <2>6. ~(k < Len(q.chunks))
    BY <1>4, <2>2
  <2>7. ASSUME HasLine PROVE SizeOf(Line) = IF q.last \in DOMAIN ChunkSize THEN 0 ELSE -1
    BY <2>2, <2>5, <2>7
  <2> QED
    BY <2>5, <2>6, <2>7, Zenon
<1>5. k < Len(q.chunks) \/ k = Len(q.chunks)
  <2>1. Len(q.chunks) \in Nat
    BY ChunkParts
  <2> QED
    BY <2>1
<1> QED
  BY <1>3, <1>4, <1>5

\* Within a chunk something of the chunk is still to come.
LEMMA InChunkIs ==
  ASSUME Reading, pc = "chunk", NEW q, WellFormed(q), NEW k \in 1..Len(q.chunks), InChunk(q, k)
  PROVE  /\ _currentChunkSize > 0 /\ _currentChunkSize # NoChunk /\ _currentChunkSize \in Nat
         /\ _currentChunkSize = Len(q.chunks[k].data) /\ q.chunks[k].data \in Seq(Byte)
         /\ _currentChunkBytesRead \in Nat /\ _currentChunkBytesRead <= _currentChunkSize
         /\ DataLeft(q, k) \in Seq(Byte) /\ DataFrom(q, k) \in Seq(Byte)
         /\ ChunksFrom(q, k) \in Seq(Byte) /\ CRLF \o ChunksFrom(q, k) \in Seq(Byte)
         /\ Len(Rest) > 0
<1>1. /\ Len(q.chunks) \in Nat /\ q.chunks[k].data \in Seq(Byte)
      /\ Len(q.chunks[k].data) \in Nat /\ Len(q.chunks[k].data) > 0
  BY ChunkParts
<1>2. _currentChunkSize = Len(q.chunks[k].data)
  BY DEF InChunk
<1>3. _currentChunkSize > 0 /\ _currentChunkSize # NoChunk /\ _currentChunkSize \in Nat
  BY <1>1, <1>2 DEF NoChunk
<1>4. _currentChunkBytesRead \in Nat /\ _currentChunkBytesRead <= _currentChunkSize
  BY <1>3 DEF Reading, RequestInv, Counters, CursorInBuffer, TypeOK
<1>5. DataLeft(q, k) \in Seq(Byte)
  <2>1. PICK d : d = q.chunks[k].data
    OBVIOUS
  <2>2. d \in Seq(Byte) /\ _currentChunkBytesRead <= Len(d)
    BY <1>1, <1>2, <1>4, <2>1
  <2>3. SubSeq(d, _currentChunkBytesRead + 1, Len(d)) \in Seq(Byte)
    BY <1>4, <2>2, EndPiece
  <2> QED
    BY <2>1, <2>3 DEF DataLeft
<1>6. k \in 0..Len(q.chunks)
  BY <1>1
<1>7. ChunksFrom(q, k) \in Seq(Byte) /\ DataFrom(q, k) \in Seq(Byte)
  BY <1>6, ChunksFromIs, DataFromIs
<1>8. CRLF \o ChunksFrom(q, k) \in Seq(Byte) /\ Len(CRLF \o ChunksFrom(q, k)) > 0
  <2>1. PICK c : c = ChunksFrom(q, k)
    OBVIOUS
  <2>2. CRLF \o c \in Seq(Byte) /\ Len(CRLF \o c) = 2 + Len(c) /\ Len(c) \in Nat
    BY <1>7, <2>1, CRLFTyped, Joined
  <2>3. Len(CRLF \o c) > 0
    BY <2>2
  <2> QED
    BY <2>1, <2>2, <2>3
<1>9. Len(Rest) > 0
  <2>1. PICK d : d = DataLeft(q, k)
    OBVIOUS
  <2>2. PICK c : c = CRLF \o ChunksFrom(q, k)
    OBVIOUS
  <2>3. Len(d \o c) = Len(d) + Len(c) /\ Len(d) \in Nat /\ Len(c) \in Nat
    BY <1>5, <1>8, <2>1, <2>2, Joined
  <2>4. Rest = d \o c /\ Len(c) > 0
    BY <1>8, <2>1, <2>2 DEF InChunk
  <2> QED
    BY <2>3, <2>4
<1> QED
  BY <1>1, <1>2, <1>3, <1>4, <1>5, <1>7, <1>8, <1>9

LEMMA LoopWaits ==
  ASSUME Reading, pc = "chunk", Exhausted \/ WaitForSize \/ WaitForData
  PROVE  StreamInv'
<1>q. PICK q : q = current.meant
  OBVIOUS
<1>1. WellFormed(q) /\ AtChunks(q)
  BY <1>q, LoopKnown
<1>2. /\ request \in Seq(Byte) /\ wire \in Seq(Byte) /\ _pos \in Nat /\ _pos <= _bufferLen
      /\ _bufferLen \in Nat
  BY Known
<1>3. CASE \E k \in 0..Len(q.chunks) : BetweenChunks(q, k)
  <2>1. PICK k \in 0..Len(q.chunks) : BetweenChunks(q, k)
    BY <1>3
  <2>2. _currentChunkSize = NoChunk /\ (~HasLine => wire # <<>>)
    BY <1>1, <2>1, SizeLineIs DEF BetweenChunks
  <2>3. CASE Exhausted
    <3>1. LineEnds = {}
      BY <1>2, <2>3 DEF Exhausted, LineEnds
    <3>2. wire # <<>>
      BY <2>2, <3>1 DEF HasLine
    <3> QED
      BY <2>3, <3>2, StreamWaits DEF Exhausted
  <2>4. CASE WaitForSize
    BY <2>2, <2>4, StreamWaits DEF WaitForSize
  <2>5. CASE WaitForData
    BY <2>2, <2>5 DEF WaitForData
  <2> QED
    BY <2>3, <2>4, <2>5
<1>4. CASE \E k \in 1..Len(q.chunks) : InChunk(q, k)
  <2>1. PICK k \in 1..Len(q.chunks) : InChunk(q, k)
    BY <1>4
  <2>2. /\ _currentChunkSize > 0 /\ _currentChunkSize # NoChunk /\ _currentChunkSize \in Nat
        /\ _currentChunkBytesRead \in Nat /\ _currentChunkBytesRead <= _currentChunkSize
        /\ Len(Rest) > 0
    BY <1>1, <2>1, InChunkIs
  <2>3. CASE Exhausted
    <3>1. /\ Len(Left(request, _pos, wire)) = (Len(request) - _pos) + Len(wire)
          /\ Len(wire) \in Nat
      BY <1>2, LeftTyped DEF _bufferLen
    <3>2. _pos = Len(request)
      BY <1>2, <2>3 DEF Exhausted, _bufferLen
    <3>3. Len(wire) > 0
      BY <1>2, <2>2, <3>1, <3>2 DEF Rest, _bufferLen
    <3>4. wire # <<>>
      BY <3>3, EmptySeq
    <3> QED
      BY <2>3, <3>4, StreamWaits DEF Exhausted
  <2>4. CASE WaitForSize
    BY <2>2, <2>4 DEF WaitForSize
  <2>5. CASE WaitForData
    <3>1. /\ _pos < _bufferLen /\ BytesToRead = 0 /\ Incomplete
      BY <2>5 DEF WaitForData
    <3> DEFINE owed == _currentChunkSize - _currentChunkBytesRead
               there == _bufferLen - _pos
    <3>2. owed \in Nat /\ there \in Nat /\ there > 0
      BY <1>2, <2>2, <3>1
    <3>3. Min({owed, there}) = 0
      BY <3>1 DEF BytesToRead
    <3> HIDE DEF owed, there
    <3>4. Min({owed, there}) \in {owed, there}
      BY <3>2, MinIsLeast
    <3>5. owed = 0
      BY <3>2, <3>3, <3>4
    <3>6. _currentChunkBytesRead = _currentChunkSize
      BY <2>2, <3>5 DEF owed
    <3> QED
      BY <2>2, <3>1, <3>6, StreamWaits
  <2> QED
    BY <2>3, <2>4, <2>5
<1> QED
  BY <1>1, <1>3, <1>4 DEF AtChunks

\* At a size line the parser is between two chunks.
LEMMA AtSize ==
  ASSUME Reading, pc = "chunk", AtSizeLine, NEW q, q = current.meant
  PROVE  \E k \in 0..Len(q.chunks) : BetweenChunks(q, k)
<1>1. WellFormed(q) /\ AtChunks(q)
  BY LoopKnown
<1>2. \A k \in 1..Len(q.chunks) : ~InChunk(q, k)
  BY <1>1, InChunkIs DEF AtSizeLine
<1> QED
  BY <1>1, <1>2 DEF AtChunks

\* After all chunks the body is the payload, within the limit.
LEMMA AllChunks ==
  ASSUME Reading, pc = "chunk", NEW q, WellFormed(q), BetweenChunks(q, Len(q.chunks))
  PROVE  body = Payload(q) /\ ~(Len(Payload(q)) > MaxBodySize)
<1>1. body \in Seq(Byte) /\ Len(body) \in Nat /\ Len(body) <= MaxBodySize /\ MaxBodySize \in Nat
  BY InChunks, HttpRequestAssumption DEF Reading, HttpRequestAssumption
<1>2. DataFrom(q, Len(q.chunks)) = <<>>
  BY DataFromIs
<1>3. body = Payload(q)
  BY <1>1, <1>2, ConcatEmptySeq DEF BetweenChunks
<1> QED
  BY <1>1, <1>3

LEMMA BadSizeStream ==
  ASSUME Reading, pc = "chunk", BadSize
  PROVE  StreamInv'
<1>q. PICK q : q = current.meant
  OBVIOUS
<1>1. AtSizeLine /\ SizeOf(Line) < 0 /\ Fail(400) /\ body' = body /\ HasLine
  BY DEF BadSize, AtSizeLine
<1>2. WellFormed(q) /\ Outcome(q) = IF Len(Payload(q)) > MaxBodySize THEN 413
                         ELSE IF q.last \notin DOMAIN ChunkSize THEN 400
                         ELSE line.path
  BY <1>q, LoopKnown
<1>3. PICK k \in 0..Len(q.chunks) : BetweenChunks(q, k)
  BY <1>1, <1>q, AtSize
<1>4. Len(q.chunks) \in Nat
  BY <1>2, ChunkParts
<1>5. ~(k < Len(q.chunks))
  <2> SUFFICES ASSUME k < Len(q.chunks) PROVE FALSE
    OBVIOUS
  <2>1. SizeOf(Line) = Len(q.chunks[k + 1].data)
    BY <1>1, <1>2, <1>3, SizeLineIs
  <2>2. k + 1 \in 1..Len(q.chunks)
    BY <1>4
  <2>3. Len(q.chunks[k + 1].data) \in Nat
    BY <1>2, <2>2, ChunkParts
  <2> QED
    BY <1>1, <2>1, <2>3
<1>6. k = Len(q.chunks)
  BY <1>4, <1>5
<1>7. SizeOf(Line) = IF q.last \in DOMAIN ChunkSize THEN 0 ELSE -1
  <2>1. HasLine /\ WellFormed(q)
    BY <1>1, <1>2
  <2> QED
    BY <1>3, <1>6, <2>1, SizeLineIs
<1>8. q.last \notin DOMAIN ChunkSize
  BY <1>1, <1>7
<1>9. ~(Len(Payload(q)) > MaxBodySize)
  BY <1>2, <1>3, <1>6, AllChunks
<1>10. Outcome(q) = 400
  BY <1>2, <1>8, <1>9
<1> QED
  BY <1>1, <1>10, <1>q, StreamFailed

LEMMA LastChunkStream ==
  ASSUME Reading, pc = "chunk", LastChunk
  PROVE  StreamInv'
<1>q. PICK q : q = current.meant
  OBVIOUS
<1>1. /\ AtSizeLine /\ SizeOf(Line) = 0 /\ body' = body /\ HasLine /\ pc' = "answer"
      /\ statusCode' = statusCode /\ UNCHANGED <<current, answered, synced>>
  BY DEF LastChunk, AtSizeLine, network
<1>2. /\ WellFormed(q) /\ statusCode = line.path
      /\ Outcome(q) = IF Len(Payload(q)) > MaxBodySize THEN 413
                      ELSE IF q.last \notin DOMAIN ChunkSize THEN 400
                      ELSE line.path
  BY <1>q, LoopKnown
<1>3. PICK k \in 0..Len(q.chunks) : BetweenChunks(q, k)
  BY <1>1, <1>q, AtSize
<1>4. Len(q.chunks) \in Nat
  BY <1>2, ChunkParts
<1>5. ~(k < Len(q.chunks))
  <2> SUFFICES ASSUME k < Len(q.chunks) PROVE FALSE
    OBVIOUS
  <2>1. SizeOf(Line) = Len(q.chunks[k + 1].data)
    BY <1>1, <1>2, <1>3, SizeLineIs
  <2>2. k + 1 \in 1..Len(q.chunks)
    BY <1>4
  <2>3. Len(q.chunks[k + 1].data) \in Nat /\ Len(q.chunks[k + 1].data) > 0
    BY <1>2, <2>2, ChunkParts
  <2> QED
    BY <1>1, <2>1, <2>3
<1>6. k = Len(q.chunks)
  BY <1>4, <1>5
<1>7. SizeOf(Line) = IF q.last \in DOMAIN ChunkSize THEN 0 ELSE -1
  <2>1. HasLine /\ WellFormed(q)
    BY <1>1, <1>2
  <2> QED
    BY <1>3, <1>6, <2>1, SizeLineIs
<1>8. q.last \in DOMAIN ChunkSize
  BY <1>1, <1>7
<1>9. body = Payload(q) /\ ~(Len(Payload(q)) > MaxBodySize)
  BY <1>2, <1>3, <1>6, AllChunks
<1>10. Outcome(q) = statusCode
  BY <1>2, <1>8, <1>9
<1>11. /\ current.payload = Payload(q) /\ current.status = Outcome(q)
       /\ IsPrefixOf(body, current.payload)
  BY <1>q, Known
<1> QED
  BY <1>1, <1>9, <1>10, <1>11, StreamAnswered

LEMMA NextChunkStream ==
  ASSUME Reading, pc = "chunk", NextChunk
  PROVE  StreamInv'
<1>q. PICK q : q = current.meant
  OBVIOUS
<1>1. /\ AtSizeLine /\ SizeOf(Line) > 0 /\ body' = body /\ HasLine /\ _pos' = AfterLine
      /\ _currentChunkSize = NoChunk /\ _currentChunkSize' = SizeOf(Line)
      /\ _totalBodysize' = _totalBodysize + SizeOf(Line)
      /\ IF _totalBodysize' > MaxBodySize THEN Fail(413)
         ELSE UNCHANGED <<network, pc, request, state, statusCode, headers, isChunked>>
      /\ line' = line /\ _currentChunkBytesRead' = _currentChunkBytesRead
  BY DEF NextChunk, AtSizeLine
<1>2. /\ WellFormed(q) /\ HeadersRead(q) /\ state = "BODY" /\ isChunked
      /\ Outcome(q) = IF Len(Payload(q)) > MaxBodySize THEN 413
                      ELSE IF q.last \notin DOMAIN ChunkSize THEN 400
                      ELSE line.path
  BY <1>q, LoopKnown
<1>3. PICK k \in 0..Len(q.chunks) : BetweenChunks(q, k)
  BY <1>1, <1>q, AtSize
<1>4. Len(q.chunks) \in Nat
  BY <1>2, ChunkParts
<1>5. k # Len(q.chunks)
  <2> SUFFICES ASSUME k = Len(q.chunks) PROVE FALSE
    OBVIOUS
  <2>1. SizeOf(Line) = IF q.last \in DOMAIN ChunkSize THEN 0 ELSE -1
    BY <1>1, <1>2, <1>3, SizeLineIs
  <2> QED
    BY <1>1, <2>1
<1>6. /\ k < Len(q.chunks) /\ k + 1 \in 1..Len(q.chunks) /\ k + 1 \in 0..Len(q.chunks)
      /\ k \in 0..(Len(q.chunks) - 1)
  BY <1>4, <1>5
<1>7. PICK d : d = q.chunks[k + 1].data
  OBVIOUS
<1>8. /\ SizeOf(Line) = Len(d) /\ Left(request, AfterLine, wire) = d \o (CRLF \o ChunksFrom(q, k + 1))
  BY <1>1, <1>2, <1>3, <1>6, <1>7, SizeLineIs
<1>9. d \in Seq(Byte) /\ Len(d) \in Nat
  BY <1>2, <1>6, <1>7, ChunkParts
<1>10. /\ DataFrom(q, k + 1) \in Seq(Byte) /\ DataFrom(q, k) = d \o DataFrom(q, k + 1)
       /\ body \o DataFrom(q, k) = Payload(q)
  BY <1>2, <1>3, <1>6, <1>7, DataFromIs DEF BetweenChunks
<1>11. /\ body \in Seq(Byte) /\ Len(body) = _totalBodysize /\ _totalBodysize \in Nat
       /\ _currentChunkBytesRead = 0
  <2>1. _currentChunkBytesRead = 0 /\ Owed = 0
    BY <1>1 DEF Reading, RequestInv, Counters, Owed, NoChunk
  <2>2. body \in Seq(Byte) /\ Len(body) = _totalBodysize - Owed /\ _totalBodysize \in Nat
    BY InChunks DEF Reading
  <2> QED
    BY <2>1, <2>2
<1>12. MaxBodySize \in Nat
  BY HttpRequestAssumption DEF HttpRequestAssumption
<1>13. CASE _totalBodysize' > MaxBodySize
  <2>1. Fail(413)
    BY <1>1, <1>13
  <2>2. Len(Payload(q)) > MaxBodySize
    <3>1. PICK f : f = DataFrom(q, k + 1)
      OBVIOUS
    <3>2. /\ d \o f \in Seq(Byte) /\ Len(d \o f) = Len(d) + Len(f) /\ Len(f) \in Nat
      BY <1>9, <1>10, <3>1, Joined
    <3>3. PICK e : e = d \o f
      OBVIOUS
    <3>4. Len(body \o e) = Len(body) + Len(e)
      BY <1>11, <3>2, <3>3, Joined
    <3>5. Len(Payload(q)) = _totalBodysize + (Len(d) + Len(f))
      BY <1>10, <1>11, <3>1, <3>2, <3>3, <3>4
    <3>6. _totalBodysize + Len(d) > MaxBodySize
      BY <1>1, <1>8, <1>13
    <3> QED
      BY <1>9, <1>11, <1>12, <3>2, <3>5, <3>6
  <2>3. Outcome(q) = 413
    BY <1>2, <2>2
  <2> QED
    BY <1>1, <1>q, <2>1, <2>3, StreamFailed
<1>14. CASE ~(_totalBodysize' > MaxBodySize)
  <2>1. UNCHANGED <<network, pc, request, state, statusCode, headers, isChunked>>
    BY <1>1, <1>14
  <2>2. Rest' = d \o (CRLF \o ChunksFrom(q, k + 1))
    BY <1>1, <1>8, <2>1 DEF Rest, network
  <2>3. DataLeft(q, k + 1)' = d
    <3>1. SubSeq(d, 0 + 1, Len(d)) = d
      BY <1>9, SubSeqFull
    <3>2. _currentChunkBytesRead' = 0
      BY <1>1, <1>11
    <3> QED
      BY <1>7, <3>1, <3>2 DEF DataLeft
  <2>4. InChunk(q, k + 1)'
    BY <1>1, <1>7, <1>8, <1>10, <2>2, <2>3 DEF InChunk
  <2>5. AtChunks(q)'
    BY <1>6, <2>4 DEF AtChunks
  <2>6. HeadersRead(q)'
    BY <1>1, <1>2, <2>1 DEF HeadersRead, LineRead, FieldsRead
  <2>7. Progress(q)'
    BY <1>2, <2>1, <2>5, <2>6 DEF Progress, AtBody
  <2>8. UNCHANGED <<current, answered, synced>> /\ pc' = "chunk" /\ IsPrefixOf(body', current.payload)
    BY <1>1, <2>1, Known DEF network
  <2> QED
    BY <1>q, <2>7, <2>8, StreamGoesOn
<1> QED
  BY <1>13, <1>14

\* The data of a chunk, cut after its r-th byte and n more.
LEMMA CutData ==
  ASSUME NEW d \in Seq(Byte), NEW r \in Nat, NEW n \in Nat, r + n <= Len(d)
  PROVE  /\ SubSeq(d, r + 1, r + n) \in Seq(Byte) /\ Len(SubSeq(d, r + 1, r + n)) = n
         /\ SubSeq(d, r + n + 1, Len(d)) \in Seq(Byte)
         /\ SubSeq(d, r + 1, Len(d)) = SubSeq(d, r + 1, r + n) \o SubSeq(d, r + n + 1, Len(d))
         /\ r + n = Len(d) => SubSeq(d, r + n + 1, Len(d)) = <<>>
<1>1. Len(d) \in Nat /\ r + n \in Nat
  BY LenProperties
<1>2. SubSeq(d, r + 1, r + n) \in Seq(Byte) /\ Len(SubSeq(d, r + 1, r + n)) = n
  BY Slice
<1>3. SubSeq(d, r + n + 1, Len(d)) \in Seq(Byte)
  <2>1. PICK m : m = r + n
    OBVIOUS
  <2>2. SubSeq(d, m + 1, Len(d)) \in Seq(Byte)
    BY <1>1, <2>1, EndPiece
  <2> QED
    BY <2>1, <2>2
<1>4. SubSeq(d, r + 1, Len(d)) = SubSeq(d, r + 1, r + n) \o SubSeq(d, r + n + 1, Len(d))
  <2>1. PICK m : m = r + n
    OBVIOUS
  <2>2. r + 1 \in 1..(Len(d) + 1) /\ m \in ((r + 1) - 1)..Len(d) /\ Len(d) \in m..Len(d)
    BY <1>1, <2>1
  <2>3. SubSeq(d, r + 1, m) \o SubSeq(d, m + 1, Len(d)) = SubSeq(d, r + 1, Len(d))
    BY <2>2, ConcatAdjacentSubSeq
  <2> QED
    BY <2>1, <2>3
<1>5. ASSUME r + n = Len(d) PROVE SubSeq(d, r + n + 1, Len(d)) = <<>>
  <2>1. r + n + 1 \in Int /\ Len(d) \in Int /\ Len(d) < r + n + 1
    BY <1>1, <1>5
  <2> QED
    BY <2>1, SubSeqEmpty
<1> QED
  BY <1>2, <1>3, <1>4, <1>5

LEMMA ChunkDataStream ==
  ASSUME Reading, pc = "chunk", ChunkData
  PROVE  StreamInv'
<1>q. PICK q : q = current.meant
  OBVIOUS
<1>n. PICK n : n = BytesToRead
  OBVIOUS
<1>1. /\ _currentChunkSize # NoChunk /\ n > 0
      /\ body' = body \o SubSeq(request, _pos + 1, _pos + n)
      /\ \/ /\ IF ChunkIsRead(n) /\ EndOfChunk(_pos + n) # 0
               THEN _pos' = EndOfChunk(_pos + n) /\ _currentChunkSize' = NoChunk
               ELSE /\ _pos' = _pos + n /\ _currentChunkBytesRead' = _currentChunkBytesRead + n
                    /\ _currentChunkSize' = _currentChunkSize
            /\ pc' = IF ChunkIsRead(n) /\ EndOfChunk(_pos + n) = 0 THEN "recv" ELSE pc
            /\ UNCHANGED <<network, request, state, statusCode, headers, isChunked>>
         \/ UploadsFail /\ Fail(500)
      /\ line' = line
  BY <1>n DEF ChunkData
<1>2. /\ WellFormed(q) /\ AtChunks(q) /\ HeadersRead(q) /\ state = "BODY" /\ isChunked
  BY <1>q, LoopKnown
<1>3. PICK k \in 1..Len(q.chunks) : InChunk(q, k)
  BY <1>1, <1>2 DEF AtChunks, BetweenChunks
<1>4. PICK d : d = q.chunks[k].data
  OBVIOUS
<1>5. PICK r : r = _currentChunkBytesRead
  OBVIOUS
<1>6. PICK c : c = CRLF \o ChunksFrom(q, k)
  OBVIOUS
<1>7. PICK f : f = DataFrom(q, k)
  OBVIOUS
<1>8. /\ _currentChunkSize > 0 /\ _currentChunkSize \in Nat /\ _currentChunkSize = Len(d)
      /\ d \in Seq(Byte) /\ r \in Nat /\ r <= Len(d) /\ f \in Seq(Byte)
      /\ ChunksFrom(q, k) \in Seq(Byte) /\ c \in Seq(Byte)
  BY <1>2, <1>3, <1>4, <1>5, <1>6, <1>7, InChunkIs
<1>9. /\ request \in Seq(Byte) /\ wire \in Seq(Byte) /\ _pos \in Nat /\ _pos <= _bufferLen
      /\ body \in Seq(Byte) /\ current.payload = Payload(q) /\ _bufferLen = Len(request)
  BY <1>q, Known DEF _bufferLen
<1>10. n \in Nat /\ _pos + n <= Len(request) /\ r + n <= Len(d)
  <2>1. /\ BytesToRead \in Nat /\ _pos + BytesToRead <= _bufferLen
        /\ _currentChunkBytesRead + BytesToRead <= _currentChunkSize
    BY <1>5, <1>8, <1>9, BytesToReadBounds
  <2> QED
    BY <1>5, <1>8, <1>9, <1>n, <2>1
<1>11. PICK x : x = SubSeq(d, r + 1, r + n)
  OBVIOUS
<1>12. PICK y : y = SubSeq(d, r + n + 1, Len(d))
  OBVIOUS
<1>13. /\ x \in Seq(Byte) /\ Len(x) = n /\ y \in Seq(Byte) /\ SubSeq(d, r + 1, Len(d)) = x \o y
       /\ r + n = Len(d) => y = <<>>
  <2>1. d \in Seq(Byte) /\ r \in Nat /\ n \in Nat /\ r + n <= Len(d)
    BY <1>8, <1>10
  <2>2. /\ SubSeq(d, r + 1, r + n) \in Seq(Byte) /\ Len(SubSeq(d, r + 1, r + n)) = n
        /\ SubSeq(d, r + n + 1, Len(d)) \in Seq(Byte)
        /\ SubSeq(d, r + 1, Len(d)) = SubSeq(d, r + 1, r + n) \o SubSeq(d, r + n + 1, Len(d))
        /\ r + n = Len(d) => SubSeq(d, r + n + 1, Len(d)) = <<>>
    BY <2>1, CutData
  <2> QED
    BY <1>11, <1>12, <2>2, Zenon
<1>14. DataLeft(q, k) = x \o y
  BY <1>4, <1>5, <1>13 DEF DataLeft
<1>15. y \o c \in Seq(Byte) /\ (x \o y) \o c = x \o (y \o c)
  <2>1. x \in Seq(Byte) /\ y \in Seq(Byte) /\ c \in Seq(Byte)
    BY <1>8, <1>13
  <2>2. y \o c \in Seq(Byte)
    BY <2>1, Joined
  <2>3. (x \o y) \o c = x \o (y \o c)
    BY <2>1, Associative
  <2> QED
    BY <2>2, <2>3
<1>16. Left(request, _pos, wire) = x \o (y \o c)
  BY <1>3, <1>6, <1>14, <1>15 DEF InChunk, Rest
<1>17. /\ SubSeq(request, _pos + 1, _pos + n) = x
       /\ Left(request, _pos + n, wire) = y \o c
  <2>1. PICK e : e = y \o c
    OBVIOUS
  <2>2. e \in Seq(Byte) /\ Left(request, _pos, wire) = x \o e
    BY <1>15, <1>16, <2>1
  <2>3. /\ SubSeq(request, _pos + 1, _pos + Len(x)) = x
        /\ Left(request, _pos + Len(x), wire) = e
    <3>1. _pos + Len(x) <= Len(request)
      BY <1>10, <1>13
    <3>2. x \in Seq(Byte) /\ request \in Seq(Byte) /\ wire \in Seq(Byte) /\ _pos \in Nat
      BY <1>9, <1>13
    <3> QED
      BY <2>2, <3>1, <3>2, Advance
  <2> QED
    BY <1>13, <2>1, <2>3
<1>18. body' = body \o x
  BY <1>1, <1>17
<1>19. (body \o x) \o (y \o f) = Payload(q) /\ y \o f \in Seq(Byte) /\ body \o x \in Seq(Byte)
  <2>1. body \o ((x \o y) \o f) = Payload(q)
    BY <1>3, <1>7, <1>14 DEF InChunk
  <2>2. (x \o y) \o f = x \o (y \o f)
    BY <1>8, <1>13, Associative
  <2>3. y \o f \in Seq(Byte) /\ body \o x \in Seq(Byte)
    BY <1>8, <1>9, <1>13, Joined
  <2>4. PICK e : e = y \o f
    OBVIOUS
  <2>5. (body \o x) \o e = body \o (x \o e)
    BY <1>9, <1>13, <2>3, <2>4, Associative
  <2> QED
    BY <2>1, <2>2, <2>3, <2>4, <2>5
<1>20. IsPrefixOf(body', current.payload)
  <2>1. PICK e : e = y \o f
    OBVIOUS
  <2>2. PICK b : b = body \o x
    OBVIOUS
  <2>3. e \in Seq(Byte) /\ b \in Seq(Byte) /\ b \o e = Payload(q)
    BY <1>19, <2>1, <2>2
  <2>4. IsPrefixOf(b, b \o e)
    BY <2>3, BeginningIsPrefix
  <2> QED
    BY <1>9, <1>18, <2>2, <2>3, <2>4
<1>21. CASE UploadsFail /\ Fail(500)
  <2>1. pc' = "answer" /\ statusCode' = 500 /\ UNCHANGED <<current, answered, synced>>
    BY <1>21 DEF Fail, network
  <2> QED
    BY <1>20, <1>21, <2>1, StreamAnswered
<1>22. CASE ~(UploadsFail /\ Fail(500))
  <2>1. /\ IF ChunkIsRead(n) /\ EndOfChunk(_pos + n) # 0
           THEN _pos' = EndOfChunk(_pos + n) /\ _currentChunkSize' = NoChunk
           ELSE /\ _pos' = _pos + n /\ _currentChunkBytesRead' = _currentChunkBytesRead + n
                /\ _currentChunkSize' = _currentChunkSize
        /\ pc' = IF ChunkIsRead(n) /\ EndOfChunk(_pos + n) = 0 THEN "recv" ELSE pc
        /\ UNCHANGED <<network, request, state, statusCode, headers, isChunked>>
    BY <1>1, <1>22
  <2>2. /\ request' = request /\ wire' = wire /\ state' = "BODY" /\ isChunked' = isChunked
        /\ headers' = headers /\ line' = line /\ UNCHANGED <<current, answered, synced>>
    BY <1>1, <1>2, <2>1 DEF network
  <2>3. HeadersRead(q)'
    BY <1>2, <2>2 DEF HeadersRead, LineRead, FieldsRead
  <2>4. CASE ChunkIsRead(n) /\ EndOfChunk(_pos + n) # 0
    <3>1. _pos' = EndOfChunk(_pos + n) /\ _currentChunkSize' = NoChunk /\ pc' = "chunk"
      BY <2>1, <2>4
    <3>2. y = <<>>
      BY <1>5, <1>8, <1>13, <2>4 DEF ChunkIsRead
    <3>3. Left(request, _pos + n, wire) = CRLF \o ChunksFrom(q, k)
      BY <1>6, <1>8, <1>17, <3>2, ConcatEmptySeq
    <3>4. PICK p : p = _pos + n
      OBVIOUS
    <3>5. PICK b : b = ChunksFrom(q, k)
      OBVIOUS
    <3>6. /\ p \in Nat /\ p <= _bufferLen /\ b \in Seq(Byte)
          /\ Left(request, p, wire) = CRLF \o b /\ EndOfChunk(p) # 0
      <4>1. p \in Nat /\ p <= _bufferLen
        BY <1>9, <1>10, <3>4
      <4>2. b \in Seq(Byte)
        BY <1>8, <3>5
      <4>3. Left(request, p, wire) = CRLF \o b
        BY <3>3, <3>4, <3>5
      <4>4. EndOfChunk(p) # 0
        BY <2>4, <3>4
      <4> QED
        BY <4>1, <4>2, <4>3, <4>4
    <3>7. Left(request, EndOfChunk(p), wire) = b
      BY <1>9, <3>6, ChunkEndIs
    <3>8. Rest' = ChunksFrom(q, k)
      BY <2>2, <3>1, <3>4, <3>5, <3>7 DEF Rest
    <3>9. body' \o DataFrom(q, k) = Payload(q)
      BY <1>7, <1>8, <1>18, <1>19, <3>2, ConcatEmptySeq
    <3>10. BetweenChunks(q, k)' /\ k \in 0..Len(q.chunks)
      <4>1. k \in 0..Len(q.chunks)
        OBVIOUS
      <4>2. BetweenChunks(q, k)'
        BY <3>1, <3>8, <3>9 DEF BetweenChunks
      <4> QED
        BY <4>1, <4>2
    <3>11. AtChunks(q)'
      BY <3>10 DEF AtChunks
    <3>12. Progress(q)'
      BY <1>2, <2>2, <2>3, <3>11 DEF Progress, AtBody
    <3> QED
      BY <1>20, <1>q, <2>2, <3>1, <3>12, StreamGoesOn
  <2>5. CASE ~(ChunkIsRead(n) /\ EndOfChunk(_pos + n) # 0)
    <3>1. /\ _pos' = _pos + n /\ _currentChunkBytesRead' = r + n
          /\ _currentChunkSize' = _currentChunkSize
      BY <1>5, <2>1, <2>5
    <3>2. pc' # "answer" /\ (pc' = "recv" => ChunkIsRead(n))
      BY <2>1
    <3>3. pc' = "recv" => _currentChunkSize' > 0 /\ _currentChunkBytesRead' = _currentChunkSize'
      BY <1>5, <1>8, <3>1, <3>2 DEF ChunkIsRead
    <3>4. DataLeft(q, k)' = y
      BY <1>4, <1>12, <3>1 DEF DataLeft
    <3>5. Rest' = y \o (CRLF \o ChunksFrom(q, k))
      BY <1>6, <1>17, <2>2, <3>1 DEF Rest
    <3>6. body' \o (y \o DataFrom(q, k)) = Payload(q)
      BY <1>7, <1>18, <1>19
    <3>7. InChunk(q, k)'
      BY <1>4, <1>8, <3>1, <3>4, <3>5, <3>6 DEF InChunk
    <3>8. AtChunks(q)'
      BY <3>7 DEF AtChunks
    <3>9. Progress(q)'
      BY <1>2, <2>2, <2>3, <3>8 DEF Progress, AtBody
    <3> QED
      BY <1>20, <1>q, <2>2, <3>2, <3>3, <3>9, StreamGoesOn
  <2> QED
    BY <2>4, <2>5
<1> QED
  BY <1>21, <1>22

LEMMA ChunkedBodyStream ==
  ASSUME Reading, ParseChunkedBody
  PROVE  StreamInv'
BY LoopWaits, BadSizeStream, LastChunkStream, NextChunkStream, ChunkDataStream
   DEF ParseChunkedBody

----------------------------------------------------------------------------
(* The network, the answer and the client.                                 *)

LEMMA RecvStream ==
  ASSUME RequestInv, StreamInv, synced, NEW n \in 1..MaxRecv, Recv(n)
  PROVE  StreamInv'
<1>1. /\ pc = "recv" /\ n <= Len(wire) /\ pc' = "parse"
      /\ wire' = SubSeq(wire, n + 1, Len(wire)) /\ request' = request \o SubSeq(wire, 1, n)
      /\ UNCHANGED <<current, answered, synced, _pos, state, headers, isChunked, body, line, chunk>>
  BY DEF Recv
<1>2. n \in Nat /\ n > 0
  BY HttpRequestAssumption DEF HttpRequestAssumption
<1>3. answered = FALSE
  <2>1. answered \in BOOLEAN
    BY DEF RequestInv, CursorInBuffer, TypeOK
  <2>2. ASSUME answered = TRUE PROVE FALSE
    <3>1. wire = <<>>
      BY <2>2 DEF StreamInv, Idle
    <3>2. Len(wire) = 0
      BY <3>1
    <3> QED
      BY <1>1, <1>2, <3>2
  <2> QED
    BY <2>1, <2>2
<1>4. Reading
  BY <1>1, <1>3 DEF Reading
<1>q. PICK q : q = current.meant
  OBVIOUS
<1>5. /\ Progress(q) /\ IsPrefixOf(body, current.payload)
      /\ request \in Seq(Byte) /\ wire \in Seq(Byte) /\ _pos \in Nat /\ _pos <= Len(request)
  BY <1>4, <1>q, Known DEF _bufferLen
<1>6. Rest' = Rest
  BY <1>1, <1>2, <1>5, Received DEF Rest
<1>7. HeadersRead(q)' = HeadersRead(q) /\ AtHeaders(q)' = AtHeaders(q)
  BY <1>1, <1>6 DEF HeadersRead, AtHeaders, LineRead, FieldsRead
<1>8. AtChunks(q)' = AtChunks(q) /\ AtRequestLine(q)' = AtRequestLine(q)
  BY <1>1, <1>6 DEF AtChunks, BetweenChunks, InChunk, DataLeft, AtRequestLine, chunk
<1>9. Progress(q)'
  BY <1>1, <1>5, <1>6, <1>7, <1>8 DEF Progress, AtBody
<1> QED
  BY <1>1, <1>4, <1>5, <1>9, <1>q, StreamGoesOn

LEMMA AnswerStream ==
  ASSUME Answer
  PROVE  StreamInv'
<1>1. /\ pc' = "recv" /\ answered' = TRUE /\ synced' = (synced /\ wire = <<>>)
      /\ wire' = wire /\ request' = <<>> /\ _pos' = 0 /\ state' = "REQUESTLINE" /\ headers' = {}
  BY DEF Answer, Reset, ClearRequest
<1> QED
  BY <1>1 DEF StreamInv, Idle

LEMMA ClientSendsStream ==
  ASSUME RequestInv, StreamInv, synced, NEW r \in Requests, ClientSends(r)
  PROVE  StreamInv'
<1>1. /\ answered /\ wire' = wire \o r.bytes /\ current' = r /\ answered' = FALSE /\ synced' = synced
      /\ UNCHANGED <<pc, request, _pos, state, headers, body>>
  BY DEF ClientSends, parser
<1>2. /\ pc = "recv" /\ state = "REQUESTLINE" /\ headers = {}
      /\ wire = <<>> /\ request = <<>> /\ _pos = 0
  BY <1>1 DEF StreamInv, Idle
<1>3. body = <<>>
  BY <1>2 DEF RequestInv, Stored
<1>q. PICK q : q = r.meant
  OBVIOUS
<1>4. /\ WellFormed(q) /\ r = RequestOf(q)
  BY <1>q, GrammarAssumption
<1>5. r.bytes = Bytes(q) /\ r.payload = Payload(q)
  BY <1>4 DEF RequestOf
<1>6. PICK b : b = CRLF \o FieldsFrom(q, 0)
  OBVIOUS
<1>7. Bytes(q) = <<q.line>> \o b /\ b \in Seq(Byte) /\ q.line \in Token
  BY <1>4, <1>6, BytesIs, Parts, LineText
<1>8. Bytes(q) \in Seq(Byte) /\ Bytes(q) # <<>>
  <2>1. <<q.line>> \in Seq(Byte) /\ Len(<<q.line>>) = 1
    BY <1>7, OneToken
  <2>2. <<q.line>> \o b \in Seq(Byte) /\ Len(<<q.line>> \o b) = 1 + Len(b) /\ Len(b) \in Nat
    BY <1>7, <2>1, Joined
  <2>3. Len(Bytes(q)) # 0
    BY <1>7, <2>2
  <2> QED
    BY <1>7, <2>2, <2>3, EmptySeq
<1>9. wire' = Bytes(q)
  BY <1>1, <1>2, <1>5, <1>8, ConcatEmptySeq
<1>10. Rest' = Bytes(q)
  <2>1. SubSeq(<<>>, 0 + 1, Len(<<>>)) = <<>>
    BY SubSeqEmpty
  <2> QED
    BY <1>1, <1>2, <1>8, <1>9, <2>1, ConcatEmptySeq DEF Rest, Left
<1>11. Progress(q)'
  BY <1>1, <1>2, <1>10 DEF Progress, AtRequestLine
<1>12. IsPrefixOf(body', r.payload)
  <2>1. PICK p : p = r.payload
    OBVIOUS
  <2>2. p \in Seq(Byte)
    BY <1>4, <1>5, <2>1, DataFromIs
  <2>3. <<>> \o p = p /\ <<>> \in Seq(Byte)
    BY <2>2, ConcatEmptySeq, EmptySeq
  <2>4. IsPrefixOf(<<>>, p)
    BY <2>2, <2>3, BeginningIsPrefix
  <2> QED
    BY <1>1, <1>3, <2>1, <2>4
<1>13. NeedsMoreDataOrChunkEnd'
  BY <1>8, <1>9 DEF NeedsMoreDataOrChunkEnd
<1>14. pc' # "answer" /\ answered' = FALSE /\ current' \in Requests
  BY <1>1, <1>2
<1> QED
  BY <1>1, <1>11, <1>12, <1>13, <1>14, <1>q DEF StreamInv

LEMMA NothingStream ==
  ASSUME StreamInv, synced, UNCHANGED vars
  PROVE  StreamInv'
<1>1. /\ UNCHANGED <<wire, current, answered, synced>>
      /\ UNCHANGED <<pc, request, _pos, state, statusCode, headers, isChunked, body, line>>
      /\ UNCHANGED <<_currentChunkSize, _currentChunkBytesRead>>
  BY DEF vars, network, parser, chunk
<1>2. CASE answered
  <2>1. Idle /\ answered'
    BY <1>1, <1>2 DEF StreamInv
  <2>2. Idle'
    BY <1>1, <2>1 DEF Idle
  <2> QED
    BY <2>1, <2>2 DEF StreamInv
<1>3. CASE ~answered
  <2>q. PICK q : q = current.meant
    OBVIOUS
  <2>1. current' \in Requests /\ IsPrefixOf(body', current'.payload)
    BY <1>1, <1>3 DEF StreamInv
  <2>2. pc' = "answer" => Answered'
    <3> SUFFICES ASSUME pc' = "answer" PROVE Answered'
      OBVIOUS
    <3>1. Answered
      BY <1>1, <1>3 DEF StreamInv
    <3> QED
      BY <1>1, <3>1 DEF Answered
  <2>3. pc' # "answer" => NeedsMoreDataOrChunkEnd'
    <3> SUFFICES ASSUME pc' # "answer" PROVE NeedsMoreDataOrChunkEnd'
      OBVIOUS
    <3>1. NeedsMoreDataOrChunkEnd
      BY <1>1, <1>3 DEF StreamInv
    <3> QED
      BY <1>1, <3>1 DEF NeedsMoreDataOrChunkEnd
  <2>4. pc' # "answer" => Progress(q)'
    <3> SUFFICES ASSUME pc' # "answer" PROVE Progress(q)'
      OBVIOUS
    <3>1. Progress(q)
      BY <1>1, <1>3, <2>q DEF StreamInv
    <3>2. Rest' = Rest
      BY <1>1 DEF Rest, Left
    <3>3. HeadersRead(q)' = HeadersRead(q) /\ AtHeaders(q)' = AtHeaders(q)
      BY <1>1, <3>2 DEF HeadersRead, AtHeaders, LineRead, FieldsRead
    <3>4. AtChunks(q)' = AtChunks(q) /\ AtRequestLine(q)' = AtRequestLine(q)
      BY <1>1, <3>2 DEF AtChunks, BetweenChunks, InChunk, DataLeft, AtRequestLine
    <3> QED
      BY <1>1, <3>1, <3>2, <3>3, <3>4 DEF Progress, AtBody
  <2>5. answered' = answered /\ q = current'.meant
    BY <1>1, <2>q
  <2> QED
    BY <1>3, <2>1, <2>2, <2>3, <2>4, <2>5 DEF StreamInv
<1> QED
  BY <1>2, <1>3

LEMMA InitStreamInv == Init => StreamInv
BY DEF Init, StreamInv, Idle

LEMMA NextStreamInv == RequestInv /\ StreamInv /\ [Next]_vars => StreamInv'
<1> SUFFICES ASSUME RequestInv, StreamInv, [Next]_vars PROVE StreamInv'
  OBVIOUS
<1>1. CASE ~synced
  <2>1. ~synced'
    <3>1. CASE UNCHANGED vars
      BY <1>1, <3>1 DEF vars, network
    <3>2. CASE Next
      <4>1. CASE Answer \/ \E r \in Requests : ClientSends(r)
        BY <1>1, <4>1 DEF Answer, ClientSends
      <4>2. CASE \E n \in 1..MaxRecv : Recv(n)
        BY <1>1, <4>2 DEF Recv
      <4>3. CASE ParseRequestLine
        BY <1>1, <4>3 DEF ParseRequestLine, WaitForRequestLine, SkipEmptyLine, RejectRequestLine,
          AcceptRequestLine, Incomplete, Fail, network
      <4>4. CASE ParseHeaders
        BY <1>1, <4>4 DEF ParseHeaders, WaitForHeader, HeaderLine, EndOfHeaders,
          Incomplete, Fail, network
      <4>5. CASE ParseBody
        BY <1>1, <4>5 DEF ParseBody, NoBody, RejectBody, StoreBody, WaitForBody, StartChunked,
          Incomplete, Fail, network
      <4>6. CASE ParseChunkedBody
        BY <1>1, <4>6 DEF ParseChunkedBody, Exhausted, WaitForSize, BadSize, LastChunk, NextChunk,
          WaitForData, ChunkData, Incomplete, Fail, network
      <4> QED
        BY <3>2, <4>1, <4>2, <4>3, <4>4, <4>5, <4>6 DEF Next
    <3> QED
      BY <3>1, <3>2
  <2> QED
    BY <2>1 DEF StreamInv
<1>2. CASE synced
  <2>1. CASE \E n \in 1..MaxRecv : Recv(n)
    BY <1>2, <2>1, RecvStream
  <2>2. CASE ParseRequestLine \/ ParseHeaders \/ ParseBody \/ ParseChunkedBody
    <3>1. pc = "parse" \/ pc = "chunk"
      BY <2>2 DEF ParseRequestLine, ParseHeaders, ParseBody, ParseChunkedBody
    <3>2. answered \in BOOLEAN
      BY DEF RequestInv, CursorInBuffer, TypeOK
    <3>3. answered = FALSE
      BY <1>2, <3>1, <3>2 DEF StreamInv, Idle
    <3>4. Reading
      BY <1>2, <3>1, <3>3 DEF Reading
    <3> QED
      BY <2>2, <3>4, RequestLineStream, HeadersStream, BodyStream, ChunkedBodyStream
  <2>3. CASE Answer
    BY <2>3, AnswerStream
  <2>4. CASE \E r \in Requests : ClientSends(r)
    BY <1>2, <2>4, ClientSendsStream
  <2>5. CASE UNCHANGED vars
    BY <1>2, <2>5, NothingStream
  <2> QED
    BY <2>1, <2>2, <2>3, <2>4, <2>5 DEF Next
<1> QED
  BY <1>1, <1>2

\* Of every request the grammar allows, wherever the network cuts it, parse() keeps a
\* beginning of the data the client meant, and has all of it when it accepts.
THEOREM BodyFollowsStream == Spec => []BodyIsPayload
<1>1. RequestInv /\ StreamInv => BodyIsPayload
  <2> SUFFICES ASSUME RequestInv, StreamInv, synced, ~answered
               PROVE  /\ IsPrefixOf(body, current.payload)
                      /\ pc = "answer" /\ statusCode < 400 => body = current.payload
    BY DEF BodyIsPayload
  <2>1. IsPrefixOf(body, current.payload) /\ (pc = "answer" => Answered)
    BY DEF StreamInv
  <2> QED
    BY <2>1 DEF Answered
<1> QED
  BY InitRequestInv, NextRequestInv, InitStreamInv, NextStreamInv, <1>1, PTL DEF Spec

\* And answers with the status that the grammar's rules give the whole request, as if it
\* had come in one piece, or with 500 when the upload cannot be written.
THEOREM AnswerFollowsRequest == Spec => []AnswerIsExpected
<1>1. RequestInv /\ StreamInv => AnswerIsExpected
  <2> SUFFICES ASSUME RequestInv, StreamInv, synced, pc = "answer"
               PROVE  statusCode = current.status \/ (UploadsFail /\ statusCode = 500)
    BY DEF AnswerIsExpected
  <2>1. ~answered
    BY DEF StreamInv, Idle
  <2>2. Answered
    BY <2>1 DEF StreamInv
  <2> QED
    BY <2>2 DEF Answered
<1> QED
  BY InitRequestInv, NextRequestInv, InitStreamInv, NextStreamInv, <1>1, PTL DEF Spec

\* The parser never waits with all of a request in hand, but for a chunk whose data
\* ended a recv(): there HttpIncompleteRequest is thrown and the CR LF not looked for again.
THEOREM WaitsOnlyAtChunkEnd == Spec => []NeedsMoreDataOrChunkEnd
<1>1. RequestInv /\ StreamInv => NeedsMoreDataOrChunkEnd
  BY DEF StreamInv, NeedsMoreDataOrChunkEnd
<1> QED
  BY InitRequestInv, NextRequestInv, InitStreamInv, NextStreamInv, <1>1, PTL DEF Spec
============================================================================
