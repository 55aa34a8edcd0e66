--------------------------- MODULE RequestGrammar ---------------------------
(***************************************************************************)
(* The requests of a client for HttpRequest: what the client means, the    *)
(* bytes that say it, and the outcome that the whole request calls for,    *)
(* without a stream, a buffer or a cursor.                                 *)
(***************************************************************************)
EXTENDS HttpRequest

CRLF == <<"CR", "LF">>
Token == Byte \ {"CR", "LF"}

\* A request line, header lines, and data: as it is, or in chunks, each under a line
\* with its size, closed by the size line last.
Meaning ==
  [line : Token, fields : Seq(Token), data : Seq(Byte),
   chunks : Seq([size : Token, data : Seq(Byte)]), last : Token]

\* What follows the first k pieces of a text.
Following(pieces) ==
  LET after[k \in 0..Len(pieces)] ==
        IF k = Len(pieces) THEN <<>> ELSE pieces[k + 1] \o after[k + 1]
  IN  after

FieldLines(q) == [i \in 1..Len(q.fields) |-> <<q.fields[i]>> \o CRLF]
ChunkTexts(q) == [i \in 1..Len(q.chunks) |-> <<q.chunks[i].size>> \o CRLF \o q.chunks[i].data \o CRLF]
ChunksData(q) == [i \in 1..Len(q.chunks) |-> q.chunks[i].data]

Field(q, f) == \E i \in 1..Len(q.fields) : q.fields[i] = f
Lengths(q) == {h \in DOMAIN ContentLength : Field(q, h)}

ChunksFrom(q, k) == Following(ChunkTexts(q))[k] \o <<q.last>> \o CRLF \o CRLF
BodyText(q) == IF Field(q, "chunked") THEN ChunksFrom(q, 0) ELSE q.data
FieldsFrom(q, k) == Following(FieldLines(q))[k] \o CRLF \o BodyText(q)
Bytes(q) == <<q.line>> \o CRLF \o FieldsFrom(q, 0)
Payload(q) == IF Field(q, "chunked") THEN Following(ChunksData(q))[0] ELSE q.data

\* The lengths are true, unless the request is too large anyway; a chunk has data.
\* The methods allowed are those of a Location that matches.
WellFormed(q) ==
  /\ q \in Meaning
  /\ q.line \in DOMAIN RequestLines => RequestLines[q.line].routed
  /\ \A g, h \in Lengths(q) : ContentLength[g] = ContentLength[h]
  /\ ~Field(q, "chunked") =>
       /\ Lengths(q) = {} => q.data = <<>>
       /\ \A h \in Lengths(q) : ContentLength[h] <= MaxBodySize => Len(q.data) = ContentLength[h]
  /\ \A i \in 1..Len(q.chunks) :
       /\ q.chunks[i].size \in DOMAIN ChunkSize /\ q.chunks[i].data # <<>>
       /\ ChunkSize[q.chunks[i].size] = Len(q.chunks[i].data)
  /\ q.last \in DOMAIN ChunkSize => ChunkSize[q.last] = 0

\* The outcome of a request: the first of these rules that applies.
FaultOfFields(q) ==
  IF Field(q, "bad") THEN 400
  ELSE IF Field(q, "gzip") THEN 501
  ELSE IF \/ Field(q, "chunked") /\ Lengths(q) # {}
          \/ RequestLines[q.line].method = "POST" /\ ~Field(q, "chunked") /\ Lengths(q) = {}
          \/ ~Field(q, "host")
       THEN 400
  ELSE 0
FaultOfBody(q) ==
  LET info == RequestLines[q.line] IN
  IF ~Field(q, "chunked") /\ Lengths(q) = {} THEN 0
  ELSE IF info.method \notin info.allowed THEN 405
  ELSE IF \/ \E h \in Lengths(q) : ContentLength[h] > MaxBodySize
          \/ Field(q, "chunked") /\ Len(Payload(q)) > MaxBodySize
       THEN 413
  ELSE IF Field(q, "chunked") /\ q.last \notin DOMAIN ChunkSize THEN 400
  ELSE 0
Outcome(q) ==
  IF q.line \notin DOMAIN RequestLines THEN 400
  ELSE IF FaultOfFields(q) # 0 THEN FaultOfFields(q)
  ELSE IF FaultOfBody(q) # 0 THEN FaultOfBody(q)
  ELSE RequestLines[q.line].path

RequestOf(q) == [bytes |-> Bytes(q), payload |-> Payload(q), status |-> Outcome(q), meant |-> q]

ASSUME GrammarAssumption == \A r \in Requests : WellFormed(r.meant) /\ r = RequestOf(r.meant)
=============================================================================
