--------------------------- MODULE MCHttpRequest ---------------------------
(* Instances of HttpRequest for TLC, with the requests of RequestGrammar.  *)
EXTENDS RequestGrammar

MCByte == {"CR", "LF", "host", "chunked", "gzip", "bad", "post", "get", "missing",
           "readonly", "script", "cl1", "cl2", "cl3", "clbad", "0", "1", "2", "3", "x", "a", "b"}

Routed(m, path, allowed, script) ==
  [method |-> m, path |-> path, routed |-> TRUE, allowed |-> allowed, script |-> script]
MCRequestLines ==
  [b \in {"post", "get", "missing", "readonly", "script"} |->
     CASE b = "post" -> Routed("POST", 200, {"GET", "POST"}, FALSE)
       [] b = "get" -> Routed("GET", 200, {"GET", "POST"}, FALSE)
       [] b = "missing" -> Routed("POST", 404, {"GET", "POST"}, FALSE)
       [] b = "readonly" -> Routed("POST", 200, {"GET"}, FALSE)
       [] b = "script" -> Routed("POST", 200, {"POST"}, TRUE)]
\* "clbad" is a value atoull answers with its -1, the largest there is.
MCContentLength ==
  [b \in {"cl1", "cl2", "cl3", "clbad"} |->
     CASE b = "cl1" -> 1 [] b = "cl2" -> 2 [] b = "cl3" -> 3 [] OTHER -> 99]
MCChunkSize ==
  [b \in {"0", "1", "2", "3"} |->
     CASE b = "0" -> 0 [] b = "1" -> 1 [] b = "2" -> 2 [] OTHER -> 3]

\* A request with data, and one with chunks closed by the size line last.
Plain(line0, fields, data) ==
  [line |-> line0, fields |-> fields, data |-> data, chunks |-> <<>>, last |-> "0"]
SizeLine(n) == CASE n = 1 -> "1" [] n = 2 -> "2" [] OTHER -> "3"
ChunkedWith(line0, fields, chunks, last) ==
  [line |-> line0, fields |-> fields, data |-> <<>>, last |-> last,
   chunks |-> [i \in DOMAIN chunks |-> [size |-> SizeLine(Len(chunks[i])), data |-> chunks[i]]]]
Chunked(line0, chunks, last) == ChunkedWith(line0, <<"host", "chunked">>, chunks, last)

PlainRequests ==
  {Plain("get", <<"host">>, <<>>), Plain("get", <<>>, <<>>), Plain("bad", <<"host">>, <<>>),
   Plain("post", <<"host", "cl2">>, <<"a", "b">>), Plain("post", <<"host", "cl3">>, <<"a", "b", "a">>),
   Plain("post", <<"host", "clbad">>, <<"a">>), Plain("post", <<"host">>, <<>>),
   Plain("post", <<"host", "bad", "cl1">>, <<"a">>), Plain("missing", <<"cl1", "host">>, <<"b">>),
   Plain("readonly", <<"host", "cl1">>, <<"a">>), Plain("script", <<"host", "cl2">>, <<"b", "a">>)}
ChunkedRequests ==
  {Chunked("post", <<>>, "0"), Chunked("post", <<<<"a", "b">>>>, "0"),
   Chunked("script", <<<<"a">>, <<"b">>>>, "0"), Chunked("post", <<<<"a", "b">>, <<"a">>>>, "0"),
   Chunked("post", <<<<"b">>>>, "x"), Chunked("readonly", <<<<"a">>>>, "0"),
   Plain("post", <<"host", "gzip">>, <<>>), ChunkedWith("post", <<"host", "chunked", "cl1">>, <<<<"a">>>>, "0")}
MCRequests == {RequestOf(q) : q \in PlainRequests \cup ChunkedRequests}
\* One chunk, to show where it may be cut.
OneChunk == {RequestOf(Chunked("script", <<<<"a", "b">>>>, "0"))}
============================================================================
