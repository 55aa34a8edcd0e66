# A verification project for WebServ1337

TLA+ modules, TLC instances and TLAPS proofs for the HTTP server in `src/`: a
single-threaded, epoll-driven C++98 server with virtual servers, routes, uploads
and CGI. Every definition is translated from the source; `PROJECT.json` gives, for
each, the lines it stands for. Paths below are relative to `src/src/`.

## 1. The system

| Component | State it keeps | Operations | What makes it correct |
|---|---|---|---|
| Configuration, `Webserv.cpp`, `config/Config.cpp` | `serverPool`, and per server ports, error pages, routes, `redirLoopDetector` | `parseConfigFile`, `parseSeverBlock`, the insert functions | Accepts only what can be served: ports that can be had, no redirect loop |
| Start-up and end, `config/ServerManager.cpp`, `Server.cpp`, `Socket.cpp` | `servers`, `listeningSockets`, the epoll instance, `g_manager` | `initServers`, `initEpoll`, `shutDownManager`, `handleSignal` | Whatever fails, the loop hears every socket that listens; a signal closes all and uses nothing that is gone |
| Event loop, `config/ServerManager.cpp` | `Clients` (map fd → Client), `events` (array for epoll_wait), the interest list | `eventsLoop`, `handleEvent`, `handleConnections`, `handleRequest`/`readRequest`, `sendResponse`, `closeConnection`, `modifyEpollEvent`, `checkTimeouts` | The kernel's tables, the servers' lists and `Clients` agree; an event is handled for the connection it was reported for; every response ends; dead and silent connections are closed |
| Client, `Client.cpp` | client state, send buffer and offset, file, last activity | `shouldKeepAlive`, `resetState` | Nothing of one response reaches the next |
| Server, `config/Server.cpp` | `clientSockets`, `listeningSockets` | `acceptConnection`, `closeConnection`, `shutdownServer` | Each client socket is in one list, exactly while it is open |
| Request parser, `http/HttpRequest.cpp` | buffer and cursor `_pos`, parsing state, headers, body, chunk counters, upload file | `parse` and its parts, `readLine`, `reset` | The result does not depend on how the network cuts the stream; limits hold; the file has the bytes of the body |
| URI and route, `http/HttpRequest.cpp` | `uriPath`, `routeKey` | `validateURI`, `decodeAndNormalize`, `normalize`, `RouteURI` | The path stays below the root; the longest route serves it |
| Responses, `http/HttpResponse.cpp` | status, headers, body | `generateResponse`, `GET`, `POST`, `DELETE`, `setErrorPage`, `generateAutoIndex` | One response per request, with the status its path calls for and of the announced length |
| CGI, `handleCgiScript` | pipes, the child, the output | fork, write, read, kill, waitpid | The handler returns and leaves no descriptor, no child and no cut output |
| Conversions, `Common.cpp` | none | `atoull`, `_16_to_10`, `toString` | Values as written, without overflow |

**How they interact.** `main` parses the configuration and constructs a
ServerManager, whose constructor opens the sockets and never returns. Everything
afterwards is one thread: `eventsLoop` calls the handlers, a handler calls the
parser and `generateResponse`, and these read and write files and run CGI scripts
*inside* the handler; the file of a response is opened by `sendResponse`, in a later
event. There is no lock and no other thread; what is concurrent is the rest of the
world: peers (connect, send, shut down, reset, drain), the clock, the network's
segmentation, the CGI children, the file system, and the handlers of three signals.

**What is hard.** Events of a batch that are stale when handled; descriptor
numbers reused by `accept`; handlers that close the connection they are working on
(`readRequest` from within `handleRequest`); failures of `epoll_ctl` in the middle
of a handler; short sends; a parser that must resume at any byte; a file that is
checked, measured and opened in four looks; blocking pipes to a child; timeouts that
depend on who renews `lastActivityTime`; set-up calls that fail one by one; a signal
handler that tears down what the interrupted code is using; numbers that do not fit.
The list, each with its line and the properties that watch it, is `hazards` in
`PROJECT.json`.

## 2. The modules

**`ServerManager`** (core). One action per handler, each atomic, as in the code;
between two handlers the environment moves. State ↔ code:

| Variable | Code |
|---|---|
| `sock` | the kernel's accepted sockets: open, segments to read, whether the peer is up, has shut down or has reset, room to send |
| `backlog` | the listen queues |
| `interest` | the epoll interest list: none, EPOLLIN or EPOLLOUT |
| `clientSockets` | `Server::clientSockets` of each server |
| `Clients` | `ServerManager::Clients`: state, parsing state, send buffer and file in units, idle ticks |
| `evCapacity` | `events.size()` |
| `batch` | the reported events not handled yet (in any order: epoll promises none) |
| `pc` | waiting in `epoll_wait`, handling a batch, or ended |

`EpollWait`, `HandleEvent` (which dispatches to `CloseConnections`,
`HandleConnections`, `HandleRequest`, `SendResponse`), `CheckTimeouts`,
`HandleSignal` are the functions of the same names. Outside the process:
`Connect`, `PeerSends`, `PeerShutsDown`, `PeerResets`, `PeerDrains`, `Tick`. The
parser is abstracted to "needs more / complete" and `generateResponse` to any
member of `Outcomes`. The read of the freed client in `handleRequest` (line 283)
is undefined behaviour: it reads the old value (`ReadRequestCloses`) or ends the
process (`ReadFreedFaults`).

**`ConnectionService`** says what the loop promises without its tables: a
connection belongs to one server from accept to end, alternates between reading
and responding, may be dropped in either phase; one whose registration failed is
"lost" until the service stops. **`ServerManagerRefinement`** maps the tables to
these phases.

**`Startup`** is the constructor up to the loop and the way out: each set-up call is
a step (`Create`, `Bind`, `Listen`, `Catch`, `PushServer`, `EpollCreate`,
`AddListeningSocket`), each may fail, and an exception that leaves the constructor
destroys the object (`Unwind`) while `g_manager` still points to it (`dangling`). A
`Signal` starts a handler above whatever runs (`frames`, a stack: other signals
interrupt a handler, its own does not); `CloseEpoll`, `DeleteServer`, `Clear`, `Exit`
are `shutDownManager` statement by statement. `undefined` is set when something is
deleted twice or used after its end.

**`Configuration`** reads a file, a sequence of marks and lines: `FindBlock` is
`parseConfigFile`, `ParseLine` and `EndBlock` are `parseSeverBlock` with the insert
functions. `conf` and `serverPool` are the code's; what a host, a method or a size
must look like is one flag of the line.

**`HttpRequest`** is the incremental parser: buffer, cursor, `readLine`, request
line, headers, body by length, body by chunks with its upload file, errors and
`reset`. A line's content counts as one byte (the text of a line is not a question
here), CR, LF and body data are bytes of their own, so that the network can cut
anywhere that matters. **`RequestGrammar`** says what a client means by a request (its
lines, its data or its chunks), which bytes say it (`Bytes`), which of them are its body
(`Payload`) and which status it calls for (`Outcome`, one table of rules over the whole
request), without a stream, a buffer or a cursor; `GrammarAssumption` says that the
`Requests` of an instance are such. `MCHttpRequest` lists nineteen kinds of them.

**`Routing`** takes a URI from `validateURI` through the loops of
`decodeAndNormalize` and `normalize` to `RouteURI`, one round of a loop a step; an
escape is one symbol until it is decoded. **`NormalForm`** writes the normal form as one
formula over the whole text: which pieces survive, counted, without a stack.

**`NumericConversions`** runs the loops of `atoull` and `_16_to_10` with widths as
parameters (the largest unsigned long long and the largest int), with what `parseBody`
and `parseChunkedBody` do with the result; `Decode` is an escape.

**`HttpResponse`** is one request from `RouteURI`'s check of the path to the bytes
`sendResponse` sends, with each look at the file system a step and `Disturb` between
them: somebody else changes the target, the default file or the error page. `resp` is
the object (status, announced lengths, bytes in `responseBody`, file), `out` what the
peer sees. `MCHttpResponse` gives the expected status as one table.

**`CgiExecution`** is `handleCgiScript` against a script: two bounded pipes with
their open ends, blocking calls as actions that are not enabled, the script that
reads first, writes first or ignores its input, exits, fails or gets killed.

**`ServerManagerProofs`** (with the refinement), **`StartupProofs`**,
**`ConfigurationProofs`**, **`HttpRequestProofs`**, **`RoutingProofs`**,
**`NumericConversionsProofs`**, **`HttpResponseProofs`** and **`CgiExecutionProofs`** hold
the theorems of section 4, each after the invariant and the lemmas it rests on.

Modules contain *variants* of some operators (comments say "Variant"): forms of a
step with a plausible bug, used to confirm that each property notices it.

## 3. What TLC checks

| Run | Instance | Shows |
|---|---|---|
| `server_manager_safety` | 1 server and listener, 2 descriptors, any `epoll_ctl` failing; 216k states | `ClientsRegistered`, `SocketsListed`, `EventsArrayBounded`, `PendingEventUndisturbed`, `FreshClientOnAccept`, refinement `ImplementsConnectionService` |
| `server_manager_liveness` | 1 descriptor in detail: files of up to 2 blocks, short sends, all kinds of outcome; fairness | `NoOrphanSocket`, `ResponseSentWhole`, `ReaderNotComplete`, `ResponseEnds`, `PeerGoneCloses`, `SilentPeerCloses` |
| `server_manager_backlog` | 2 descriptors compete with the listener for the array; fairness | `BacklogServed` |
| `startup` | 2 servers on 2 ports and 1, one port on both; every call may fail; 3 signals at any step; 225k states | `LoopHearsEveryPort`, `OneSignalClosesAll`, `UndefinedOnlyIfInterrupted`, `StartsOrEnds` |
| `configuration` | every sequence of up to 4 marks and lines; up to 4 routes over 2 paths and 3 over 3; several blocks; 110k states | `NoDirectLoop`, `CanListen`, `LoopRejectedHasCause` |
| `http_request_segments` | 2 requests of 19 kinds on one connection, every segmentation; 325k states | `CursorInBuffer`, `BodyIsPayload`, `AnswerIsExpected`, `BodyWithinLimit`, `UploadMatchesBody`, `ErrorLeavesNoUpload`, `NeedsMoreDataOrChunkEnd` |
| `http_request_chunk_end` | one chunked request | **violation** of `NeedsMoreData` (below) |
| `http_request_last_line` | two chunked requests | **violation** of `NoRequestLineWaits` (below) |
| `routing` | every text of up to 6 symbols and of 4 of the segments /a, /ab, /. and /.., two route maps; 253k states | `NoDotSegments`, `NormalAsDefined`, `ServedByLongestRoute` |
| `numeric_conversions` | every text of up to 4 characters, widths of 5 and 9 bits; 62k states | `AcceptedIsMeant` |
| `http_response_races` | every kind of request over every state of three paths, one change in between; 151k states | `KeptMeansFramed`, `SilenceNeedsChange`, `ErrorPageIsError`, `StatusIsExpected` |
| `cgi_liveness` | bodies and outputs of 0 to 5 units, pipes of 3; fairness | `ReturnsClean`, `TruncatedOnlyWhenLate`, `WaitsOnlyForLiveChild`, `NoMutualWait`, `CgiEnds` |

The type invariants of `ServerManager`, `Startup` and `Configuration` are theorems of
their own; those of `HttpRequest`, `CgiExecution`, `HttpResponse` and
`NumericConversions` are conjuncts of `CursorInBuffer`, `ReturnsClean`,
`ErrorPageIsError` and `AcceptedIsMeant`, and the one of `Routing` of `RoutingInv`.

**Bounds, and why they are enough.** Two descriptors let one be reused while an
event of the other waits. `MaxBacklog`, `MaxQueue`: one connection and one segment
suffice for a step to be possible, two segments let a `recv()` leave data. `Timeout`
of 1 or 2 ticks orders the timeout before and after every other step. `MaxBlocks` = 2
makes a first, a middle and a last read of a file; `HeaderUnits` = 2 makes a short
send. Several servers with one listener each are in the proofs, which hold for any
number. `Startup`: two ports of one server give a failure before and after a success,
a second server one between two pushes, and three signals a handler interrupted
twice. `Configuration`: a loop takes two routes, a redefinition a third, a loop
through a redefinition a fourth. For the parser a `recv()` takes up to 30 bytes, more
than the longest request, two requests show what `reset` leaves, and `MaxBodySize` =
2 has bodies below, at and above it. `Routing`: three segments with a ".." that takes
two back need six symbols, and the texts of segments reach four; `MaxURI` = 10 lies
between the lengths that occur. `NumericConversions`: four digits overflow both widths, hexadecimal
digits the nine bits of int twice. `HttpResponse`: `PageBuffer` = 2, `IntMax` = 3 and
files of 0, 2 and 5 bytes are below, at and above each limit; `MaxChanges` = 1 falls
between any two looks. Pipes of 3 units with sizes up to 5 give every relation of
body, output, read size (2) and capacity.

**Fairness, and why the code justifies it.** The loop is one thread that runs
whenever an event or the one-second timeout of `epoll_wait` lets it: weak fairness
of `Loop`. Time passes: weak fairness of `Tick`. Nothing is assumed of peers. In
`Startup` the process, be it the constructor (`Main`) or a handler (`Handler`), is
scheduled; nothing is assumed of signals, so `StartsOrEnds` holds without any. In
`CgiExecution` the handler's own steps and the script's possible steps go on: a
script that hangs is outside `CgiEnds` (the code has no answer to it, see the
hazards).

`CHECK_DEADLOCK FALSE` is set where the system may really stop: a parser that waits
for a client that has nothing more to send, a server and a script that wait for each
other for ever, a process that has ended (`Startup`), and the computations that are
done (`Configuration`, `Routing`, `NumericConversions`).

**Findings.**

- `http_request_chunk_end`: when a segment ends between the data of a chunk and its
  CR LF, `readLine` throws at `http/HttpRequest.cpp:458` after the chunk was counted as
  read and before it was closed. Every later `parse` computes `bytesToRead = 0` and
  waits (443–446): the request is never completed, until the timeout.
  `NeedsMoreDataOrChunkEnd`, which holds, says that this is the only case.
- `http_request_last_line`: the last chunk completes the request at its size line
  (426–431). When the empty line after it arrives later, `parseRequestLine` takes it
  for the next request and throws "need more data" (53–54), although that request may
  stand whole behind it; nothing more comes, and the connection waits for its timeout.

**Seen while modelling**, where the repository says nothing to compare with. A
directory without default file and listing is answered with an error page of status
200 (`http/HttpResponse.cpp:278`). `Connection` is looked for under a name
`parseHeaders` never stores (640), so that the announced and the real end of a
connection differ. A POST to a path that was not found stores its body before it is
refused (213). `decode` checks the first digit of an escape twice and the second never
(`http/HttpRequest.cpp:233`). `redirLoopDetector` keeps the redirect of a route that
is defined again without one, and a file without a loop is rejected
(`config/Config.cpp:209`; `LoopRejectedHasCause` says that there is no other cause).
The table of error codes has forty entries and the loop looks at thirty-nine (106).

## 4. What is proved

**Event loop.** `ServerManagerProofs` proves for all values of the constants
satisfying `ConstantsAssumption` (finite sets of descriptors and listeners, disjoint;
each listener has a server; positive bounds):

- `TypeCorrect`, `ListsAgree` (`SocketsListed`), `RegistrationMatchesState`
  (`ClientsRegistered`, and `OnlyClientsRegistered`: nothing else is registered),
  `NoOrphans`, `ResponseWhole`, `DestroyedReaderIncomplete` (`ReaderNotComplete`),
  `ArrayBounded`;
- the action properties `StaleEventsHarmless` (`PendingEventUndisturbed`) and
  `ReusedDescriptorIsFresh` (`FreshClientOnAccept`).

Under the same assumptions it proves `EventLoopImplementsService`:
`Spec => ImplementsConnectionService`.

*The argument.* The inductive invariant `IInv` joins four parts, because none is
inductive alone. `TablesInv`: the tables agree and each client is `Sound`
(closing through `FindServer` removes the right entry only if no two servers list
a descriptor; a client is registered correctly only if its state is). `BatchInv`:
a pending event's descriptor still has its client and no two events share one;
this is what makes closing, and accepting a number that is *not open*, harmless to
the rest of the batch. `LoopType`: the remaining types, with the bound of the
array, which follows from at most one event per descriptor (an injection of the
reported events into the descriptors). `NoOrphanSocket`. One lemma per handler
shows that it keeps the tables; `ChangeKeepsTables` and `CloseKeepsTables` are the
two ways a handler ends. `AtMostCloses` bounds what a handler does to other
descriptors. The action properties follow from `IInv` in one step.

*The argument for the refinement.* A handler ends in one of a few ways, and each is
a step or a stutter of the service: `CloseIsDrop` (closing frees exactly the
connections that are in `Clients`, which `BatchInv` says of an event's descriptor,
so a "lost" socket is never dropped), `ReplaceIsStep` (a new client record is
`Answer`, `Finish` or nothing, by the state before and after), `AcceptIsStep` (the
number taken was in no list: `SocketsListed`) and `EndProcessIsStep`. The steps of
peers and of the clock change no phase. `IInv` supplies the facts about the state.

**Start-up and end.** `StartupProofs` proves, for any configurations and ports and any
finite set of signals, `StartupTypeCorrect`, `LoopStartsWithEverySocket`
(`LoopHearsEveryPort`), `NothingUsedAfterItsEnd` (`UndefinedOnlyIfInterrupted`) and
`SignalClosesEverySocket` (`OneSignalClosesAll`).

*The argument.* `StartupInv` follows the order of things. `InOrder`: Servers are pushed
in the order of the configurations and deleted in it, so the one handler there is
never meets a Server it has deleted. `SocketsBuilt`: while no handler runs, a Server's
sockets are exactly those that listen, all before the port the constructor is at, and
only that port's may be half open. `SocketsKnown`: the manager knows the sockets of the
Servers it has, epoll those that were added. `Closing`: what is still open during the
handler belongs to a Server it has not reached or to the one in the making. A second
handler, or a signal after the exception of the constructor, is outside these parts,
and the properties say so.

**Configuration.** `ConfigurationProofs` proves, for any files, paths and ports,
`ConfigurationTypeCorrect`, `NoServerRedirectsBackAndForth` (`NoDirectLoop`) and `EveryServerCanListen`
(`CanListen`).

*The argument.* `ConfigurationInv`: the detector of a Config knows every redirect in
force (`Detects`) and has no loop while the parse goes on (`LoopFree`), hence the
routes have none; ports stay in range and distinct as lines join (`PortsJoined`); the
marks passed are the servers there are, and one more inside a block (`CountInv`). That
`file[pos]` is an item at all rests on `BlockCloses`: `FindBlock` enters a block only
if its bracket is ahead.

`LoopRejectionHasCause` (`LoopRejectedHasCause`) is the converse: `CauseInv` says that
the detector holds only paths of lines already read (`Origin`) and, unless some path is
defined twice, only redirects in force (`InForce`). A loop of the detector is then one of
the routes (`LoopIsInRoutes`).

**Request parser.** `HttpRequestProofs` proves, for any bytes, request lines, lengths,
chunk sizes, limit and requests, and any cut of the stream, also after an error has put
the stream out of step: `CursorStaysInBuffer` (`CursorInBuffer`, with the types),
`BodyStaysWithinLimit`, `UploadIsBody` (`UploadMatchesBody`), `FailureLeavesNoUpload`
(`ErrorLeavesNoUpload`). For any requests of `RequestGrammar`, as many as there may be
on a connection and cut anywhere: `BodyFollowsStream` (`BodyIsPayload`),
`AnswerFollowsRequest` (`AnswerIsExpected`) and `WaitsOnlyAtChunkEnd`
(`NeedsMoreDataOrChunkEnd`). That these hold for every cut is the statement that the
result does not depend on how the network segments the stream.

*The argument.* `RequestInv`. `Phases`: what each state of the parser implies (inside a
chunk the request is chunked and its file open). `Counters`: the body is what the chunks
announced less what the last one still owes (`Owed`). It is needed because the code
compares only the announced total with the limit, and bytes are stored one `recv()`
at a time. `Stored`: while no error was
found the file has the bytes of the body, and there is no file before
`parseChunkedBody` has run. The lemmas say that a line or a chunk the parser takes
ends within the buffer (`LineEndInBuffer`, `EndOfChunkInBuffer`, `BytesToReadBounds`).

*The argument for the stream.* `StreamInv` says that what is left of the stream, in the
buffer and on the wire together (`Rest`), is what the grammar still has to say: the
whole request, the header lines from the k-th, the chunks from the k-th, or the end of
a chunk (`Progress`). A `recv()` moves bytes from the one to the other and changes
nothing (`Received`); a round of the parser takes the next line or data off the front
(`Advance`, `LineIs`, `ChunkEndIs`), which `FirstLineEnd` identifies because no token
of a line is a CR or an LF. In chunks the invariant also says that the body and the data
still to come are together the payload, so the body is a beginning of it, and all of it
at the last size line. The status is right because each place where the parser fails
is where the first rule of `Outcome` applies, given that none before it has
(`HeadersVerdict`, `RejectBodyStream`, `BadSizeStream`, `NextChunkStream`,
`LastChunkStream`): the limit is passed at the chunk at which the code counts it only if
the whole payload passes it, and conversely (`AllChunks`). The assumption's conditions
are those under which the code agrees with what the client meant: lengths that are
true and agree, chunks with data, size lines that say the size. `GrammarAssumption` is
evaluated by TLC for the nineteen kinds.

**URI and route.** `RoutingProofs` proves, for any text, escapes and map of routes,
`NoComponentIsDots` (`NoDotSegments`), `LongestRouteServes` (`ServedByLongestRoute`) and
`NormalizeComputesNormalForm` (`NormalAsDefined`).

*The argument.* `Texts` says what each loop has in hand. That no segment is "." or ".."
rests on `Cut` (a piece is what precedes the next slash) and on `Pushed`, a round of
`normalize`. A segment could still hide a dot segment behind a slash of its own:
`NoSlashInside`, proved with it, says none does, escaped slashes included, since
`normalize` runs on decoded text. `LongestSoFar` is the invariant of the loop over the
routes; that the root replaces exactly the route's prefix is `PrefixAndRest` and
`RestOfConcat`.

*The argument for the normal form.* `NormalInv` follows the two loops with an index into
the text each. The first has decoded the path of a beginning of the URI that ends with
a segment (`DecodedTo`; a round makes it longer: `BeginningNext`, which rests on
`RootedJoin`). The second stands at the start of a piece, and its stack holds the pieces
at the places of exactly the names that survive what came before (`Kept`, `IsStack`).
That needs a count to be inductive: above the j-th place of the stack there are as
many places as the names since then exceed the "..". Then a ".." takes away precisely
the last name that survived (`StackPop`), a name adds itself (`StackPush`), "." and
".." at the root change nothing (`StackStays`, `KeptNext`). At the end what survives
everything is on the stack, in order, and putting the stack together gives the same
as putting all pieces together with those that do not survive left empty
(`FlattenSelected`, by the length of the text).

**Conversions.** `NumericConversionsProofs` proves `ConversionsAreExact`
(`AcceptedIsMeant`) for any texts, digits and widths, hence for those of the build.

*The argument.* `NumericInv`: in the loop the machine's value is the value of the digits
read, modulo the width (`OneMoreDigit`: multiplying and adding commute with the
wrap-around, and two values of the width that differ by a multiple of it are one,
`SameValue`). The -1 with which both functions refuse a text is the largest unsigned
number for `atoull`, above any limit, and negative for `_16_to_10`, so no caller takes it
for a number (`MinusOneIsRefused`).

**Induction over data.** The library's induction theorems take an operator and cannot be
used here. `EveryNat` and `FlattenTyped` replace them: a set of naturals that contains 0 and
with n also n + 1 has no least missing element (`NatLessThanWellFounded`). The recursive
functions of the models are unfolded through lemmas that construct them (`UpToExists`,
`FollowingExists`, `FlattenExists`).

**Responses.** `HttpResponseProofs` proves, for any requests, file systems, sizes and
tables of pages, `KeptIsFramed` (`KeptMeansFramed`), `EveryRequestIsAnswered`
(`SilenceNeedsChange`), `ErrorPagesAreErrors` (`ErrorPageIsError`) and
`StatusFollowsTable` (`StatusIsExpected`; the module extends `MCHttpResponse` for the
table alone).

*The argument.* `ResponseInv` keeps apart what holds whatever happens to the files and
what holds until the first change. `Control`: which handler runs, for which method, and
that nothing has refused the request before. `Blank`: the object is empty until a
handler fills it. `Found`: each look at the file system found what the table will ask
for, so that the last look cannot disagree with the first; at "send" `Answered` relates
the announced length, the bytes in memory and the file. A change of a file makes
`Found` vacuous and leaves the rest. The four properties are about "sent" and follow
from `Answered`.

**CGI.** `CgiExecutionProofs` proves, for any capacity of a pipe, size of a read, bodies
and outputs, `HandlerReturnsClean` (`ReturnsClean`), `OutputIsWhole`
(`TruncatedOnlyWhenLate`), `BlocksOnlyOnLiveChild` (`WaitsOnlyForLiveChild`) and
`DeadlockNeedsLargeBody` (`NoMutualWait`).

*The argument.* `CgiInv`: `Phases` gives the pipe ends that are open in each phase;
`Accounts` says that a unit of output is in the pipe or with the server, and that what is
left of the body and what is in the pipe are together at most the body; hence a server
that blocks in `write()` on a full pipe has a body larger than it. `Complete`: unless
max_wait has passed the read loop ended at the end of the output.

**What the proof attempts found in the models.** A proof that did not go through led to
these corrections; the runs pass with them.

- `HttpResponse`: a default file may itself be a directory: `stat` gives a size, `read`
  nothing, and the announced length is never sent (`http/HttpResponse.cpp:266`). Now
  `DirectoryAsDefault`, one of the exceptions of `KeptMeansFramed`. Two guards of
  `checkFilePerms` overlapped, a listing is sent with whatever file is open, the length
  that wraps is that of all bytes sent, and a POST without a body is always refused by
  the parser (now in `ConstantsAssumption`).
- `Routing`: two guards of `ValidateURI` overlapped for an empty URI and for one that is
  too long; roots of routes had no type.

**Only model-checked.**

- Liveness (`ResponseEnds`, `PeerGoneCloses`, `SilentPeerCloses`, `BacklogServed`,
  `StartsOrEnds`, `CgiEnds`) and ENABLED are out of the prover's reach.
- `NeedsMoreData` and `NoRequestLineWaits` are false of the code: the two findings.

Every other property of a run, invariant or action property, is stated by a theorem.

## 5. Not modelled

- `handleSignal` in the middle of a handler of the loop: in `ServerManager` handlers
  are atomic, in `Startup` the loop is one state. What the heap holds when a signal
  interrupts `map::insert` or `vector::resize` is not a question of these models.
- The query (`decodeAndParseQuery`), names of upload files, content types, cookies,
  the environment and headers of a CGI script: text that decides no step, except
  the status a script answers, which is any of `ScriptStatuses`.
- `cgiOutput += buffer` stops at a NUL byte: the output is counted, not spelled.
- A stream desynchronised by an error: it runs in `HttpRequest`, but the properties
  are about synchronised streams (`synced`); nothing in the code says what should
  become of the rest.
- SIGPIPE from a script's closed input ends the process in `CgiExecution`
  (`BrokenPipe`) and is not composed with the event loop; nor is that children inherit
  client sockets (`config/ServerManager.cpp:85`).
- Which of two listeners on one port (SO_REUSEPORT) gets a connection.
- Reading the configuration file, logging, dates, addresses, `www` and the Makefile.

## 6. Plan

Done: the event loop and its refinement, start-up and end, configuration, parser, URI
and routes, conversions, responses, CGI; all invariants and action properties that the
runs check are proved. What a continuation would take up:

1. `Connection`: the composition of `ServerManager`'s connection with `HttpRequest`
   (the parser refines "incomplete or complete") and with `CgiExecution` (the loop
   stands still; children inherit sockets).
2. The stream after an error: the connection is kept although the rest of the request is
   still on it (`http/HttpRequest.cpp:37`). Stating what should become of it needs a
   decision that the code does not record.
3. The query (`decodeAndParseQuery`) and the names of upload files.
