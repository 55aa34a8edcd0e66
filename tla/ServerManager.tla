--------------------------- MODULE ServerManager ---------------------------
(***************************************************************************)
(* The event loop of src/src/config/ServerManager.cpp: one thread that     *)
(* waits in epoll_wait, handles the reported descriptors one by one        *)
(* (accept, read a request, send a response, close), then scans the        *)
(* clients for timeouts.  Three tables must agree for every descriptor:    *)
(* the kernel's (open sockets and the epoll interest list), each Server's  *)
(* clientSockets, and ServerManager::Clients.                              *)
(*                                                                         *)
(* Each handler is one step.  Between two handlers anything may happen     *)
(* outside the process: peers connect, send, shut down, reset or drain,    *)
(* time passes, a signal arrives.  An event of the batch may therefore be  *)
(* stale when its handler runs.                                            *)
(*                                                                         *)
(* HTTP is abstracted here: HttpRequest::parse answers "incomplete" or     *)
(* "complete", generateResponse answers any member of Outcomes.            *)
(***************************************************************************)
EXTENDS Integers, FiniteSets

CONSTANTS
  Server,       \* ServerManager::servers
  Listeners,    \* descriptors of the listening sockets
  Fd,           \* descriptors accept() can return
  ServerOf,     \* the server whose getListeningSockets() holds a listener
  Outcomes,     \* the results of parse and generateResponse considered: the
                \* response [code, body] and whether its client asked to close
  EpollMayFail, \* whether epoll_ctl ADD and MOD may fail
  HeaderUnits,  \* units of output a header block stands for
  MaxBlocks,    \* bound: file blocks (READ_BUFFER_SIZE reads) of a response
  MaxBacklog,   \* bound: connections waiting in a listen queue
  MaxQueue,     \* bound: segments waiting in a socket's receive queue
  Timeout       \* Client::timeout, in ticks of the clock

NoResponse == [code |-> 200, body |-> FALSE]

ASSUME ConstantsAssumption ==
  /\ IsFiniteSet(Fd) /\ IsFiniteSet(Listeners)
  /\ Fd \cap Listeners = {}
  /\ ServerOf \in [Listeners -> Server]
  /\ Outcomes \subseteq [response : [code : Nat, body : BOOLEAN], close : BOOLEAN]
  /\ EpollMayFail \in BOOLEAN
  /\ HeaderUnits \in Nat \ {0}
  /\ MaxBlocks \in Nat /\ MaxBacklog \in Nat \ {0}
  /\ MaxQueue \in Nat \ {0} /\ Timeout \in Nat \ {0}

ClientStates ==
  {"READING_REQUEST", "GENERATING_RESPONSE", "SENDING_DATA", "COMPLETED"}
ParsingStates == {"REQUESTLINE", "HEADERS", "BODY", "COMPLETE"}

Closed == -1                      \* Client::file is not open

\* Client: file is the number of blocks left to read, sendBuffer what is
\* buffered and unsent, idle the ticks since lastActivityTime (up to Timeout),
\* close whether the headers ask for "connection: close".
Client == [state : ClientStates, parse : ParsingStates, close : BOOLEAN,
           response : [code : Nat, body : BOOLEAN],
           sendBuffer : 0..(HeaderUnits + 1), file : Closed..MaxBlocks,
           idle : 0..Timeout, config : Server]

NewClient(s) ==
  [state |-> "READING_REQUEST", parse |-> "REQUESTLINE", close |-> FALSE,
   response |-> NoResponse, sendBuffer |-> 0, file |-> Closed, idle |-> 0,
   config |-> s]

Socket == [open : BOOLEAN, rcvq : 0..MaxQueue,
           peer : {"up", "fin", "rst"}, room : BOOLEAN]
ClosedSocket == [open |-> FALSE, rcvq |-> 0, peer |-> "up", room |-> TRUE]
FreshSocket  == [ClosedSocket EXCEPT !.open = TRUE]

Event == [fd : Fd \cup Listeners, ev : {"in", "out", "err"}]

VARIABLES
  sock,          \* kernel: the sockets accept() returned
  backlog,       \* kernel: connections waiting at each listener
  interest,      \* kernel: the epoll interest list
  clientSockets, \* Server::clientSockets, for each server
  Clients,       \* ServerManager::Clients, a map keyed by descriptor
  evCapacity,    \* ServerManager::events.size()
  batch,         \* the reported events not handled yet
  pc             \* "wait", "dispatch", or how the process ended

vars == <<sock, backlog, interest, clientSockets, Clients, evCapacity, batch, pc>>

Max2(a, b) == IF a > b THEN a ELSE b
Min2(a, b) == IF a < b THEN a ELSE b

Running == pc \in {"wait", "dispatch"}

Init ==
  /\ sock = [fd \in Fd |-> ClosedSocket]
  /\ backlog = [l \in Listeners |-> 0]
  /\ interest = [f \in Fd \cup Listeners |-> IF f \in Fd THEN "none" ELSE "in"]
  /\ clientSockets = [s \in Server |-> {}]
  /\ Clients = [fd \in {} |-> NewClient(CHOOSE s \in Server : TRUE)]
  /\ evCapacity = Cardinality(Listeners)
  /\ batch = {}
  /\ pc = "wait"
----------------------------------------------------------------------------
(* Closing.                                                                *)

FindServer(fd) == CHOOSE s \in Server : fd \in clientSockets[s]
Found(fd) == \E s \in Server : fd \in clientSockets[s]

\* Variants of CloseConnections with a step left out.
CloseKeepsClient(S) ==
  LET found == {fd \in S : Found(fd)} IN
  /\ sock' = [fd \in Fd |-> IF fd \in found THEN ClosedSocket ELSE sock[fd]]
  /\ interest' = [f \in Fd \cup Listeners |-> IF f \in found THEN "none" ELSE interest[f]]
  /\ clientSockets' =
       [s \in Server |-> clientSockets[s] \ {fd \in found : FindServer(fd) = s}]
  /\ Clients' = Clients
CloseKeepsListed(S) ==
  LET found == {fd \in S : Found(fd)} IN
  /\ sock' = [fd \in Fd |-> IF fd \in found THEN ClosedSocket ELSE sock[fd]]
  /\ interest' = [f \in Fd \cup Listeners |-> IF f \in found THEN "none" ELSE interest[f]]
  /\ Clients' = [fd \in DOMAIN Clients \ found |-> Clients[fd]]
  /\ clientSockets' = clientSockets

CloseErasesOnly(S) ==
  /\ Clients' = [fd \in DOMAIN Clients \ S |-> Clients[fd]]
  /\ UNCHANGED <<sock, interest, clientSockets>>

\* closeConnection(fd) for every fd of S: nothing for a descriptor no server
\* lists, else EPOLL_CTL_DEL, Server::closeConnection (close and erase from the
\* list of the server found) and Clients.erase.
CloseConnections(S) ==
  LET found == {fd \in S : Found(fd)} IN
  /\ sock' = [fd \in Fd |-> IF fd \in found THEN ClosedSocket ELSE sock[fd]]
  /\ interest' = [f \in Fd \cup Listeners |-> IF f \in found THEN "none" ELSE interest[f]]
  /\ clientSockets' =
       [s \in Server |-> clientSockets[s] \ {fd \in found : FindServer(fd) = s}]
  /\ Clients' = [fd \in DOMAIN Clients \ found |-> Clients[fd]]

\* The process ends: the kernel closes every descriptor.
EndProcess(how) ==
  /\ pc' = how
  /\ sock' = [fd \in Fd |-> ClosedSocket]
  /\ backlog' = [l \in Listeners |-> 0]
  /\ interest' = [f \in Fd \cup Listeners |-> "none"]
  /\ clientSockets' = [s \in Server |-> {}]
  /\ Clients' = [fd \in {} |-> 0]
  /\ batch' = {}
  /\ UNCHANGED evCapacity

Tables == <<sock, interest, clientSockets, Clients>>

\* The handler leaves client c and socket k for fd and touches nothing else.
Update(fd, c, k) ==
  /\ Clients' = [Clients EXCEPT ![fd] = c]
  /\ sock' = [sock EXCEPT ![fd] = k]
  /\ UNCHANGED <<interest, clientSockets>>

\* Variant: the interest list is not touched.
ModifyForgotten(fd, c, k, ev) == Update(fd, c, k)

\* modifyEpollEvent as the last call of a handler: when EPOLL_CTL_MOD fails the
\* connection is closed and the client the handler prepared is gone with it.
ModifyEpollEvent(fd, c, k, ev) ==
  \/ /\ Clients' = [Clients EXCEPT ![fd] = c]
     /\ sock' = [sock EXCEPT ![fd] = k]
     /\ interest' = [interest EXCEPT ![fd] = ev]
     /\ UNCHANGED clientSockets
  \/ EpollMayFail /\ CloseConnections({fd})
----------------------------------------------------------------------------
(* handleConnections.                                                      *)

\* The connection is accepted and listed by the server; addToEpoll may throw,
\* and the catch block leaves the descriptor as it is.  map::insert keeps the
\* client that is already there.
AcceptConnection(l) ==
  \E fd \in Fd :
    /\ backlog[l] > 0 /\ ~sock[fd].open
    /\ backlog' = [backlog EXCEPT ![l] = @ - 1]
    /\ sock' = [sock EXCEPT ![fd] = FreshSocket]
    /\ clientSockets' = [clientSockets EXCEPT ![ServerOf[l]] = @ \cup {fd}]
    /\ \/ /\ interest' = [interest EXCEPT ![fd] = "in"]
          /\ Clients' = [f \in DOMAIN Clients \cup {fd} |->
                           IF f \in DOMAIN Clients THEN Clients[f]
                           ELSE NewClient(ServerOf[l])]
       \/ EpollMayFail /\ UNCHANGED <<interest, Clients>>

\* accept() fails: every descriptor is in use (EMFILE), or no connection waits.
AcceptFails(l) ==
  /\ backlog[l] = 0 \/ \A fd \in Fd : sock[fd].open
  /\ UNCHANGED <<backlog, Tables>>

HandleConnections(l) == AcceptConnection(l) \/ AcceptFails(l)
----------------------------------------------------------------------------
(* handleRequest and readRequest.                                          *)

\* recv() <= 0.  Data that came before a reset can still be read.
RecvFails(fd) == sock[fd].rcvq = 0 \/ sock[fd].peer = "rst"

\* Variant: only recv() < 0 closes.
ReadRequestIgnoresFin(fd, c) ==
  \/ sock[fd].peer = "rst" /\ CloseConnections({fd})
  \/ RecvFails(fd) /\ sock[fd].peer # "rst" /\ Update(fd, c, sock[fd])

\* recv() <= 0: the client is closed, destroyed with its map node.  handleRequest
\* then reads request.state out of the freed node; nothing was allocated since,
\* so the old value is read (ReadFreedFaults is the other outcome) and, not being
\* COMPLETE, ends the handler.
ReadRequestCloses(fd, c) ==
  /\ RecvFails(fd) /\ c.parse # "COMPLETE"
  /\ CloseConnections({fd})

\* What an incomplete parse() may leave: the parser never goes back.
Reached(p) ==
  CASE p = "REQUESTLINE" -> {"REQUESTLINE", "HEADERS", "BODY"}
    [] p = "HEADERS" -> {"HEADERS", "BODY"}
    [] OTHER -> {"BODY"}

\* recv() returns data and parse() needs more.
ReadRequestPart(fd, c) ==
  /\ \E n \in 1..sock[fd].rcvq, p \in Reached(c.parse) :
       Update(fd, [c EXCEPT !.parse = p], [sock[fd] EXCEPT !.rcvq = @ - n])

\* recv() returns data and parse() completes, be it by an error: generateResponse
\* gives the response, the headers read so far say whether to close.
ReadRequestComplete(fd, c) ==
  /\ \E n \in 1..sock[fd].rcvq, o \in Outcomes :
       ModifyEpollEvent(fd,
         [c EXCEPT !.parse = "COMPLETE", !.state = "GENERATING_RESPONSE",
                   !.response = o.response, !.close = o.close],
         [sock[fd] EXCEPT !.rcvq = @ - n], "out")

ReadRequest(fd, c) ==
  ReadRequestCloses(fd, c) \/ ReadRequestPart(fd, c) \/ ReadRequestComplete(fd, c)

HandleRequest(fd) ==
  /\ UNCHANGED backlog
  /\ IF fd \in DOMAIN Clients
     THEN LET c == [Clients[fd] EXCEPT !.idle = 0] IN
          IF c.state = "READING_REQUEST" THEN ReadRequest(fd, c)
          ELSE Update(fd, c, sock[fd])
     ELSE UNCHANGED Tables
----------------------------------------------------------------------------
(* sendResponse, one operator per case of its switch.                      *)

\* A response with no body of its own is read from the file at getUriPath().
Streams(r) == r.code < 400 /\ ~r.body /\ r.code # 204

\* GENERATING_RESPONSE: fill the send buffer.  A file that does not open ends
\* the response with nothing sent.
StartResponse(fd, c) ==
  IF Streams(c.response)
  THEN \/ \E n \in 0..MaxBlocks :
            Update(fd, [c EXCEPT !.state = "SENDING_DATA", !.file = n,
                                 !.sendBuffer = HeaderUnits], sock[fd])
       \/ Update(fd, [c EXCEPT !.state = "COMPLETED"], sock[fd])
  ELSE Update(fd, [c EXCEPT !.state = "SENDING_DATA", !.response.body = FALSE,
                            !.sendBuffer = HeaderUnits + (IF c.response.body THEN 1 ELSE 0)],
              sock[fd])

\* Variant of Sent: done while the file is still to be read.
SentIgnoresFile(c, n) ==
  IF n = c.sendBuffer
  THEN [c EXCEPT !.sendBuffer = 0, !.state = "COMPLETED"]
  ELSE [c EXCEPT !.sendBuffer = @ - n]

\* n units of the buffer went out; all of them, and no file: the response is done.
Sent(c, n) ==
  IF n = c.sendBuffer /\ c.file = Closed
  THEN [c EXCEPT !.sendBuffer = 0, !.state = "COMPLETED"]
  ELSE [c EXCEPT !.sendBuffer = @ - n]

\* An empty buffer is refilled with the next block of the file; at its end the
\* file is closed and the response is done.
Refilled(c) ==
  IF c.sendBuffer > 0 \/ c.file = Closed THEN c
  ELSE IF c.file > 0 THEN [c EXCEPT !.sendBuffer = 1, !.file = @ - 1]
  ELSE [c EXCEPT !.file = Closed, !.state = "COMPLETED"]

SendFails(fd) == ~sock[fd].room \/ sock[fd].peer = "rst"

\* SENDING_DATA: one send(), which may be short, and at most one file read.
SendData(fd, c) ==
  IF c.sendBuffer = 0 THEN Update(fd, Refilled(c), sock[fd])
  ELSE \/ SendFails(fd) /\ CloseConnections({fd})
       \/ /\ ~SendFails(fd)
          /\ \E n \in 1..c.sendBuffer, room \in BOOLEAN :
               Update(fd, Refilled(Sent(c, n)), [sock[fd] EXCEPT !.room = room])

\* Variant: HttpRequest::reset forgets the parser's state.
ResetKeepsParse(c) ==
  [c EXCEPT !.close = FALSE, !.response = NoResponse, !.sendBuffer = 0, !.file = Closed]

\* Client::resetState.
ResetState(c) ==
  [c EXCEPT !.parse = "REQUESTLINE", !.close = FALSE, !.response = NoResponse,
            !.sendBuffer = 0, !.file = Closed]

\* COMPLETED: close after 201, 301 and "connection: close", else start over.
FinishResponse(fd, c) ==
  IF c.response.code \in {201, 301} \/ c.close THEN CloseConnections({fd})
  ELSE ModifyEpollEvent(fd, [ResetState(c) EXCEPT !.state = "READING_REQUEST"],
                        sock[fd], "in")

SendResponse(fd) ==
  /\ UNCHANGED backlog
  /\ IF fd \in DOMAIN Clients
     THEN LET c == Clients[fd] IN
          CASE c.state = "GENERATING_RESPONSE" -> StartResponse(fd, c)
            [] c.state = "SENDING_DATA" -> SendData(fd, c)
            [] c.state = "COMPLETED" -> FinishResponse(fd, c)
            [] OTHER -> UNCHANGED Tables
     ELSE UNCHANGED Tables
----------------------------------------------------------------------------
(* The loop: eventsLoop, handleEvent, checkTimeouts.                       *)

\* Level-triggered readiness: EPOLLERR/EPOLLHUP are reported for every registered
\* descriptor, EPOLLRDHUP is never asked for, and an event is IN or OUT, not both.
Ready ==
  {e \in Event :
     /\ interest[e.fd] # "none"
     /\ IF e.fd \in Listeners THEN e.ev = "in" /\ backlog[e.fd] > 0
        ELSE IF sock[e.fd].peer = "rst" THEN e.ev = "err"
        ELSE /\ e.ev = interest[e.fd]
             /\ \/ e.ev = "in" /\ (sock[e.fd].rcvq > 0 \/ sock[e.fd].peer = "fin")
                \/ e.ev = "out" /\ sock[e.fd].room}

\* Variant: the array is doubled at every wake-up.
EpollWaitAlwaysGrows ==
  /\ pc = "wait" /\ evCapacity > 0 /\ pc' = "dispatch"
  /\ \E E \in SUBSET Ready :
       /\ Cardinality(E) = Min2(Cardinality(Ready), evCapacity)
       /\ batch' = E /\ evCapacity' = 2 * evCapacity
  /\ UNCHANGED <<backlog, Tables>>

\* Variant: a full array is never enlarged.
EpollWaitNeverGrows ==
  /\ pc = "wait" /\ evCapacity > 0 /\ pc' = "dispatch"
  /\ \E E \in SUBSET Ready :
       Cardinality(E) = Min2(Cardinality(Ready), evCapacity) /\ batch' = E
  /\ UNCHANGED <<backlog, evCapacity, Tables>>

\* epoll_wait reports as many ready descriptors as the array holds, none after
\* 1000 ms without any; a full array is doubled.  An error (-1), which an empty
\* array always gives, changes nothing.
EpollWait ==
  /\ pc = "wait" /\ evCapacity > 0 /\ pc' = "dispatch"
  /\ \E E \in SUBSET Ready :
       /\ Cardinality(E) = Min2(Cardinality(Ready), evCapacity)
       /\ batch' = E
       /\ evCapacity' = IF Cardinality(E) = evCapacity THEN 2 * evCapacity ELSE evCapacity
  /\ UNCHANGED <<backlog, Tables>>

\* Variant: an error event closes every connection the peer has reset.
HandleEventClosesAll(e) ==
  /\ pc = "dispatch" /\ e \in batch
  /\ batch' = batch \ {e}
  /\ CASE e.ev = "err" ->
            CloseConnections({fd \in Fd : sock[fd].peer = "rst"}) /\ UNCHANGED backlog
       [] e.ev = "in" /\ e.fd \in Listeners -> HandleConnections(e.fd)
       [] e.ev = "in" /\ e.fd \notin Listeners -> HandleRequest(e.fd)
       [] e.ev = "out" -> SendResponse(e.fd)
  /\ UNCHANGED <<evCapacity, pc>>

HandleEvent(e) ==
  /\ pc = "dispatch" /\ e \in batch
  /\ batch' = batch \ {e}
  /\ CASE e.ev = "err" -> CloseConnections({e.fd}) /\ UNCHANGED backlog
       [] e.ev = "in" /\ e.fd \in Listeners -> HandleConnections(e.fd)
       [] e.ev = "in" /\ e.fd \notin Listeners -> HandleRequest(e.fd)
       [] e.ev = "out" -> SendResponse(e.fd)
  /\ UNCHANGED <<evCapacity, pc>>

\* The read of the destroyed client in handleRequest faults, or finds COMPLETE
\* and generates a response from the destroyed object.
ReadFreedFaults(e) ==
  /\ pc = "dispatch" /\ e \in batch /\ e.ev = "in"
  /\ e.fd \in DOMAIN Clients /\ Clients[e.fd].state = "READING_REQUEST"
  /\ RecvFails(e.fd)
  /\ EndProcess("crashed")

Expired == {fd \in DOMAIN Clients : Clients[fd].idle >= Timeout}

\* Variants of CheckTimeouts that spare some of the clients.
CheckTimeoutsReadersOnly ==
  /\ pc = "dispatch" /\ batch = {} /\ pc' = "wait"
  /\ CloseConnections({fd \in Expired : Clients[fd].state = "READING_REQUEST"})
  /\ UNCHANGED <<backlog, evCapacity, batch>>
CheckTimeoutsWritersOnly ==
  /\ pc = "dispatch" /\ batch = {} /\ pc' = "wait"
  /\ CloseConnections({fd \in Expired : Clients[fd].state # "READING_REQUEST"})
  /\ UNCHANGED <<backlog, evCapacity, batch>>

\* checkTimeouts, after the last event of the batch.
CheckTimeouts ==
  /\ pc = "dispatch" /\ batch = {} /\ pc' = "wait"
  /\ CloseConnections(Expired)
  /\ UNCHANGED <<backlog, evCapacity, batch>>

Loop ==
  \/ EpollWait
  \/ \E e \in batch : HandleEvent(e) \/ ReadFreedFaults(e)
  \/ CheckTimeouts

\* handleSignal between two handlers: shutDownManager and exit(0).
HandleSignal == Running /\ EndProcess("stopped")
----------------------------------------------------------------------------
(* Outside the process: peers and the clock.                               *)

Peer(fd) == UNCHANGED <<backlog, interest, clientSockets, Clients, evCapacity, batch, pc>>

Connect(l) ==
  /\ Running /\ backlog[l] < MaxBacklog
  /\ backlog' = [backlog EXCEPT ![l] = @ + 1]
  /\ UNCHANGED <<Tables, evCapacity, batch, pc>>

PeerSends(fd) ==
  /\ sock[fd].open /\ sock[fd].peer = "up" /\ sock[fd].rcvq < MaxQueue
  /\ sock' = [sock EXCEPT ![fd].rcvq = @ + 1]
  /\ Peer(fd)

PeerShutsDown(fd) ==
  /\ sock[fd].open /\ sock[fd].peer = "up"
  /\ sock' = [sock EXCEPT ![fd].peer = "fin"]
  /\ Peer(fd)

PeerResets(fd) ==
  /\ sock[fd].open /\ sock[fd].peer # "rst"
  /\ sock' = [sock EXCEPT ![fd].peer = "rst"]
  /\ Peer(fd)

PeerDrains(fd) ==
  /\ sock[fd].open /\ ~sock[fd].room
  /\ sock' = [sock EXCEPT ![fd].room = TRUE]
  /\ Peer(fd)

\* One tick of time(): every client is idle one tick longer.
Tick ==
  /\ Running /\ \E fd \in DOMAIN Clients : Clients[fd].idle < Timeout
  /\ Clients' = [fd \in DOMAIN Clients |->
                   [Clients[fd] EXCEPT !.idle = Min2(@ + 1, Timeout)]]
  /\ UNCHANGED <<sock, backlog, interest, clientSockets, evCapacity, batch, pc>>

Environment ==
  \/ \E l \in Listeners : Connect(l)
  \/ \E fd \in Fd : PeerSends(fd) \/ PeerShutsDown(fd) \/ PeerResets(fd) \/ PeerDrains(fd)
  \/ Tick

Terminated == ~Running /\ UNCHANGED vars

Next == Loop \/ HandleSignal \/ Environment \/ Terminated

Spec == Init /\ [][Next]_vars

\* The process keeps running its loop and time passes; nothing is assumed of the
\* peers.
FairSpec == Spec /\ WF_vars(Loop) /\ WF_vars(Tick)
----------------------------------------------------------------------------
(* Properties.                                                             *)

Responding(fd) == fd \in DOMAIN Clients /\ Clients[fd].state # "READING_REQUEST"

\* Every variable has its type, Clients being a map from descriptors to clients.
TypeOK ==
  /\ sock \in [Fd -> Socket]
  /\ backlog \in [Listeners -> 0..MaxBacklog]
  /\ interest \in [Fd \cup Listeners -> {"none", "in", "out"}]
  /\ clientSockets \in [Server -> SUBSET Fd]
  /\ DOMAIN Clients \subseteq Fd
  /\ Clients \in [DOMAIN Clients -> Client]
  /\ evCapacity \in Nat
  /\ batch \subseteq Event
  /\ pc \in {"wait", "dispatch", "stopped", "crashed"}

\* The kernel's sockets and the servers' lists agree: a descriptor is open exactly
\* when a server lists it, and no two servers list the same one, so closeConnection
\* finds the owner of every descriptor and never closes another server's.
SocketsListed ==
  /\ \A fd \in Fd : sock[fd].open <=> Found(fd)
  /\ \A s, t \in Server : s # t => clientSockets[s] \cap clientSockets[t] = {}

\* Every client has an open socket, listed by the server whose configuration it
\* holds, and registered for the event its state waits for: EPOLLIN while it reads
\* a request, EPOLLOUT otherwise.  A client registered for the other event is
\* never handled again.
ClientsRegistered ==
  \A fd \in DOMAIN Clients :
    /\ sock[fd].open
    /\ fd \in clientSockets[Clients[fd].config]
    /\ interest[fd] = IF Responding(fd) THEN "out" ELSE "in"

\* Only descriptors with a client are registered, so epoll reports no descriptor
\* the manager would ignore (and, level-triggered, report again for ever).
OnlyClientsRegistered ==
  \A fd \in Fd : interest[fd] # "none" => fd \in DOMAIN Clients

\* Unless epoll_ctl fails, an accepted socket has a client until it is closed:
\* nothing is left open that checkTimeouts would not see.
NoOrphanSocket ==
  ~EpollMayFail => \A fd \in Fd : sock[fd].open => fd \in DOMAIN Clients

\* A response is done only when its buffer is sent and its file read, a client
\* that sends has something to send (or it would spin until its timeout), and one
\* that reads carries nothing over from the response before.
ResponseSentWhole ==
  \A fd \in DOMAIN Clients :
    LET c == Clients[fd] IN
    /\ c.state = "SENDING_DATA" => c.sendBuffer > 0
    /\ c.state # "SENDING_DATA" => c.sendBuffer = 0 /\ c.file = Closed

\* The client readRequest destroys on a failed recv() is not one whose parser is
\* COMPLETE, so handleRequest, which reads the state of the destroyed client, does
\* not go on to generate a response from it.
ReaderNotComplete ==
  \A fd \in DOMAIN Clients : ~Responding(fd) => Clients[fd].parse # "COMPLETE"

\* The array given to epoll_wait stays within twice the descriptors there are.
EventsArrayBounded ==
  evCapacity <= 2 * (Cardinality(Fd) + Cardinality(Listeners))

\* While an event waits in the batch nothing but its own handler (or the end of
\* the process) opens or closes its descriptor: when the handler runs, the event
\* is about the connection it was reported for, although descriptors are reused.
PendingEventUndisturbed ==
  [][\A e \in batch : e \in batch' =>
       /\ e.fd \in DOMAIN Clients <=> e.fd \in DOMAIN Clients'
       /\ e.fd \in Fd => sock'[e.fd].open = sock[e.fd].open]_vars

\* A descriptor that enters Clients was not open before and starts as a new
\* client: no state of the connection that had the number before it survives.
FreshClientOnAccept ==
  [][\A fd \in DOMAIN Clients' :
       ~sock[fd].open => Clients'[fd] = NewClient(Clients'[fd].config)]_vars

\* A response ends, whatever the peer does: it is sent, or its connection closed.
ResponseEnds == \A fd \in Fd : Responding(fd) ~> ~Responding(fd)

\* A connection whose peer has shut down or reset it is eventually closed.
PeerGoneCloses ==
  \A fd \in Fd : sock[fd].open /\ sock[fd].peer # "up" ~> ~sock[fd].open

\* A connection on which no more data arrives is eventually closed.
SilentPeerCloses == \A fd \in Fd : []<>(~sock[fd].open \/ sock[fd].rcvq > 0)

\* A full listen queue is eventually served, while descriptors are free.
BacklogServed ==
  \A l \in Listeners :
    backlog[l] = MaxBacklog ~> \/ backlog[l] < MaxBacklog
                               \/ \A fd \in Fd : sock[fd].open
============================================================================
