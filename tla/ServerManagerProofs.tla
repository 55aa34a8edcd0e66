------------------------ MODULE ServerManagerProofs ------------------------
(* Proofs about ServerManager, for any servers, listeners and descriptors, *)
(* and that it implements ConnectionService.                               *)
EXTENDS ServerManagerRefinement, FiniteSetTheorems, TLAPS

USE ConstantsAssumption DEF ConstantsAssumption
----------------------------------------------------------------------------
(* The operators on one client keep it a client.                           *)

LEMMA NewClientType ==
  ASSUME NEW s \in Server
  PROVE  NewClient(s) \in Client
BY DEF NewClient, Client, ClientStates, ParsingStates, NoResponse, Closed

LEMMA SocketConstants == ClosedSocket \in Socket /\ FreshSocket \in Socket
<1>1. ClosedSocket \in Socket
  BY DEF ClosedSocket, Socket
<1>2. QED
  BY <1>1 DEF FreshSocket, Socket

LEMMA ClientFields ==
  ASSUME NEW c \in Client
  PROVE  /\ \A v \in ClientStates : [c EXCEPT !.state = v] \in Client
         /\ \A v \in ParsingStates : [c EXCEPT !.parse = v] \in Client
         /\ \A v \in BOOLEAN : [c EXCEPT !.close = v] \in Client
         /\ \A v \in [code : Nat, body : BOOLEAN] : [c EXCEPT !.response = v] \in Client
         /\ \A v \in BOOLEAN : [c EXCEPT !.response.body = v] \in Client
         /\ \A v \in 0..(HeaderUnits + 1) : [c EXCEPT !.sendBuffer = v] \in Client
         /\ \A v \in Closed..MaxBlocks : [c EXCEPT !.file = v] \in Client
         /\ \A v \in 0..Timeout : [c EXCEPT !.idle = v] \in Client
<1>1. \A v \in ClientStates : [c EXCEPT !.state = v] \in Client BY DEF Client
<1>2. \A v \in ParsingStates : [c EXCEPT !.parse = v] \in Client BY DEF Client
<1>3. \A v \in BOOLEAN : [c EXCEPT !.close = v] \in Client BY DEF Client
<1>4. \A v \in [code : Nat, body : BOOLEAN] : [c EXCEPT !.response = v] \in Client BY DEF Client
<1>5. \A v \in BOOLEAN : [c EXCEPT !.response.body = v] \in Client BY DEF Client
<1>6. \A v \in 0..(HeaderUnits + 1) : [c EXCEPT !.sendBuffer = v] \in Client BY DEF Client
<1>7. \A v \in Closed..MaxBlocks : [c EXCEPT !.file = v] \in Client BY DEF Client
<1>8. \A v \in 0..Timeout : [c EXCEPT !.idle = v] \in Client BY DEF Client
<1>9. QED BY <1>1, <1>2, <1>3, <1>4, <1>5, <1>6, <1>7, <1>8

LEMMA SentType ==
  ASSUME NEW c \in Client, NEW n \in 1..c.sendBuffer
  PROVE  Sent(c, n) \in Client
<1>1. [c EXCEPT !.sendBuffer = 0] \in Client
  BY DEF Client
<1>2. [c EXCEPT !.sendBuffer = 0, !.state = "COMPLETED"] \in Client
  BY <1>1, ClientFields DEF ClientStates
<1>3. [c EXCEPT !.sendBuffer = @ - n] \in Client
  BY DEF Client
<1>4. QED
  BY <1>2, <1>3 DEF Sent

LEMMA RefilledType ==
  ASSUME NEW c \in Client
  PROVE  Refilled(c) \in Client
<1>1. ASSUME c.file > 0
      PROVE  [c EXCEPT !.sendBuffer = 1, !.file = @ - 1] \in Client
  <2>1. c.file - 1 \in Closed..MaxBlocks
    BY <1>1 DEF Client, Closed
  <2>2. [c EXCEPT !.sendBuffer = 1] \in Client
    BY DEF Client
  <2>3. QED
    BY <2>1, <2>2, ClientFields
<1>2. [c EXCEPT !.file = Closed] \in Client
  BY DEF Client, Closed
<1>3. [c EXCEPT !.file = Closed, !.state = "COMPLETED"] \in Client
  BY <1>2, ClientFields DEF ClientStates
<1>4. QED
  BY <1>1, <1>3 DEF Refilled

LEMMA ResetStateType ==
  ASSUME NEW c \in Client
  PROVE  [ResetState(c) EXCEPT !.state = "READING_REQUEST"] \in Client
<1>1. [c EXCEPT !.parse = "REQUESTLINE"] \in Client
  BY DEF Client, ParsingStates
<1>2. [c EXCEPT !.parse = "REQUESTLINE", !.close = FALSE] \in Client
  BY <1>1, ClientFields
<1>3. [c EXCEPT !.parse = "REQUESTLINE", !.close = FALSE, !.response = NoResponse] \in Client
  <2> DEFINE b == [c EXCEPT !.parse = "REQUESTLINE", !.close = FALSE]
  <2>1. NoResponse \in [code : Nat, body : BOOLEAN]
    BY DEF NoResponse
  <2>2. b \in Client
    BY <1>2
  <2> HIDE DEF b
  <2>3. [b EXCEPT !.response = NoResponse] \in Client
    BY <2>1, <2>2, ClientFields
  <2>4. [c EXCEPT !.parse = "REQUESTLINE", !.close = FALSE, !.response = NoResponse] =
          [b EXCEPT !.response = NoResponse]
    BY DEF b
  <2>5. QED
    BY <2>3, <2>4
<1> DEFINE d == [c EXCEPT !.parse = "REQUESTLINE", !.close = FALSE, !.response = NoResponse]
<1>4. [d EXCEPT !.sendBuffer = 0, !.file = Closed] \in Client
  <2>1. d \in Client
    BY <1>3
  <2> HIDE DEF d
  <2>2. [d EXCEPT !.sendBuffer = 0] \in Client
    BY <2>1 DEF Client
  <2>3. Closed \in Closed..MaxBlocks
    BY DEF Closed
  <2>4. QED
    BY <2>2, <2>3, ClientFields
<1>5. ResetState(c) = [d EXCEPT !.sendBuffer = 0, !.file = Closed]
  BY DEF ResetState
<1>6. QED
  BY <1>4, <1>5, ClientFields DEF ClientStates
----------------------------------------------------------------------------
(* The invariant of the three tables, and what preserves it.               *)

TablesType ==
  /\ sock \in [Fd -> Socket]
  /\ interest \in [Fd \cup Listeners -> {"none", "in", "out"}]
  /\ clientSockets \in [Server -> SUBSET Fd]
  /\ DOMAIN Clients \subseteq Fd
  /\ Clients \in [DOMAIN Clients -> Client]

\* A client that reads has nothing left of a response and is still parsing; one
\* that sends has something to send.
Sound(c) ==
  /\ c.state = "READING_REQUEST" => c.parse # "COMPLETE"
  /\ c.state = "SENDING_DATA" => c.sendBuffer > 0
  /\ c.state # "SENDING_DATA" => c.sendBuffer = 0 /\ c.file = Closed

TablesInv ==
  /\ TablesType
  /\ SocketsListed /\ ClientsRegistered /\ OnlyClientsRegistered
  /\ \A fd \in DOMAIN Clients : Sound(Clients[fd])

\* Each list loses the descriptors that are closed, its own ones.
LEMMA CloseKeepsLists ==
  ASSUME TablesInv, NEW S, CloseConnections(S)
  PROVE  \A s \in Server : clientSockets'[s] = clientSockets[s] \ {fd \in S : Found(fd)}
<1> DEFINE found == {fd \in S : Found(fd)}
<1>1. clientSockets' =
        [s \in Server |-> clientSockets[s] \ {fd \in found : FindServer(fd) = s}]
  BY DEF CloseConnections
<1>2. \A fd \in found : FindServer(fd) \in Server /\ fd \in clientSockets[FindServer(fd)]
  BY DEF FindServer, Found
<1>3. SUFFICES ASSUME NEW s \in Server, NEW fd \in found, fd \in clientSockets[s]
               PROVE  FindServer(fd) = s
  BY <1>1
<1>4. QED
  BY <1>2, <1>3 DEF TablesInv, SocketsListed

\* Closing any set of descriptors.
LEMMA CloseKeepsTables ==
  ASSUME TablesInv, NEW S, CloseConnections(S)
  PROVE  TablesInv'
<1> DEFINE found == {fd \in S : Found(fd)}
<1>1. /\ sock' = [fd \in Fd |-> IF fd \in found THEN ClosedSocket ELSE sock[fd]]
      /\ interest' = [f \in Fd \cup Listeners |-> IF f \in found THEN "none" ELSE interest[f]]
      /\ clientSockets' =
           [s \in Server |-> clientSockets[s] \ {fd \in found : FindServer(fd) = s}]
      /\ Clients' = [fd \in DOMAIN Clients \ found |-> Clients[fd]]
  BY DEF CloseConnections
<1>3. \A s \in Server : clientSockets'[s] = clientSockets[s] \ found
  BY CloseKeepsLists
<1>4. TablesType'
  <2>1. sock' \in [Fd -> Socket]
    BY <1>1, SocketConstants DEF TablesInv, TablesType
  <2>2. interest' \in [Fd \cup Listeners -> {"none", "in", "out"}]
    BY <1>1 DEF TablesInv, TablesType
  <2>3. clientSockets' \in [Server -> SUBSET Fd]
    BY <1>1 DEF TablesInv, TablesType
  <2>4. DOMAIN Clients' \subseteq Fd /\ Clients' \in [DOMAIN Clients' -> Client]
    BY <1>1 DEF TablesInv, TablesType
  <2>5. QED
    BY <2>1, <2>2, <2>3, <2>4 DEF TablesType
<1>5. DOMAIN Clients' = DOMAIN Clients \ found /\ \A fd \in DOMAIN Clients' : Clients'[fd] = Clients[fd]
  BY <1>1
<1>6. \A fd \in Fd : /\ fd \in found => sock'[fd].open = FALSE /\ interest'[fd] = "none"
                     /\ fd \notin found => sock'[fd] = sock[fd] /\ interest'[fd] = interest[fd]
  BY <1>1 DEF ClosedSocket
<1>7. SocketsListed'
  <2>1. \A fd \in Fd : sock'[fd].open <=> \E s \in Server : fd \in clientSockets'[s]
    BY <1>3, <1>6 DEF TablesInv, SocketsListed, Found
  <2>2. \A s, t \in Server : s # t => clientSockets'[s] \cap clientSockets'[t] = {}
    BY <1>3 DEF TablesInv, SocketsListed
  <2>3. QED
    BY <2>1, <2>2 DEF SocketsListed, Found
<1>8. ClientsRegistered'
  <2>1. SUFFICES ASSUME NEW fd \in DOMAIN Clients'
                 PROVE  /\ sock'[fd].open
                        /\ fd \in clientSockets'[Clients'[fd].config]
                        /\ interest'[fd] = IF Responding(fd)' THEN "out" ELSE "in"
    BY DEF ClientsRegistered
  <2>2. /\ fd \in Fd /\ fd \in DOMAIN Clients /\ fd \notin found
        /\ Clients'[fd] = Clients[fd] /\ Clients[fd].config \in Server
    BY <2>1, <1>5 DEF TablesInv, TablesType, Client
  <2>3. Responding(fd)' <=> Responding(fd)
    BY <2>1, <2>2 DEF Responding
  <2>4. QED
    BY <2>2, <2>3, <1>3, <1>6 DEF TablesInv, ClientsRegistered
<1>9. OnlyClientsRegistered'
  BY <1>5, <1>6 DEF TablesInv, OnlyClientsRegistered
<1>10. QED
  BY <1>4, <1>5, <1>7, <1>8, <1>9 DEF TablesInv, Sound

\* A handler that leaves one client with a client of the same server, registered
\* for what it then waits for, and its socket open.
LEMMA ChangeKeepsTables ==
  ASSUME TablesInv, NEW fd \in DOMAIN Clients, NEW c \in Client, NEW k \in Socket,
         Sound(c), c.config = Clients[fd].config, k.open,
         Clients' = [Clients EXCEPT ![fd] = c],
         sock' = [sock EXCEPT ![fd] = k],
         interest' = [interest EXCEPT ![fd] = IF c.state = "READING_REQUEST" THEN "in" ELSE "out"],
         clientSockets' = clientSockets
  PROVE  TablesInv'
<1>1. fd \in Fd
  BY DEF TablesInv, TablesType
<1>2. TablesType'
  BY <1>1 DEF TablesInv, TablesType
<1>3. /\ DOMAIN Clients' = DOMAIN Clients
      /\ \A f \in DOMAIN Clients : Clients'[f] = IF f = fd THEN c ELSE Clients[f]
      /\ \A f \in Fd : sock'[f] = IF f = fd THEN k ELSE sock[f]
      /\ \A f \in Fd : f # fd => interest'[f] = interest[f]
      /\ interest'[fd] = IF c.state = "READING_REQUEST" THEN "in" ELSE "out"
  BY <1>1 DEF TablesInv, TablesType
<1>4. \A f \in Fd : sock'[f].open <=> sock[f].open
  BY <1>3 DEF TablesInv, ClientsRegistered
<1>5. SocketsListed'
  BY <1>4 DEF TablesInv, SocketsListed, Found
<1>6. ClientsRegistered'
  <2>1. SUFFICES ASSUME NEW f \in DOMAIN Clients
                 PROVE  /\ sock'[f].open
                        /\ f \in clientSockets[Clients'[f].config]
                        /\ interest'[f] = IF Responding(f)' THEN "out" ELSE "in"
    BY <1>3 DEF ClientsRegistered
  <2>2. f \in Fd
    BY DEF TablesInv, TablesType
  <2>3. CASE f = fd
    BY <2>2, <2>3, <1>3 DEF TablesInv, ClientsRegistered, Responding
  <2>4. CASE f # fd
    BY <2>2, <2>4, <1>3 DEF TablesInv, ClientsRegistered, Responding
  <2>5. QED
    BY <2>3, <2>4
<1>7. OnlyClientsRegistered'
  BY <1>3 DEF TablesInv, OnlyClientsRegistered
<1>8. QED
  BY <1>2, <1>3, <1>5, <1>6, <1>7 DEF TablesInv, Sound

LEMMA UpdateKeepsTables ==
  ASSUME TablesInv, NEW fd \in DOMAIN Clients, NEW c \in Client, NEW k \in Socket,
         Sound(c), c.config = Clients[fd].config, k.open,
         c.state = "READING_REQUEST" <=> Clients[fd].state = "READING_REQUEST",
         Update(fd, c, k)
  PROVE  TablesInv'
<1>1. fd \in Fd
  BY DEF TablesInv, TablesType
<1>2. interest[fd] = IF c.state = "READING_REQUEST" THEN "in" ELSE "out"
  BY DEF TablesInv, ClientsRegistered, Responding
<1>3. interest' = [interest EXCEPT ![fd] = IF c.state = "READING_REQUEST" THEN "in" ELSE "out"]
  BY <1>1, <1>2 DEF Update, TablesInv, TablesType
<1>4. QED
  BY <1>3, ChangeKeepsTables DEF Update

LEMMA ModifyKeepsTables ==
  ASSUME TablesInv, NEW fd \in DOMAIN Clients, NEW c \in Client, NEW k \in Socket,
         Sound(c), c.config = Clients[fd].config, k.open, NEW ev,
         ev = IF c.state = "READING_REQUEST" THEN "in" ELSE "out",
         ModifyEpollEvent(fd, c, k, ev)
  PROVE  TablesInv'
<1>1. CASE CloseConnections({fd})
  BY <1>1, CloseKeepsTables
<1>2. CASE ~CloseConnections({fd})
  BY <1>2, ChangeKeepsTables DEF ModifyEpollEvent
<1>3. QED
  BY <1>1, <1>2

\* A client's socket, its types and what it holds.
LEMMA ClientFacts ==
  ASSUME TablesInv, NEW fd \in DOMAIN Clients
  PROVE  /\ fd \in Fd /\ Clients[fd] \in Client /\ Sound(Clients[fd])
         /\ sock[fd] \in Socket /\ sock[fd].open
BY DEF TablesInv, TablesType, ClientsRegistered

----------------------------------------------------------------------------
(* The handlers.                                                           *)

LEMMA HandleRequestKeepsTables ==
  ASSUME TablesInv, NEW fd, HandleRequest(fd)
  PROVE  TablesInv'
<1>1. CASE fd \notin DOMAIN Clients
  BY <1>1 DEF HandleRequest, Tables, TablesInv, TablesType, SocketsListed, Found,
     ClientsRegistered, OnlyClientsRegistered, Responding, Sound
<1>2. CASE fd \in DOMAIN Clients
  <2> DEFINE c == [Clients[fd] EXCEPT !.idle = 0]
             k == sock[fd]
  <2>1. /\ c \in Client /\ Sound(c) /\ c.config = Clients[fd].config
        /\ c.state = Clients[fd].state
    BY <1>2, ClientFacts DEF Client, Sound
  <2>2. /\ fd \in Fd /\ k \in Socket /\ k.open
    BY <1>2, ClientFacts
  <2>3. IF c.state = "READING_REQUEST" THEN ReadRequest(fd, c) ELSE Update(fd, c, k)
    BY <1>2 DEF HandleRequest
  <2> HIDE DEF c, k
  <2>4. CASE c.state # "READING_REQUEST"
    BY <1>2, <2>1, <2>2, <2>3, <2>4, UpdateKeepsTables
  <2>5. CASE c.state = "READING_REQUEST" /\ ReadRequestCloses(fd, c)
    BY <2>5, CloseKeepsTables DEF ReadRequestCloses
  <2>6. CASE c.state = "READING_REQUEST" /\ ReadRequestPart(fd, c)
    <3>1. PICK n \in 1..k.rcvq, p \in Reached(c.parse) :
            Update(fd, [c EXCEPT !.parse = p], [k EXCEPT !.rcvq = @ - n])
      BY <2>6 DEF ReadRequestPart, k
    <3>2. p \in ParsingStates /\ p # "COMPLETE"
      BY DEF Reached, ParsingStates
    <3>3. /\ [c EXCEPT !.parse = p] \in Client /\ Sound([c EXCEPT !.parse = p])
          /\ [c EXCEPT !.parse = p].config = Clients[fd].config
          /\ [c EXCEPT !.parse = p].state = Clients[fd].state
      BY <2>1, <2>6, <3>2 DEF Client, Sound
    <3>4. [k EXCEPT !.rcvq = @ - n] \in Socket /\ [k EXCEPT !.rcvq = @ - n].open
      BY <2>2 DEF Socket
    <3>5. QED
      BY <1>2, <3>1, <3>3, <3>4, UpdateKeepsTables
  <2>7. CASE c.state = "READING_REQUEST" /\ ReadRequestComplete(fd, c)
    <3>1. PICK n \in 1..k.rcvq, o \in Outcomes :
            ModifyEpollEvent(fd,
              [c EXCEPT !.parse = "COMPLETE", !.state = "GENERATING_RESPONSE",
                        !.response = o.response, !.close = o.close],
              [k EXCEPT !.rcvq = @ - n], "out")
      BY <2>7 DEF ReadRequestComplete, k
    <3> DEFINE d == [c EXCEPT !.parse = "COMPLETE", !.state = "GENERATING_RESPONSE",
                              !.response = o.response, !.close = o.close]
    <3>2. d \in Client
      <4>1. o.response \in [code : Nat, body : BOOLEAN] /\ o.close \in BOOLEAN
        OBVIOUS
      <4>2. [c EXCEPT !.parse = "COMPLETE"] \in Client
        BY <2>1 DEF Client, ParsingStates
      <4> DEFINE b == [c EXCEPT !.parse = "COMPLETE", !.state = "GENERATING_RESPONSE"]
      <4>3. b \in Client
        BY <4>2, ClientFields DEF ClientStates
      <4>4. d = [b EXCEPT !.response = o.response, !.close = o.close]
        OBVIOUS
      <4> HIDE DEF b, d
      <4>5. [b EXCEPT !.response = o.response] \in Client
        BY <4>1, <4>3 DEF Client
      <4>6. QED
        BY <4>1, <4>4, <4>5, ClientFields
    <3>3. /\ Sound(d) /\ d.config = Clients[fd].config
          /\ d.state = "GENERATING_RESPONSE"
      BY <2>1, <2>7 DEF Client, Sound
    <3>4. [k EXCEPT !.rcvq = @ - n] \in Socket /\ [k EXCEPT !.rcvq = @ - n].open
      BY <2>2 DEF Socket
    <3>5. ModifyEpollEvent(fd, d, [k EXCEPT !.rcvq = @ - n], "out")
      BY <3>1
    <3> HIDE DEF d
    <3>6. QED
      BY <1>2, <3>2, <3>3, <3>4, <3>5, ModifyKeepsTables
  <2>8. QED
    BY <2>3, <2>4, <2>5, <2>6, <2>7 DEF ReadRequest
<1>3. QED
  BY <1>1, <1>2

LEMMA StartResponseKeepsTables ==
  ASSUME TablesInv, NEW fd \in DOMAIN Clients,
         Clients[fd].state = "GENERATING_RESPONSE", StartResponse(fd, Clients[fd])
  PROVE  TablesInv'
<1> DEFINE c == Clients[fd]
           k == sock[fd]
<1>1. /\ c \in Client /\ Sound(c) /\ c.config = Clients[fd].config
      /\ c.state = "GENERATING_RESPONSE" /\ k \in Socket /\ k.open
  BY ClientFacts
<1>2. c.sendBuffer = 0 /\ c.file = Closed
  BY <1>1 DEF Sound
<1>3. HeaderUnits \in 0..(HeaderUnits + 1) /\ HeaderUnits + 1 \in 0..(HeaderUnits + 1) /\ HeaderUnits > 0
  OBVIOUS
<1>4. ASSUME NEW d \in Client, Sound(d), d.config = c.config,
             d.state # "READING_REQUEST", Update(fd, d, k)
      PROVE  TablesInv'
  BY <1>1, <1>4, UpdateKeepsTables
<1>5. ASSUME NEW n \in 0..MaxBlocks,
             Update(fd, [c EXCEPT !.state = "SENDING_DATA", !.file = n,
                                  !.sendBuffer = HeaderUnits], k)
      PROVE  TablesInv'
  <2> DEFINE b == [c EXCEPT !.state = "SENDING_DATA", !.file = n]
             d == [c EXCEPT !.state = "SENDING_DATA", !.file = n, !.sendBuffer = HeaderUnits]
  <2>1. [c EXCEPT !.state = "SENDING_DATA"] \in Client
    BY <1>1 DEF Client, ClientStates
  <2>2. n \in Closed..MaxBlocks
    BY DEF Closed
  <2>3. b \in Client
    BY <2>1, <2>2, ClientFields
  <2>4. d = [b EXCEPT !.sendBuffer = HeaderUnits]
    OBVIOUS
  <2>5. d \in Client
    <3> HIDE DEF b, d
    <3> QED BY <1>3, <2>3, <2>4 DEF Client
  <2>6. Sound(d) /\ d.config = c.config /\ d.state # "READING_REQUEST"
    BY <1>1, <1>3 DEF Client, Sound
  <2>7. QED
    BY <1>4, <1>5, <2>5, <2>6
<1>6. CASE Update(fd, [c EXCEPT !.state = "COMPLETED"], k)
  <2>1. [c EXCEPT !.state = "COMPLETED"] \in Client
    BY <1>1 DEF Client, ClientStates
  <2>2. /\ Sound([c EXCEPT !.state = "COMPLETED"])
        /\ [c EXCEPT !.state = "COMPLETED"].config = c.config
        /\ [c EXCEPT !.state = "COMPLETED"].state # "READING_REQUEST"
    BY <1>1, <1>2 DEF Client, Sound
  <2>3. QED
    BY <1>4, <1>6, <2>1, <2>2
<1>7. ASSUME NEW u \in 0..(HeaderUnits + 1), u > 0,
             Update(fd, [c EXCEPT !.state = "SENDING_DATA", !.response.body = FALSE,
                                  !.sendBuffer = u], k)
      PROVE  TablesInv'
  <2> DEFINE b == [c EXCEPT !.state = "SENDING_DATA", !.response.body = FALSE]
             d == [c EXCEPT !.state = "SENDING_DATA", !.response.body = FALSE, !.sendBuffer = u]
  <2>1. [c EXCEPT !.state = "SENDING_DATA"] \in Client
    BY <1>1 DEF Client, ClientStates
  <2>2. b \in Client
    BY <2>1, ClientFields
  <2>3. d = [b EXCEPT !.sendBuffer = u]
    OBVIOUS
  <2>4. d \in Client
    <3> HIDE DEF b, d
    <3> QED BY <2>2, <2>3 DEF Client
  <2>5. Sound(d) /\ d.config = c.config /\ d.state # "READING_REQUEST"
    BY <1>1, <1>7 DEF Client, Sound
  <2>6. QED
    BY <1>4, <1>7, <2>4, <2>5
<1>8. CASE Streams(c.response)
  BY <1>5, <1>6, <1>8 DEF StartResponse
<1>9. CASE ~Streams(c.response)
  <2> DEFINE u == HeaderUnits + (IF c.response.body THEN 1 ELSE 0)
  <2>1. u \in 0..(HeaderUnits + 1) /\ u > 0
    OBVIOUS
  <2>2. Update(fd, [c EXCEPT !.state = "SENDING_DATA", !.response.body = FALSE,
                             !.sendBuffer = u], k)
    BY <1>9 DEF StartResponse
  <2> HIDE DEF u
  <2>3. QED
    BY <1>7, <2>1, <2>2
<1>10. QED
  BY <1>8, <1>9

\* What one send() and one refill leave of a client that sends: it still sends and
\* has something to send, or it is done with nothing left.
LEMMA RefilledSound ==
  ASSUME NEW c \in Client, c.state = "SENDING_DATA" \/ (c.sendBuffer = 0 /\ c.file = Closed),
         c.state = "SENDING_DATA" => c.sendBuffer > 0 \/ c.file # Closed,
         c.state \in {"SENDING_DATA", "COMPLETED"}
  PROVE  /\ Sound(Refilled(c)) /\ Refilled(c).config = c.config
         /\ Refilled(c).state # "READING_REQUEST"
BY DEF Refilled, Sound, Client, Closed

LEMMA SendDataKeepsTables ==
  ASSUME TablesInv, NEW fd \in DOMAIN Clients,
         Clients[fd].state = "SENDING_DATA", SendData(fd, Clients[fd])
  PROVE  TablesInv'
<1> DEFINE c == Clients[fd]
           k == sock[fd]
<1>1. /\ c \in Client /\ Sound(c) /\ c.state = "SENDING_DATA" /\ c.sendBuffer > 0
      /\ k \in Socket /\ k.open
  BY ClientFacts DEF Sound
<1>2. CASE CloseConnections({fd})
  BY <1>2, CloseKeepsTables
<1>3. ASSUME NEW n \in 1..c.sendBuffer, NEW room \in BOOLEAN,
             Update(fd, Refilled(Sent(c, n)), [k EXCEPT !.room = room])
      PROVE  TablesInv'
  <2> DEFINE d == Sent(c, n)
  <2>1. d \in Client
    BY <1>1, SentType
  <2>2. /\ d.state = "SENDING_DATA" \/ (d.sendBuffer = 0 /\ d.file = Closed)
        /\ d.state = "SENDING_DATA" => d.sendBuffer > 0 \/ d.file # Closed
        /\ d.state \in {"SENDING_DATA", "COMPLETED"}
        /\ d.config = c.config
    BY <1>1 DEF Sent, Client
  <2>3. [k EXCEPT !.room = room] \in Socket /\ [k EXCEPT !.room = room].open
    BY <1>1 DEF Socket
  <2> HIDE DEF d
  <2>4. Refilled(d) \in Client
    BY <2>1, RefilledType
  <2>5. /\ Sound(Refilled(d)) /\ Refilled(d).config = c.config
        /\ Refilled(d).state # "READING_REQUEST"
    BY <2>1, <2>2, RefilledSound
  <2>6. QED
    BY <1>1, <1>3, <2>3, <2>4, <2>5, UpdateKeepsTables DEF d
<1>4. c.sendBuffer # 0
  BY <1>1
<1>5. QED
  BY <1>2, <1>3, <1>4 DEF SendData

LEMMA FinishResponseKeepsTables ==
  ASSUME TablesInv, NEW fd \in DOMAIN Clients,
         FinishResponse(fd, Clients[fd])
  PROVE  TablesInv'
<1> DEFINE d == [ResetState(Clients[fd]) EXCEPT !.state = "READING_REQUEST"]
<1>1. CASE CloseConnections({fd})
  BY <1>1, CloseKeepsTables
<1>2. CASE ModifyEpollEvent(fd, d, sock[fd], "in")
  <2>1. Clients[fd] \in Client /\ sock[fd] \in Socket /\ sock[fd].open
    BY ClientFacts
  <2>2. d \in Client
    BY <2>1, ResetStateType
  <2>3. Sound(d) /\ d.config = Clients[fd].config /\ d.state = "READING_REQUEST"
    BY <2>1 DEF ResetState, Client, Sound
  <2> HIDE DEF d
  <2>4. QED
    BY <1>2, <2>1, <2>2, <2>3, ModifyKeepsTables
<1>3. QED
  BY <1>1, <1>2 DEF FinishResponse

LEMMA UnchangedKeepsTables ==
  ASSUME TablesInv, UNCHANGED Tables
  PROVE  TablesInv'
BY DEF Tables, TablesInv, TablesType, SocketsListed, Found, ClientsRegistered,
   OnlyClientsRegistered, Responding, Sound

LEMMA SendResponseKeepsTables ==
  ASSUME TablesInv, NEW fd, SendResponse(fd)
  PROVE  TablesInv'
<1>1. CASE fd \notin DOMAIN Clients
  BY <1>1, UnchangedKeepsTables DEF SendResponse
<1>2. CASE fd \in DOMAIN Clients
  <2>1. \/ Clients[fd].state = "GENERATING_RESPONSE" /\ StartResponse(fd, Clients[fd])
        \/ Clients[fd].state = "SENDING_DATA" /\ SendData(fd, Clients[fd])
        \/ FinishResponse(fd, Clients[fd])
        \/ UNCHANGED Tables
    BY <1>2 DEF SendResponse
  <2>2. QED
    BY <1>2, <2>1, StartResponseKeepsTables, SendDataKeepsTables,
       FinishResponseKeepsTables, UnchangedKeepsTables
<1>3. QED
  BY <1>1, <1>2

LEMMA AcceptKeepsTables ==
  ASSUME TablesInv, NEW l \in Listeners, HandleConnections(l)
  PROVE  TablesInv'
<1>1. CASE AcceptFails(l)
  BY <1>1, UnchangedKeepsTables DEF AcceptFails
<1>2. CASE AcceptConnection(l)
  <2> DEFINE s == ServerOf[l]
  <2>1. s \in Server
    OBVIOUS
  <2>2. PICK fd \in Fd :
          /\ ~sock[fd].open
          /\ sock' = [sock EXCEPT ![fd] = FreshSocket]
          /\ clientSockets' = [clientSockets EXCEPT ![s] = @ \cup {fd}]
          /\ \/ /\ interest' = [interest EXCEPT ![fd] = "in"]
                /\ Clients' = [f \in DOMAIN Clients \cup {fd} |->
                                 IF f \in DOMAIN Clients THEN Clients[f] ELSE NewClient(s)]
             \/ UNCHANGED <<interest, Clients>>
    BY <1>2 DEF AcceptConnection
  <2> HIDE DEF s
  <2>3. /\ fd \notin DOMAIN Clients
        /\ \A t \in Server : fd \notin clientSockets[t]
    BY <2>2 DEF TablesInv, ClientsRegistered, SocketsListed, Found
  <2>4. /\ \A f \in Fd : sock'[f] = IF f = fd THEN FreshSocket ELSE sock[f]
        /\ \A t \in Server : \A f : f \in clientSockets'[t] <=>
                                 f \in clientSockets[t] \/ (t = s /\ f = fd)
        /\ FreshSocket.open
    <3>1. \A f \in Fd : sock'[f] = IF f = fd THEN FreshSocket ELSE sock[f]
      BY <2>2 DEF TablesInv, TablesType
    <3>2. \A t \in Server : t # s => clientSockets'[t] = clientSockets[t]
      BY <2>1, <2>2 DEF TablesInv, TablesType
    <3>3. clientSockets'[s] = clientSockets[s] \cup {fd}
      BY <2>1, <2>2 DEF TablesInv, TablesType
    <3>4. FreshSocket.open
      BY DEF FreshSocket, ClosedSocket
    <3>5. QED
      BY <3>1, <3>2, <3>3, <3>4
  <2>5. SocketsListed'
    <3>1. \A f \in Fd : sock'[f].open <=> \E t \in Server : f \in clientSockets'[t]
      <4>1. SUFFICES ASSUME NEW f \in Fd
                     PROVE  sock'[f].open <=> \E t \in Server : f \in clientSockets'[t]
        OBVIOUS
      <4>2. CASE f = fd
        BY <4>2, <2>1, <2>4
      <4>3. CASE f # fd
        BY <4>3, <2>4 DEF TablesInv, SocketsListed, Found
      <4>4. QED
        BY <4>2, <4>3
    <3>2. \A t, u \in Server : t # u => clientSockets'[t] \cap clientSockets'[u] = {}
      BY <2>3, <2>4 DEF TablesInv, SocketsListed
    <3>3. QED
      BY <3>1, <3>2 DEF SocketsListed, Found
  <2>6. sock' \in [Fd -> Socket] /\ clientSockets' \in [Server -> SUBSET Fd]
    BY <2>1, <2>2, SocketConstants DEF TablesInv, TablesType
  <2>7. CASE UNCHANGED <<interest, Clients>>
    <3>1. TablesType'
      BY <2>6, <2>7 DEF TablesInv, TablesType
    <3>2. ClientsRegistered'
      <4>1. SUFFICES ASSUME NEW f \in DOMAIN Clients
                     PROVE  /\ sock'[f].open
                            /\ f \in clientSockets'[Clients[f].config]
                            /\ interest[f] = IF Responding(f) THEN "out" ELSE "in"
        BY <2>7 DEF ClientsRegistered, Responding
      <4>2. f \in Fd /\ f # fd /\ Clients[f].config \in Server
        BY <2>3 DEF TablesInv, TablesType, Client
      <4>3. QED
        BY <4>2, <2>4 DEF TablesInv, ClientsRegistered
    <3>3. OnlyClientsRegistered' /\ \A f \in DOMAIN Clients' : Sound(Clients'[f])
      BY <2>7 DEF TablesInv, OnlyClientsRegistered
    <3>4. QED
      BY <2>5, <3>1, <3>2, <3>3 DEF TablesInv, Sound
  <2>8. CASE /\ interest' = [interest EXCEPT ![fd] = "in"]
             /\ Clients' = [f \in DOMAIN Clients \cup {fd} |->
                              IF f \in DOMAIN Clients THEN Clients[f] ELSE NewClient(s)]
    <3>1. /\ DOMAIN Clients' = DOMAIN Clients \cup {fd}
          /\ \A f \in DOMAIN Clients : Clients'[f] = Clients[f]
          /\ Clients'[fd] = NewClient(s)
          /\ \A f \in Fd : interest'[f] = IF f = fd THEN "in" ELSE interest[f]
      BY <2>3, <2>8 DEF TablesInv, TablesType
    <3>2. NewClient(s) \in Client /\ Sound(NewClient(s))
          /\ NewClient(s).state = "READING_REQUEST" /\ NewClient(s).config = s
      BY <2>1, NewClientType DEF NewClient, Sound
    <3>3. TablesType'
      <4>1. interest' \in [Fd \cup Listeners -> {"none", "in", "out"}]
        BY <2>8 DEF TablesInv, TablesType
      <4>2. DOMAIN Clients' \subseteq Fd /\ Clients' \in [DOMAIN Clients' -> Client]
        BY <2>8, <3>1, <3>2 DEF TablesInv, TablesType
      <4>3. QED
        BY <2>6, <4>1, <4>2 DEF TablesType
    <3>4. ClientsRegistered'
      <4>1. SUFFICES ASSUME NEW f \in DOMAIN Clients'
                     PROVE  /\ sock'[f].open
                            /\ f \in clientSockets'[Clients'[f].config]
                            /\ interest'[f] = IF Responding(f)' THEN "out" ELSE "in"
        BY DEF ClientsRegistered
      <4>2. CASE f = fd
        BY <4>2, <2>1, <2>4, <3>1, <3>2 DEF Responding
      <4>3. CASE f # fd
        <5>1. f \in DOMAIN Clients /\ f \in Fd /\ Clients[f].config \in Server
          BY <4>1, <4>3, <3>1 DEF TablesInv, TablesType, Client
        <5>2. Responding(f)' <=> Responding(f)
          BY <5>1, <3>1 DEF Responding
        <5>3. QED
          BY <4>3, <5>1, <5>2, <2>4, <3>1 DEF TablesInv, ClientsRegistered
      <4>4. QED
        BY <4>2, <4>3
    <3>5. OnlyClientsRegistered'
      BY <3>1 DEF TablesInv, OnlyClientsRegistered
    <3>6. \A f \in DOMAIN Clients' : Sound(Clients'[f])
      BY <3>1, <3>2 DEF TablesInv
    <3>7. QED
      BY <2>5, <3>3, <3>4, <3>5, <3>6 DEF TablesInv, Sound
  <2>9. QED
    BY <2>2, <2>7, <2>8
<1>3. QED
  BY <1>1, <1>2 DEF HandleConnections

LEMMA EndProcessKeepsTables ==
  ASSUME NEW how, EndProcess(how)
  PROVE  TablesInv'
<1>1. DOMAIN Clients' = {} /\ \A fd \in Fd : sock'[fd] = ClosedSocket
  BY DEF EndProcess
<1>2. TablesType'
  BY <1>1, SocketConstants DEF EndProcess, TablesType
<1>3. SocketsListed'
  BY <1>1 DEF EndProcess, SocketsListed, Found, ClosedSocket
<1>4. ClientsRegistered' /\ OnlyClientsRegistered'
  BY <1>1 DEF EndProcess, ClientsRegistered, OnlyClientsRegistered
<1>5. QED
  BY <1>1, <1>2, <1>3, <1>4 DEF TablesInv
----------------------------------------------------------------------------
(* The peers and the clock.                                                *)

\* Only one socket changes, and it stays open.
LEMMA PeerKeepsTables ==
  ASSUME TablesInv, NEW fd \in Fd,
         PeerSends(fd) \/ PeerShutsDown(fd) \/ PeerResets(fd) \/ PeerDrains(fd)
  PROVE  TablesInv'
<1>1. sock \in [Fd -> Socket] /\ sock[fd] \in Socket
  BY DEF TablesInv, TablesType
<1>2. PICK k \in Socket : sock' = [sock EXCEPT ![fd] = k] /\ k.open = sock[fd].open
  <2>1. CASE PeerSends(fd)
    <3>1. [sock[fd] EXCEPT !.rcvq = @ + 1] \in Socket
      BY <1>1, <2>1 DEF PeerSends, Socket
    <3>2. [sock[fd] EXCEPT !.rcvq = @ + 1].open = sock[fd].open
      BY <1>1 DEF Socket
    <3>3. QED
      BY <2>1, <3>1, <3>2 DEF PeerSends
  <2>2. CASE PeerShutsDown(fd)
    <3>1. /\ [sock[fd] EXCEPT !.peer = "fin"] \in Socket
          /\ [sock[fd] EXCEPT !.peer = "fin"].open = sock[fd].open
      BY <1>1 DEF Socket
    <3>2. QED
      BY <2>2, <3>1 DEF PeerShutsDown
  <2>3. CASE PeerResets(fd)
    <3>1. /\ [sock[fd] EXCEPT !.peer = "rst"] \in Socket
          /\ [sock[fd] EXCEPT !.peer = "rst"].open = sock[fd].open
      BY <1>1 DEF Socket
    <3>2. QED
      BY <2>3, <3>1 DEF PeerResets
  <2>4. CASE PeerDrains(fd)
    <3>1. /\ [sock[fd] EXCEPT !.room = TRUE] \in Socket
          /\ [sock[fd] EXCEPT !.room = TRUE].open = sock[fd].open
      BY <1>1 DEF Socket
    <3>2. QED
      BY <2>4, <3>1 DEF PeerDrains
  <2>5. QED
    BY <2>1, <2>2, <2>3, <2>4
<1>3. UNCHANGED <<interest, clientSockets, Clients>>
  BY DEF PeerSends, PeerShutsDown, PeerResets, PeerDrains, Peer
<1>4. /\ sock' \in [Fd -> Socket]
      /\ \A f \in Fd : sock'[f].open <=> sock[f].open
  BY <1>1, <1>2
<1>5. TablesType' /\ SocketsListed' /\ OnlyClientsRegistered'
  BY <1>3, <1>4 DEF TablesInv, TablesType, SocketsListed, Found, OnlyClientsRegistered
<1>6. ClientsRegistered'
  BY <1>3, <1>4 DEF TablesInv, TablesType, ClientsRegistered, Responding
<1>7. QED
  BY <1>3, <1>5, <1>6 DEF TablesInv, Sound

LEMMA TickKeepsTables ==
  ASSUME TablesInv, Tick
  PROVE  TablesInv'
<1>1. /\ DOMAIN Clients' = DOMAIN Clients
      /\ \A fd \in DOMAIN Clients :
           Clients'[fd] = [Clients[fd] EXCEPT !.idle = Min2(@ + 1, Timeout)]
      /\ Clients' = [fd \in DOMAIN Clients |-> Clients'[fd]]
      /\ UNCHANGED <<sock, interest, clientSockets>>
  BY DEF Tick
<1>2. ASSUME NEW fd \in DOMAIN Clients
      PROVE  /\ Clients'[fd] \in Client /\ Sound(Clients'[fd])
             /\ Clients'[fd].state = Clients[fd].state
             /\ Clients'[fd].config = Clients[fd].config
  <2>1. Clients[fd] \in Client /\ Sound(Clients[fd])
    BY ClientFacts
  <2>2. Min2(Clients[fd].idle + 1, Timeout) \in 0..Timeout
    BY <2>1 DEF Min2, Client
  <2>3. QED
    BY <1>1, <2>1, <2>2 DEF Client, Sound
<1>3. TablesType'
  <2>1. Clients' \in [DOMAIN Clients' -> Client]
    BY <1>1, <1>2
  <2>2. QED
    BY <1>1, <2>1 DEF TablesInv, TablesType
<1>4. ClientsRegistered'
  BY <1>1, <1>2 DEF TablesInv, ClientsRegistered, Responding
<1>5. SocketsListed' /\ OnlyClientsRegistered'
  BY <1>1 DEF TablesInv, SocketsListed, Found, OnlyClientsRegistered
<1>6. QED
  BY <1>1, <1>2, <1>3, <1>4, <1>5 DEF TablesInv, Sound
----------------------------------------------------------------------------
(* What a handler may do to other descriptors.                             *)

\* Nothing is opened, no client enters; only fd may be closed, and then its client
\* goes with it.
AtMostCloses(fd) ==
  /\ DOMAIN Clients' \subseteq DOMAIN Clients
  /\ \A f \in Fd : sock'[f].open => sock[f].open /\ (f \in DOMAIN Clients => f \in DOMAIN Clients')
  /\ \A f \in Fd \ {fd} : /\ sock'[f].open = sock[f].open
                          /\ f \in DOMAIN Clients' <=> f \in DOMAIN Clients

LEMMA CloseAtMostCloses ==
  ASSUME TablesInv, NEW fd, CloseConnections({fd})
  PROVE  AtMostCloses(fd)
<1> DEFINE found == {f \in {fd} : Found(f)}
<1>1. /\ sock' = [f \in Fd |-> IF f \in found THEN ClosedSocket ELSE sock[f]]
      /\ Clients' = [f \in DOMAIN Clients \ found |-> Clients[f]]
      /\ ClosedSocket.open = FALSE
  BY DEF CloseConnections, ClosedSocket
<1>2. \A f \in found : f = fd
  OBVIOUS
<1> HIDE DEF found
<1>3. QED
  BY <1>1, <1>2 DEF AtMostCloses

LEMMA UpdateAtMostCloses ==
  ASSUME TablesInv, NEW fd \in DOMAIN Clients, NEW c, NEW k,
         k.open = sock[fd].open, Clients' = [Clients EXCEPT ![fd] = c],
         sock' = [sock EXCEPT ![fd] = k]
  PROVE  AtMostCloses(fd)
<1>1. DOMAIN Clients' = DOMAIN Clients
  OBVIOUS
<1>2. \A f \in Fd : sock'[f].open = sock[f].open
  BY DEF TablesInv, TablesType
<1>3. QED
  BY <1>1, <1>2 DEF AtMostCloses

LEMMA UnchangedAtMostCloses ==
  ASSUME UNCHANGED Tables, NEW fd
  PROVE  AtMostCloses(fd)
BY DEF Tables, AtMostCloses

LEMMA HandleRequestAtMostCloses ==
  ASSUME TablesInv, NEW fd, HandleRequest(fd)
  PROVE  AtMostCloses(fd)
<1>1. CASE fd \notin DOMAIN Clients
  BY <1>1, UnchangedAtMostCloses DEF HandleRequest
<1>2. CASE fd \in DOMAIN Clients
  <2> DEFINE k == sock[fd]
  <2>1. k \in Socket /\ \A n : [k EXCEPT !.rcvq = n].open = k.open
    BY <1>2, ClientFacts DEF Socket
  <2>2. \/ CloseConnections({fd})
        \/ \E c : Update(fd, c, k)
        \/ \E c, n : Update(fd, c, [k EXCEPT !.rcvq = n])
        \/ \E c, n, ev : ModifyEpollEvent(fd, c, [k EXCEPT !.rcvq = n], ev)
    BY <1>2 DEF HandleRequest, ReadRequest, ReadRequestCloses, ReadRequestPart, ReadRequestComplete
  <2>3. CASE CloseConnections({fd})
    BY <2>3, CloseAtMostCloses
  <2>4. CASE \E c : Update(fd, c, k)
    BY <1>2, <2>4, UpdateAtMostCloses DEF Update
  <2>5. CASE \E c, n : Update(fd, c, [k EXCEPT !.rcvq = n])
    BY <1>2, <2>1, <2>5, UpdateAtMostCloses DEF Update
  <2>6. CASE \E c, n, ev : ModifyEpollEvent(fd, c, [k EXCEPT !.rcvq = n], ev)
    BY <1>2, <2>1, <2>6, UpdateAtMostCloses, CloseAtMostCloses DEF ModifyEpollEvent
  <2>7. QED
    BY <2>2, <2>3, <2>4, <2>5, <2>6
<1>3. QED
  BY <1>1, <1>2

LEMMA SendResponseAtMostCloses ==
  ASSUME TablesInv, NEW fd, SendResponse(fd)
  PROVE  AtMostCloses(fd)
<1>1. CASE fd \notin DOMAIN Clients
  BY <1>1, UnchangedAtMostCloses DEF SendResponse
<1>2. CASE fd \in DOMAIN Clients
  <2> DEFINE k == sock[fd]
  <2>1. k \in Socket /\ \A r : [k EXCEPT !.room = r].open = k.open
    BY <1>2, ClientFacts DEF Socket
  <2>2. \/ CloseConnections({fd})
        \/ \E c : Update(fd, c, k)
        \/ \E c, r : Update(fd, c, [k EXCEPT !.room = r])
        \/ \E c, ev : ModifyEpollEvent(fd, c, k, ev)
        \/ UNCHANGED Tables
    BY <1>2 DEF SendResponse, StartResponse, SendData, FinishResponse
  <2>3. CASE CloseConnections({fd})
    BY <2>3, CloseAtMostCloses
  <2>4. CASE \E c : Update(fd, c, k)
    BY <1>2, <2>4, UpdateAtMostCloses DEF Update
  <2>5. CASE \E c, r : Update(fd, c, [k EXCEPT !.room = r])
    BY <1>2, <2>1, <2>5, UpdateAtMostCloses DEF Update
  <2>6. CASE \E c, ev : ModifyEpollEvent(fd, c, k, ev)
    BY <1>2, <2>6, UpdateAtMostCloses, CloseAtMostCloses DEF ModifyEpollEvent
  <2>7. CASE UNCHANGED Tables
    BY <2>7, UnchangedAtMostCloses
  <2>8. QED
    BY <2>2, <2>3, <2>4, <2>5, <2>6, <2>7
<1>3. QED
  BY <1>1, <1>2
----------------------------------------------------------------------------
(* The inductive invariant.                                                *)

\* An event waits for one connection only, and its client is still there: between
\* two events of a batch only the handled event's own descriptor is closed.
BatchInv ==
  /\ \A e \in batch : e.fd \in Fd => e.fd \in DOMAIN Clients
  /\ \A e, f \in batch : e.fd = f.fd => e = f

LoopType ==
  /\ backlog \in [Listeners -> 0..MaxBacklog]
  /\ evCapacity \in Nat /\ evCapacity <= 2 * (Cardinality(Fd) + Cardinality(Listeners))
  /\ batch \subseteq Event
  /\ pc \in {"wait", "dispatch", "stopped", "crashed"}

IInv == TablesInv /\ LoopType /\ BatchInv /\ NoOrphanSocket

LEMMA CardinalityFacts ==
  /\ Cardinality(Fd) \in Nat /\ Cardinality(Listeners) \in Nat
  /\ IsFiniteSet(Fd \cup Listeners)
  /\ Cardinality(Fd \cup Listeners) = Cardinality(Fd) + Cardinality(Listeners)
<1>1. Cardinality(Fd) \in Nat /\ Cardinality(Listeners) \in Nat
  BY FS_CardinalityType
<1>2. Cardinality(Fd \cap Listeners) = 0
  BY FS_EmptySet
<1>3. QED
  BY <1>1, <1>2, FS_Union

\* epoll_wait reports at most one event for a descriptor.
LEMMA ReadyUnique ==
  ASSUME NEW e \in Ready, NEW f \in Ready, e.fd = f.fd
  PROVE  e = f
<1>1. e \in Event /\ f \in Event
  BY DEF Ready
<1>2. e.ev = f.ev
  BY DEF Ready
<1>3. QED
  BY <1>1, <1>2 DEF Event

LEMMA ReadyBounded ==
  ASSUME NEW E \in SUBSET Ready
  PROVE  Cardinality(E) \in Nat /\ Cardinality(E) <= Cardinality(Fd) + Cardinality(Listeners)
<1> DEFINE g == [e \in E |-> e.fd]
<1>1. g \in [E -> Fd \cup Listeners]
  BY DEF Ready, Event
<1>2. \A e, f \in E : g[e] = g[f] => e = f
  BY ReadyUnique
<1>3. g \in Injection(E, Fd \cup Listeners)
  BY <1>1, <1>2 DEF Injection, IsInjective
<1>4. IsFiniteSet(E) /\ Cardinality(E) <= Cardinality(Fd \cup Listeners)
  BY <1>3, CardinalityFacts, FS_Injection
<1>5. QED
  BY <1>4, CardinalityFacts, FS_CardinalityType

LEMMA InitIInv == Init => IInv
<1> SUFFICES ASSUME Init PROVE IInv
  OBVIOUS
<1>1. DOMAIN Clients = {} /\ batch = {}
  BY DEF Init
<1>2. TablesType
  <2>1. sock \in [Fd -> Socket]
    BY SocketConstants DEF Init
  <2>2. QED
    BY <1>1, <2>1 DEF Init, TablesType
<1>3. SocketsListed
  BY DEF Init, SocketsListed, Found, ClosedSocket
<1>4. ClientsRegistered /\ OnlyClientsRegistered
  BY <1>1 DEF Init, ClientsRegistered, OnlyClientsRegistered
<1>5. NoOrphanSocket
  BY DEF Init, NoOrphanSocket, ClosedSocket
<1>6. LoopType
  BY CardinalityFacts DEF Init, LoopType
<1>7. QED
  BY <1>1, <1>2, <1>3, <1>4, <1>5, <1>6 DEF IInv, TablesInv, BatchInv
----------------------------------------------------------------------------
(* Every step preserves it.                                                *)

LEMMA EpollWaitKeepsIInv ==
  ASSUME IInv, EpollWait
  PROVE  IInv'
<1>1. PICK E \in SUBSET Ready :
        /\ batch' = E
        /\ evCapacity' = IF Cardinality(E) = evCapacity THEN 2 * evCapacity ELSE evCapacity
  BY DEF EpollWait
<1>2. UNCHANGED <<sock, backlog, interest, clientSockets, Clients>> /\ pc' = "dispatch"
  BY DEF EpollWait, Tables
<1>3. TablesInv' /\ NoOrphanSocket'
  BY <1>2, UnchangedKeepsTables DEF IInv, NoOrphanSocket, Tables
<1>4. LoopType'
  <2>1. batch' \subseteq Event
    BY <1>1 DEF Ready
  <2>2. evCapacity' \in Nat /\ evCapacity' <= 2 * (Cardinality(Fd) + Cardinality(Listeners))
    BY <1>1, ReadyBounded, CardinalityFacts DEF IInv, LoopType
  <2>3. QED
    BY <1>2, <2>1, <2>2 DEF IInv, LoopType
<1>5. BatchInv'
  <2>1. \A e \in batch' : e.fd \in Fd => e.fd \in DOMAIN Clients'
    BY <1>1, <1>2 DEF Ready, IInv, TablesInv, OnlyClientsRegistered
  <2>2. \A e, f \in batch' : e.fd = f.fd => e = f
    BY <1>1, ReadyUnique
  <2>3. QED
    BY <2>1, <2>2 DEF BatchInv
<1>6. QED
  BY <1>3, <1>4, <1>5 DEF IInv

\* An event other than the handled one keeps its client.
LEMMA HandleEventKeepsOthers ==
  ASSUME IInv, NEW e \in batch, HandleEvent(e)
  PROVE  /\ TablesInv' /\ NoOrphanSocket'
         /\ \A f \in Fd \ {e.fd} : f \in DOMAIN Clients => f \in DOMAIN Clients' /\ sock'[f].open
         /\ backlog' \in [Listeners -> 0..MaxBacklog]
         /\ \/ AtMostCloses(e.fd)
            \/ \E l \in Listeners : e.fd = l /\ HandleConnections(l)
<1>1. TablesInv /\ NoOrphanSocket /\ backlog \in [Listeners -> 0..MaxBacklog] /\ e \in Event
  BY DEF IInv, LoopType
<1>2. \A f \in DOMAIN Clients : f \in Fd /\ sock[f].open
  BY <1>1, ClientFacts
<1>3. CASE AtMostCloses(e.fd) /\ TablesInv' /\ UNCHANGED backlog
  BY <1>1, <1>2, <1>3 DEF AtMostCloses, NoOrphanSocket
<1>4. CASE e.fd \in Listeners /\ HandleConnections(e.fd)
  <2>1. TablesInv'
    BY <1>1, <1>4, AcceptKeepsTables
  <2>2. CASE AcceptFails(e.fd)
    BY <1>1, <1>2, <1>4, <2>1, <2>2 DEF AcceptFails, Tables, NoOrphanSocket
  <2>3. CASE AcceptConnection(e.fd)
    <3>1. PICK fd \in Fd :
            /\ backlog[e.fd] > 0 /\ backlog' = [backlog EXCEPT ![e.fd] = @ - 1]
            /\ sock' = [sock EXCEPT ![fd] = FreshSocket]
            /\ \/ Clients' = [f \in DOMAIN Clients \cup {fd} |->
                                IF f \in DOMAIN Clients THEN Clients[f]
                                ELSE NewClient(ServerOf[e.fd])]
               \/ EpollMayFail /\ Clients' = Clients
      BY <2>3 DEF AcceptConnection
    <3>2. \A f \in Fd : sock'[f] = IF f = fd THEN FreshSocket ELSE sock[f]
      BY <1>1, <3>1 DEF TablesInv, TablesType
    <3>3. FreshSocket.open
      BY DEF FreshSocket, ClosedSocket
    <3>4. \A f \in DOMAIN Clients : f \in DOMAIN Clients' /\ sock'[f].open
      BY <1>2, <3>1, <3>2, <3>3
    <3>5. NoOrphanSocket'
      BY <1>1, <3>1, <3>2 DEF NoOrphanSocket
    <3>6. backlog' \in [Listeners -> 0..MaxBacklog]
      BY <1>1, <1>4, <3>1
    <3>7. QED
      BY <1>4, <2>1, <3>4, <3>5, <3>6
  <2>4. QED
    BY <1>4, <2>2, <2>3 DEF HandleConnections
<1>5. \/ CloseConnections({e.fd}) /\ UNCHANGED backlog
      \/ e.fd \in Listeners /\ HandleConnections(e.fd)
      \/ HandleRequest(e.fd)
      \/ SendResponse(e.fd)
  BY <1>1 DEF HandleEvent, Event
<1>6. CASE CloseConnections({e.fd}) /\ UNCHANGED backlog
  BY <1>1, <1>3, <1>6, CloseAtMostCloses, CloseKeepsTables
<1>7. CASE HandleRequest(e.fd)
  BY <1>1, <1>3, <1>7, HandleRequestAtMostCloses, HandleRequestKeepsTables DEF HandleRequest
<1>8. CASE SendResponse(e.fd)
  BY <1>1, <1>3, <1>8, SendResponseAtMostCloses, SendResponseKeepsTables DEF SendResponse
<1>9. QED
  BY <1>4, <1>5, <1>6, <1>7, <1>8

LEMMA HandleEventKeepsIInv ==
  ASSUME IInv, NEW e \in batch, HandleEvent(e)
  PROVE  IInv'
<1>1. batch' = batch \ {e} /\ UNCHANGED <<evCapacity, pc>>
  BY DEF HandleEvent
<1>2. LoopType'
  BY <1>1, HandleEventKeepsOthers DEF IInv, LoopType
<1>3. BatchInv'
  <2>1. ASSUME NEW f \in batch', f.fd \in Fd
        PROVE  f.fd \in DOMAIN Clients'
    <3>1. f \in batch /\ f.fd # e.fd /\ f.fd \in DOMAIN Clients
      BY <1>1, <2>1 DEF IInv, BatchInv
    <3>2. QED
      BY <2>1, <3>1, HandleEventKeepsOthers
  <2>2. \A f, g \in batch' : f.fd = g.fd => f = g
    BY <1>1 DEF IInv, BatchInv
  <2>3. QED
    BY <2>1, <2>2 DEF BatchInv
<1>4. QED
  BY <1>2, <1>3, HandleEventKeepsOthers DEF IInv

LEMMA CheckTimeoutsKeepsIInv ==
  ASSUME IInv, CheckTimeouts
  PROVE  IInv'
<1>1. TablesInv'
  BY CloseKeepsTables DEF IInv, CheckTimeouts
<1>2. LoopType' /\ BatchInv'
  BY DEF IInv, CheckTimeouts, LoopType, BatchInv
<1>3. NoOrphanSocket'
  <2> DEFINE found == {fd \in Expired : Found(fd)}
  <2>1. /\ sock' = [fd \in Fd |-> IF fd \in found THEN ClosedSocket ELSE sock[fd]]
        /\ Clients' = [fd \in DOMAIN Clients \ found |-> Clients[fd]]
        /\ ClosedSocket.open = FALSE
    BY DEF CheckTimeouts, CloseConnections, ClosedSocket
  <2> HIDE DEF found
  <2>2. QED
    BY <2>1 DEF IInv, NoOrphanSocket
<1>4. QED
  BY <1>1, <1>2, <1>3 DEF IInv

LEMMA EndProcessKeepsIInv ==
  ASSUME IInv, NEW how \in {"stopped", "crashed"}, EndProcess(how)
  PROVE  IInv'
<1>1. TablesInv'
  BY EndProcessKeepsTables
<1>2. LoopType' /\ BatchInv'
  BY DEF EndProcess, IInv, LoopType, BatchInv
<1>3. NoOrphanSocket'
  BY DEF EndProcess, NoOrphanSocket, ClosedSocket
<1>4. QED
  BY <1>1, <1>2, <1>3 DEF IInv

LEMMA EnvironmentKeepsIInv ==
  ASSUME IInv, Environment
  PROVE  IInv'
<1>1. ASSUME NEW l \in Listeners, Connect(l)
      PROVE  IInv'
  <2>1. UNCHANGED <<sock, interest, clientSockets, Clients, evCapacity, batch, pc>>
    BY <1>1 DEF Connect, Tables
  <2>2. backlog' \in [Listeners -> 0..MaxBacklog]
    BY <1>1 DEF Connect, IInv, LoopType
  <2>3. TablesInv'
    BY <2>1, UnchangedKeepsTables DEF IInv, Tables
  <2>4. QED
    BY <2>1, <2>2, <2>3 DEF IInv, LoopType, BatchInv, NoOrphanSocket
<1>2. ASSUME NEW fd \in Fd,
             PeerSends(fd) \/ PeerShutsDown(fd) \/ PeerResets(fd) \/ PeerDrains(fd)
      PROVE  IInv'
  <2>1. TablesInv'
    BY <1>2, PeerKeepsTables DEF IInv
  <2>2. UNCHANGED <<backlog, Clients, evCapacity, batch, pc>>
    BY <1>2 DEF PeerSends, PeerShutsDown, PeerResets, PeerDrains, Peer
  <2>3. SocketsListed /\ SocketsListed' /\ clientSockets' = clientSockets
    BY <1>2, <2>1 DEF IInv, TablesInv, PeerSends, PeerShutsDown, PeerResets, PeerDrains, Peer
  <2>4. NoOrphanSocket'
    BY <2>2, <2>3 DEF IInv, NoOrphanSocket, SocketsListed, Found
  <2>5. QED
    BY <2>1, <2>2, <2>4 DEF IInv, LoopType, BatchInv
<1>3. ASSUME Tick
      PROVE  IInv'
  <2>1. TablesInv'
    BY <1>3, TickKeepsTables DEF IInv
  <2>2. DOMAIN Clients' = DOMAIN Clients /\ UNCHANGED <<sock, backlog, evCapacity, batch, pc>>
    BY <1>3 DEF Tick
  <2>3. QED
    BY <2>1, <2>2 DEF IInv, LoopType, BatchInv, NoOrphanSocket
<1>4. QED
  BY <1>1, <1>2, <1>3 DEF Environment

LEMMA NextKeepsIInv == IInv /\ [Next]_vars => IInv'
<1> SUFFICES ASSUME IInv, [Next]_vars PROVE IInv'
  OBVIOUS
<1>1. CASE EpollWait
  BY <1>1, EpollWaitKeepsIInv
<1>2. ASSUME NEW e \in batch, HandleEvent(e) PROVE IInv'
  BY <1>2, HandleEventKeepsIInv
<1>3. ASSUME NEW e \in batch, ReadFreedFaults(e) PROVE IInv'
  BY <1>3, EndProcessKeepsIInv DEF ReadFreedFaults
<1>4. CASE CheckTimeouts
  BY <1>4, CheckTimeoutsKeepsIInv
<1>5. CASE HandleSignal
  BY <1>5, EndProcessKeepsIInv DEF HandleSignal
<1>6. CASE Environment
  BY <1>6, EnvironmentKeepsIInv
<1>7. CASE UNCHANGED vars
  BY <1>7, UnchangedKeepsTables
     DEF vars, IInv, Tables, LoopType, BatchInv, NoOrphanSocket
<1>8. QED
  BY <1>1, <1>2, <1>3, <1>4, <1>5, <1>6, <1>7 DEF Next, Loop, Terminated

LEMMA Invariant == Spec => []IInv
BY InitIInv, NextKeepsIInv, PTL DEF Spec
----------------------------------------------------------------------------
(* The theorems.                                                           *)

\* Every variable keeps its type: in particular Clients only holds descriptors
\* accept() returned, and the backlog and the receive queues stay in range.
THEOREM TypeCorrect == Spec => []TypeOK
<1>1. IInv => TypeOK
  BY DEF IInv, TablesInv, TablesType, LoopType, TypeOK
<1>2. QED
  BY <1>1, Invariant, PTL

\* The kernel's open sockets are the ones the servers list, each in one list:
\* Server::closeConnection is always called on the owner of the descriptor.
THEOREM ListsAgree == Spec => []SocketsListed
<1>1. IInv => SocketsListed
  BY DEF IInv, TablesInv
<1>2. QED
  BY <1>1, Invariant, PTL

\* A client's socket is open, listed by the client's own server and registered for
\* the event its state waits for, and nothing else is registered, whatever the
\* order of the events of a batch and whichever epoll_ctl calls fail.
THEOREM RegistrationMatchesState == Spec => [](ClientsRegistered /\ OnlyClientsRegistered)
<1>1. IInv => ClientsRegistered /\ OnlyClientsRegistered
  BY DEF IInv, TablesInv
<1>2. QED
  BY <1>1, Invariant, PTL

\* While epoll_ctl does not fail, every open socket has a client, so checkTimeouts
\* sees it.
THEOREM NoOrphans == Spec => []NoOrphanSocket
<1>1. IInv => NoOrphanSocket
  BY DEF IInv
<1>2. QED
  BY <1>1, Invariant, PTL

\* A response is only completed with its buffer sent and its file read, and a
\* reading client holds nothing of the one before.
THEOREM ResponseWhole == Spec => []ResponseSentWhole
<1>1. IInv => ResponseSentWhole
  BY DEF IInv, TablesInv, Sound, ResponseSentWhole
<1>2. QED
  BY <1>1, Invariant, PTL

\* The state handleRequest reads from the client that readRequest destroyed is
\* never COMPLETE.
THEOREM DestroyedReaderIncomplete == Spec => []ReaderNotComplete
<1>1. IInv => ReaderNotComplete
  BY DEF IInv, TablesInv, Sound, ReaderNotComplete, Responding
<1>2. QED
  BY <1>1, Invariant, PTL

\* The doubling of the events array stops at twice the number of descriptors.
THEOREM ArrayBounded == Spec => []EventsArrayBounded
<1>1. IInv => EventsArrayBounded
  BY DEF IInv, LoopType, EventsArrayBounded
<1>2. QED
  BY <1>1, Invariant, PTL

\* An event still in the batch is about the connection it was reported for: no
\* other handler, accept or peer opens or closes its descriptor before its turn.
THEOREM StaleEventsHarmless == Spec => PendingEventUndisturbed
<1> DEFINE A == \A e \in batch : e \in batch' =>
                  /\ e.fd \in DOMAIN Clients <=> e.fd \in DOMAIN Clients'
                  /\ e.fd \in Fd => sock'[e.fd].open = sock[e.fd].open
<1>1. IInv /\ [Next]_vars => [A]_vars
  <2> SUFFICES ASSUME IInv, Next, NEW e \in batch, e \in batch'
               PROVE  /\ e.fd \in DOMAIN Clients <=> e.fd \in DOMAIN Clients'
                      /\ e.fd \in Fd => sock'[e.fd].open = sock[e.fd].open
    OBVIOUS
  <2>1. TablesInv /\ TablesInv' /\ (e.fd \in Fd => e.fd \in DOMAIN Clients /\ sock[e.fd].open)
    BY NextKeepsIInv, ClientFacts DEF IInv, BatchInv
  <2>2. ASSUME DOMAIN Clients' = DOMAIN Clients, \A fd \in Fd : sock'[fd].open = sock[fd].open
        PROVE  /\ e.fd \in DOMAIN Clients <=> e.fd \in DOMAIN Clients'
               /\ e.fd \in Fd => sock'[e.fd].open = sock[e.fd].open
    BY <2>2
  <2>3. CASE EpollWait
    BY <2>2, <2>3 DEF EpollWait, Tables
  <2>4. ASSUME NEW h \in batch, HandleEvent(h)
        PROVE  /\ e.fd \in DOMAIN Clients <=> e.fd \in DOMAIN Clients'
               /\ e.fd \in Fd => sock'[e.fd].open = sock[e.fd].open
    <3>1. e.fd # h.fd
      BY <2>4 DEF HandleEvent, IInv, BatchInv
    <3>2. CASE e.fd \in Fd
      <4>1. e.fd \in DOMAIN Clients' /\ sock'[e.fd].open /\ e.fd \in DOMAIN Clients /\ sock[e.fd].open
        BY <2>1, <2>4, <3>1, <3>2, HandleEventKeepsOthers
      <4>2. sock[e.fd] \in Socket /\ sock'[e.fd] \in Socket
        BY <2>1, <3>2 DEF TablesInv, TablesType
      <4>3. QED
        BY <4>1, <4>2 DEF Socket
    <3>3. CASE e.fd \notin Fd
      BY <2>1, <3>3 DEF TablesInv, TablesType
    <3>4. QED
      BY <3>2, <3>3
  <2>5. CASE \E h \in batch : ReadFreedFaults(h)
    BY <2>5 DEF ReadFreedFaults, EndProcess
  <2>6. CASE CheckTimeouts
    BY <2>6 DEF CheckTimeouts
  <2>7. CASE HandleSignal
    BY <2>7 DEF HandleSignal, EndProcess
  <2>8. CASE Environment
    <3>1. CASE \E l \in Listeners : Connect(l)
      BY <2>2, <3>1 DEF Connect, Tables
    <3>2. ASSUME NEW fd \in Fd,
                 PeerSends(fd) \/ PeerShutsDown(fd) \/ PeerResets(fd) \/ PeerDrains(fd)
          PROVE  /\ DOMAIN Clients' = DOMAIN Clients
                 /\ \A f \in Fd : sock'[f].open = sock[f].open
      BY <2>1, <3>2 DEF PeerSends, PeerShutsDown, PeerResets, PeerDrains, Peer,
         TablesInv, TablesType, Socket
    <3>3. CASE Tick
      BY <2>2, <3>3 DEF Tick
    <3>4. QED
      BY <2>2, <2>8, <3>1, <3>2, <3>3 DEF Environment
  <2>9. CASE Terminated
    BY <2>2, <2>9 DEF Terminated, vars
  <2>10. QED
    BY <2>3, <2>4, <2>5, <2>6, <2>7, <2>8, <2>9 DEF Next, Loop
<1>2. QED
  BY <1>1, Invariant, PTL DEF Spec, PendingEventUndisturbed

\* A descriptor number that is used again starts with a new client: map::insert
\* never finds the entry of the connection that had the number before.
THEOREM ReusedDescriptorIsFresh == Spec => FreshClientOnAccept
<1> DEFINE A == \A fd \in DOMAIN Clients' :
                  ~sock[fd].open => Clients'[fd] = NewClient(Clients'[fd].config)
<1>1. IInv /\ [Next]_vars => [A]_vars
  <2> SUFFICES ASSUME IInv, Next, NEW fd \in DOMAIN Clients', ~sock[fd].open
               PROVE  Clients'[fd] = NewClient(Clients'[fd].config)
    OBVIOUS
  <2>1. TablesInv /\ fd \notin DOMAIN Clients
    BY ClientFacts DEF IInv
  <2>2. ASSUME NEW h \in batch, HandleEvent(h)
        PROVE  Clients'[fd] = NewClient(Clients'[fd].config)
    <3>1. PICK l \in Listeners : HandleConnections(l)
      BY <2>1, <2>2, HandleEventKeepsOthers DEF AtMostCloses
    <3>2. AcceptConnection(l)
      BY <2>1, <3>1 DEF HandleConnections, AcceptFails, Tables
    <3>3. \E f \in Fd : Clients' = [g \in DOMAIN Clients \cup {f} |->
                                      IF g \in DOMAIN Clients THEN Clients[g]
                                      ELSE NewClient(ServerOf[l])]
      BY <2>1, <3>2 DEF AcceptConnection
    <3>4. Clients'[fd] = NewClient(ServerOf[l])
      BY <2>1, <3>3
    <3>5. QED
      BY <3>4 DEF NewClient
  <2>3. \/ DOMAIN Clients' \subseteq DOMAIN Clients
        \/ \E h \in batch : HandleEvent(h)
    <3>1. CASE \E h \in batch : ReadFreedFaults(h)
      BY <3>1 DEF ReadFreedFaults, EndProcess
    <3>2. CASE CheckTimeouts
      BY <3>2 DEF CheckTimeouts, CloseConnections
    <3>3. CASE HandleSignal
      BY <3>3 DEF HandleSignal, EndProcess
    <3>4. CASE EpollWait \/ Environment \/ Terminated
      BY <3>4 DEF EpollWait, Environment, Terminated, Connect, PeerSends, PeerShutsDown,
         PeerResets, PeerDrains, Peer, Tick, Tables, vars
    <3>5. QED
      BY <3>1, <3>2, <3>3, <3>4 DEF Next, Loop
  <2>4. QED
    BY <2>1, <2>2, <2>3
<1>2. QED
  BY <1>1, Invariant, PTL DEF Spec, FreshClientOnAccept

----------------------------------------------------------------------------
(* The refinement: what the tables mean for the abstract service.          *)

Phase == [fd \in Fd |-> PhaseOf(fd)]
Owner == [fd \in Fd |-> {s \in Server : fd \in clientSockets[s]}]
----------------------------------------------------------------------------
(* What the ways a handler ends are in the abstract specification.         *)

\* The connections that are closed are dropped, when they have clients.
LEMMA CloseIsDrop ==
  ASSUME TablesInv, NEW S, \A fd \in S : Found(fd) => fd \in DOMAIN Clients,
         CloseConnections(S), UNCHANGED backlog, Running' = Running
  PROVE  \E T \in SUBSET Fd : Service!Drop(T)
<1> DEFINE found == {fd \in S : Found(fd)}
<1>1. /\ sock' = [fd \in Fd |-> IF fd \in found THEN ClosedSocket ELSE sock[fd]]
      /\ Clients' = [fd \in DOMAIN Clients \ found |-> Clients[fd]]
  BY DEF CloseConnections
<1>2. \A s \in Server : clientSockets'[s] = clientSockets[s] \ found
  BY CloseKeepsLists
<1>3. \A fd \in found : fd \in Fd /\ fd \in DOMAIN Clients /\ sock[fd].open
  BY ClientFacts
<1> HIDE DEF found
<1>4. \A fd \in found : PhaseOf(fd) \in {"reading", "responding"}
  BY <1>3 DEF PhaseOf
<1>5. \A fd \in Fd : PhaseOf(fd)' = IF fd \in found THEN "free" ELSE PhaseOf(fd)
  <2>1. ASSUME NEW fd \in found PROVE PhaseOf(fd)' = "free"
    BY <1>1, <1>3 DEF PhaseOf, ClosedSocket
  <2>2. ASSUME NEW fd \in Fd \ found PROVE PhaseOf(fd)' = PhaseOf(fd)
    <3>1. /\ sock'[fd] = sock[fd]
          /\ fd \in DOMAIN Clients' <=> fd \in DOMAIN Clients
          /\ fd \in DOMAIN Clients => Clients'[fd] = Clients[fd]
      BY <1>1, <2>2
    <3>2. QED
      BY <3>1 DEF PhaseOf, Responding
  <2>3. QED
    BY <2>1, <2>2
<1>6. \A fd \in Fd : {s \in Server : fd \in clientSockets'[s]} =
                     IF fd \in found THEN {} ELSE {s \in Server : fd \in clientSockets[s]}
  BY <1>2
<1>7. Service!Drop(found)
  BY <1>3, <1>4, <1>5, <1>6 DEF Service!Drop
<1>8. found \in SUBSET Fd
  BY <1>3
<1>9. QED
  BY <1>7, <1>8 DEF Service!Drop

\* The phase of a client whose record is replaced is that of the new record.
LEMMA ChangeOfPhase ==
  ASSUME TablesInv, NEW fd \in DOMAIN Clients, NEW c, NEW k, k.open,
         Clients' = [Clients EXCEPT ![fd] = c], sock' = [sock EXCEPT ![fd] = k],
         UNCHANGED clientSockets
  PROVE  /\ fd \in Fd
         /\ Phase' = [Phase EXCEPT ![fd] =
              IF c.state = "READING_REQUEST" THEN "reading" ELSE "responding"]
         /\ Phase[fd] = IF Clients[fd].state = "READING_REQUEST" THEN "reading"
                        ELSE "responding"
         /\ Owner' = Owner
<1>1. fd \in Fd /\ sock[fd].open
  BY ClientFacts
<1>2. /\ DOMAIN Clients' = DOMAIN Clients
      /\ \A f \in DOMAIN Clients : Clients'[f] = IF f = fd THEN c ELSE Clients[f]
      /\ \A f \in Fd : sock'[f] = IF f = fd THEN k ELSE sock[f]
  BY <1>1 DEF TablesInv, TablesType
<1>3. PhaseOf(fd)' = IF c.state = "READING_REQUEST" THEN "reading" ELSE "responding"
  BY <1>1, <1>2 DEF PhaseOf, Responding
<1>4. \A f \in Fd \ {fd} : PhaseOf(f)' = PhaseOf(f)
  BY <1>2 DEF PhaseOf, Responding
<1>5. PhaseOf(fd) = IF Clients[fd].state = "READING_REQUEST" THEN "reading" ELSE "responding"
  BY <1>1 DEF PhaseOf, Responding
<1>6. QED
  BY <1>1, <1>3, <1>4, <1>5 DEF Phase, Owner

AbstractStep == [Service!Next]_(Service!vars)

\* Replacing a client's record is answering, finishing, or nothing to the service.
LEMMA ReplaceIsStep ==
  ASSUME TablesInv, NEW fd \in DOMAIN Clients, NEW c, NEW k, k.open,
         Clients' = [Clients EXCEPT ![fd] = c], sock' = [sock EXCEPT ![fd] = k],
         UNCHANGED <<clientSockets, backlog>>, Running' = Running
  PROVE  AbstractStep
<1>1. /\ fd \in Fd
      /\ Phase' = [Phase EXCEPT ![fd] =
           IF c.state = "READING_REQUEST" THEN "reading" ELSE "responding"]
      /\ Phase[fd] = IF Clients[fd].state = "READING_REQUEST" THEN "reading"
                     ELSE "responding"
      /\ Owner' = Owner
  BY ChangeOfPhase
<1>2. CASE Phase' = Phase
  BY <1>1, <1>2 DEF AbstractStep, Service!vars, Phase, Owner
<1>3. CASE Phase[fd] = "reading" /\ c.state # "READING_REQUEST"
  <2>1. Service!Answer(fd)
    BY <1>1, <1>3 DEF Service!Answer, Phase, Owner
  <2>2. QED
    BY <1>1, <2>1 DEF AbstractStep, Service!Next, Service!Answer
<1>4. CASE Phase[fd] = "responding" /\ c.state = "READING_REQUEST"
  <2>1. Service!Finish(fd)
    BY <1>1, <1>4 DEF Service!Finish, Phase, Owner
  <2>2. QED
    BY <1>1, <2>1 DEF AbstractStep, Service!Next, Service!Finish
<1>5. Phase = [Phase EXCEPT ![fd] = Phase[fd]]
  BY DEF Phase
<1>6. QED
  BY <1>1, <1>2, <1>3, <1>4, <1>5

LEMMA CloseIsStep ==
  ASSUME TablesInv, NEW S, \A fd \in S : Found(fd) => fd \in DOMAIN Clients,
         CloseConnections(S), UNCHANGED backlog, Running' = Running
  PROVE  AbstractStep
<1>1. \E T \in SUBSET Fd : Service!Drop(T)
  BY CloseIsDrop
<1>2. QED
  BY <1>1 DEF AbstractStep, Service!Next, Service!Drop

LEMMA TablesUnchangedIsStep ==
  ASSUME UNCHANGED <<backlog, Tables>>, Running' = Running
  PROVE  AbstractStep
BY DEF AbstractStep, Service!vars, Tables, PhaseOf, Responding

LEMMA HandleRequestIsStep ==
  ASSUME TablesInv, NEW fd, HandleRequest(fd), Running' = Running
  PROVE  AbstractStep
<1>0. UNCHANGED backlog
  BY DEF HandleRequest
<1>1. CASE fd \notin DOMAIN Clients
  BY <1>0, <1>1, TablesUnchangedIsStep DEF HandleRequest
<1>2. CASE fd \in DOMAIN Clients
  <2> DEFINE k == sock[fd]
  <2>1. k.open /\ \A n : [k EXCEPT !.rcvq = n].open
    BY <1>2, ClientFacts DEF Socket
  <2>2. \/ CloseConnections({fd})
        \/ \E c : Update(fd, c, k)
        \/ \E c, n : Update(fd, c, [k EXCEPT !.rcvq = n])
        \/ \E c, n, ev : ModifyEpollEvent(fd, c, [k EXCEPT !.rcvq = n], ev)
    BY <1>2 DEF HandleRequest, ReadRequest, ReadRequestCloses, ReadRequestPart, ReadRequestComplete
  <2>3. CASE CloseConnections({fd})
    BY <1>0, <1>2, <2>3, CloseIsStep
  <2>4. CASE \E c : Update(fd, c, k)
    BY <1>0, <1>2, <2>1, <2>4, ReplaceIsStep DEF Update
  <2>5. ASSUME NEW c, NEW n, Update(fd, c, [k EXCEPT !.rcvq = n]) PROVE AbstractStep
    BY <1>0, <1>2, <2>1, <2>5, ReplaceIsStep DEF Update
  <2>6. CASE \E c, n, ev : ModifyEpollEvent(fd, c, [k EXCEPT !.rcvq = n], ev)
    BY <1>0, <1>2, <2>1, <2>6, ReplaceIsStep, CloseIsStep DEF ModifyEpollEvent
  <2>7. QED
    BY <2>2, <2>3, <2>4, <2>5, <2>6
<1>3. QED
  BY <1>1, <1>2

LEMMA SendResponseIsStep ==
  ASSUME TablesInv, NEW fd, SendResponse(fd), Running' = Running
  PROVE  AbstractStep
<1>0. UNCHANGED backlog
  BY DEF SendResponse
<1>1. CASE fd \notin DOMAIN Clients
  BY <1>0, <1>1, TablesUnchangedIsStep DEF SendResponse
<1>2. CASE fd \in DOMAIN Clients
  <2> DEFINE k == sock[fd]
  <2>1. k.open /\ \A r : [k EXCEPT !.room = r].open
    BY <1>2, ClientFacts DEF Socket
  <2>2. \/ CloseConnections({fd})
        \/ \E c : Update(fd, c, k)
        \/ \E c, r : Update(fd, c, [k EXCEPT !.room = r])
        \/ \E c, ev : ModifyEpollEvent(fd, c, k, ev)
        \/ UNCHANGED Tables
    BY <1>2 DEF SendResponse, StartResponse, SendData, FinishResponse
  <2>3. CASE CloseConnections({fd})
    BY <1>0, <1>2, <2>3, CloseIsStep
  <2>4. CASE \E c : Update(fd, c, k)
    BY <1>0, <1>2, <2>1, <2>4, ReplaceIsStep DEF Update
  <2>5. ASSUME NEW c, NEW r, Update(fd, c, [k EXCEPT !.room = r]) PROVE AbstractStep
    BY <1>0, <1>2, <2>1, <2>5, ReplaceIsStep DEF Update
  <2>6. CASE \E c, ev : ModifyEpollEvent(fd, c, k, ev)
    BY <1>0, <1>2, <2>1, <2>6, ReplaceIsStep, CloseIsStep DEF ModifyEpollEvent
  <2>7. CASE UNCHANGED Tables
    BY <1>0, <2>7, TablesUnchangedIsStep
  <2>8. QED
    BY <2>2, <2>3, <2>4, <2>5, <2>6, <2>7
<1>3. QED
  BY <1>1, <1>2

LEMMA AcceptIsStep ==
  ASSUME TablesInv, Running, NEW l \in Listeners, HandleConnections(l), Running' = Running
  PROVE  AbstractStep
<1>1. CASE AcceptFails(l)
  BY <1>1, TablesUnchangedIsStep DEF AcceptFails
<1>2. CASE AcceptConnection(l)
  <2> DEFINE s == ServerOf[l]
  <2>1. s \in Server
    BY ConstantsAssumption DEF ConstantsAssumption
  <2>2. PICK fd \in Fd :
          /\ backlog[l] > 0 /\ ~sock[fd].open
          /\ backlog' = [backlog EXCEPT ![l] = @ - 1]
          /\ sock' = [sock EXCEPT ![fd] = FreshSocket]
          /\ clientSockets' = [clientSockets EXCEPT ![s] = @ \cup {fd}]
          /\ \/ Clients' = [f \in DOMAIN Clients \cup {fd} |->
                              IF f \in DOMAIN Clients THEN Clients[f] ELSE NewClient(s)]
             \/ EpollMayFail /\ UNCHANGED Clients
    BY <1>2 DEF AcceptConnection
  <2> HIDE DEF s
  <2>3. fd \notin DOMAIN Clients /\ \A t \in Server : fd \notin clientSockets[t]
    BY <2>2, ClientFacts DEF TablesInv, SocketsListed, Found
  <2>4. /\ \A f \in Fd : sock'[f] = IF f = fd THEN FreshSocket ELSE sock[f]
        /\ FreshSocket.open
    BY <2>2 DEF TablesInv, TablesType, FreshSocket, ClosedSocket
  <2>5. Phase[fd] = "free"
    BY <2>2 DEF Phase, PhaseOf
  <2>6. Owner' = [Owner EXCEPT ![fd] = {s}]
    <3>1. \A t \in Server : t # s => clientSockets'[t] = clientSockets[t]
      BY <2>1, <2>2 DEF TablesInv, TablesType
    <3>2. clientSockets'[s] = clientSockets[s] \cup {fd}
      BY <2>1, <2>2 DEF TablesInv, TablesType
    <3>3. {t \in Server : fd \in clientSockets'[t]} = {s}
      BY <2>1, <2>3, <3>1, <3>2
    <3>4. ASSUME NEW f \in Fd \ {fd}
          PROVE  {t \in Server : f \in clientSockets'[t]} = {t \in Server : f \in clientSockets[t]}
      BY <3>1, <3>2
    <3>5. QED
      BY <3>3, <3>4 DEF Owner
  <2>7. \/ Phase' = [Phase EXCEPT ![fd] = "reading"]
        \/ EpollMayFail /\ Phase' = [Phase EXCEPT ![fd] = "lost"]
    <3>1. CASE Clients' = [f \in DOMAIN Clients \cup {fd} |->
                             IF f \in DOMAIN Clients THEN Clients[f] ELSE NewClient(s)]
      <4>1. PhaseOf(fd)' = "reading"
        BY <2>3, <2>4, <3>1 DEF PhaseOf, Responding, NewClient
      <4>2. \A f \in Fd \ {fd} : PhaseOf(f)' = PhaseOf(f)
        BY <2>4, <3>1 DEF PhaseOf, Responding
      <4>3. QED
        BY <4>1, <4>2 DEF Phase
    <3>2. CASE EpollMayFail /\ UNCHANGED Clients
      <4>1. PhaseOf(fd)' = "lost"
        BY <2>3, <2>4, <3>2 DEF PhaseOf
      <4>2. \A f \in Fd \ {fd} : PhaseOf(f)' = PhaseOf(f)
        BY <2>4, <3>2 DEF PhaseOf, Responding
      <4>3. QED
        BY <3>2, <4>1, <4>2 DEF Phase
    <3>3. QED
      BY <2>2, <3>1, <3>2
  <2>8. Service!Accept(l, fd)
    BY <2>2, <2>5, <2>6, <2>7 DEF Service!Accept, Phase, Owner, s
  <2>9. QED
    BY <2>8 DEF AbstractStep, Service!Next, Service!Accept
<1>3. QED
  BY <1>1, <1>2 DEF HandleConnections

LEMMA EndProcessIsStep ==
  ASSUME Running, NEW how \in {"stopped", "crashed"}, EndProcess(how)
  PROVE  AbstractStep
<1>1. Running' = FALSE
  BY DEF EndProcess, Running
<1>2. \A fd \in Fd : PhaseOf(fd)' = "free"
  BY DEF EndProcess, PhaseOf, ClosedSocket
<1>3. \A fd \in Fd : {s \in Server : fd \in clientSockets'[s]} = {}
  BY DEF EndProcess
<1>4. Service!Stop
  BY <1>1, <1>2, <1>3 DEF EndProcess, Service!Stop
<1>5. QED
  BY <1>4 DEF AbstractStep, Service!Next
----------------------------------------------------------------------------
(* Every step of the event loop.                                           *)

LEMMA HandleEventIsStep ==
  ASSUME IInv, NEW e \in batch, HandleEvent(e)
  PROVE  AbstractStep
<1>1. TablesInv /\ e \in Event /\ Running /\ Running' = Running
  BY DEF IInv, LoopType, HandleEvent, Running
<1>2. \/ CloseConnections({e.fd}) /\ UNCHANGED backlog
      \/ e.fd \in Listeners /\ HandleConnections(e.fd)
      \/ HandleRequest(e.fd)
      \/ SendResponse(e.fd)
  BY <1>1 DEF HandleEvent, Event
<1>3. CASE CloseConnections({e.fd}) /\ UNCHANGED backlog
  <2>1. Found(e.fd) => e.fd \in DOMAIN Clients
    BY DEF IInv, BatchInv, TablesInv, TablesType, Found
  <2>2. QED
    BY <1>1, <1>3, <2>1, CloseIsStep
<1>4. CASE e.fd \in Listeners /\ HandleConnections(e.fd)
  BY <1>1, <1>4, AcceptIsStep
<1>5. CASE HandleRequest(e.fd)
  BY <1>1, <1>5, HandleRequestIsStep
<1>6. CASE SendResponse(e.fd)
  BY <1>1, <1>6, SendResponseIsStep
<1>7. QED
  BY <1>2, <1>3, <1>4, <1>5, <1>6

LEMMA EnvironmentIsStep ==
  ASSUME IInv, Environment
  PROVE  AbstractStep
<1>1. ASSUME NEW l \in Listeners, Connect(l)
      PROVE  AbstractStep
  <2>1. UNCHANGED <<sock, clientSockets, Clients>> /\ Running' = Running /\ Running
    BY <1>1 DEF Connect, Tables, Running
  <2>2. \A fd \in Fd : PhaseOf(fd)' = PhaseOf(fd)
    BY <2>1 DEF PhaseOf, Responding
  <2>3. Service!Arrive(l)
    BY <1>1, <2>1, <2>2 DEF Connect, Service!Arrive
  <2>4. QED
    BY <2>3 DEF AbstractStep, Service!Next, Service!Arrive
<1>2. ASSUME NEW fd \in Fd,
             PeerSends(fd) \/ PeerShutsDown(fd) \/ PeerResets(fd) \/ PeerDrains(fd)
      PROVE  AbstractStep
  <2>1. UNCHANGED <<backlog, clientSockets, Clients>> /\ Running' = Running
    BY <1>2 DEF PeerSends, PeerShutsDown, PeerResets, PeerDrains, Peer, Running
  <2>2. \A f \in Fd : sock'[f].open = sock[f].open
    <3>1. sock \in [Fd -> Socket]
      BY DEF IInv, TablesInv, TablesType
    <3>2. \/ \E n \in Nat : sock' = [sock EXCEPT ![fd].rcvq = n]
          \/ \E p \in {"fin", "rst"} : sock' = [sock EXCEPT ![fd].peer = p]
          \/ sock' = [sock EXCEPT ![fd].room = TRUE]
      BY <1>2, <3>1 DEF PeerSends, PeerShutsDown, PeerResets, PeerDrains, Socket
    <3>3. QED
      BY <3>1, <3>2 DEF Socket
  <2>3. \A f \in Fd : PhaseOf(f)' = PhaseOf(f)
    BY <2>1, <2>2 DEF PhaseOf, Responding
  <2>4. QED
    BY <2>1, <2>3 DEF AbstractStep, Service!vars
<1>3. CASE Tick
  <2>1. UNCHANGED <<backlog, clientSockets, sock>> /\ Running' = Running
    BY <1>3 DEF Tick, Running
  <2>2. /\ DOMAIN Clients' = DOMAIN Clients
        /\ \A f \in DOMAIN Clients : Clients'[f].state = Clients[f].state
    BY <1>3 DEF Tick, IInv, TablesInv, TablesType, Client
  <2>3. \A f \in Fd : PhaseOf(f)' = PhaseOf(f)
    BY <2>1, <2>2 DEF PhaseOf, Responding
  <2>4. QED
    BY <2>1, <2>3 DEF AbstractStep, Service!vars
<1>4. QED
  BY <1>1, <1>2, <1>3 DEF Environment

LEMMA NextIsStep == IInv /\ [Next]_vars => [Service!Next]_(Service!vars)
<1> SUFFICES ASSUME IInv, [Next]_vars PROVE AbstractStep
  BY DEF AbstractStep
<1>1. CASE EpollWait
  BY <1>1, TablesUnchangedIsStep DEF EpollWait, Running
<1>2. ASSUME NEW e \in batch, HandleEvent(e) PROVE AbstractStep
  BY <1>2, HandleEventIsStep
<1>3. ASSUME NEW e \in batch, ReadFreedFaults(e) PROVE AbstractStep
  BY <1>3, EndProcessIsStep DEF ReadFreedFaults, Running
<1>4. CASE CheckTimeouts
  <2>1. /\ TablesInv /\ CloseConnections(Expired)
        /\ UNCHANGED backlog /\ Running' = Running
    BY <1>4 DEF IInv, CheckTimeouts, Running
  <2>2. \A fd \in Expired : Found(fd) => fd \in DOMAIN Clients
    BY DEF Expired
  <2>3. QED
    BY <2>1, <2>2, CloseIsStep
<1>5. CASE HandleSignal
  BY <1>5, EndProcessIsStep DEF HandleSignal
<1>6. CASE Environment
  BY <1>6, EnvironmentIsStep
<1>7. CASE UNCHANGED vars
  BY <1>7, TablesUnchangedIsStep DEF vars, Tables, Running
<1>8. QED
  BY <1>1, <1>2, <1>3, <1>4, <1>5, <1>6, <1>7 DEF Next, Loop, Terminated

LEMMA InitIsInit == Init => Service!Init
<1> SUFFICES ASSUME Init PROVE Service!Init
  OBVIOUS
<1>1. \A fd \in Fd : PhaseOf(fd) = "free"
  BY DEF Init, PhaseOf, ClosedSocket
<1>2. \A fd \in Fd : {s \in Server : fd \in clientSockets[s]} = {}
  BY DEF Init
<1>3. QED
  BY <1>1, <1>2 DEF Init, Running, Service!Init

\* Every run of the event loop is a run of ConnectionService: whatever events are
\* stale, calls fail or timeouts strike, a connection keeps the server of the
\* listener it came from, and responds once to each request it has read.
THEOREM EventLoopImplementsService == Spec => ImplementsConnectionService
BY InitIsInit, NextIsStep, Invariant, PTL DEF Spec, ImplementsConnectionService, Service!Spec
============================================================================
