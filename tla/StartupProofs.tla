---------------------------- MODULE StartupProofs ----------------------------
(* Proofs about Startup, for any configurations, ports and signals.        *)
EXTENDS Startup, SequenceTheorems, FiniteSetTheorems, TLAPS

----------------------------------------------------------------------------
(* Slots and handlers.                                                     *)

LEMMA SlotsAre ==
  ASSUME NEW i \in DOMAIN Ports, NEW j \in DOMAIN Ports[i]
  PROVE  <<i, j>> \in Slots
BY DEF Slots

LEMMA SlotParts ==
  ASSUME NEW s \in Slots
  PROVE  /\ s[1] \in DOMAIN Ports
         /\ s = <<s[1], s[2]>>
BY DEF Slots

LEMMA PortsDomain == DOMAIN Ports = 1..Len(Ports) /\ Len(Ports) \in Nat
BY StartupAssumption DEF StartupAssumption

LEMMA TopIsFrame ==
  ASSUME frames \in Seq(Frame), frames # <<>>
  PROVE  /\ Len(frames) \in Nat \ {0} /\ Len(frames) \in DOMAIN frames
         /\ DOMAIN frames = 1..Len(frames)
         /\ Top \in Frame
<1>1. Len(frames) # 0
  BY EmptySeq
<1>2. Len(frames) \in Nat /\ DOMAIN frames = 1..Len(frames)
  OBVIOUS
<1>3. Len(frames) \in 1..Len(frames)
  BY <1>1, <1>2
<1> QED
  BY <1>1, <1>2, <1>3 DEF Top

LEMMA TopReplaced ==
  ASSUME frames \in Seq(Frame), frames # <<>>, NEW f \in Frame,
         frames' = [frames EXCEPT ![Len(frames)] = f]
  PROVE  /\ frames' \in Seq(Frame)
         /\ Len(frames') = Len(frames)
         /\ frames'[Len(frames)] = f
BY TopIsFrame, ExceptSeq

\* A step of the handler on top leaves those below alone.
LEMMA TopMoves ==
  ASSUME frames \in Seq(Frame), frames # <<>>,
         NEW step \in {"epoll", "delete", "exit"}, TopGoes(step)
  PROVE  /\ frames' \in Seq(Frame)
         /\ Len(frames') = Len(frames)
         /\ Top' = [Top EXCEPT !.at = step]
<1> DEFINE f == [Top EXCEPT !.at = step]
<1>1. f \in Frame
  BY TopIsFrame DEF Frame
<1>2. frames' = [frames EXCEPT ![Len(frames)] = f]
  BY TopIsFrame DEF TopGoes, Top
<1> QED
  BY <1>1, <1>2, TopReplaced DEF Top

LEMMA FrameAdvances ==
  ASSUME NEW t \in Frame PROVE [t EXCEPT !.next = @ + 1] \in Frame
BY DEF Frame

LEMMA TopAdvances ==
  ASSUME frames \in Seq(Frame), frames # <<>>,
         frames' = [frames EXCEPT ![Len(frames)].next = @ + 1]
  PROVE  /\ frames' \in Seq(Frame)
         /\ Len(frames') = Len(frames)
         /\ Top' = [Top EXCEPT !.next = @ + 1]
<1> DEFINE f == [Top EXCEPT !.next = @ + 1]
<1>1. f \in Frame
  BY TopIsFrame, FrameAdvances
<1>2. frames' = [frames EXCEPT ![Len(frames)] = f]
  BY TopIsFrame DEF Top
<1> QED
  BY <1>1, <1>2, TopReplaced DEF Top
----------------------------------------------------------------------------
(* Type correctness.                                                       *)

LEMMA TypeInit == Init => TypeOK
<1> SUFFICES ASSUME Init PROVE TypeOK
  OBVIOUS
<1>1. server \in 1..(Len(Ports) + 1)
  BY PortsDomain DEF Init
<1>2. servers \in Seq(DOMAIN Ports) /\ frames \in Seq(Frame)
  BY DEF Init
<1>3. /\ socket \in [Slots -> {"none", "open", "bound", "listening", "closed"}]
      /\ built \in [DOMAIN Ports -> SUBSET Slots]
  BY DEF Init
<1>4. /\ pc = "handleSignals" /\ port \in Nat \ {0}
      /\ deleted \subseteq DOMAIN Ports
      /\ listeningSockets \subseteq Slots /\ registered \subseteq Slots
      /\ epollFd \in {"none", "open", "closed"} /\ events \in Nat
  BY DEF Init
<1>5. installed \in BOOLEAN /\ dangling \in BOOLEAN /\ undefined \in BOOLEAN
  BY Zenon DEF Init
<1> QED
  BY <1>1, <1>2, <1>3, <1>4, <1>5 DEF TypeOK

LEMMA TypeMain == TypeOK /\ Main => TypeOK'
<1> SUFFICES ASSUME TypeOK, Main PROVE TypeOK'
  OBVIOUS
<1> USE DEF TypeOK, MainGoes, manager, process
<1>1. CASE HandleSignals BY <1>1 DEF HandleSignals
<1>2. CASE NextPort BY <1>2, SlotsAre DEF NextPort, Slot
<1>3. CASE Create BY <1>3 DEF Create, CallAndThrow, Slot
<1>4. CASE Bind BY <1>4 DEF Bind, CallAndThrow, Slot
<1>5. CASE Listen
  <2>1. CASE CallAndThrow("listen") BY <2>1 DEF CallAndThrow, Slot
  <2>2. CASE pc = "listen" /\ pc' = "port"
    <3>1. Slot \in Slots /\ built \in [DOMAIN Ports -> SUBSET Slots]
      BY <2>2
    <3>2. built' \in [DOMAIN Ports -> SUBSET Slots]
      BY <1>5, <2>2, <3>1 DEF Listen, CallAndThrow
    <3>3. socket' \in [Slots -> {"none", "open", "bound", "listening", "closed"}]
      BY <1>5, <2>2, <3>1 DEF Listen, CallAndThrow
    <3>4. port' \in Nat \ {0} /\ UNCHANGED <<server, manager, process>>
      BY <1>5, <2>2 DEF Listen, CallAndThrow
    <3> QED
      BY <2>2, <3>2, <3>3, <3>4
  <2> QED BY <1>5, <2>1, <2>2 DEF Listen
<1>6. CASE Catch BY <1>6 DEF Catch, Slot
<1>7. CASE PushServer
  <2>1. servers' \in Seq(DOMAIN Ports) /\ server' \in 1..(Len(Ports) + 1)
    BY <1>7, PortsDomain DEF PushServer
  <2>2. listeningSockets' \subseteq Slots
    BY <1>7 DEF PushServer
  <2> QED BY <1>7, <2>1, <2>2 DEF PushServer
<1>8. CASE EpollCreate BY <1>8 DEF EpollCreate
<1>9. CASE AddListeningSocket
  <2>1. ToAdd \subseteq Slots BY DEF ToAdd
  <2> QED BY <1>9, <2>1 DEF AddListeningSocket
<1>10. CASE EventsLoop BY <1>10 DEF EventsLoop
<1>11. CASE Unwind BY <1>11 DEF Unwind
<1> QED
  BY <1>1, <1>2, <1>3, <1>4, <1>5, <1>6, <1>7, <1>8, <1>9, <1>10, <1>11 DEF Main

LEMMA TypeHandler == TypeOK /\ Handler => TypeOK'
<1> SUFFICES ASSUME TypeOK, Handler PROVE TypeOK'
  OBVIOUS
<1>0. frames \in Seq(Frame)
  BY DEF TypeOK
<1>1. CASE CloseEpoll
  <2>1. frames' \in Seq(Frame)
    BY <1>0, <1>1, TopMoves DEF CloseEpoll, HandlerAt
  <2> QED BY <1>1, <2>1 DEF TypeOK, CloseEpoll, Slot
<1>2. CASE DeleteServer
  <2>1. frames' \in Seq(Frame)
    BY <1>0, <1>2, TopAdvances DEF DeleteServer, HandlerAt
  <2>2. servers[Top.next] \in DOMAIN Ports
    <3>1. servers \in Seq(DOMAIN Ports) /\ Top.next \in DOMAIN servers
      BY <1>2 DEF DeleteServer, TypeOK
    <3> QED BY <3>1
  <2>3. socket' \in [Slots -> {"none", "open", "bound", "listening", "closed"}]
    BY <1>2, <2>2 DEF DeleteServer, TypeOK
  <2> QED BY <1>2, <2>1, <2>2, <2>3 DEF TypeOK, DeleteServer, Slot
<1>3. CASE Clear
  <2>1. frames' \in Seq(Frame)
    BY <1>0, <1>3, TopMoves DEF Clear, HandlerAt
  <2> QED BY <1>3, <2>1 DEF TypeOK, Clear, Slot
<1>4. CASE Exit
  BY <1>4 DEF TypeOK, Exit, manager, process, Slot
<1> QED
  BY <1>1, <1>2, <1>3, <1>4 DEF Handler

LEMMA TypeSignal == ASSUME NEW sig \in Signals PROVE TypeOK /\ Signal(sig) => TypeOK'
<1> SUFFICES ASSUME TypeOK, Signal(sig) PROVE TypeOK'
  OBVIOUS
<1>1. frames' \in Seq(Frame)
  <2>1. [sig |-> sig, at |-> "epoll", next |-> 1] \in Frame
    BY DEF Frame
  <2>2. frames \in Seq(Frame)
    BY DEF TypeOK
  <2>3. frames' = frames \/ frames' = Append(frames, [sig |-> sig, at |-> "epoll", next |-> 1])
    BY DEF Signal
  <2> QED BY <2>1, <2>2, <2>3, AppendProperties
<1> QED
  BY <1>1 DEF TypeOK, Signal, manager, Slot

LEMMA TypeStep == TypeOK /\ [Next]_vars => TypeOK'
<1> SUFFICES ASSUME TypeOK, [Next]_vars PROVE TypeOK'
  OBVIOUS
<1>1. CASE Main BY <1>1, TypeMain
<1>2. CASE Handler BY <1>2, TypeHandler
<1>3. CASE \E sig \in Signals : Signal(sig) BY <1>3, TypeSignal
<1>4. CASE UNCHANGED vars
  BY <1>4 DEF vars, manager, process, TypeOK, Slot
<1> QED
  BY <1>1, <1>2, <1>3, <1>4 DEF Next

\* Every variable of the start-up keeps its type, for any configurations.
THEOREM StartupTypeCorrect == Spec => []TypeOK
<1> QED
  BY TypeInit, TypeStep, PTL DEF Spec
----------------------------------------------------------------------------
(* The inductive invariant.                                                *)

\* The Servers are pushed in the order of the configurations and deleted in it: the
\* one handler there is has deleted those before its next.
InOrder ==
  /\ \A i \in DOMAIN servers : servers[i] = i
  /\ frames = <<>> => Len(servers) = server - 1 /\ deleted = {} /\ ~undefined
  /\ Len(frames) = 1 => (\A d \in deleted : d < Top.next) /\ (undefined => dangling)

\* While no handler runs, a Server's sockets are those that listen, all of them before
\* the port the constructor is at; a socket that is only open or bound is that port's.
SocketsBuilt ==
  /\ \A i \in DOMAIN Ports : \A s \in built[i] : s[1] = i
  /\ frames = <<>> =>
       \A s \in Slots :
         /\ socket[s] = "listening" <=> s \in built[s[1]]
         /\ s \in built[s[1]] => s[1] < server \/ (s[1] = server /\ s[2] < port)
         /\ socket[s] \in {"open", "bound"} => s = Slot /\ pc \in {"bind", "listen", "catch", "ended"}

\* While no handler runs, the manager knows the sockets of the Servers it has, and
\* epoll those of them that have been added.
SocketsKnown ==
  frames = <<>> =>
    /\ listeningSockets = {s \in Slots : s[1] < server /\ s \in built[s[1]]}
    /\ pc \in {"add", "loop"} => server \notin DOMAIN Ports
    /\ registered \subseteq listeningSockets
    /\ IsFiniteSet(registered) /\ events = Cardinality(registered)
    /\ pc = "loop" => registered = listeningSockets

\* The one handler there is has still to close what its next Servers built; what it
\* leaves belongs to the Server in the making.
Live(s) == socket[s] \in {"open", "bound", "listening"}
Closing ==
  /\ frames # <<>> => installed
  /\ Len(frames) = 1 =>
       /\ pc = "ended" => Top.at = "exit"
       /\ Top.at # "epoll" => epollFd # "open"
       /\ \A s \in Slots : Live(s) =>
            s[1] = server \/ (Top.at # "exit" /\ s[1] >= Top.next /\ s[1] \in DOMAIN servers /\ s \in built[s[1]])
----------------------------------------------------------------------------
(* Who moves.                                                              *)

LEMMA MainRuns ==
  ASSUME Main
  PROVE  /\ frames = <<>> /\ frames' = <<>>
         /\ pc # "loop" /\ pc # "ended"
         /\ deleted' = deleted /\ undefined' = undefined
         /\ (installed => installed')
<1> USE DEF MainGoes, Running, manager, process
<1>1. CASE HandleSignals BY <1>1 DEF HandleSignals
<1>2. CASE NextPort BY <1>2 DEF NextPort
<1>3. CASE Create BY <1>3 DEF Create, CallAndThrow
<1>4. CASE Bind BY <1>4 DEF Bind, CallAndThrow
<1>5. CASE Listen BY <1>5 DEF Listen, CallAndThrow
<1>6. CASE Catch BY <1>6 DEF Catch
<1>7. CASE PushServer BY <1>7 DEF PushServer
<1>8. CASE EpollCreate BY <1>8 DEF EpollCreate
<1>9. CASE AddListeningSocket BY <1>9 DEF AddListeningSocket
<1>10. CASE EventsLoop BY <1>10 DEF EventsLoop
<1>11. CASE Unwind BY <1>11 DEF Unwind
<1> QED
  BY <1>1, <1>2, <1>3, <1>4, <1>5, <1>6, <1>7, <1>8, <1>9, <1>10, <1>11 DEF Main

LEMMA HandlerRuns ==
  ASSUME TypeOK, Handler
  PROVE  /\ frames # <<>> /\ frames' # <<>>
         /\ Len(frames') = Len(frames)
         /\ pc # "ended" /\ installed' = installed /\ dangling' = dangling
         /\ server' = server /\ built' = built
<1>0. frames \in Seq(Frame)
  BY DEF TypeOK
<1>1. frames # <<>> /\ pc # "ended" /\ installed' = installed /\ dangling' = dangling
      /\ server' = server /\ built' = built
  BY DEF Handler, CloseEpoll, DeleteServer, Clear, Exit, HandlerAt, manager, process
<1>2. Len(frames') = Len(frames)
  <2>1. CASE CloseEpoll BY <1>0, <1>1, <2>1, TopMoves DEF CloseEpoll
  <2>2. CASE DeleteServer BY <1>0, <1>1, <2>2, TopAdvances DEF DeleteServer
  <2>3. CASE Clear BY <1>0, <1>1, <2>3, TopMoves DEF Clear
  <2>4. CASE Exit BY <2>4 DEF Exit, process
  <2> QED BY <2>1, <2>2, <2>3, <2>4 DEF Handler
<1>3. Len(frames) # 0
  BY <1>0, <1>1, EmptySeq
<1>4. frames' # <<>>
  BY <1>2, <1>3
<1> QED
  BY <1>1, <1>2, <1>4

\* A signal kills the process or starts a handler, and touches nothing else.
LEMMA SignalRuns ==
  ASSUME TypeOK, NEW sig \in Signals, Signal(sig)
  PROVE  /\ UNCHANGED <<server, port, socket, built, manager, installed, dangling, undefined>>
         /\ pc # "ended"
         /\ \/ ~installed /\ pc' = "ended" /\ frames' = frames
            \/ /\ installed /\ pc' = pc /\ frames' # <<>>
               /\ Len(frames') = Len(frames) + 1
               /\ Top'.at = "epoll" /\ Top'.next = 1
<1>0. frames \in Seq(Frame)
  BY DEF TypeOK
<1> DEFINE f == [sig |-> sig, at |-> "epoll", next |-> 1]
<1>1. f \in Frame /\ f.at = "epoll" /\ f.next = 1
  BY DEF Frame
<1> HIDE DEF f
<1>2. CASE ~installed
  BY <1>2 DEF Signal
<1>3. CASE installed
  <2>1. frames' = Append(frames, f) /\ pc' = pc
    BY <1>3 DEF Signal, f
  <2>2. Len(frames') = Len(frames) + 1 /\ frames' # <<>> /\ frames'[Len(frames) + 1] = f
    BY <1>0, <1>1, <2>1, AppendProperties
  <2>3. Top' = f
    BY <2>2 DEF Top
  <2> QED BY <1>1, <1>3, <2>1, <2>2, <2>3 DEF Signal
<1> QED
  BY <1>2, <1>3

\* One handler after a signal: the constructor was interrupted.
LEMMA FirstHandler ==
  ASSUME TypeOK, NEW n, n = Len(frames), n + 1 = 1
  PROVE  frames = <<>>
BY EmptySeq DEF TypeOK

LEMMA NoHandler == Len(<<>>) = 0
OBVIOUS
----------------------------------------------------------------------------
(* InOrder.                                                                *)

LEMMA OrderInit == Init => InOrder
BY DEF Init, InOrder

LEMMA OrderMain == TypeOK /\ InOrder /\ Main => InOrder'
<1> SUFFICES ASSUME TypeOK, InOrder, Main PROVE InOrder'
  OBVIOUS
<1>1. frames = <<>> /\ frames' = <<>> /\ deleted' = deleted /\ undefined' = undefined
  BY MainRuns
<1>2. deleted' = {} /\ ~undefined' /\ Len(servers) = server - 1 /\ Len(frames') # 1
  BY <1>1 DEF InOrder
<1>3. CASE PushServer
  <2>1. servers \in Seq(DOMAIN Ports) /\ server \in DOMAIN Ports /\ server \in Nat
    BY <1>3, PortsDomain DEF TypeOK, PushServer
  <2>2. servers' = Append(servers, server) /\ server' = server + 1
    BY <1>3 DEF PushServer
  <2>3. Len(servers') = server' - 1
    BY <1>2, <2>1, <2>2, AppendProperties
  <2>4. \A i \in DOMAIN servers' : servers'[i] = i
    BY <1>2, <2>1, <2>2, AppendProperties DEF InOrder
  <2> QED BY <1>1, <1>2, <2>3, <2>4 DEF InOrder
<1>4. CASE ~PushServer
  <2>1. servers' = servers /\ server' = server
    BY <1>4 DEF Main, HandleSignals, NextPort, Create, Bind, Listen, Catch, CallAndThrow, EpollCreate,
                AddListeningSocket, EventsLoop, Unwind, manager, process
  <2> QED BY <1>1, <1>2, <2>1 DEF InOrder
<1> QED
  BY <1>3, <1>4

LEMMA OrderHandler == TypeOK /\ InOrder /\ Handler => InOrder'
<1> SUFFICES ASSUME TypeOK, InOrder, Handler PROVE InOrder'
  OBVIOUS
<1>0. frames \in Seq(Frame) /\ servers \in Seq(DOMAIN Ports)
  BY DEF TypeOK
<1>1. frames # <<>> /\ frames' # <<>> /\ Len(frames') = Len(frames) /\ dangling' = dangling
  BY HandlerRuns
<1>2. Top \in Frame
  BY <1>0, <1>1, TopIsFrame
<1>3. CASE CloseEpoll
  <2>1. Top'.next = Top.next
    BY <1>0, <1>1, <1>2, <1>3, TopMoves DEF CloseEpoll, Frame
  <2>2. servers' = servers /\ deleted' = deleted /\ undefined' = (undefined \/ dangling)
    BY <1>3 DEF CloseEpoll
  <2>3. \A i \in DOMAIN servers' : servers'[i] = i
    BY <2>2 DEF InOrder
  <2>4. Len(frames) = 1 => \A d \in deleted' : d < Top'.next
    BY <2>1, <2>2 DEF InOrder
  <2>5. Len(frames) = 1 => (undefined' => dangling')
    BY <1>1, <2>2, Zenon DEF InOrder
  <2> QED BY <1>1, <2>3, <2>4, <2>5 DEF InOrder
<1>4. CASE DeleteServer
  <2>1. Top'.next = Top.next + 1 /\ Top.next \in Nat
    BY <1>0, <1>1, <1>2, <1>4, TopAdvances DEF DeleteServer, Frame
  <2>2. servers[Top.next] = Top.next
    BY <1>4 DEF DeleteServer, InOrder
  <2>3. deleted' = deleted \cup {Top.next} /\ undefined' = (undefined \/ dangling \/ Top.next \in deleted)
        /\ servers' = servers
    BY <1>4, <2>2 DEF DeleteServer
  <2>4. ASSUME Len(frames) = 1 PROVE \A d \in deleted' : d < Top'.next
    <3>1. \A d \in deleted : d \in Nat /\ d < Top.next
      BY <2>4, PortsDomain DEF InOrder, TypeOK
    <3> QED BY <2>1, <2>3, <3>1
  <2>5. ASSUME Len(frames) = 1, undefined' PROVE dangling'
    <3>1. Top.next \notin deleted
      BY <2>1, <2>5 DEF InOrder
    <3> QED BY <1>1, <2>3, <2>5, <3>1 DEF InOrder
  <2> QED BY <1>1, <2>3, <2>4, <2>5 DEF InOrder
<1>5. CASE Clear
  <2>1. Top'.next = Top.next
    BY <1>0, <1>1, <1>2, <1>5, TopMoves DEF Clear, Frame
  <2>2. servers' = <<>> /\ DOMAIN servers' = {} /\ deleted' = deleted /\ undefined' = (undefined \/ dangling)
    BY <1>5 DEF Clear
  <2>3. \A i \in DOMAIN servers' : servers'[i] = i
    BY <2>2
  <2>4. Len(frames) = 1 => \A d \in deleted' : d < Top'.next
    BY <2>1, <2>2 DEF InOrder
  <2>5. Len(frames) = 1 => (undefined' => dangling')
    BY <1>1, <2>2, Zenon DEF InOrder
  <2> QED BY <1>1, <2>3, <2>4, <2>5 DEF InOrder
<1>6. CASE Exit
  BY <1>1, <1>6 DEF Exit, manager, process, InOrder, Top
<1> QED
  BY <1>3, <1>4, <1>5, <1>6 DEF Handler

LEMMA OrderSignal == ASSUME NEW sig \in Signals PROVE TypeOK /\ InOrder /\ Signal(sig) => InOrder'
<1> SUFFICES ASSUME TypeOK, InOrder, Signal(sig) PROVE InOrder'
  OBVIOUS
<1>1. servers' = servers /\ server' = server /\ deleted' = deleted /\ undefined' = undefined /\ dangling' = dangling
  BY SignalRuns DEF manager
<1>2. CASE frames' = frames
  BY <1>1, <1>2 DEF InOrder, Top
<1>3. CASE frames' # <<>> /\ Len(frames') = Len(frames) + 1
  <2>1. Len(frames') = 1 => frames = <<>>
    BY <1>3, FirstHandler
  <2>2. \A i \in DOMAIN servers' : servers'[i] = i
    BY <1>1 DEF InOrder
  <2>3. Len(frames') = 1 => deleted' = {} /\ ~undefined'
    BY <1>1, <2>1 DEF InOrder
  <2> QED BY <1>3, <2>2, <2>3 DEF InOrder
<1> QED
  BY <1>2, <1>3, SignalRuns

LEMMA OrderStep == TypeOK /\ InOrder /\ [Next]_vars => InOrder'
<1> SUFFICES ASSUME TypeOK, InOrder, [Next]_vars PROVE InOrder'
  OBVIOUS
<1>1. CASE UNCHANGED vars
  BY <1>1 DEF vars, InOrder, Top
<1> QED
  BY <1>1, OrderMain, OrderHandler, OrderSignal DEF Next

\* One signal deletes every Server once, in whatever step it arrives; only a second
\* one, or one that follows the exception, meets what is gone.
THEOREM NothingUsedAfterItsEnd == Spec => []UndefinedOnlyIfInterrupted
<1>1. TypeOK /\ InOrder => UndefinedOnlyIfInterrupted
  <2> SUFFICES ASSUME TypeOK, InOrder, undefined PROVE Len(frames) > 1 \/ dangling
    BY DEF UndefinedOnlyIfInterrupted
  <2>1. frames # <<>>
    BY DEF InOrder
  <2>2. Len(frames) \in Nat \ {0}
    BY <2>1, TopIsFrame DEF TypeOK
  <2> QED BY <2>2 DEF InOrder
<1> QED
  BY <1>1, TypeInit, TypeStep, OrderInit, OrderStep, PTL DEF Spec
----------------------------------------------------------------------------
(* SocketsBuilt.                                                           *)

LEMMA SocketsInit == Init => SocketsBuilt
<1> SUFFICES ASSUME Init PROVE SocketsBuilt
  OBVIOUS
<1>1. \A s \in Slots : socket[s] = "none" /\ built[s[1]] = {}
  BY SlotParts DEF Init
<1> QED
  BY <1>1 DEF Init, SocketsBuilt

\* The slot the constructor is at is not built yet.
LEMMA SlotNotBuilt ==
  ASSUME TypeOK, SocketsBuilt, frames = <<>>, pc \in {"create", "bind", "listen", "catch"}
  PROVE  /\ Slot \in Slots /\ Slot[1] = server /\ Slot[2] = port
         /\ Slot \notin built[server] /\ socket[Slot] # "listening"
<1>1. Slot \in Slots /\ Slot[1] = server /\ Slot[2] = port /\ server \in Nat /\ port \in Nat
  BY PortsDomain DEF TypeOK, Slot
<1> QED
  BY <1>1 DEF SocketsBuilt

\* A step that changes the state of the current socket only, and not to listening.
LEMMA SocketsMove ==
  ASSUME TypeOK, SocketsBuilt, Main,
         pc \in {"create", "bind", "catch"},
         NEW to \in {"none", "open", "bound", "closed"}, socket' = [socket EXCEPT ![Slot] = to],
         to \in {"open", "bound"} => port' = port /\ pc' \in {"bind", "listen", "catch"},
         built' = built, server' = server, port' \in {port, port + 1}
  PROVE  SocketsBuilt'
<1>1. frames = <<>>
  BY MainRuns
<1>2. Slot \in Slots /\ Slot[1] = server /\ Slot[2] = port /\ Slot \notin built[server] /\ socket[Slot] # "listening"
  BY <1>1, SlotNotBuilt
<1>3. port \in Nat /\ port' \in Nat /\ port <= port'
  BY DEF TypeOK
<1>4. \A i \in DOMAIN Ports : \A s \in built'[i] : s[1] = i
  BY DEF SocketsBuilt
<1>5. ASSUME NEW s \in Slots
      PROVE  /\ socket'[s] = "listening" <=> s \in built'[s[1]]
             /\ s \in built'[s[1]] => s[1] < server' \/ (s[1] = server' /\ s[2] < port')
             /\ socket'[s] \in {"open", "bound"} => s = Slot' /\ pc' \in {"bind", "listen", "catch", "ended"}
  <2>1. socket'[s] = IF s = Slot THEN to ELSE socket[s]
    BY <1>2 DEF TypeOK
  <2>2. s[1] \in Nat /\ s[2] \in Nat
    BY PortsDomain, StartupAssumption DEF Slots, StartupAssumption
  <2>3. to \in {"open", "bound"} => Slot' = Slot
    BY DEF Slot
  <2>4. s # Slot => socket[s] \notin {"open", "bound"}
    BY <1>1 DEF SocketsBuilt
  <2>5. socket'[s] = "listening" <=> s \in built'[s[1]]
    BY <1>1, <1>2, <2>1 DEF SocketsBuilt
  <2>6. s \in built'[s[1]] => s[1] < server' \/ (s[1] = server' /\ s[2] < port')
    BY <1>1, <1>3, <2>2 DEF SocketsBuilt
  <2> QED BY <2>1, <2>3, <2>4, <2>5, <2>6
<1> QED
  BY <1>4, <1>5 DEF SocketsBuilt

\* A step that leaves the sockets alone.
LEMMA SocketsStay ==
  ASSUME TypeOK, SocketsBuilt, frames = <<>>, pc # "ended", socket' = socket, built' = built,
         \/ server' = server /\ port' = port
         \/ server' = server + 1 /\ pc = "port" /\ port' \in Nat,
         pc \in {"bind", "listen", "catch"} => pc' \in {"bind", "listen", "catch", "ended"}
  PROVE  SocketsBuilt'
<1>1. \A i \in DOMAIN Ports : \A s \in built'[i] : s[1] = i
  BY DEF SocketsBuilt
<1>2. ASSUME NEW s \in Slots
      PROVE  /\ socket'[s] = "listening" <=> s \in built'[s[1]]
             /\ s \in built'[s[1]] => s[1] < server' \/ (s[1] = server' /\ s[2] < port')
             /\ socket'[s] \in {"open", "bound"} => s = Slot' /\ pc' \in {"bind", "listen", "catch", "ended"}
  <2>1. s[1] \in Nat /\ server \in Nat
    BY SlotParts, PortsDomain DEF TypeOK
  <2>2. /\ socket[s] = "listening" <=> s \in built[s[1]]
        /\ s \in built[s[1]] => s[1] < server \/ (s[1] = server /\ s[2] < port)
        /\ socket[s] \in {"open", "bound"} => s = Slot /\ pc \in {"bind", "listen", "catch", "ended"}
    BY DEF SocketsBuilt
  <2>3. s \in built'[s[1]] => s[1] < server' \/ (s[1] = server' /\ s[2] < port')
    BY <2>1, <2>2
  <2> QED BY <2>2, <2>3 DEF Slot
<1> QED
  BY <1>1, <1>2 DEF SocketsBuilt

LEMMA SocketsListen ==
  ASSUME TypeOK, SocketsBuilt, Listen, pc' = "port", pc = "listen", frames = <<>>,
         socket' = [socket EXCEPT ![Slot] = "listening"], built' = [built EXCEPT ![server] = @ \cup {Slot}],
         port' = port + 1, server' = server
  PROVE  SocketsBuilt'
<1>1. Slot \in Slots /\ Slot[1] = server /\ Slot[2] = port /\ server \in DOMAIN Ports /\ port \in Nat
  BY SlotNotBuilt, SlotParts DEF TypeOK
<1>2. \A i \in DOMAIN Ports : built'[i] = IF i = server THEN built[i] \cup {Slot} ELSE built[i]
  BY DEF TypeOK
<1>3. \A i \in DOMAIN Ports : \A s \in built'[i] : s[1] = i
  BY <1>1, <1>2 DEF SocketsBuilt
<1>4. ASSUME NEW s \in Slots
      PROVE  /\ socket'[s] = "listening" <=> s \in built'[s[1]]
             /\ s \in built'[s[1]] => s[1] < server' \/ (s[1] = server' /\ s[2] < port')
             /\ socket'[s] \notin {"open", "bound"}
  <2>1. s[1] \in DOMAIN Ports /\ s[2] \in Nat /\ s[1] \in Nat
    BY PortsDomain, StartupAssumption DEF Slots, StartupAssumption
  <2>2. socket'[s] = IF s = Slot THEN "listening" ELSE socket[s]
    BY <1>1 DEF TypeOK
  <2>3. s \in built'[s[1]] <=> s = Slot \/ s \in built[s[1]]
    <3>1. CASE s[1] = server
      <4>1. built'[s[1]] = built[s[1]] \cup {Slot}
        BY <1>2, <2>1, <3>1
      <4> QED BY <4>1
    <3>2. CASE s[1] # server
      <4>1. s # Slot
        BY <1>1, <3>2
      <4> QED BY <1>2, <2>1, <3>2, <4>1
    <3> QED BY <3>1, <3>2
  <2>4. /\ socket[s] = "listening" <=> s \in built[s[1]]
        /\ s \in built[s[1]] => s[1] < server \/ (s[1] = server /\ s[2] < port)
        /\ socket[s] \in {"open", "bound"} => s = Slot
    BY DEF SocketsBuilt
  <2>5. s \in built'[s[1]] => s[1] < server' \/ (s[1] = server' /\ s[2] < port')
    BY <1>1, <2>1, <2>3, <2>4
  <2> QED BY <2>2, <2>3, <2>4, <2>5
<1> QED
  BY <1>3, <1>4 DEF SocketsBuilt

LEMMA SocketsMain == TypeOK /\ SocketsBuilt /\ Main => SocketsBuilt'
<1> SUFFICES ASSUME TypeOK, SocketsBuilt, Main PROVE SocketsBuilt'
  OBVIOUS
<1>0. frames = <<>> /\ pc # "ended"
  BY MainRuns
<1>1. CASE HandleSignals
  BY <1>0, <1>1, SocketsStay DEF HandleSignals, MainGoes
<1>2. CASE NextPort
  BY <1>0, <1>2, SocketsStay DEF NextPort, MainGoes
<1>3. ASSUME NEW from \in {"create", "bind", "listen"}, CallAndThrow(from) PROVE SocketsBuilt'
  BY <1>0, <1>3, SocketsStay DEF CallAndThrow, MainGoes
<1>4. CASE Create
  <2>1. CASE pc = "create" /\ pc' \in {"bind", "catch"} /\ socket' = [socket EXCEPT ![Slot] = "open"]
             /\ built' = built /\ server' = server /\ port' = port
    BY <2>1, SocketsMove
  <2> QED BY <1>3, <1>4, <2>1 DEF Create, MainGoes
<1>5. CASE Bind
  <2>1. CASE pc = "bind" /\ pc' = "listen" /\ socket' = [socket EXCEPT ![Slot] = "bound"]
             /\ built' = built /\ server' = server /\ port' = port
    BY <2>1, SocketsMove
  <2> QED BY <1>3, <1>5, <2>1 DEF Bind, MainGoes
<1>6. CASE Listen
  <2>1. CASE ~CallAndThrow("listen")
    BY <1>0, <1>6, <2>1, SocketsListen DEF Listen, MainGoes
  <2> QED BY <1>3, <2>1
<1>7. CASE Catch
  <2> DEFINE to == IF socket[Slot] = "none" THEN "none" ELSE "closed"
  <2>1. pc = "catch" /\ socket' = [socket EXCEPT ![Slot] = to] /\ built' = built /\ server' = server
        /\ port' = port + 1
    BY <1>7 DEF Catch, MainGoes
  <2>2. to \in {"none", "closed"}
    OBVIOUS
  <2> HIDE DEF to
  <2> QED BY <2>1, <2>2, SocketsMove
<1>8. CASE PushServer
  BY <1>0, <1>8, SocketsStay DEF PushServer, MainGoes
<1>9. CASE EpollCreate
  BY <1>0, <1>9, SocketsStay DEF EpollCreate, MainGoes
<1>10. CASE AddListeningSocket
  BY <1>0, <1>10, SocketsStay DEF AddListeningSocket, MainGoes
<1>11. CASE EventsLoop
  BY <1>0, <1>11, SocketsStay DEF EventsLoop, MainGoes
<1>12. CASE Unwind
  BY <1>0, <1>12, SocketsStay DEF Unwind
<1> QED
  BY <1>1, <1>2, <1>4, <1>5, <1>6, <1>7, <1>8, <1>9, <1>10, <1>11, <1>12 DEF Main

LEMMA SocketsHandler == TypeOK /\ SocketsBuilt /\ Handler => SocketsBuilt'
BY HandlerRuns DEF SocketsBuilt

LEMMA SocketsSignal ==
  ASSUME NEW sig \in Signals PROVE TypeOK /\ SocketsBuilt /\ Signal(sig) => SocketsBuilt'
<1> SUFFICES ASSUME TypeOK, SocketsBuilt, Signal(sig) PROVE SocketsBuilt'
  OBVIOUS
<1>1. UNCHANGED <<server, port, socket, built>> /\ pc # "ended"
  BY SignalRuns
<1>2. CASE pc' = "ended" /\ frames' = frames
  <2>1. CASE frames = <<>>
    BY <1>1, <1>2, <2>1, SocketsStay
  <2>2. CASE frames # <<>>
    BY <1>1, <1>2, <2>2 DEF SocketsBuilt
  <2> QED BY <2>1, <2>2
<1>3. CASE frames' # <<>>
  BY <1>1, <1>3 DEF SocketsBuilt
<1> QED
  BY <1>2, <1>3, SignalRuns

LEMMA SocketsStep == TypeOK /\ SocketsBuilt /\ [Next]_vars => SocketsBuilt'
<1> SUFFICES ASSUME TypeOK, SocketsBuilt, [Next]_vars PROVE SocketsBuilt'
  OBVIOUS
<1>1. CASE UNCHANGED vars
  BY <1>1 DEF vars, SocketsBuilt, Slot
<1> QED
  BY <1>1, SocketsMain, SocketsHandler, SocketsSignal DEF Next
----------------------------------------------------------------------------
(* SocketsKnown.                                                           *)

LEMMA KnownInit == Init => SocketsKnown
<1> SUFFICES ASSUME Init PROVE SocketsKnown
  OBVIOUS
<1>1. \A s \in Slots : built[s[1]] = {}
  BY SlotParts DEF Init
<1>2. IsFiniteSet({}) /\ Cardinality({}) = 0
  BY FS_EmptySet
<1> QED
  BY <1>1, <1>2 DEF Init, SocketsKnown

\* What remains to be added is what the manager knows and epoll does not.
LEMMA ToAddIs ==
  ASSUME TypeOK, InOrder, SocketsBuilt, SocketsKnown, frames = <<>>
  PROVE  ToAdd = listeningSockets \ registered
<1>1. servers \in Seq(DOMAIN Ports) /\ Len(servers) = server - 1 /\ server \in 1..(Len(Ports) + 1)
      /\ \A i \in DOMAIN servers : servers[i] = i
  BY DEF TypeOK, InOrder
<1>2. DOMAIN servers = 1..(server - 1) /\ DOMAIN servers \subseteq DOMAIN Ports
  BY <1>1, PortsDomain
<1>3. ASSUME NEW s PROVE s \in UNION {built[servers[i]] : i \in DOMAIN servers} <=> s \in listeningSockets
  <2>1. ASSUME NEW i \in DOMAIN servers, s \in built[i] PROVE s \in listeningSockets
    <3>1. s \in Slots /\ s[1] = i
      BY <1>2, <2>1 DEF TypeOK, SocketsBuilt
    <3>2. i < server
      BY <1>1, <1>2, PortsDomain
    <3> QED BY <2>1, <3>1, <3>2 DEF SocketsKnown
  <2>2. ASSUME s \in listeningSockets PROVE s[1] \in DOMAIN servers /\ s \in built[s[1]]
    <3>1. s \in Slots /\ s[1] < server /\ s \in built[s[1]]
      BY <2>2 DEF SocketsKnown
    <3>2. s[1] \in 1..Len(Ports)
      BY <3>1, SlotParts, PortsDomain
    <3> QED BY <1>1, <1>2, <3>1, <3>2, PortsDomain
  <2> QED BY <1>1, <2>1, <2>2
<1> DEFINE all == UNION {built[servers[i]] : i \in DOMAIN servers}
<1>4. all = listeningSockets
  BY <1>3
<1>5. ToAdd = all \ registered
  BY DEF ToAdd
<1> QED
  BY <1>4, <1>5

\* A step that leaves the manager's tables and what is built alone.
LEMMA KnownStay ==
  ASSUME SocketsKnown, frames = <<>>, UNCHANGED <<server, listeningSockets, registered, events>>,
         built' = built, pc' \notin {"add", "loop"} \/ pc' = pc
  PROVE  SocketsKnown'
BY DEF SocketsKnown

LEMMA KnownMain == TypeOK /\ InOrder /\ SocketsBuilt /\ SocketsKnown /\ Main => SocketsKnown'
<1> SUFFICES ASSUME TypeOK, InOrder, SocketsBuilt, SocketsKnown, Main PROVE SocketsKnown'
  OBVIOUS
<1>0. frames = <<>> /\ pc # "ended"
  BY MainRuns
<1>1. CASE HandleSignals \/ NextPort \/ Create \/ Bind \/ Catch \/ Unwind
  BY <1>0, <1>1, KnownStay
     DEF HandleSignals, NextPort, Create, Bind, Catch, Unwind, CallAndThrow, MainGoes, manager
<1>2. CASE Listen
  <2>1. CASE CallAndThrow("listen")
    BY <1>0, <2>1, KnownStay DEF CallAndThrow, MainGoes, manager
  <2>2. CASE ~CallAndThrow("listen")
    <3>1. /\ pc' = "port" /\ built' = [built EXCEPT ![server] = @ \cup {Slot}]
          /\ UNCHANGED <<server, listeningSockets, registered, events>>
      BY <1>2, <2>2 DEF Listen, MainGoes, manager
    <3>2. ASSUME NEW s \in Slots, s[1] < server PROVE built'[s[1]] = built[s[1]]
      BY <3>1, <3>2, SlotParts, PortsDomain DEF TypeOK
    <3> QED BY <1>0, <3>1, <3>2 DEF SocketsKnown
  <2> QED BY <2>1, <2>2
<1>3. CASE PushServer
  <2>1. /\ listeningSockets' = listeningSockets \cup built[server]
        /\ server' = server + 1 /\ server \in DOMAIN Ports /\ server \in Nat
        /\ UNCHANGED <<built, registered, events>> /\ pc' = "port"
    BY <1>3, PortsDomain DEF PushServer, MainGoes
  <2>2. listeningSockets' = {s \in Slots : s[1] < server' /\ s \in built'[s[1]]}
    <3>1. ASSUME NEW s \in Slots
          PROVE  s \in listeningSockets' <=> s[1] < server' /\ s \in built'[s[1]]
      <4>1. s[1] \in Nat
        BY SlotParts, PortsDomain
      <4>2. s \in listeningSockets <=> s[1] < server /\ s \in built[s[1]]
        BY <1>0 DEF SocketsKnown
      <4>3. s \in built[server] <=> s[1] = server /\ s \in built[s[1]]
        BY <2>1 DEF SocketsBuilt
      <4> QED BY <2>1, <4>1, <4>2, <4>3
    <3>2. listeningSockets' \subseteq Slots
      BY <2>1 DEF TypeOK
    <3> QED BY <3>1, <3>2
  <2> QED BY <1>0, <2>1, <2>2 DEF SocketsKnown
<1>4. CASE EpollCreate
  BY <1>0, <1>4 DEF EpollCreate, MainGoes, SocketsKnown
<1>5. CASE AddListeningSocket
  <2>1. CASE UNCHANGED <<registered, events>>
    BY <1>0, <1>5, <2>1, KnownStay DEF AddListeningSocket, MainGoes, manager
  <2>2. ASSUME NEW s \in ToAdd, registered' = registered \cup {s}, events' = events + 1,
               pc' = "add", pc = "add", UNCHANGED <<server, built, listeningSockets>>
        PROVE  SocketsKnown'
    <3>1. s \in listeningSockets /\ s \notin registered
      BY <1>0, <2>2, ToAddIs
    <3>2. IsFiniteSet(registered) /\ events = Cardinality(registered)
      BY <1>0 DEF SocketsKnown
    <3>3. IsFiniteSet(registered') /\ events' = Cardinality(registered')
      BY <2>2, <3>1, <3>2, FS_AddElement
    <3> QED BY <1>0, <2>2, <3>1, <3>3 DEF SocketsKnown
  <2> QED BY <1>5, <2>1, <2>2 DEF AddListeningSocket, MainGoes, manager
<1>6. CASE EventsLoop
  <2>1. listeningSockets \ registered = {} /\ registered \subseteq listeningSockets
    BY <1>0, <1>6, ToAddIs DEF EventsLoop, SocketsKnown
  <2> QED BY <1>0, <1>6, <2>1 DEF EventsLoop, MainGoes, manager, SocketsKnown
<1> QED
  BY <1>1, <1>2, <1>3, <1>4, <1>5, <1>6 DEF Main

LEMMA KnownSignal ==
  ASSUME NEW sig \in Signals PROVE TypeOK /\ SocketsKnown /\ Signal(sig) => SocketsKnown'
BY SignalRuns, KnownStay DEF SocketsKnown, manager

LEMMA KnownStep == TypeOK /\ InOrder /\ SocketsBuilt /\ SocketsKnown /\ [Next]_vars => SocketsKnown'
<1> SUFFICES ASSUME TypeOK, InOrder, SocketsBuilt, SocketsKnown, [Next]_vars PROVE SocketsKnown'
  OBVIOUS
<1>1. CASE UNCHANGED vars
  BY <1>1 DEF vars, SocketsKnown
<1>2. CASE Handler
  BY <1>2, HandlerRuns DEF SocketsKnown
<1> QED
  BY <1>1, <1>2, KnownMain, KnownSignal DEF Next

\* Whatever ports and calls fail, the loop starts with every socket that listens, and
\* no other, in the map and in epoll, and with as many events as sockets.
THEOREM LoopStartsWithEverySocket == Spec => []LoopHearsEveryPort
<1>1. TypeOK /\ SocketsBuilt /\ SocketsKnown => LoopHearsEveryPort
  <2> SUFFICES ASSUME TypeOK, SocketsBuilt, SocketsKnown, pc = "loop", frames = <<>>
               PROVE  /\ listeningSockets = {s \in Slots : socket[s] = "listening"}
                      /\ registered = listeningSockets
                      /\ events = Cardinality(registered)
    BY DEF LoopHearsEveryPort
  <2>1. ASSUME NEW s \in Slots PROVE s[1] < server
    <3>1. server \in 1..(Len(Ports) + 1) /\ server \notin 1..Len(Ports) /\ s[1] \in 1..Len(Ports)
      BY SlotParts, PortsDomain DEF TypeOK, SocketsKnown
    <3> QED BY <3>1, PortsDomain
  <2>2. \A s \in Slots : socket[s] = "listening" <=> s \in built[s[1]]
    BY DEF SocketsBuilt
  <2>3. listeningSockets = {s \in Slots : s[1] < server /\ s \in built[s[1]]}
    BY DEF SocketsKnown
  <2> QED BY <2>1, <2>2, <2>3 DEF SocketsKnown
<1> QED
  BY <1>1, TypeInit, TypeStep, OrderInit, OrderStep, SocketsInit, SocketsStep, KnownInit, KnownStep, PTL DEF Spec
----------------------------------------------------------------------------
(* Closing.                                                                *)

LEMMA ClosingInit == Init => Closing
BY NoHandler DEF Init, Closing

LEMMA ClosingMain == Closing /\ Main => Closing'
BY MainRuns, NoHandler DEF Closing

LEMMA ClosingHandler == TypeOK /\ InOrder /\ Closing /\ Handler => Closing'
<1> SUFFICES ASSUME TypeOK, InOrder, Closing, Handler PROVE Closing'
  OBVIOUS
<1>0. frames \in Seq(Frame)
  BY DEF TypeOK
<1>1. frames # <<>> /\ Len(frames') = Len(frames) /\ installed' = installed /\ pc # "ended"
      /\ server' = server /\ built' = built
  BY HandlerRuns
<1>2. installed'
  BY <1>1 DEF Closing
<1> SUFFICES ASSUME Len(frames) = 1
             PROVE  /\ pc' = "ended" => Top'.at = "exit"
                    /\ Top'.at # "epoll" => epollFd' # "open"
                    /\ \A s \in Slots : Live(s)' =>
                         s[1] = server \/ (Top'.at # "exit" /\ s[1] >= Top'.next /\ s[1] \in DOMAIN servers' /\ s \in built[s[1]])
  BY <1>1, <1>2 DEF Closing
<1>3. Top \in Frame
  BY <1>0, <1>1, TopIsFrame
<1>4. \A s \in Slots : Live(s) =>
        s[1] = server \/ (Top.at # "exit" /\ s[1] >= Top.next /\ s[1] \in DOMAIN servers /\ s \in built[s[1]])
  BY DEF Closing
<1>5. CASE CloseEpoll
  <2>1. Top'.at = "delete" /\ Top'.next = Top.next
    BY <1>0, <1>1, <1>3, <1>5, TopMoves DEF CloseEpoll, Frame
  <2>2. pc' = pc /\ epollFd' # "open" /\ servers' = servers /\ socket' = socket
    BY <1>5 DEF CloseEpoll
  <2> QED BY <1>1, <1>4, <2>1, <2>2 DEF Live
<1>6. CASE DeleteServer
  <2>1. Top'.at = Top.at /\ Top'.next = Top.next + 1 /\ Top.at = "delete" /\ Top.next \in Nat
    BY <1>0, <1>1, <1>3, <1>6, TopAdvances DEF DeleteServer, HandlerAt, Frame
  <2>2. servers[Top.next] = Top.next
    BY <1>6 DEF DeleteServer, InOrder
  <2>3. socket' = [s \in Slots |-> IF s \in built[Top.next] THEN "closed" ELSE socket[s]]
    BY <1>6, <2>2 DEF DeleteServer
  <2>4. pc' = pc /\ epollFd' = epollFd /\ servers' = servers
    BY <1>6 DEF DeleteServer
  <2>5. ASSUME NEW s \in Slots, Live(s)', s[1] # server
        PROVE  s[1] >= Top'.next /\ s[1] \in DOMAIN servers' /\ s \in built[s[1]]
    <3>1. Live(s) /\ s \notin built[Top.next]
      BY <2>3, <2>5 DEF Live
    <3>2. s[1] >= Top.next /\ s[1] \in DOMAIN servers /\ s \in built[s[1]]
      BY <1>4, <2>5, <3>1
    <3>3. s[1] # Top.next /\ s[1] \in Nat
      BY <3>1, <3>2, SlotParts, PortsDomain
    <3> QED BY <2>1, <2>4, <3>2, <3>3
  <2> QED BY <1>1, <2>1, <2>4, <2>5 DEF Closing
<1>7. CASE Clear
  <2>1. Top'.at = "exit" /\ Top.at = "delete" /\ Top.next \in Nat \ {0} /\ Top.next \notin DOMAIN servers
    BY <1>0, <1>1, <1>3, <1>7, TopMoves DEF Clear, HandlerAt, Frame
  <2>2. pc' = pc /\ epollFd' = epollFd /\ socket' = socket
    BY <1>7 DEF Clear
  <2>3. ASSUME NEW s \in Slots, Live(s) PROVE s[1] = server
    <3>1. DOMAIN servers = 1..Len(servers) /\ Len(servers) \in Nat
      BY DEF TypeOK
    <3> QED BY <1>4, <2>1, <2>3, <3>1
  <2> QED BY <1>1, <2>1, <2>2, <2>3 DEF Closing, Live
<1>8. CASE Exit
  <2>1. Top' = Top /\ Top.at = "exit" /\ UNCHANGED <<epollFd, servers, socket>>
    BY <1>8 DEF Exit, HandlerAt, manager, process, Top
  <2> QED BY <1>4, <2>1 DEF Closing, Live
<1> QED
  BY <1>5, <1>6, <1>7, <1>8 DEF Handler

\* The first handler finds, besides the sockets of the Server in the making, those of
\* the Servers that have been pushed.
LEMMA ClosingSignal ==
  ASSUME NEW sig \in Signals
  PROVE  TypeOK /\ InOrder /\ SocketsBuilt /\ Closing /\ Signal(sig) => Closing'
<1> SUFFICES ASSUME TypeOK, InOrder, SocketsBuilt, Closing, Signal(sig) PROVE Closing'
  OBVIOUS
<1>1. UNCHANGED <<server, socket, built, servers, epollFd, installed>> /\ pc # "ended"
  BY SignalRuns DEF manager
<1>2. CASE ~installed /\ frames' = frames
  <2>1. frames = <<>>
    BY <1>2 DEF Closing
  <2> QED BY <1>2, <2>1, NoHandler DEF Closing
<1>3. CASE installed /\ pc' = pc /\ Len(frames') = Len(frames) + 1 /\ Top'.at = "epoll" /\ Top'.next = 1
  <2> SUFFICES ASSUME Len(frames') = 1, NEW s \in Slots, Live(s)
               PROVE  s[1] = server \/ (s[1] >= 1 /\ s[1] \in DOMAIN servers /\ s \in built[s[1]])
    BY <1>1, <1>3 DEF Closing, Live
  <2>1. frames = <<>>
    BY <1>3, FirstHandler
  <2>2. s[1] \in Nat \ {0} /\ server \in Nat
    BY SlotParts, PortsDomain DEF TypeOK
  <2>3. CASE socket[s] = "listening"
    <3>1. s \in built[s[1]] /\ (s[1] = server \/ s[1] < server)
      BY <2>1, <2>3 DEF SocketsBuilt
    <3>2. DOMAIN servers = 1..(server - 1)
      BY <2>1, <2>2 DEF InOrder, TypeOK
    <3> QED BY <2>2, <3>1, <3>2
  <2>4. CASE socket[s] \in {"open", "bound"}
    BY <2>1, <2>4 DEF SocketsBuilt, Slot
  <2> QED BY <2>3, <2>4 DEF Live
<1> QED
  BY <1>2, <1>3, SignalRuns

StartupInv == TypeOK /\ InOrder /\ SocketsBuilt /\ SocketsKnown /\ Closing

LEMMA StartupInvInductive == Init => StartupInv
BY TypeInit, OrderInit, SocketsInit, KnownInit, ClosingInit DEF StartupInv

LEMMA StartupInvStep == StartupInv /\ [Next]_vars => StartupInv'
<1> SUFFICES ASSUME StartupInv, [Next]_vars PROVE StartupInv'
  OBVIOUS
<1> USE DEF StartupInv
<1>1. Closing'
  <2>1. CASE UNCHANGED vars
    BY <2>1 DEF vars, Closing, Live, Top
  <2> QED BY <2>1, ClosingMain, ClosingHandler, ClosingSignal DEF Next
<1> QED
  BY <1>1, TypeStep, OrderStep, SocketsStep, KnownStep

\* One signal, in whatever step it arrives, closes epoll and every listening socket of
\* every Server that has been pushed, before the process ends.
THEOREM SignalClosesEverySocket == Spec => []OneSignalClosesAll
<1>1. StartupInv => OneSignalClosesAll
  BY DEF StartupInv, Closing, OneSignalClosesAll, Live
<1> QED
  BY <1>1, StartupInvInductive, StartupInvStep, PTL DEF Spec
=============================================================================
