------------------------------ MODULE Startup ------------------------------
(***************************************************************************)
(* From the configurations to the event loop, and out of it by a signal:   *)
(* initServers, initEpoll, shutDownManager and handleSignal of             *)
(* src/src/config/ServerManager.cpp, Server::Server and shutdownServer,    *)
(* Socket.  The loop itself is ServerManager's.                            *)
(*                                                                         *)
(* A handler runs between any two steps of the constructor, of the loop    *)
(* and of a handler for another signal.  It never returns: it exits.       *)
(***************************************************************************)
EXTENDS Integers, Sequences, FiniteSets

CONSTANTS
  Ports,   \* the ports of each configuration, a sequence of sequences
  Signals  \* SIGINT, SIGTERM, SIGQUIT

\* <<i, j>>: the j-th port of the i-th configuration.
Slots == UNION {{i} \X DOMAIN Ports[i] : i \in DOMAIN Ports}

VARIABLES
  pc,                \* the step of the constructor
  server, port,      \* i of initServers, the iterator of Server::Server
  socket,            \* slot |-> what became of its socket
  built,             \* Server |-> slots whose sockets are in its listeningSockets
  servers,           \* ServerManager::servers
  deleted,           \* Servers that have been deleted
  listeningSockets,  \* ServerManager::listeningSockets, by slot
  epollFd,           \* "none", "open" or "closed"
  registered,        \* slots in epoll's interest list
  events,            \* events.size()
  installed,         \* the handlers are installed and g_manager is set
  dangling,          \* the object g_manager points to has been destroyed
  frames,            \* handlers that run, the interrupted ones first
  undefined          \* something was deleted twice or used after its end

vars == <<pc, server, port, socket, built, servers, deleted, listeningSockets, epollFd,
          registered, events, installed, dangling, frames, undefined>>
manager == <<servers, deleted, listeningSockets, epollFd, registered, events>>
process == <<installed, dangling, frames, undefined>>

ASSUME StartupAssumption ==
  /\ Ports \in Seq(Seq(Nat))
  /\ IsFiniteSet(Signals)

\* The constructor runs: no handler does.
Running == frames = <<>>
Slot == <<server, port>>
MainGoes(from, to) == Running /\ pc = from /\ pc' = to

(***************************************************************************)
(* Server::Server, Socket                                                  *)
(***************************************************************************)
HandleSignals ==
  /\ MainGoes("handleSignals", "port")
  /\ installed' = TRUE
  /\ UNCHANGED <<server, port, socket, built, dangling, frames, undefined, manager>>

NextPort ==
  /\ server \in DOMAIN Ports /\ port \in DOMAIN Ports[server]
  /\ MainGoes("port", "create")
  /\ UNCHANGED <<server, port, socket, built, manager, process>>

\* Each call of the set-up may throw; create may have opened the socket by then.
CallAndThrow(from) ==
  /\ MainGoes(from, "catch")
  /\ UNCHANGED <<server, port, socket, built, manager, process>>
Create ==
  \/ /\ \E next \in {"bind", "catch"} : MainGoes("create", next)
     /\ socket' = [socket EXCEPT ![Slot] = "open"]
     /\ UNCHANGED <<server, port, built, manager, process>>
  \/ CallAndThrow("create")

\* SO_REUSEPORT: a port another Server of this process listens on is no obstacle.
Bind ==
  \/ /\ MainGoes("bind", "listen")
     /\ socket' = [socket EXCEPT ![Slot] = "bound"]
     /\ UNCHANGED <<server, port, built, manager, process>>
  \/ CallAndThrow("bind")

Listen ==
  \/ /\ MainGoes("listen", "port")
     /\ socket' = [socket EXCEPT ![Slot] = "listening"]
     /\ built' = [built EXCEPT ![server] = @ \cup {Slot}]
     /\ port' = port + 1
     /\ UNCHANGED <<server, manager, process>>
  \/ CallAndThrow("listen")

\* Variant: the same port is tried again.
CatchAndRetry ==
  /\ MainGoes("catch", "port")
  /\ socket' = [socket EXCEPT ![Slot] = IF @ = "none" THEN "none" ELSE "closed"]
  /\ UNCHANGED <<server, port, built, manager, process>>
\* The destructor closes the socket if there is one.
Catch ==
  /\ MainGoes("catch", "port")
  /\ socket' = [socket EXCEPT ![Slot] = IF @ = "none" THEN "none" ELSE "closed"]
  /\ port' = port + 1
  /\ UNCHANGED <<server, built, manager, process>>

(***************************************************************************)
(* initServers, initEpoll, addListeningSockets                             *)
(***************************************************************************)
\* Variant: the map has the sockets of the last Server only.
PushServerAlone ==
  /\ server \in DOMAIN Ports /\ port \notin DOMAIN Ports[server]
  /\ MainGoes("port", "port")
  /\ servers' = Append(servers, server)
  /\ listeningSockets' = built[server]
  /\ server' = server + 1 /\ port' = 1
  /\ UNCHANGED <<socket, built, deleted, epollFd, registered, events, process>>
PushServer ==
  /\ server \in DOMAIN Ports /\ port \notin DOMAIN Ports[server]
  /\ MainGoes("port", "port")
  /\ servers' = Append(servers, server)
  /\ listeningSockets' = listeningSockets \cup built[server]
  /\ server' = server + 1 /\ port' = 1
  /\ UNCHANGED <<socket, built, deleted, epollFd, registered, events, process>>

EpollCreate ==
  /\ server \notin DOMAIN Ports
  /\ \/ MainGoes("port", "add") /\ epollFd' = "open"
     \/ MainGoes("port", "threw") /\ UNCHANGED epollFd
  /\ UNCHANGED <<server, port, socket, built, servers, deleted, listeningSockets, registered, events, process>>

\* Every socket of every Server, in some order; fcntl or epoll_ctl may fail.
ToAdd == (UNION {built[servers[i]] : i \in DOMAIN servers}) \ registered
AddListeningSocket ==
  \/ \E s \in ToAdd :
       /\ MainGoes("add", "add")
       /\ registered' = registered \cup {s}
       /\ events' = events + 1
       /\ UNCHANGED <<server, port, socket, built, servers, deleted, listeningSockets, epollFd, process>>
  \/ /\ ToAdd # {}
     /\ MainGoes("add", "threw")
     /\ UNCHANGED <<server, port, socket, built, manager, process>>

EventsLoop ==
  /\ ToAdd = {}
  /\ MainGoes("add", "loop")
  /\ UNCHANGED <<server, port, socket, built, manager, process>>

\* A constructor that throws leaves no object: the members are destroyed, the Servers
\* they point to are not.  main prints the reason and returns.
Unwind ==
  /\ Running /\ pc = "threw"
  /\ IF dangling THEN pc' = "ended" /\ UNCHANGED dangling ELSE dangling' = TRUE /\ UNCHANGED pc
  /\ UNCHANGED <<server, port, socket, built, manager, installed, frames, undefined>>

(***************************************************************************)
(* handleSignal and shutDownManager                                        *)
(***************************************************************************)
\* A signal is blocked while its own handler runs, the others are not.  Before
\* handleSignals it kills.
Blocked(sig) == \E i \in DOMAIN frames : frames[i].sig = sig
Signal(sig) ==
  /\ pc # "ended"
  /\ IF ~installed THEN pc' = "ended" /\ UNCHANGED frames
     ELSE /\ ~Blocked(sig)
          /\ frames' = Append(frames, [sig |-> sig, at |-> "epoll", next |-> 1])
          /\ UNCHANGED pc
  /\ UNCHANGED <<server, port, socket, built, manager, installed, dangling, undefined>>

Top == frames[Len(frames)]
HandlerAt(step) == frames # <<>> /\ pc # "ended" /\ Top.at = step
TopGoes(step) == frames' = [frames EXCEPT ![Len(frames)].at = step]

CloseEpoll ==
  /\ HandlerAt("epoll")
  /\ TopGoes("delete")
  /\ epollFd' = IF epollFd = "open" THEN "closed" ELSE epollFd
  /\ registered' = IF epollFd = "open" THEN {} ELSE registered
  /\ undefined' = (undefined \/ dangling)
  /\ UNCHANGED <<pc, server, port, socket, built, servers, deleted, listeningSockets, events, installed, dangling>>

\* Variant: the handler counts the configurations, not the Servers there are.
DeleteServerOfPool ==
  /\ HandlerAt("delete") /\ Top.next \in DOMAIN Ports
  /\ socket' = [s \in Slots |-> IF s \in built[Top.next] THEN "closed" ELSE socket[s]]
  /\ deleted' = deleted \cup {Top.next}
  /\ undefined' = (undefined \/ dangling \/ Top.next \in deleted \/ Top.next \notin DOMAIN servers)
  /\ frames' = [frames EXCEPT ![Len(frames)].next = @ + 1]
  /\ UNCHANGED <<pc, server, port, built, servers, listeningSockets, epollFd, registered, events, installed, dangling>>
\* The Server's destructor closes its listening sockets.
DeleteServer ==
  /\ HandlerAt("delete") /\ Top.next \in DOMAIN servers
  /\ LET dead == servers[Top.next] IN
       /\ socket' = [s \in Slots |-> IF s \in built[dead] THEN "closed" ELSE socket[s]]
       /\ deleted' = deleted \cup {dead}
       /\ undefined' = (undefined \/ dangling \/ dead \in deleted)
  /\ frames' = [frames EXCEPT ![Len(frames)].next = @ + 1]
  /\ UNCHANGED <<pc, server, port, built, servers, listeningSockets, epollFd, registered, events, installed, dangling>>

\* Variant: the loop over the Servers ends one early.
ClearEarly ==
  /\ HandlerAt("delete") /\ Top.next >= Len(servers)
  /\ TopGoes("exit")
  /\ servers' = <<>> /\ listeningSockets' = {} /\ events' = 0
  /\ undefined' = (undefined \/ dangling)
  /\ UNCHANGED <<pc, server, port, socket, built, deleted, epollFd, registered, installed, dangling>>
Clear ==
  /\ HandlerAt("delete") /\ Top.next \notin DOMAIN servers
  /\ TopGoes("exit")
  /\ servers' = <<>> /\ listeningSockets' = {} /\ events' = 0
  /\ undefined' = (undefined \/ dangling)
  /\ UNCHANGED <<pc, server, port, socket, built, deleted, epollFd, registered, installed, dangling>>

Exit ==
  /\ HandlerAt("exit")
  /\ pc' = "ended"
  /\ UNCHANGED <<server, port, socket, built, manager, process>>

(***************************************************************************)
(* Specification                                                           *)
(***************************************************************************)
Init ==
  /\ pc = "handleSignals" /\ server = 1 /\ port = 1
  /\ socket = [s \in Slots |-> "none"]
  /\ built = [i \in DOMAIN Ports |-> {}]
  /\ servers = <<>> /\ deleted = {} /\ listeningSockets = {}
  /\ epollFd = "none" /\ registered = {} /\ events = 0
  /\ installed = FALSE /\ dangling = FALSE /\ frames = <<>> /\ undefined = FALSE

Main ==
  \/ HandleSignals \/ NextPort \/ Create \/ Bind \/ Listen \/ Catch
  \/ PushServer \/ EpollCreate \/ AddListeningSocket \/ EventsLoop \/ Unwind
Handler == CloseEpoll \/ DeleteServer \/ Clear \/ Exit
Next == Main \/ Handler \/ \E sig \in Signals : Signal(sig)

\* The process is scheduled; nobody owes it a signal.
Spec == Init /\ [][Next]_vars /\ WF_vars(Main) /\ WF_vars(Handler)

(***************************************************************************)
(* Properties                                                              *)
(***************************************************************************)
Frame == [sig : Signals, at : {"epoll", "delete", "exit"}, next : Nat \ {0}]

\* Every variable has its type.
TypeOK ==
  /\ pc \in {"handleSignals", "port", "create", "bind", "listen", "catch", "add", "loop", "threw", "ended"}
  /\ server \in 1..(Len(Ports) + 1) /\ port \in Nat \ {0}
  /\ pc \in {"create", "bind", "listen", "catch"} => Slot \in Slots
  /\ socket \in [Slots -> {"none", "open", "bound", "listening", "closed"}]
  /\ built \in [DOMAIN Ports -> SUBSET Slots]
  /\ servers \in Seq(DOMAIN Ports) /\ deleted \subseteq DOMAIN Ports
  /\ listeningSockets \subseteq Slots /\ registered \subseteq Slots
  /\ epollFd \in {"none", "open", "closed"} /\ events \in Nat
  /\ installed \in BOOLEAN /\ dangling \in BOOLEAN /\ undefined \in BOOLEAN
  /\ frames \in Seq(Frame)

\* The loop starts with every socket that listens, and no other, in listeningSockets
\* and in the interest list, and with one place for each in events: with none, and
\* epoll_wait fails for ever, exactly if no port could be had.
LoopHearsEveryPort ==
  pc = "loop" /\ frames = <<>> =>
    /\ listeningSockets = {s \in Slots : socket[s] = "listening"}
    /\ registered = listeningSockets
    /\ events = Cardinality(registered)

\* One signal, wherever it arrives, deletes every Server that has been pushed and
\* closes its sockets; what is still open at exit belongs to the Server in the making.
OneSignalClosesAll ==
  pc = "ended" /\ Len(frames) = 1 =>
    /\ epollFd # "open"
    /\ \A s \in Slots : socket[s] \in {"open", "bound", "listening"} => s[1] = server

\* Nothing is deleted twice or used after its end, unless a second signal interrupts
\* the handler or a signal follows the exception that ended the constructor.
UndefinedOnlyIfInterrupted ==
  undefined => Len(frames) > 1 \/ dangling

\* Whatever fails, the loop is entered or the process ends.
StartsOrEnds == <>(pc \in {"loop", "ended"})
=============================================================================
