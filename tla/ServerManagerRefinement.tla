---------------------- MODULE ServerManagerRefinement ----------------------
(* The event loop implements ConnectionService.                            *)
EXTENDS ServerManager

\* The phase of a connection is that of its client; an open socket without a
\* client is lost.
PhaseOf(fd) ==
  CASE ~sock[fd].open -> "free"
    [] sock[fd].open /\ fd \notin DOMAIN Clients -> "lost"
    [] sock[fd].open /\ fd \in DOMAIN Clients ->
         IF Responding(fd) THEN "responding" ELSE "reading"

Service == INSTANCE ConnectionService WITH
  MayLose <- EpollMayFail,
  waiting <- backlog,
  phase <- [fd \in Fd |-> PhaseOf(fd)],
  owner <- [fd \in Fd |-> {s \in Server : fd \in clientSockets[s]}],
  up <- Running

\* Every run of the event loop, its stale events, failing calls and timeouts
\* included, is a run of ConnectionService: no connection changes its server, is
\* left behind once it is served, or responds twice to a request.
ImplementsConnectionService == Service!Spec
============================================================================
