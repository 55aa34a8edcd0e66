------------------------- MODULE ConnectionService -------------------------
(***************************************************************************)
(* What the event loop promises about its connections, without the tables  *)
(* it keeps: a connection is accepted from one listener and belongs to the *)
(* server of that listener until it ends; it alternates between reading a  *)
(* request and responding to it; it ends by being dropped, in either       *)
(* phase.  A socket whose registration fails is lost: it stays open,       *)
(* unserved, until the service stops.                                      *)
(***************************************************************************)
EXTENDS Integers

CONSTANTS
  Server,       \* the virtual servers
  Listeners,    \* their listening sockets
  Fd,           \* the numbers a connection can have
  ServerOf,     \* the server of each listener
  MayLose,      \* whether an accepted connection may be lost
  MaxBacklog    \* bound: connections waiting at a listener

VARIABLES
  waiting,   \* connections waiting at each listener
  phase,     \* of each number: "free", "lost", "reading" or "responding"
  owner,     \* the servers a connection belongs to: one, none when it is free
  up         \* whether the service runs

vars == <<waiting, phase, owner, up>>

Init ==
  /\ waiting = [l \in Listeners |-> 0]
  /\ phase = [fd \in Fd |-> "free"]
  /\ owner = [fd \in Fd |-> {}]
  /\ up = TRUE

\* A peer connects.
Arrive(l) ==
  /\ up /\ waiting[l] < MaxBacklog
  /\ waiting' = [waiting EXCEPT ![l] = @ + 1]
  /\ UNCHANGED <<phase, owner, up>>

\* A waiting connection gets a free number.
Accept(l, fd) ==
  /\ up /\ waiting[l] > 0 /\ phase[fd] = "free"
  /\ waiting' = [waiting EXCEPT ![l] = @ - 1]
  /\ \/ phase' = [phase EXCEPT ![fd] = "reading"]
     \/ MayLose /\ phase' = [phase EXCEPT ![fd] = "lost"]
  /\ owner' = [owner EXCEPT ![fd] = {ServerOf[l]}]
  /\ UNCHANGED up

\* A request is complete: from now on the connection responds to it.
Answer(fd) ==
  /\ phase[fd] = "reading"
  /\ phase' = [phase EXCEPT ![fd] = "responding"]
  /\ UNCHANGED <<waiting, owner, up>>

\* The response is done and the connection kept.
Finish(fd) ==
  /\ phase[fd] = "responding"
  /\ phase' = [phase EXCEPT ![fd] = "reading"]
  /\ UNCHANGED <<waiting, owner, up>>

\* The connections of S end together: one by an error or by its response, any
\* number by the timeout.  A lost one is not among them.
Drop(S) ==
  /\ \A fd \in S : phase[fd] \in {"reading", "responding"}
  /\ phase' = [fd \in Fd |-> IF fd \in S THEN "free" ELSE phase[fd]]
  /\ owner' = [fd \in Fd |-> IF fd \in S THEN {} ELSE owner[fd]]
  /\ UNCHANGED <<waiting, up>>

Stop ==
  /\ up /\ up' = FALSE
  /\ waiting' = [l \in Listeners |-> 0]
  /\ phase' = [fd \in Fd |-> "free"]
  /\ owner' = [fd \in Fd |-> {}]

Next ==
  \/ \E l \in Listeners : Arrive(l) \/ \E fd \in Fd : Accept(l, fd)
  \/ \E fd \in Fd : Answer(fd) \/ Finish(fd)
  \/ \E S \in SUBSET Fd : Drop(S)
  \/ Stop

Spec == Init /\ [][Next]_vars
============================================================================
