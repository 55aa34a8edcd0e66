-------------------------- MODULE MCServerManager --------------------------
(* Instances of ServerManager for TLC.                                     *)
EXTENDS ServerManager, TLC

CONSTANTS s1, s2, l1, l2

\* One listener per server, with one or two servers.
OneServerOf == [l \in {l1} |-> s1]
TwoServersOf == [l \in {l1, l2} |-> IF l = l1 THEN s1 ELSE s2]

\* A file that is streamed, a body sent from memory to a client that asks to
\* close, a response that closes by its code.
FileOutcome == [response |-> [code |-> 200, body |-> FALSE], close |-> FALSE]
ErrorOutcome == [response |-> [code |-> 404, body |-> TRUE], close |-> TRUE]
MovedOutcome == [response |-> [code |-> 301, body |-> FALSE], close |-> FALSE]
\* A response with no body at all, after which the connection is kept.
EmptyOutcome == [response |-> [code |-> 204, body |-> FALSE], close |-> FALSE]
AllOutcomes == {FileOutcome, ErrorOutcome, MovedOutcome, EmptyOutcome}
FewOutcomes == {FileOutcome, ErrorOutcome}
OneOutcome == {EmptyOutcome}

Symmetry == Permutations(Fd)
============================================================================
