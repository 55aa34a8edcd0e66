---------------------------- MODULE CgiExecution ----------------------------
(***************************************************************************)
(* HttpResponse::handleCgiScript of src/src/http/HttpResponse.cpp: the     *)
(* server forks an interpreter, writes the request's body to its standard  *)
(* input, reads its standard output, and waits for it, all in blocking     *)
(* calls of the only thread.                                               *)
(*                                                                         *)
(* A call that blocks is an action that is not enabled.  Pipes hold        *)
(* PipeCapacity units; the script runs by itself between any two calls of  *)
(* the server.  A pipe end is named by the pipe and 0 (read) or 1 (write). *)
(***************************************************************************)
EXTENDS Integers

CONSTANTS
  PipeCapacity,  \* what a pipe holds
  BufferSize,    \* what one read() of the output returns at most
  Bodies,        \* sizes of request bodies
  Outputs        \* sizes of outputs

ASSUME CgiAssumption ==
  /\ PipeCapacity \in Nat \ {0} /\ BufferSize \in Nat \ {0}
  /\ Bodies \subseteq Nat /\ Outputs \subseteq Nat

\* A script reads its whole input before it writes, or after, or never.
Manners == {"reads_first", "writes_first", "ignores"}
PipeEnds == {"in0", "in1", "out0", "out1"}

VARIABLES
  pc,        \* "start", "fork", "write", "read", "wait", "done", "crashed"
  fds,       \* pipe ends the server has open
  bodyLeft,  \* what is left of the body to write
  in, out,   \* what the pipes hold
  child,     \* "none", "running", "exit0", "exit1", "killed" or "reaped"
  script,    \* its manners, the size of its output and of the body it is given
  written,   \* what the script has written
  got,       \* what the server has read: cgiOutput
  late,      \* whether max_wait has passed since start_time
  response   \* "none", "ok" or "error"

vars == <<pc, fds, bodyLeft, in, out, child, script, written, got, late, response>>
process == <<bodyLeft, in, out, script, written, got>>

Min2(a, b) == IF a < b THEN a ELSE b

Init ==
  /\ pc = "start" /\ fds = {} /\ in = 0 /\ out = 0 /\ child = "none"
  /\ script \in [manner : Manners, output : Outputs, body : Bodies]
  /\ bodyLeft = script.body
  /\ written = 0 /\ got = 0 /\ late = FALSE /\ response = "none"

Error == pc' = "done" /\ response' = "error"
----------------------------------------------------------------------------
(* The server.                                                             *)

\* No route, no such file, or not a script's extension.
Refuse == pc = "start" /\ Error /\ UNCHANGED <<fds, child, late, process>>

\* Both pipes; when the second fails the first stays open.
MakePipes ==
  /\ pc = "start"
  /\ \/ fds' = PipeEnds /\ pc' = "fork" /\ UNCHANGED response
     \/ fds' \in {{}, {"in0", "in1"}} /\ Error
  /\ UNCHANGED <<child, late, process>>

\* Variant: the parent keeps the write end of the output.
ForkKeepsOutput ==
  /\ pc = "fork"
  /\ \/ /\ child' = "running" /\ fds' = fds \ {"in0"}
        /\ pc' = "write" /\ UNCHANGED response
     \/ Error /\ UNCHANGED <<child, fds>>
  /\ UNCHANGED <<late, process>>

\* fork(), and the parent closes the ends it does not use.  When fork fails it
\* closes none.
Fork ==
  /\ pc = "fork"
  /\ \/ /\ child' = "running" /\ fds' = fds \ {"in0", "out1"}
        /\ pc' = "write" /\ UNCHANGED response
     \/ Error /\ UNCHANGED <<child, fds>>
  /\ UNCHANGED <<late, process>>

HasReader == child = "running" \/ "in0" \in fds
HasWriter == child = "running" \/ "out1" \in fds

\* write() copies what fits, and blocks while the pipe is full.
WriteBody ==
  /\ pc = "write" /\ bodyLeft > 0 /\ HasReader /\ in < PipeCapacity
  /\ LET n == Min2(bodyLeft, PipeCapacity - in) IN
     bodyLeft' = bodyLeft - n /\ in' = in + n
  /\ UNCHANGED <<pc, fds, out, child, script, written, got, late, response>>

\* Nobody reads the input: SIGPIPE, which the server does not handle.
BrokenPipe ==
  /\ pc = "write" /\ bodyLeft > 0 /\ ~HasReader
  /\ pc' = "crashed" /\ fds' = {}
  /\ UNCHANGED <<child, late, response, process>>

\* Variant: the input is left open.
StartReadingKeepsInput ==
  /\ pc = "write" /\ bodyLeft = 0
  /\ pc' = "read" /\ late' = FALSE
  /\ UNCHANGED <<child, fds, response, process>>

\* The body is written: close the input and start the clock.
StartReading ==
  /\ pc = "write" /\ bodyLeft = 0
  /\ fds' = fds \ {"in1"} /\ pc' = "read" /\ late' = FALSE
  /\ UNCHANGED <<child, response, process>>

\* Variants of ReadOutput: the output is read once, not to its end; the timeout
\* returns at once, without waiting for the child.
ReadsOnce ==
  /\ pc = "read" /\ out > 0
  /\ LET n == Min2(out, BufferSize) IN out' = out - n /\ got' = got + n
  /\ pc' = "wait" /\ fds' = fds \ {"out0"}
  /\ child' = IF late /\ child = "running" THEN "killed" ELSE child
  /\ UNCHANGED <<bodyLeft, in, script, written, late, response>>
TimeoutReturns ==
  /\ pc = "read" /\ out > 0
  /\ LET n == Min2(out, BufferSize) IN out' = out - n /\ got' = got + n
  /\ IF late
     THEN /\ fds' = fds \ {"out0"} /\ Error
          /\ child' = IF child = "running" THEN "killed" ELSE child
     ELSE UNCHANGED <<pc, fds, child, response>>
  /\ UNCHANGED <<bodyLeft, in, script, written, late>>

\* read() returns data.  Only then is the clock looked at: when it is late the
\* child is killed (in vain if it has exited) and the rest is not read.
ReadOutput ==
  /\ pc = "read" /\ out > 0
  /\ LET n == Min2(out, BufferSize) IN out' = out - n /\ got' = got + n
  /\ IF late
     THEN /\ pc' = "wait" /\ fds' = fds \ {"out0"}
          /\ child' = IF child = "running" THEN "killed" ELSE child
     ELSE UNCHANGED <<pc, fds, child>>
  /\ UNCHANGED <<bodyLeft, in, script, written, late, response>>

EndOfOutput ==
  /\ pc = "read" /\ out = 0 /\ ~HasWriter
  /\ pc' = "wait" /\ fds' = fds \ {"out0"}
  /\ UNCHANGED <<child, late, response, process>>

\* waitpid() returns: an output (its first unit holds the separator of headers and
\* body) of a script that exited with 0, else an error page.
WaitChild ==
  /\ pc = "wait" /\ child \in {"exit0", "exit1", "killed"}
  /\ child' = "reaped" /\ pc' = "done"
  /\ response' = IF child = "exit0" /\ got > 0 THEN "ok" ELSE "error"
  /\ UNCHANGED <<fds, late, process>>

Server ==
  \/ Refuse \/ MakePipes \/ Fork \/ WriteBody \/ BrokenPipe \/ StartReading
  \/ ReadOutput \/ EndOfOutput \/ WaitChild
----------------------------------------------------------------------------
(* The script, and the clock.                                              *)

InputEnded == in = 0 /\ "in1" \notin fds
AllWritten == written = script.output

Reads ==
  /\ child = "running" /\ in > 0
  /\ \/ script.manner = "reads_first"
     \/ script.manner = "writes_first" /\ AllWritten
  /\ in' = in - 1
  /\ UNCHANGED <<pc, fds, bodyLeft, out, child, script, written, got, late, response>>

WantsToWrite ==
  /\ child = "running" /\ ~AllWritten
  /\ script.manner = "reads_first" => InputEnded

\* The server closes the output only when the script is gone or killed, so a script
\* never writes to nobody.
Writes ==
  /\ WantsToWrite /\ "out0" \in fds /\ out < PipeCapacity
  /\ out' = out + 1 /\ written' = written + 1
  /\ UNCHANGED <<pc, fds, bodyLeft, in, child, script, got, late, response>>

Exits ==
  /\ child = "running" /\ AllWritten
  /\ script.manner # "ignores" => InputEnded
  /\ child' = "exit0"
  /\ UNCHANGED <<pc, fds, late, response, process>>

\* execve() fails, or the script does, at any point.
Fails ==
  /\ child = "running" /\ child' = "exit1"
  /\ UNCHANGED <<pc, fds, late, response, process>>

Script == Reads \/ Writes \/ Exits

TimePasses ==
  /\ pc = "read" /\ ~late /\ late' = TRUE
  /\ UNCHANGED <<pc, fds, child, response, process>>

Ended == pc \in {"done", "crashed"}
Terminated == Ended /\ UNCHANGED vars

Next == Server \/ Script \/ Fails \/ TimePasses \/ Terminated

Spec == Init /\ [][Next]_vars

\* Neither the server nor a script that can go on stops; the script may fail.
FairSpec == Spec /\ WF_vars(Server) /\ WF_vars(Script)
----------------------------------------------------------------------------
(* Properties.                                                             *)

\* Every variable has its type.
TypeOK ==
  /\ pc \in {"start", "fork", "write", "read", "wait", "done", "crashed"}
  /\ fds \subseteq PipeEnds /\ bodyLeft \in Nat
  /\ in \in 0..PipeCapacity /\ out \in 0..PipeCapacity
  /\ child \in {"none", "running", "exit0", "exit1", "killed", "reaped"}
  /\ script \in [manner : Manners, output : Outputs, body : Bodies]
  /\ written \in Nat /\ got \in Nat /\ late \in BOOLEAN
  /\ response \in {"none", "ok", "error"}

\* Every variable has its type, and when the handler returns after a fork, no child is left running or unreaped and
\* no pipe end is left open.
ReturnsClean ==
  /\ TypeOK
  /\ pc = "done" /\ child # "none" => child = "reaped" /\ fds = {}

\* A 200 response has all the script wrote, unless max_wait had passed: then the
\* script may have exited with 0 before the kill, its output not read to the end.
TruncatedOnlyWhenLate == response = "ok" /\ ~late => got = written /\ AllWritten

\* Once the child is gone no call of the server blocks.
CanRead == out > 0 \/ ~HasWriter
Blocked ==
  \/ pc = "write" /\ bodyLeft > 0 /\ HasReader /\ in = PipeCapacity
  \/ pc = "read" /\ ~CanRead
  \/ pc = "wait" /\ child = "running"
WaitsOnlyForLiveChild == Blocked => child = "running"

\* Server and script wait for each other only when the body does not fit in the
\* pipe: the server in write(), the script for room in the output nobody reads.
ScriptBlocked ==
  /\ child = "running"
  /\ \/ WantsToWrite /\ "out0" \in fds /\ out = PipeCapacity
     \/ ~WantsToWrite /\ ~AllWritten /\ in = 0
     \/ AllWritten /\ script.manner # "ignores" /\ in = 0 /\ ~InputEnded
NoMutualWait == Blocked /\ ScriptBlocked => script.body > PipeCapacity

\* The handler returns (or the server dies of SIGPIPE) for every body that fits in
\* the pipe, whatever the manners of a script that does not hang.
CgiEnds == script.body <= PipeCapacity ~> Ended
============================================================================
