------------------------- MODULE CgiExecutionProofs -------------------------
(* Proofs about CgiExecution, for any capacity, buffer, bodies and outputs. *)
EXTENDS CgiExecution, TLAPS

----------------------------------------------------------------------------
(* The invariant.                                                          *)

\* Which ends the server has open, and what the child may be, in each phase.
Phases ==
  /\ pc = "start" => fds = {} /\ child = "none"
  /\ pc = "fork" => fds = PipeEnds /\ child = "none"
  /\ pc = "write" => fds = {"in1", "out0"} /\ child \in {"running", "exit0", "exit1"}
  /\ pc = "read" => fds = {"out0"} /\ child \in {"running", "exit0", "exit1"}
  /\ pc = "wait" => fds = {} /\ child \in {"exit0", "exit1", "killed"}
  /\ pc = "done" => child = "none" \/ (child = "reaped" /\ fds = {})
  /\ pc = "crashed" => fds = {} /\ child \in {"exit0", "exit1"}

\* Of the body some may have been read by the script; of the output every unit is in
\* the pipe or with the server.
Accounts ==
  /\ bodyLeft + in <= script.body
  /\ got + out = written
  /\ child = "exit0" => AllWritten

\* The read loop ended at the end of the output unless max_wait had passed.
Complete ==
  /\ pc = "wait" /\ ~late => out = 0
  /\ response = "ok" => pc = "done"
  /\ TruncatedOnlyWhenLate

CgiInv == TypeOK /\ Phases /\ Accounts /\ Complete

LEMMA Min2Is ==
  ASSUME NEW a \in Nat, NEW b \in Nat
  PROVE  Min2(a, b) \in Nat /\ Min2(a, b) <= a /\ Min2(a, b) <= b
BY DEF Min2

\* The parts of a script that a run of it uses.
LEMMA ScriptParts ==
  ASSUME script \in [manner : Manners, output : Outputs, body : Bodies]
  PROVE  script.body \in Nat /\ script.output \in Nat /\ script.manner \in Manners
BY CgiAssumption DEF CgiAssumption

LEMMA InitCgi == Init => CgiInv
<1> SUFFICES ASSUME Init PROVE CgiInv
  OBVIOUS
<1>1. script.body \in Nat
  BY ScriptParts DEF Init
<1>2. TypeOK
  <2>1. 0 \in 0..PipeCapacity
    BY CgiAssumption DEF CgiAssumption
  <2>2. bodyLeft \in Nat
    BY <1>1 DEF Init
  <2> QED
    BY <2>1, <2>2 DEF Init, TypeOK
<1>3. Phases /\ Accounts /\ Complete
  BY <1>1 DEF Init, Phases, Accounts, Complete, TruncatedOnlyWhenLate
<1> QED
  BY <1>2, <1>3 DEF CgiInv

----------------------------------------------------------------------------
(* The server's steps.                                                     *)

\* What every step may use of the state before it.
LEMMA CgiFacts ==
  ASSUME CgiInv
  PROVE  /\ PipeCapacity \in Nat \ {0} /\ BufferSize \in Nat \ {0}
         /\ script.body \in Nat /\ script.output \in Nat /\ script.manner \in Manners
         /\ bodyLeft \in Nat /\ in \in Nat /\ out \in Nat /\ in <= PipeCapacity /\ out <= PipeCapacity
         /\ written \in Nat /\ got \in Nat
BY ScriptParts, CgiAssumption DEF CgiInv, TypeOK, CgiAssumption

LEMMA RefuseStep == ASSUME CgiInv, Refuse PROVE CgiInv'
BY DEF CgiInv, Refuse, Error, process, TypeOK, Phases, Accounts, AllWritten, Complete, TruncatedOnlyWhenLate

LEMMA MakePipesStep == ASSUME CgiInv, MakePipes PROVE CgiInv'
BY DEF CgiInv, MakePipes, Error, process, TypeOK, Phases, Accounts, AllWritten, Complete, TruncatedOnlyWhenLate, PipeEnds

LEMMA ForkStep == ASSUME CgiInv, Fork PROVE CgiInv'
<1>1. TypeOK'
  BY DEF CgiInv, Fork, Error, process, TypeOK
<1>2. Phases'
  BY DEF CgiInv, Fork, Error, Phases, PipeEnds
<1>3. Accounts' /\ Complete'
  BY DEF CgiInv, Fork, Error, process, Phases, Accounts, AllWritten, Complete, TruncatedOnlyWhenLate
<1> QED
  BY <1>1, <1>2, <1>3 DEF CgiInv

LEMMA WriteBodyStep == ASSUME CgiInv, WriteBody PROVE CgiInv'
<1> DEFINE n == Min2(bodyLeft, PipeCapacity - in)
<1>1. n \in Nat /\ n <= bodyLeft /\ n <= PipeCapacity - in
  <2>1. PipeCapacity - in \in Nat /\ bodyLeft \in Nat
    BY CgiFacts
  <2> QED
    BY <2>1, Min2Is
<1>2. bodyLeft' = bodyLeft - n /\ in' = in + n
  BY DEF WriteBody
<1> HIDE DEF n
<1>3. bodyLeft' \in Nat /\ in' \in 0..PipeCapacity /\ bodyLeft' + in' = bodyLeft + in
  BY <1>1, <1>2, CgiFacts
<1>4. TypeOK'
  BY <1>3 DEF CgiInv, WriteBody, TypeOK
<1>5. Phases' /\ Accounts' /\ Complete'
  BY <1>3 DEF CgiInv, WriteBody, Phases, Accounts, AllWritten, Complete, TruncatedOnlyWhenLate
<1> QED
  BY <1>4, <1>5 DEF CgiInv

LEMMA BrokenPipeStep == ASSUME CgiInv, BrokenPipe PROVE CgiInv'
BY DEF CgiInv, BrokenPipe, HasReader, process, TypeOK, Phases, Accounts, AllWritten, Complete, TruncatedOnlyWhenLate

LEMMA StartReadingStep == ASSUME CgiInv, StartReading PROVE CgiInv'
<1>1. TypeOK' /\ Phases'
  BY DEF CgiInv, StartReading, process, TypeOK, Phases
<1>2. Accounts' /\ Complete'
  BY DEF CgiInv, StartReading, process, Accounts, AllWritten, Complete, TruncatedOnlyWhenLate
<1> QED
  BY <1>1, <1>2 DEF CgiInv

LEMMA ReadOutputStep == ASSUME CgiInv, ReadOutput PROVE CgiInv'
<1> DEFINE n == Min2(out, BufferSize)
<1>1. n \in Nat /\ n <= out
  BY CgiFacts, Min2Is
<1>2. out' = out - n /\ got' = got + n
  BY DEF ReadOutput
<1> HIDE DEF n
<1>3. out' \in 0..PipeCapacity /\ got' \in Nat /\ got' + out' = got + out
  BY <1>1, <1>2, CgiFacts
<1>4. TypeOK' /\ Phases'
  BY <1>3 DEF CgiInv, ReadOutput, TypeOK, Phases
<1>5. Accounts' /\ Complete'
  BY <1>3 DEF CgiInv, ReadOutput, Accounts, AllWritten, Complete, TruncatedOnlyWhenLate
<1> QED
  BY <1>4, <1>5 DEF CgiInv

LEMMA EndOfOutputStep == ASSUME CgiInv, EndOfOutput PROVE CgiInv'
BY DEF CgiInv, EndOfOutput, HasWriter, process, TypeOK, Phases, Accounts, AllWritten, Complete, TruncatedOnlyWhenLate

\* The answer is a 200 only of a script that wrote all it had to write.
LEMMA WaitChildStep == ASSUME CgiInv, WaitChild PROVE CgiInv'
<1>1. TypeOK' /\ Phases'
  BY DEF CgiInv, WaitChild, process, TypeOK, Phases
<1>2. Accounts' /\ Complete'
  BY CgiFacts DEF CgiInv, WaitChild, process, Accounts, AllWritten, Complete, TruncatedOnlyWhenLate
<1> QED
  BY <1>1, <1>2 DEF CgiInv

----------------------------------------------------------------------------
(* The script's steps, and the clock's.                                    *)

LEMMA ReadsStep == ASSUME CgiInv, Reads PROVE CgiInv'
BY CgiFacts DEF CgiInv, Reads, TypeOK, Phases, Accounts, AllWritten, Complete, TruncatedOnlyWhenLate

LEMMA WritesStep == ASSUME CgiInv, Writes PROVE CgiInv'
<1>1. TypeOK' /\ Phases'
  BY CgiFacts DEF CgiInv, Writes, WantsToWrite, TypeOK, Phases
<1>2. Accounts' /\ Complete'
  BY CgiFacts DEF CgiInv, Writes, WantsToWrite, Phases, Accounts, AllWritten, Complete, TruncatedOnlyWhenLate
<1> QED
  BY <1>1, <1>2 DEF CgiInv

LEMMA ExitsStep == ASSUME CgiInv, Exits PROVE CgiInv'
BY DEF CgiInv, Exits, process, TypeOK, Phases, Accounts, AllWritten, Complete, TruncatedOnlyWhenLate

LEMMA FailsStep == ASSUME CgiInv, Fails PROVE CgiInv'
BY DEF CgiInv, Fails, process, TypeOK, Phases, Accounts, AllWritten, Complete, TruncatedOnlyWhenLate

LEMMA TimePassesStep == ASSUME CgiInv, TimePasses PROVE CgiInv'
BY DEF CgiInv, TimePasses, process, TypeOK, Phases, Accounts, AllWritten, Complete, TruncatedOnlyWhenLate

LEMMA CgiUnchanged == ASSUME CgiInv, UNCHANGED vars PROVE CgiInv'
BY DEF CgiInv, vars, TypeOK, Phases, Accounts, AllWritten, Complete, TruncatedOnlyWhenLate

LEMMA CgiStep == CgiInv /\ [Next]_vars => CgiInv'
<1> SUFFICES ASSUME CgiInv, [Next]_vars PROVE CgiInv'
  OBVIOUS
<1>1. ASSUME Server PROVE CgiInv'
  BY <1>1, RefuseStep, MakePipesStep, ForkStep, WriteBodyStep, BrokenPipeStep, StartReadingStep,
     ReadOutputStep, EndOfOutputStep, WaitChildStep DEF Server
<1>2. ASSUME Script \/ Fails \/ TimePasses PROVE CgiInv'
  BY <1>2, ReadsStep, WritesStep, ExitsStep, FailsStep, TimePassesStep DEF Script
<1> QED
  BY <1>1, <1>2, CgiUnchanged DEF Next, Terminated

----------------------------------------------------------------------------
(* The theorems.                                                           *)

LEMMA NobodyWaitsForTheDead == CgiInv => WaitsOnlyForLiveChild
BY DEF CgiInv, Phases, WaitsOnlyForLiveChild, Blocked, HasReader, CanRead, HasWriter

\* In write() a full pipe and a rest of the body make a body beyond the capacity; in
\* read() the input is closed, so that only a full output could hold the script up;
\* and waitpid() is not reached while it runs.
LEMMA WaitingNeedsBody == CgiInv => NoMutualWait
<1> SUFFICES ASSUME CgiInv, Blocked, ScriptBlocked PROVE script.body > PipeCapacity
  BY DEF NoMutualWait
<1>1. CASE pc = "write" /\ bodyLeft > 0 /\ in = PipeCapacity
  BY <1>1, CgiFacts DEF CgiInv, Accounts
<1>2. CASE pc = "read" /\ ~CanRead
  BY <1>2, CgiFacts DEF CgiInv, Phases, CanRead, ScriptBlocked, WantsToWrite, InputEnded
<1>3. CASE pc = "wait" /\ child = "running"
  BY <1>3 DEF CgiInv, Phases
<1> QED
  BY <1>1, <1>2, <1>3 DEF Blocked

LEMMA CgiAlways == Spec => []CgiInv
BY InitCgi, CgiStep, PTL DEF Spec

\* When handleCgiScript returns after a fork, the child has been waited for and every
\* pipe end is closed, whatever failed and whenever the script was killed.
THEOREM HandlerReturnsClean == Spec => []ReturnsClean
<1>1. CgiInv => ReturnsClean
  BY DEF CgiInv, Phases, ReturnsClean
<1> QED
  BY <1>1, CgiAlways, PTL

\* A 200 answer of a script is its whole output, unless max_wait had passed.
THEOREM OutputIsWhole == Spec => []TruncatedOnlyWhenLate
<1>1. CgiInv => TruncatedOnlyWhenLate
  BY DEF CgiInv, Complete
<1> QED
  BY <1>1, CgiAlways, PTL

\* No call of the server blocks once the child is gone.
THEOREM BlocksOnlyOnLiveChild == Spec => []WaitsOnlyForLiveChild
BY NobodyWaitsForTheDead, CgiAlways, PTL

\* Server and script wait for each other only over a body larger than a pipe.
THEOREM DeadlockNeedsLargeBody == Spec => []NoMutualWait
BY WaitingNeedsBody, CgiAlways, PTL
=============================================================================
