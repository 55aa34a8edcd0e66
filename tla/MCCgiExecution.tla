-------------------------- MODULE MCCgiExecution --------------------------
(* Instances of CgiExecution for TLC: bodies and outputs from empty to     *)
(* beyond what a pipe holds.                                               *)
EXTENDS CgiExecution

MCSizes == 0..(PipeCapacity + 2)
============================================================================
