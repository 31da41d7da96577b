------------------------------- MODULE MCPipe -------------------------------
(* Instances of Pipe for TLC.                                              *)
EXTENDS Pipe, TLC

ProcSymmetry == Permutations(Procs)
=============================================================================
