------------------------------- MODULE MCKernel ------------------------------
(* Core and swap space, processes, raw transfers and the terminal for TLC,   *)
(* checked side by side: part says whose steps a behaviour takes.            *)
EXTENDS Core, Proc, Rawio, Tty

CONSTANT Parts

VARIABLE part

kernelVars == <<coreVars, procVars, rawVars, ttyVars, part>>

(* Three families: two users each with a traced child; a child, a grandchild *)
(* and a great-grandchild of process 1; a single process that forks.         *)
PTrees == {[parent |-> <<0, 1, 1, 2, 3>>, traced |-> {4, 5}],
           [parent |-> <<0, 1, 2, 3, 0>>, traced |-> {}],
           [parent |-> <<0, 1, 0, 0, 0>>, traced |-> {}]}

KernelInit == CoreInit /\ ProcInit /\ RawInit /\ TtyInit /\ part \in Parts

KernelNext ==
    /\ UNCHANGED part
    /\ \/ /\ part = "core" /\ CoreNext
          /\ UNCHANGED <<procVars, rawVars, ttyVars>>
       \/ /\ part = "proc" /\ ProcNext
          /\ UNCHANGED <<coreVars, rawVars, ttyVars>>
       \/ /\ part = "raw" /\ RawNext
          /\ UNCHANGED <<coreVars, procVars, ttyVars>>
       \/ /\ part = "tty" /\ TtyNext
          /\ UNCHANGED <<coreVars, procVars, rawVars>>

KernelSpec == KernelInit /\ [][KernelNext]_kernelVars

==============================================================================
