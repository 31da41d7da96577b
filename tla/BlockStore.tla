----------------------------- MODULE BlockStore -----------------------------
(***************************************************************************)
(* What the buffer cache promises its callers when the disk does not fail: *)
(* one value per block, a block in the hands of at most one process at a   *)
(* time, reads that see the last write.  There are no buffers, no requests *)
(* and no sleeping here: Bio implements this specification.                *)
(***************************************************************************)
CONSTANTS Procs, Blocks, Vals, Zero, None

VARIABLES
    store,      \* the value of each block
    lock,       \* who has the block
    seen        \* what a process that read a block was shown

vars == <<store, lock, seen>>

Init ==
    /\ store = [n \in Blocks |-> Zero]
    /\ lock = [n \in Blocks |-> None]
    /\ seen = [p \in Procs |-> None]

(* bread shows the contents; getblk, for a caller that will overwrite the   *)
(* block, does not.                                                         *)
Acquire(p, n) ==
    /\ lock[n] = None
    /\ lock' = [lock EXCEPT ![n] = p]
    /\ \/ seen' = [seen EXCEPT ![p] = store[n]]
       \/ UNCHANGED seen
    /\ UNCHANGED store

Release(p, n) ==
    /\ lock[n] = p
    /\ lock' = [lock EXCEPT ![n] = None]
    /\ seen' = [seen EXCEPT ![p] = None]
    /\ UNCHANGED store

(* bwrite, bdwrite and bawrite differ only in when the disk is written. *)
Write(p, n, v) ==
    /\ lock[n] = p
    /\ store' = [store EXCEPT ![n] = v]
    /\ lock' = [lock EXCEPT ![n] = None]
    /\ seen' = [seen EXCEPT ![p] = None]

Next ==
    \E p \in Procs, n \in Blocks :
        \/ Acquire(p, n)
        \/ Release(p, n)
        \/ \E v \in Vals : Write(p, n, v)

Spec == Init /\ [][Next]_vars
=============================================================================
