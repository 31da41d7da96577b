------------------------------ MODULE PipeFifo ------------------------------
(***************************************************************************)
(* What a pipe promises: a queue of bytes between two ends.  A write of at *)
(* most PIPSIZ bytes enters as a whole; a read takes bytes from the front, *)
(* and each byte is taken once; what was written can be read after the     *)
(* writers have gone.                                                      *)
(***************************************************************************)
EXTENDS Naturals, Sequences

CONSTANTS Vals, PIPSIZ

VARIABLES buf,     \* the bytes written and not yet read
          ends,    \* how many of the two ends are open
          last     \* what a read returned that has just ended

vars == <<buf, ends, last>>

Strings(n) == UNION {[1 .. m -> Vals] : m \in 0 .. n}

Init == buf = <<>> /\ ends = 2 /\ last = <<>>

Write(s) == /\ ends = 2 /\ Len(buf) < PIPSIZ
            /\ buf' = buf \o s
            /\ last' = <<>>
            /\ UNCHANGED ends

Read(n) == /\ last' = SubSeq(buf, 1, n)
           /\ buf' = SubSeq(buf, n + 1, Len(buf))
           /\ UNCHANGED ends

Close == ends > 0 /\ ends' = ends - 1 /\ last' = <<>> /\ UNCHANGED buf

Open == ends = 0 /\ ends' = 2 /\ buf' = <<>> /\ last' = <<>>

(* Something else happens.                                                 *)
Quiet == last' = <<>> /\ UNCHANGED <<buf, ends>>

Next == \/ \E s \in Strings(PIPSIZ) : Write(s)
        \/ \E n \in 0 .. Len(buf) : Read(n)
        \/ Close \/ Open \/ Quiet

Spec == Init /\ [][Next]_vars
=============================================================================
