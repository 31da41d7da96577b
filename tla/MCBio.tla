------------------------------- MODULE MCBio -------------------------------
(* Instances of Bio for TLC. *)
EXTENDS Bio, FiniteSets

CONSTANTS p1, p2, x1, x2, x3, n1, n2, n3

TwoProcs == {p1, p2}
OneProc == {p1}
TwoBufs == {x1, x2}
ThreeBufs == {x1, x2, x3}
Order2 == <<x1, x2>>
Order3 == <<x1, x2, x3>>

ProcSymmetry == Permutations(Procs)
=============================================================================
