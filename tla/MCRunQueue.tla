---------------------------- MODULE MCRunQueue ----------------------------
(* Instances of RunQueue for TLC.                                          *)
EXTENDS RunQueue, TLC
CONSTANTS b1, b2

(* Every channel but &runout shares one bucket.                            *)
HashApart == [chan \in AllChans |-> IF chan = Runout THEN b1 ELSE b2]

(* An ordinary channel shares the bucket of &runout.                       *)
HashTogether == [chan \in AllChans |-> b1]

UserSymmetry == Permutations(Users)
=============================================================================
