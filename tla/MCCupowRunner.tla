--------------------------- MODULE MCCupowRunner ---------------------------
(* CupowRunner on small instances: an output with a witness and one without,*)
(* two runs for each, whose temporary path is the same or another.         *)
EXTENDS CupowRunner, TLC

CONSTANTS r1, r2, r3, r4, o1, o2, t1, t2, w1

MCOutputOf == r1 :> o1 @@ r2 :> o1 @@ r3 :> o2 @@ r4 :> o2
OneTemporary == o1 :> t1 @@ o2 :> t1
OwnTemporaries == o1 :> t1 @@ o2 :> t2
OneWitness == o1 :> w1 @@ o2 :> None
SharedWitness == o1 :> w1 @@ o2 :> w1
SharingRuns == r1 :> o1 @@ r2 :> o2
=============================================================================
