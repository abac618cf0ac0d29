----------------------------- MODULE MCCrudService -----------------------------
(* Instances of CrudService for TLC.                                           *)
EXTENDS CrudService, TLC

P(named, price, stock) == [named |-> named, price |-> price, stock |-> stock]

\* 2^31 is scaled down to 2: an int32 is in -2 .. 1.
MCHalf == 2

\* Interleavings, faults and cursors: one product, which the service accepts.
GoodSeed == {P(TRUE, "pos", 1)}

\* Data: for each clause of the validation a product that only this clause
\* refuses, one that no JSON text exists for, one whose stock does not fit in
\* an int32 and one that fits exactly.
AllKinds ==
    {P(TRUE, "pos", 1), P(TRUE, "pos", 2), P(TRUE, "pos", -1), P(TRUE, "pos", -2), P(TRUE, "pos", -3),
     P(TRUE, "nonfinite", 1), P(TRUE, "nonpos", 1), P(FALSE, "pos", 1)}

RequestsAndIds == Permutations(Requests) \cup Permutations(Ids)
===============================================================================
