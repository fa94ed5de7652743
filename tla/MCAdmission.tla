---------------------------- MODULE MCAdmission -----------------------------
(* Instances of Admission for TLC.                                           *)
EXTENDS Admission, TLC

CONSTANTS a, b, onePack, o1, o2

OnePack == [s \in ServiceTypes |-> onePack]

Caps == [s \in {a, onePack} |-> IF s = a THEN 1 ELSE 2]

WithObligations == {[allow |-> TRUE, obligations |-> <<o1>>],
                    [allow |-> TRUE, obligations |-> <<o1, o2>>]}

WorkerSymmetry == Permutations(Workers)
=============================================================================
