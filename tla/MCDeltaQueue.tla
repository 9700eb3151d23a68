----------------------------- MODULE MCDeltaQueue -----------------------------
(* Model values for the bounded checks of DeltaQueue: two deltas of one     *)
(* folder and one of another.                                               *)
EXTENDS DeltaQueue

CONSTANTS r1, r2, d1, d2, d3

MCRootOf == [d \in {d1, d2, d3} |-> IF d = d3 THEN r2 ELSE r1]

=============================================================================
