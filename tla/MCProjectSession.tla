-------------------------- MODULE MCProjectSession --------------------------
(* Model values for the bounded checks of ProjectSession: two passages, and *)
(* two texts of which one links to the second passage.                      *)
EXTENDS ProjectSession

CONSTANTS p1, p2, linked

MCPassage == {p1, p2}
MCContent == {Empty, linked}
MCLinks == [text \in MCContent |-> IF text = linked THEN {p2} ELSE {}]

=============================================================================
