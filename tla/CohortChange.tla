---------------------------- MODULE CohortChange -----------------------------
(***************************************************************************)
(* What the replacement of project folders promises: the folders of a      *)
(* cohort are replaced together, in one step that no crash, failure or     *)
(* other program splits or takes back, and a caller that is told that a    *)
(* replacement was made, or undone, is told the truth.                     *)
(***************************************************************************)
CONSTANT Project

VARIABLES
    kept,  \* the revision of each folder that will be there in the end
    told   \* what the caller of its replacement was told

vars == <<kept, told>>

TypeOK ==
    /\ kept \in [Project -> {"old", "new"}]
    /\ told \in [Project -> {"nothing", "committed", "restored"}]

Init ==
    /\ kept = [p \in Project |-> "old"]
    /\ told = [p \in Project |-> "nothing"]

Replace(cohort) ==
    /\ \A p \in cohort : kept[p] = "old"
    /\ kept' = [p \in Project |-> IF p \in cohort THEN "new" ELSE kept[p]]
    /\ UNCHANGED told

TellCommitted(cohort) ==
    /\ \A p \in cohort : kept[p] = "new"
    /\ told' = [p \in Project |-> IF p \in cohort THEN "committed" ELSE told[p]]
    /\ UNCHANGED kept

TellRestored(p) ==
    /\ kept[p] = "old"
    /\ told' = [told EXCEPT ![p] = "restored"]
    /\ UNCHANGED kept

Next ==
    \/ \E cohort \in SUBSET Project : Replace(cohort) \/ TellCommitted(cohort)
    \/ \E p \in Project : TellRestored(p)

Spec == Init /\ [][Next]_vars
====
