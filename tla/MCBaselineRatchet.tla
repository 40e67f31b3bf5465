------------------------- MODULE MCBaselineRatchet -------------------------
(* Instances of BaselineRatchet for TLC. *)
EXTENDS BaselineRatchet, TLC

CONSTANT again  \* the runs that may be run again

Attempts == [r \in Runs |-> IF r \in again THEN 2 ELSE 1]

\* Runs of main that are started once differ in nothing, nor do the languages.
Alike == Permutations(MainRuns \ again) \cup Permutations(Measured)
=============================================================================
