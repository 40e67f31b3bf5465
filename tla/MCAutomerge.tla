---------------------------- MODULE MCAutomerge ----------------------------
(* Instances of Automerge for TLC. *)
EXTENDS Automerge, TLC

Fact(a, d, l, s) == [dependabot |-> a, draft |-> d, labelled |-> l, state |-> s]
Input(w, e, n, d, l) == [wellFormed |-> w, event |-> e, number |-> n,
                         dryRun |-> d, label |-> l]

\* Dependabot's pull request in every merge state and without its label, and
\* somebody else's.
EveryFact == {f \in AllFacts : Consistent(f) /\ f.dependabot /\ f.labelled}
             \cup {Fact(TRUE, FALSE, FALSE, "BLOCKED"),
                   Fact(FALSE, FALSE, TRUE, "CLEAN")}

\* What two racing runs can disagree about.
RaceFacts == {Fact(TRUE, FALSE, TRUE, "BLOCKED"), Fact(TRUE, FALSE, TRUE, "UNSTABLE"),
              Fact(TRUE, TRUE, TRUE, "DRAFT")}
LabelFacts == {Fact(TRUE, d, l, "BLOCKED") : d \in BOOLEAN, l \in BOOLEAN}
              \cup {Fact(a, FALSE, TRUE, "CLEAN") : a \in BOOLEAN}

LiveInput == {Input(TRUE, "pull_request", TRUE, FALSE, TRUE)}
\* A live run, dry runs with and without a required label, and one
\* input for each way main can refuse.
AnyInput == {Input(TRUE, "pull_request", FALSE, FALSE, TRUE),
             Input(TRUE, "pull_request", FALSE, TRUE, TRUE),
             Input(TRUE, "pull_request", FALSE, TRUE, FALSE)}
            \cup {Input(FALSE, "none", TRUE, FALSE, TRUE),
                  Input(TRUE, "garbled", TRUE, FALSE, TRUE),
                  Input(TRUE, "other", FALSE, FALSE, TRUE),
                  Input(TRUE, "other", TRUE, TRUE, TRUE)}

NoFaults == {}
LostReplies == {"connectionError", "serverError"}
EveryFault == Transient \cup Fatal \cup {"noNodeId"}

RunSymmetry == Permutations(Runs)
=============================================================================
