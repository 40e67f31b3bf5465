----------------------------- MODULE MergeGate -----------------------------
(***************************************************************************)
(* What the auto-merge helper promises, without requests, retries or       *)
(* snapshots: a run acts on the pull request only after it has seen it     *)
(* eligible, tells the truth about what happened, and once it has told     *)
(* that it skipped never acts.  The world may arm, merge or close the pull *)
(* request at any time.                                                    *)
(***************************************************************************)
CONSTANT Runs

VARIABLES life, armedOnce,  \* the pull request
          seen,             \* runs that saw it eligible
          did, told         \* what each run has done, and reported

vars == <<life, armedOnce, seen, did, told>>

Init == /\ life = "open" /\ armedOnce = FALSE
        /\ seen = {}
        /\ did = [r \in Runs |-> "nothing"]
        /\ told = [r \in Runs |-> "none"]

See(r) == /\ told[r] = "none"
          /\ seen' = seen \cup {r}
          /\ UNCHANGED <<life, armedOnce, did, told>>

\* A run may repeat itself (a retried request) but not change its mind, and
\* only one of them can merge.
Act(r, m) == /\ r \in seen
             /\ told[r] \notin {"skipped", "dry-run"}
             /\ did[r] \in {"nothing", m}
             /\ life = "open"
             /\ did' = [did EXCEPT ![r] = m]
             /\ IF m = "merge"
                THEN life' = "merged" /\ UNCHANGED armedOnce
                ELSE armedOnce' = TRUE /\ UNCHANGED life
             /\ UNCHANGED <<seen, told>>

True(r, o) == /\ o = "merged" => did[r] = "merge" /\ life = "merged"
              /\ o = "enabled" => armedOnce
              /\ o \in {"skipped", "dry-run"} => did[r] = "nothing"

Tell(r, o) == /\ told[r] = "none"
              /\ True(r, o)
              /\ told' = [told EXCEPT ![r] = o]
              /\ seen' \in {seen, seen \cup {r}}
              /\ UNCHANGED <<life, armedOnce, did>>

World == /\ life' \in (IF life = "merged" THEN {"merged"}
                                          ELSE {"open", "merged", "closed"})
         /\ armedOnce' \in (IF armedOnce THEN {TRUE} ELSE BOOLEAN)
         /\ UNCHANGED <<seen, did, told>>

Next == \/ \E r \in Runs :
             \/ See(r)
             \/ \E m \in {"enable", "merge"} : Act(r, m)
             \/ \E o \in {"dry-run", "skipped", "enabled", "merged", "error"} :
                  Tell(r, o)
        \/ World

Spec == Init /\ [][Next]_vars
=============================================================================
