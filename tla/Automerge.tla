----------------------------- MODULE Automerge -----------------------------
(***************************************************************************)
(* The Dependabot auto-merge helper: workflow_scripts/dependabot_automerge *)
(* with its GraphQL client (workflow_scripts/graphql_client) folded in.    *)
(*                                                                         *)
(* Every label, push or review event starts a workflow run of its own and  *)
(* nothing serialises them, so several Runs of the helper work on the one  *)
(* pull request modelled here while people and GitHub change it under      *)
(* them.  A run is a chain of HTTP requests; what it does between two of   *)
(* them is one action.  GitHub takes a request at any moment between the   *)
(* step that sends it and the step that reads the reply, and may still     *)
(* execute a mutation whose connection the helper has given up.            *)
(***************************************************************************)
EXTENDS Naturals

CONSTANTS
  Runs,          \* concurrent workflow runs for the pull request
  MaxRetries,    \* max_retries of request_graphql (3 in the code)
  MaxRefreshes,  \* AUTOMERGE_MERGE_STATE_MAX_ATTEMPTS (default 3)
  Facts,         \* what others may make of the pull request
  Inputs,        \* how a run may be configured
  Faults         \* the ways a request may fail

MergeStateStatus == {"BEHIND", "BLOCKED", "CLEAN", "DIRTY", "DRAFT",
                     "HAS_HOOKS", "MERGED", "UNKNOWN", "UNSTABLE"}
MergeableState == {"CONFLICTING", "MERGEABLE", "UNKNOWN"}

MergeStateDirectMerge == {"CLEAN", "HAS_HOOKS", "UNSTABLE"}
MergeStateSkip == {"DIRTY", "BEHIND", "MERGED"}

AllFacts == [dependabot : BOOLEAN, draft : BOOLEAN, labelled : BOOLEAN,
             state : MergeStateStatus \ {"MERGED", "UNKNOWN"}]

\* GitHub never reports a draft as mergeable, and only a draft as DRAFT.
Consistent(f) == /\ f.draft => f.state \notin MergeStateDirectMerge
                 /\ f.state = "DRAFT" => f.draft

AllInputs == [wellFormed : BOOLEAN,   \* merge method and repository parse
              event : {"none", "garbled", "other", "pull_request"},
              number : BOOLEAN,       \* INPUT_PULL_REQUEST_NUMBER given
              dryRun : BOOLEAN,
              label : BOOLEAN]        \* a required label is configured

Transient == {"connectionError", "rateLimited", "serverError"}
Fatal == {"clientError", "graphqlErrors", "garbled", "notFound"}
\* After these the client cannot tell whether GitHub executed the request.
Ambiguous == {"connectionError", "serverError", "garbled"}

ASSUME RetryAssumption == MaxRetries \in Nat /\ MaxRefreshes \in Nat
ASSUME FactsAssumption == /\ Facts \subseteq AllFacts
                          /\ \A f \in Facts : Consistent(f)
ASSUME InputsAssumption == Inputs \subseteq AllInputs
ASSUME FaultsAssumption ==
         Faults \subseteq Transient \cup Fatal \cup {"noNodeId"}

VARIABLES
  facts, armed, life,    \* the pull request at GitHub
  late,                  \* abandoned mutations GitHub may still execute
  pc, input, view, op,   \* each run: where it is, PullRequestContext, call
  attempt, refreshes, reply, outcome,
  \* history: was the request ever armed; the runs that saw it eligible,
  \* whose mutation was executed, who lost track of one, whose view is current
  armedOnce, vouched, landed, doubtful, fresh

github == <<facts, armed, life, armedOnce>>
client == <<pc, input, view, op, attempt, refreshes, reply, outcome, vouched>>
vars == <<github, client, late, landed, doubtful, fresh>>

Queries == {"fetch", "refresh"}
Mutations == {"enable", "merge"}
Views == [dependabot : BOOLEAN, draft : BOOLEAN, labelled : BOOLEAN,
          armed : BOOLEAN, id : BOOLEAN,
          state : MergeStateStatus, mergeable : MergeableState]
Outcomes == {"dry-run", "skipped", "enabled", "merged", "error"}

-----------------------------------------------------------------------------
\* The pure decisions.

Eligible(v, i) == /\ v.dependabot
                  /\ ~v.draft
                  /\ i.label => v.labelled

\* Skipping comes before a direct merge, and that before another look.
Skips(v) == v.mergeable = "CONFLICTING" \/ v.state \in MergeStateSkip
\* As it would be had GitHub's refusal covered CLEAN alone.
MergesCleanOnly(v) == ~Skips(v) /\ v.state = "CLEAN"
Merges(v) == ~Skips(v) /\ v.state \in MergeStateDirectMerge
Unknown(v) == "UNKNOWN" \in {v.state, v.mergeable}

Classify(v) ==
  CASE Skips(v) -> "skip"
    [] Merges(v) -> "merge"
    [] ~Skips(v) /\ ~Merges(v) /\ Unknown(v) -> "retry"
    [] ~Skips(v) /\ ~Merges(v) /\ ~Unknown(v) -> "ok"

InputFails(i) == \/ ~i.wellFormed
                 \/ i.event = "garbled"
                 \/ i.event # "pull_request" /\ (i.dryRun \/ ~i.number)

\* What a query may report: GitHub computes mergeability lazily, and says
\* UNKNOWN until it has.
Reports ==
  [dependabot : {facts.dependabot}, draft : {facts.draft},
   labelled : {facts.labelled},
   armed : IF life = "open" THEN {armed} ELSE {armed, FALSE},
   id : IF "noNodeId" \in Faults THEN BOOLEAN ELSE {TRUE},
   state : {"UNKNOWN", IF life = "merged" THEN "MERGED" ELSE facts.state},
   mergeable : {"UNKNOWN"} \cup
               {m \in {"CONFLICTING", "MERGEABLE"} :
                  /\ life # "merged"
                  /\ m = "CONFLICTING" <=> facts.state = "DIRTY"}]

EventView == [dependabot |-> facts.dependabot, draft |-> facts.draft,
              labelled |-> facts.labelled, armed |-> FALSE, id |-> FALSE,
              state |-> "UNKNOWN", mergeable |-> "UNKNOWN"]

-----------------------------------------------------------------------------
NoView == [dependabot |-> FALSE, draft |-> FALSE, labelled |-> FALSE,
           armed |-> FALSE, id |-> FALSE,
           state |-> "UNKNOWN", mergeable |-> "UNKNOWN"]
NoInput == [wellFormed |-> FALSE, event |-> "none", number |-> FALSE,
            dryRun |-> FALSE, label |-> FALSE]

Init == /\ facts \in Facts
        /\ armed = FALSE /\ life = "open" /\ armedOnce = FALSE
        /\ late = [r \in Runs |-> 0]
        /\ pc = [r \in Runs |-> "idle"]
        /\ input = [r \in Runs |-> NoInput]
        /\ view = [r \in Runs |-> NoView]
        /\ op = [r \in Runs |-> "none"]
        /\ attempt = [r \in Runs |-> 0]
        /\ refreshes = [r \in Runs |-> 0]
        /\ reply = [r \in Runs |-> "none"]
        /\ outcome = [r \in Runs |-> "none"]
        /\ vouched = {} /\ landed = {} /\ doubtful = {} /\ fresh = {}

\* request_graphql is entered: attempt 0 is on the wire.
Send(r, o) == /\ pc' = [pc EXCEPT ![r] = "await"]
              /\ op' = [op EXCEPT ![r] = o]
              /\ attempt' = [attempt EXCEPT ![r] = 0]
              /\ reply' = [reply EXCEPT ![r] = "none"]
              /\ UNCHANGED outcome

\* _emit_decision or fail: the run ends.
Finish(r, o) == /\ pc' = [pc EXCEPT ![r] = "done"]
                /\ outcome' = [outcome EXCEPT ![r] = o]
                /\ UNCHANGED <<op, attempt, reply>>

Elsewhere == UNCHANGED <<github, late, landed, doubtful, fresh>>

\* GitHub dispatches the workflow, with the event payload of this moment.
Trigger(r) == /\ pc[r] = "idle"
              /\ pc' = [pc EXCEPT ![r] = "queued"]
              /\ \E i \in Inputs : input' = [input EXCEPT ![r] = i]
              /\ view' = [view EXCEPT ![r] = EventView]
              /\ UNCHANGED <<op, attempt, refreshes, reply, outcome, vouched>>
              /\ Elsewhere

\* main: inputs are validated; then the dry-run decision, or the live path.
RejectInput(r) == /\ pc[r] = "queued" /\ InputFails(input[r])
                  /\ Finish(r, "error")
                  /\ UNCHANGED <<input, view, refreshes, vouched>>
                  /\ Elsewhere

DryRun(r) == /\ pc[r] = "queued" /\ ~InputFails(input[r]) /\ input[r].dryRun
             /\ Finish(r, IF Eligible(view[r], input[r]) THEN "dry-run"
                                                          ELSE "skipped")
             /\ UNCHANGED <<input, view, refreshes, vouched>>
             /\ Elsewhere

Fetch(r) == /\ pc[r] = "queued" /\ ~InputFails(input[r]) /\ ~input[r].dryRun
            /\ Send(r, "fetch")
            /\ UNCHANGED <<input, view, refreshes, vouched>>
            /\ Elsewhere

-----------------------------------------------------------------------------
\* _handle_response_or_retry and _parse_graphql_response.

Retry(r) == /\ pc[r] = "answered" /\ reply[r] \in Transient
            /\ attempt[r] < MaxRetries
            /\ pc' = [pc EXCEPT ![r] = "await"]
            /\ attempt' = [attempt EXCEPT ![r] = @ + 1]
            /\ reply' = [reply EXCEPT ![r] = "none"]
            /\ UNCHANGED <<input, view, op, refreshes, outcome, vouched>>
            /\ Elsewhere

\* As if the parser asked every payload for the repository of a query.
GiveUpWithoutRepository(r) ==
  /\ pc[r] = "answered"
  /\ \/ reply[r] \in Fatal
     \/ reply[r] \in Transient /\ attempt[r] >= MaxRetries
     \/ reply[r] = "data" /\ op[r] \in Mutations
  /\ Finish(r, "error")
  /\ UNCHANGED <<input, view, refreshes, vouched>>
  /\ Elsewhere

GiveUp(r) == /\ pc[r] = "answered"
             /\ \/ reply[r] \in Fatal
                \/ reply[r] \in Transient /\ attempt[r] >= MaxRetries
             /\ Finish(r, "error")
             /\ UNCHANGED <<input, view, refreshes, vouched>>
             /\ Elsewhere

\* _handle_live_execution and _refresh_merge_state, between two requests.
Holds(r) == pc[r] = "answered" /\ reply[r] = "data" /\ op[r] \in Queries
\* As if the first snapshot were not evaluated.
AdmittedUnchecked(r) == Holds(r)
\* _evaluate is asked about the first snapshot only.
Admitted(r) == Holds(r) /\ (op[r] = "fetch" => Eligible(view[r], input[r]))
SeenArmed(r) == op[r] = "fetch" /\ view[r].armed
\* As if it gave up one poll early.
RefreshingOnceLess(r) == /\ Classify(view[r]) = "retry"
                         /\ refreshes[r] + 1 < MaxRefreshes
Refreshing(r) == /\ Classify(view[r]) = "retry"
                 /\ refreshes[r] < MaxRefreshes
Settled(r) == Admitted(r) /\ ~SeenArmed(r) /\ ~Refreshing(r)

\* History: the run now knows an eligible snapshot.
Vouch(r) == vouched' = IF Eligible(view[r], input[r]) THEN vouched \cup {r}
                                                      ELSE vouched

Ineligible(r) == /\ Holds(r) /\ ~Admitted(r)
                 /\ Finish(r, "skipped")
                 /\ UNCHANGED <<input, view, refreshes, vouched>>
                 /\ Elsewhere

AlreadyEnabled(r) == /\ \/ Admitted(r) /\ SeenArmed(r)
                        \/ Settled(r) /\ view[r].armed
                     /\ Finish(r, "enabled")
                     /\ Vouch(r)
                     /\ UNCHANGED <<input, view, refreshes>>
                     /\ Elsewhere

\* As if the loop did not count its attempts.
RefreshUncounted(r) == /\ Admitted(r) /\ ~SeenArmed(r) /\ Refreshing(r)
                       /\ Send(r, "refresh")
                       /\ Vouch(r)
                       /\ UNCHANGED <<input, view, refreshes>>
                       /\ Elsewhere

Refresh(r) == /\ Admitted(r) /\ ~SeenArmed(r) /\ Refreshing(r)
              /\ Send(r, "refresh")
              /\ refreshes' = [refreshes EXCEPT ![r] = @ + 1]
              /\ Vouch(r)
              /\ UNCHANGED <<input, view>>
              /\ Elsewhere

SkipState(r) == /\ Settled(r) /\ ~view[r].armed
                /\ Classify(view[r]) \in {"skip", "retry"}
                /\ Finish(r, "skipped")
                /\ Vouch(r)
                /\ UNCHANGED <<input, view, refreshes>>
                /\ Elsewhere

Mutate(r) == /\ Settled(r) /\ ~view[r].armed
             /\ Classify(view[r]) \in {"merge", "ok"}
             /\ IF view[r].id
                THEN Send(r, IF Classify(view[r]) = "merge" THEN "merge"
                                                            ELSE "enable")
                ELSE Finish(r, "error")
             /\ Vouch(r)
             /\ UNCHANGED <<input, view, refreshes>>
             /\ Elsewhere

\* As if the payload's "errors" were not looked at.
ConcludeDespiteErrors(r) ==
  /\ pc[r] = "answered" /\ reply[r] \in {"data", "graphqlErrors"}
  /\ op[r] \in Mutations
  /\ Finish(r, IF op[r] = "merge" THEN "merged" ELSE "enabled")
  /\ UNCHANGED <<input, view, refreshes, vouched>>
  /\ Elsewhere

Conclude(r) == /\ pc[r] = "answered" /\ reply[r] = "data"
               /\ op[r] \in Mutations
               /\ Finish(r, IF op[r] = "merge" THEN "merged" ELSE "enabled")
               /\ UNCHANGED <<input, view, refreshes, vouched>>
               /\ Elsewhere

Helper(r) == \/ RejectInput(r) \/ DryRun(r) \/ Fetch(r)
             \/ Retry(r) \/ GiveUp(r)
             \/ Ineligible(r) \/ AlreadyEnabled(r) \/ Refresh(r)
             \/ SkipState(r) \/ Mutate(r) \/ Conclude(r)

-----------------------------------------------------------------------------
\* GitHub, as the helper uses it.

\* Whether GitHub may take (TRUE) or refuse (FALSE) a mutation as things stand.
Verdicts(o) ==
  IF o = "merge"
  THEN {life = "open" /\ ~facts.draft /\ facts.state \in MergeStateDirectMerge}
  ELSE IF life = "open" /\ facts.draft
       THEN BOOLEAN
       ELSE {life = "open" /\ facts.state \notin MergeStateDirectMerge}

Apply(r) == /\ IF op[r] = "merge"
               THEN life' = "merged" /\ UNCHANGED <<armed, armedOnce>>
               ELSE armed' = TRUE /\ armedOnce' = TRUE /\ UNCHANGED life
            /\ UNCHANGED facts
            /\ fresh' = {}
            /\ landed' = landed \cup {r}

Deliver(r, k) == /\ pc' = [pc EXCEPT ![r] = "answered"]
                 /\ reply' = [reply EXCEPT ![r] = k]
                 /\ UNCHANGED <<input, op, attempt, refreshes, outcome, vouched>>

AnswerQuery(r) == /\ pc[r] = "await" /\ op[r] \in Queries
                  /\ \E v \in Reports : view' = [view EXCEPT ![r] = v]
                  /\ Deliver(r, "data")
                  /\ fresh' = fresh \cup {r}
                  /\ UNCHANGED <<github, late, landed, doubtful>>

Execute(r) == /\ pc[r] = "await" /\ op[r] \in Mutations
              /\ TRUE \in Verdicts(op[r])
              /\ Apply(r)
              /\ Deliver(r, "data")
              /\ UNCHANGED <<view, late, doubtful>>

Refuse(r) == /\ pc[r] = "await" /\ op[r] \in Mutations
             /\ FALSE \in Verdicts(op[r])
             /\ Deliver(r, "graphqlErrors")
             /\ UNCHANGED <<view, github, late, landed, doubtful, fresh>>

\* The request fails.  A mutation that failed ambiguously was lost, or is
\* still on its way to GitHub.
FailRequest(r) ==
  /\ pc[r] = "await"
  /\ \E k \in Faults \ {"noNodeId"} :
       /\ k = "notFound" => op[r] \in Queries
       /\ Deliver(r, k)
       /\ IF op[r] \in Mutations /\ k \in Ambiguous
          THEN /\ doubtful' = doubtful \cup {r}
               /\ late' \in {late, [late EXCEPT ![r] = @ + 1]}
          ELSE UNCHANGED <<doubtful, late>>
  /\ UNCHANGED <<view, github, landed, fresh>>

ExecuteLate(r) == /\ late[r] > 0
                  /\ TRUE \in Verdicts(op[r])
                  /\ late' = [late EXCEPT ![r] = @ - 1]
                  /\ Apply(r)
                  /\ UNCHANGED <<client, doubtful>>

RefuseLate(r) == /\ late[r] > 0
                 /\ FALSE \in Verdicts(op[r])
                 /\ late' = [late EXCEPT ![r] = @ - 1]
                 /\ UNCHANGED <<client, github, landed, doubtful, fresh>>

Github(r) == AnswerQuery(r) \/ Execute(r) \/ Refuse(r) \/ FailRequest(r)

\* Everybody else: pushes, checks, labels and draft conversions; auto-merge
\* switched on or off by hand; the pull request merged, closed or reopened.
ByOthers == fresh' = {} /\ UNCHANGED <<client, late, landed, doubtful>>

Edit == /\ life = "open"
        /\ facts' \in {f \in Facts : f.dependabot = facts.dependabot}
        /\ facts' # facts
        /\ UNCHANGED <<armed, life, armedOnce>>
        /\ ByOthers

ArmByHand == /\ life = "open" /\ ~armed
             /\ facts.state \notin MergeStateDirectMerge
             /\ armed' = TRUE /\ armedOnce' = TRUE
             /\ UNCHANGED <<facts, life>>
             /\ ByOthers

Disarm == /\ life = "open" /\ armed
          /\ armed' = FALSE
          /\ UNCHANGED <<facts, life, armedOnce>>
          /\ ByOthers

MergeElsewhere == /\ life = "open" /\ ~facts.draft
                  /\ life' = "merged"
                  /\ UNCHANGED <<facts, armed, armedOnce>>
                  /\ ByOthers

CloseOrReopen == /\ \/ life = "open" /\ life' = "closed"
                    \/ life = "closed" /\ life' = "open"
                 /\ UNCHANGED <<facts, armed, armedOnce>>
                 /\ ByOthers

Others == Edit \/ ArmByHand \/ Disarm \/ MergeElsewhere \/ CloseOrReopen

\* All workflow runs over, nothing more to happen to a merged pull request.
Quiet == /\ \A r \in Runs : pc[r] = "done" /\ late[r] = 0
         /\ life = "merged"
         /\ UNCHANGED vars

Next == \/ \E r \in Runs : \/ Trigger(r) \/ Helper(r) \/ Github(r)
                           \/ ExecuteLate(r) \/ RefuseLate(r)
        \/ Others
        \/ Quiet

Spec == Init /\ [][Next]_vars

\* A running helper keeps running, and httpx's 30 second timeout turns a
\* silent connection into a failed one, so every request is settled.
\* Nothing obliges people, or GitHub's late executions.
Fairness == \A r \in Runs : WF_vars(Helper(r)) /\ WF_vars(Github(r))

FairSpec == Spec /\ Fairness
-----------------------------------------------------------------------------
TypeOK == /\ facts \in Facts /\ armed \in BOOLEAN /\ armedOnce \in BOOLEAN
          /\ life \in {"open", "merged", "closed"}
          /\ late \in [Runs -> Nat]
          /\ pc \in [Runs -> {"idle", "queued", "await", "answered", "done"}]
          /\ input \in [Runs -> AllInputs]
          /\ view \in [Runs -> Views]
          /\ op \in [Runs -> {"none"} \cup Queries \cup Mutations]
          /\ attempt \in [Runs -> 0 .. MaxRetries]
          /\ refreshes \in [Runs -> 0 .. MaxRefreshes]
          /\ reply \in [Runs -> {"none", "data"} \cup Transient \cup Fatal]
          /\ outcome \in [Runs -> {"none"} \cup Outcomes]
          /\ vouched \subseteq Runs /\ landed \subseteq Runs
          /\ doubtful \subseteq Runs /\ fresh \subseteq Runs

\* What a run reports as automerge_status is true of GitHub, whatever was
\* retried, lost or changed meanwhile: a run that says "merged" merged the
\* pull request itself, "enabled" was armed at some time, and a run that says
\* it skipped (or was dry) has left no mutation behind, executed or under way.
ReportsAreTrue ==
  \A r \in Runs :
    /\ outcome[r] = "merged" => life = "merged" /\ r \in landed
    /\ outcome[r] = "enabled" => armedOnce
    /\ outcome[r] \in {"skipped", "dry-run"} => r \notin landed /\ late[r] = 0

\* Nothing is armed or merged, not even by an abandoned request, on behalf of
\* a run that did not first see the pull request as an eligible one.
EffectsAreVouched == \A r \in Runs : r \in landed \/ late[r] > 0 => r \in vouched

\* A run that fails although GitHub did what it asked has had an attempt whose
\* fate it could not know; a plain refusal or a rate limit never hides success.
ErrorsAreHonest ==
  \A r \in Runs : outcome[r] = "error" /\ r \in landed => r \in doubtful

\* Of the runs that race for one pull request, at most one reports to have
\* merged it.
OneMerger ==
  \A r, s \in Runs : outcome[r] = "merged" /\ outcome[s] = "merged" => r = s

\* A run gives up on an eligible, open pull request that nothing has changed
\* since it looked only because of a real obstacle, or after it has used every
\* refresh and still not been told the merge state.
SkipsForCause ==
  \A r \in Runs :
    /\ outcome[r] = "skipped" /\ r \in fresh /\ life = "open"
    /\ Eligible(facts, input[r])
    => \/ facts.state \in {"DIRTY", "BEHIND"}
       \/ refreshes[r] = MaxRefreshes /\ Unknown(view[r])

\* A mutation GitHub refuses (and only then does it answer with errors) is a
\* lost race: somebody changed the pull request after the snapshot the run acted
\* on, or that snapshot already showed a draft or a closed pull request.
OnlyRacesFail ==
  \A r \in Runs :
    /\ outcome[r] = "error" /\ op[r] \in Mutations
    /\ reply[r] = "graphqlErrors" /\ "graphqlErrors" \notin Faults
    /\ r \in fresh
    => view[r].draft \/ life # "open"

\* Every run that starts ends, however many requests fail or refreshes say
\* UNKNOWN.
RunsEnd == \A r \in Runs : pc[r] = "queued" ~> pc[r] = "done"

\* The module docstring: auto-merge is enabled only when all conditions are
\* met.  Read of the snapshot the run acts on.
ActsOnEligibleSnapshot ==
  \A r \in Runs : op[r] \in Mutations => Eligible(view[r], input[r])

\* The helper implements MergeGate: a run acts only on a pull request it saw
\* eligible, reports only what is so, and never acts after saying it skipped.
Did == [r \in Runs |-> IF r \in landed THEN op[r] ELSE "nothing"]

Gate == INSTANCE MergeGate WITH seen <- vouched, did <- Did, told <- outcome

GateSpec == Gate!Spec
=============================================================================
