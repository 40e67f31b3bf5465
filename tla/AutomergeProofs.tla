-------------------------- MODULE AutomergeProofs --------------------------
(* What holds of the auto-merge helper for every number of runs, retry     *)
(* bound, configuration and set of faults.                                 *)
EXTENDS Automerge, TLAPS

-----------------------------------------------------------------------------
(* The inductive invariant.  TypeOK and the properties are not inductive:  *)
(* what a run reports is true because of what its pc, call and reply say   *)
(* of the mutation on the way there.                                       *)

CallFits(r) ==
  /\ pc[r] \in {"idle", "queued"} => op[r] = "none"
  /\ op[r] \in Mutations \cup {"refresh"} => r \in vouched
  /\ r \in landed \/ late[r] > 0 \/ r \in doubtful => op[r] \in Mutations
  /\ late[r] > 0 => r \in doubtful

EffectStands(r) ==
  /\ r \in landed /\ op[r] = "merge" => life = "merged"
  /\ r \in landed /\ op[r] = "enable" => armedOnce

ReplyFits(r) ==
  /\ pc[r] = "answered" /\ reply[r] = "data" /\ op[r] \in Mutations => r \in landed
  /\ view[r].armed => armedOnce

OutcomeFits(r) ==
  /\ outcome[r] # "none" => pc[r] = "done"
  /\ outcome[r] \in {"skipped", "dry-run"} => op[r] \notin Mutations
  /\ outcome[r] = "merged" => r \in landed /\ op[r] = "merge"
  /\ outcome[r] = "enabled" => armedOnce

Accounted(r) ==
  r \in landed \ doubtful => \/ pc[r] = "answered" /\ reply[r] = "data"
                             \/ outcome[r] \in {"enabled", "merged"}

RunInv(r) == /\ CallFits(r) /\ EffectStands(r) /\ ReplyFits(r)
             /\ OutcomeFits(r) /\ Accounted(r)

\* Of the racing runs' merges GitHub executes one.
OneMergeLands ==
  \A r, s \in landed : op[r] = "merge" /\ op[s] = "merge" => r = s

IInv == /\ TypeOK
        /\ armed => armedOnce
        /\ \A r \in Runs : RunInv(r)
        /\ OneMergeLands

-----------------------------------------------------------------------------
(* Type correctness. *)

\* A snapshot, fetched or taken from the event payload, is a well-formed one.
LEMMA ViewsTyped ==
  ASSUME TypeOK
  PROVE  Reports \subseteq Views /\ EventView \in Views
<1>1. facts \in AllFacts /\ armed \in BOOLEAN
  BY FactsAssumption DEF TypeOK
<1> QED
  BY <1>1 DEF Reports, EventView, Views, AllFacts, MergeStateStatus, MergeableState

\* The helper starts well typed.
LEMMA TypeInit == Init => TypeOK
<1>1. NoView \in Views
  BY DEF NoView, Views, MergeStateStatus, MergeableState
<1>2. NoInput \in AllInputs
  BY DEF NoInput, AllInputs
<1>3. 0 \in 0 .. MaxRetries /\ 0 \in 0 .. MaxRefreshes
  BY RetryAssumption
<1> SUFFICES ASSUME Init PROVE TypeOK
  OBVIOUS
<1>4. input \in [Runs -> AllInputs] /\ view \in [Runs -> Views]
  BY <1>1, <1>2 DEF Init
<1>5. /\ late \in [Runs -> Nat] /\ attempt \in [Runs -> 0 .. MaxRetries]
      /\ refreshes \in [Runs -> 0 .. MaxRefreshes]
  BY <1>3 DEF Init
<1> QED
  BY <1>4, <1>5 DEF Init, TypeOK

\* The helper's own steps keep the types and the two counters in bounds.
LEMMA TypeHelper ==
  ASSUME TypeOK, NEW r \in Runs, Helper(r)
  PROVE  TypeOK'
<1> USE RetryAssumption DEF TypeOK, Elsewhere, github, Finish, Send, Outcomes,
        Queries, Mutations, Vouch
<1>1. CASE RejectInput(r) BY <1>1 DEF RejectInput
<1>2. CASE DryRun(r)  BY <1>2 DEF DryRun
<1>3. CASE Fetch(r)  BY <1>3 DEF Fetch
<1>4. CASE Retry(r)
  <2>1. attempt[r] \in Nat /\ attempt[r] + 1 \in 0 .. MaxRetries
    BY <1>4 DEF Retry
  <2> QED BY <1>4, <2>1 DEF Retry
<1>5. CASE GiveUp(r)  BY <1>5 DEF GiveUp
<1>6. CASE Ineligible(r)  BY <1>6 DEF Ineligible
<1>7. CASE AlreadyEnabled(r)  BY <1>7 DEF AlreadyEnabled
<1>8. CASE Refresh(r)  BY <1>8 DEF Refresh, Refreshing
<1>9. CASE SkipState(r)  BY <1>9 DEF SkipState
<1>10. CASE Mutate(r)  BY <1>10 DEF Mutate
<1>11. CASE Conclude(r)  BY <1>11 DEF Conclude
<1> QED
  BY <1>1, <1>2, <1>3, <1>4, <1>5, <1>6, <1>7, <1>8, <1>9, <1>10, <1>11
  DEF Helper

\* GitHub's answers, and executions that come late, keep the types.
LEMMA TypeGithub ==
  ASSUME TypeOK, NEW r \in Runs,
         Trigger(r) \/ Github(r) \/ ExecuteLate(r) \/ RefuseLate(r)
  PROVE  TypeOK'
<1> USE DEF TypeOK, Elsewhere, github, client, Deliver, Apply
<1>1. CASE Trigger(r)
  BY <1>1, ViewsTyped, InputsAssumption DEF Trigger
<1>2. CASE AnswerQuery(r)
  BY <1>2, ViewsTyped DEF AnswerQuery
<1>3. CASE Execute(r)  BY <1>3 DEF Execute
<1>4. CASE Refuse(r)  BY <1>4 DEF Refuse, Fatal
<1>5. CASE FailRequest(r)
  <2>1. Faults \ {"noNodeId"} \subseteq Transient \cup Fatal
    BY FaultsAssumption
  <2> QED BY <1>5, <2>1 DEF FailRequest
<1>6. CASE ExecuteLate(r)
  <2>1. late[r] - 1 \in Nat
    BY <1>6 DEF ExecuteLate
  <2>2. late' \in [Runs -> Nat]
    BY <1>6, <2>1 DEF ExecuteLate
  <2> QED BY <1>6, <2>2 DEF ExecuteLate
<1>7. CASE RefuseLate(r)  BY <1>7 DEF RefuseLate
<1> QED
  BY <1>1, <1>2, <1>3, <1>4, <1>5, <1>6, <1>7 DEF Github

\* So does whatever people do to the pull request.
LEMMA TypeOthers ==
  ASSUME TypeOK, Others
  PROVE  TypeOK'
  BY DEF TypeOK, Others, ByOthers, client, Edit, ArmByHand, Disarm,
         MergeElsewhere, CloseOrReopen

\* Every step keeps the types.
LEMMA TypeStep == TypeOK /\ [Next]_vars => TypeOK'
<1> SUFFICES ASSUME TypeOK, [Next]_vars PROVE TypeOK'
  OBVIOUS
<1>1. CASE \E r \in Runs : Trigger(r) \/ Helper(r) \/ Github(r)
                           \/ ExecuteLate(r) \/ RefuseLate(r)
  BY <1>1, TypeHelper, TypeGithub
<1>2. CASE Others  BY <1>2, TypeOthers
<1>3. CASE UNCHANGED vars
  BY <1>3 DEF vars, github, client, TypeOK
<1> QED BY <1>1, <1>2, <1>3 DEF Next, Quiet

\* The state of the helper runs and of the pull request is always well formed,
\* the retry and refresh counters within the bounds the code sets them.
THEOREM Typing == Spec => []TypeOK
  BY TypeInit, TypeStep, PTL DEF Spec

-----------------------------------------------------------------------------
(* The inductive invariant is one. *)

\* The inductive invariant holds before anything has run.
LEMMA InvInit == Init => IInv
<1> SUFFICES ASSUME Init PROVE IInv
  OBVIOUS
<1>1. TypeOK
  BY TypeInit
<1>2. ASSUME NEW r \in Runs PROVE RunInv(r)
  <2>1. /\ pc[r] = "idle" /\ op[r] = "none" /\ late[r] = 0
        /\ outcome[r] = "none" /\ ~view[r].armed
        /\ r \notin landed /\ r \notin doubtful
    BY DEF Init, NoView
  <2> QED
    BY <2>1 DEF RunInv, CallFits, EffectStands, ReplyFits, OutcomeFits,
                Accounted, Mutations
<1> QED
  BY <1>1, <1>2 DEF Init, IInv, OneMergeLands

\* What a run's step leaves of the other runs.
Untouched(s) ==
  /\ pc'[s] = pc[s] /\ op'[s] = op[s] /\ reply'[s] = reply[s]
  /\ view'[s] = view[s] /\ outcome'[s] = outcome[s] /\ late'[s] = late[s]
  /\ s \in landed' <=> s \in landed
  /\ s \in doubtful' <=> s \in doubtful
  /\ s \in vouched => s \in vouched'

\* Nobody un-merges a pull request or makes it one that was never armed.
Onward == /\ life = "merged" => life' = "merged"
          /\ armedOnce => armedOnce'

\* What a run may assume survives the steps of the others.
LEMMA OtherRuns ==
  ASSUME NEW s \in Runs, RunInv(s), Untouched(s), Onward
  PROVE  RunInv(s)'
  BY DEF RunInv, CallFits, EffectStands, ReplyFits, OutcomeFits, Accounted,
         Untouched, Onward

\* A step of the helper sends no second mutation: it ends the run, repeats the
\* call or goes on from a query.
LEMMA HelperRun ==
  ASSUME IInv, NEW r \in Runs, Helper(r)
  PROVE  RunInv(r)' /\ (r \in landed => op'[r] = op[r])
<1>1. TypeOK /\ RunInv(r)
  BY DEF IInv
<1> USE <1>1 DEF TypeOK, RunInv, CallFits, EffectStands, ReplyFits, OutcomeFits,
        Accounted, Elsewhere, github, Finish, Send, Vouch, Queries, Mutations
<1>2. CASE RejectInput(r)  BY <1>2 DEF RejectInput
<1>3. CASE DryRun(r)  BY <1>3 DEF DryRun
<1>4. CASE Fetch(r)  BY <1>4 DEF Fetch
<1>5. CASE Retry(r)  BY <1>5 DEF Retry, Transient
<1>6. CASE GiveUp(r)  BY <1>6 DEF GiveUp, Transient, Fatal
<1>7. CASE Ineligible(r)  BY <1>7 DEF Ineligible, Holds
<1>8. CASE AlreadyEnabled(r)
  BY <1>8 DEF AlreadyEnabled, Settled, Admitted, Holds, SeenArmed
<1>9. CASE Refresh(r)  BY <1>9 DEF Refresh, Admitted, Holds
<1>10. CASE SkipState(r)  BY <1>10 DEF SkipState, Settled, Admitted, Holds
<1>11. CASE Mutate(r)  BY <1>11 DEF Mutate, Settled, Admitted, Holds
<1>12. CASE Conclude(r)  BY <1>12 DEF Conclude
<1> QED
  BY <1>2, <1>3, <1>4, <1>5, <1>6, <1>7, <1>8, <1>9, <1>10, <1>11, <1>12
  DEF Helper

\* A helper's step leaves the other runs where they are.
LEMMA HelperOthers ==
  ASSUME TypeOK, NEW r \in Runs, Helper(r)
  PROVE  /\ \A s \in Runs \ {r} : Untouched(s)
         /\ UNCHANGED <<armed, armedOnce, life, landed>>
<1> USE DEF TypeOK, Untouched, Elsewhere, github, Finish, Send, Vouch
<1> QED
  BY DEF Helper, RejectInput, DryRun, Fetch, Retry, GiveUp, Ineligible,
         AlreadyEnabled, Refresh, SkipState, Mutate, Conclude

\* A step of the helper keeps the inductive invariant.
LEMMA InvHelper ==
  ASSUME IInv, NEW r \in Runs, Helper(r)
  PROVE  IInv'
<1>1. TypeOK'
  BY TypeHelper DEF IInv
<1>2. /\ \A s \in Runs \ {r} : Untouched(s)
      /\ UNCHANGED <<armed, armedOnce, life, landed>>
  BY HelperOthers DEF IInv
<1>3. RunInv(r)' /\ (r \in landed => op'[r] = op[r])
  BY HelperRun
<1>4. \A s \in Runs : RunInv(s)'
  BY <1>2, <1>3, OtherRuns DEF IInv, Onward
<1>5. OneMergeLands'
  BY <1>2, <1>3 DEF IInv, TypeOK, OneMergeLands, Untouched
<1> QED
  BY <1>1, <1>2, <1>4, <1>5 DEF IInv

\* GitHub's answer, a failed request or a late execution, seen by its run.
LEMMA GithubRun ==
  ASSUME IInv, NEW r \in Runs,
         Trigger(r) \/ Github(r) \/ ExecuteLate(r) \/ RefuseLate(r)
  PROVE  /\ RunInv(r)' /\ (r \in landed => op'[r] = op[r])
         /\ Onward /\ (armed' => armedOnce')
<1>1. TypeOK /\ RunInv(r) /\ (armed => armedOnce)
  BY DEF IInv
<1> USE <1>1 DEF TypeOK, RunInv, CallFits, EffectStands, ReplyFits, OutcomeFits,
        Accounted, Onward, Elsewhere, github, client, Deliver, Apply,
        Queries, Mutations
<1>2. CASE Trigger(r)  BY <1>2 DEF Trigger, EventView
<1>3. CASE AnswerQuery(r)
  <2>1. \A v \in Reports : v.armed => armedOnce
    BY DEF Reports
  <2> QED BY <1>3, <2>1 DEF AnswerQuery
<1>4. CASE Execute(r)  BY <1>4 DEF Execute, Verdicts
<1>5. CASE Refuse(r)  BY <1>5 DEF Refuse
<1>6. CASE FailRequest(r)
  <2>1. "data" \notin Faults
    BY FaultsAssumption DEF Transient, Fatal
  <2>2. CASE op[r] \in Queries
    BY <1>6, <2>1, <2>2 DEF FailRequest
  <2>3. CASE op[r] \in Mutations
    BY <1>6, <2>1, <2>3 DEF FailRequest
  <2>4. op[r] \in Queries \cup Mutations \cup {"none"}
    OBVIOUS
  <2> QED BY <1>6, <2>1, <2>2, <2>3, <2>4 DEF FailRequest
<1>7. CASE ExecuteLate(r)  BY <1>7 DEF ExecuteLate, Verdicts
<1>8. CASE RefuseLate(r)  BY <1>8 DEF RefuseLate
<1> QED
  BY <1>2, <1>3, <1>4, <1>5, <1>6, <1>7, <1>8 DEF Github

\* An answer leaves the other runs where they are.
LEMMA GithubOthers ==
  ASSUME TypeOK, NEW r \in Runs,
         Trigger(r) \/ Github(r) \/ ExecuteLate(r) \/ RefuseLate(r)
  PROVE  \A s \in Runs \ {r} : Untouched(s)
<1> USE DEF TypeOK, Untouched, Elsewhere, github, client, Deliver, Apply
<1>1. CASE Trigger(r)  BY <1>1 DEF Trigger
<1>2. CASE AnswerQuery(r)  BY <1>2 DEF AnswerQuery
<1>3. CASE Execute(r)  BY <1>3 DEF Execute
<1>4. CASE Refuse(r)  BY <1>4 DEF Refuse
<1>5. CASE FailRequest(r)  BY <1>5 DEF FailRequest
<1>6. CASE ExecuteLate(r)  BY <1>6 DEF ExecuteLate
<1>7. CASE RefuseLate(r)  BY <1>7 DEF RefuseLate
<1> QED
  BY <1>1, <1>2, <1>3, <1>4, <1>5, <1>6, <1>7 DEF Github

\* GitHub merges only a request that is open, so a second merge never lands.
LEMMA LandsOpen ==
  ASSUME TypeOK, NEW r \in Runs,
         Trigger(r) \/ Github(r) \/ ExecuteLate(r) \/ RefuseLate(r)
  PROVE  \/ landed' = landed
         \/ /\ landed' = landed \cup {r} /\ op' = op
            /\ op[r] = "merge" => life = "open"
<1> USE DEF Verdicts, Apply, Elsewhere, github, client, Deliver
<1> QED
  BY DEF Github, Trigger, AnswerQuery, Execute, Refuse, FailRequest,
         ExecuteLate, RefuseLate

\* A step of GitHub keeps the inductive invariant.
LEMMA InvGithub ==
  ASSUME IInv, NEW r \in Runs,
         Trigger(r) \/ Github(r) \/ ExecuteLate(r) \/ RefuseLate(r)
  PROVE  IInv'
<1>1. TypeOK'
  BY TypeGithub DEF IInv
<1>2. \A s \in Runs \ {r} : Untouched(s)
  BY GithubOthers DEF IInv
<1>3. /\ RunInv(r)' /\ (r \in landed => op'[r] = op[r])
      /\ Onward /\ (armed' => armedOnce')
  BY GithubRun
<1>4. \A s \in Runs : RunInv(s)'
  BY <1>2, <1>3, OtherRuns DEF IInv
<1>5. OneMergeLands'
  <2>1. CASE landed' = landed
    BY <2>1, <1>2, <1>3 DEF IInv, TypeOK, OneMergeLands, Untouched
  <2>2. CASE /\ landed' = landed \cup {r} /\ op' = op
             /\ op[r] = "merge" => life = "open"
    <3>1. \A s \in landed : op[s] = "merge" => life = "merged"
      BY DEF IInv, TypeOK, RunInv, EffectStands
    <3> QED
      BY <2>2, <3>1 DEF IInv, OneMergeLands
  <2> QED
    BY <2>1, <2>2, LandsOpen DEF IInv
<1> QED
  BY <1>1, <1>3, <1>4, <1>5 DEF IInv

\* What people do keeps the inductive invariant.
LEMMA InvOthers ==
  ASSUME IInv, Others
  PROVE  IInv'
<1>1. TypeOK'
  BY TypeOthers DEF IInv
<1>2. \A s \in Runs : Untouched(s)
  BY DEF Others, ByOthers, client, Untouched, Edit, ArmByHand, Disarm,
         MergeElsewhere, CloseOrReopen
<1>3. Onward /\ (armed' => armedOnce')
  BY DEF IInv, Onward, Others, Edit, ArmByHand, Disarm, MergeElsewhere,
         CloseOrReopen
<1>4. \A s \in Runs : RunInv(s)'
  BY <1>2, <1>3, OtherRuns DEF IInv
<1>5. landed' = landed /\ op' = op
  BY DEF Others, ByOthers, client, Edit, ArmByHand, Disarm, MergeElsewhere,
         CloseOrReopen
<1>6. OneMergeLands'
  BY <1>5 DEF IInv, OneMergeLands
<1> QED
  BY <1>1, <1>3, <1>4, <1>6 DEF IInv

\* Every step keeps the inductive invariant.
LEMMA InvStep == IInv /\ [Next]_vars => IInv'
<1> SUFFICES ASSUME IInv, [Next]_vars PROVE IInv'
  OBVIOUS
<1>1. CASE \E r \in Runs : Trigger(r) \/ Helper(r) \/ Github(r)
                           \/ ExecuteLate(r) \/ RefuseLate(r)
  BY <1>1, InvHelper, InvGithub
<1>2. CASE Others
  BY <1>2, InvOthers
<1>3. CASE UNCHANGED vars
  BY <1>3 DEF vars, github, client, IInv, TypeOK, RunInv, CallFits,
     EffectStands, ReplyFits, OutcomeFits, Accounted, OneMergeLands
<1> QED BY <1>1, <1>2, <1>3 DEF Next, Quiet

\* The inductive invariant holds in every behaviour of the helper.
THEOREM Invariance == Spec => []IInv
  BY InvInit, InvStep, PTL DEF Spec

-----------------------------------------------------------------------------
(* What follows from it. *)

\* A run that says "merged" merged the pull request, "enabled" was armed, and
\* a run that skipped has no mutation behind it and none under way.
THEOREM Truthful == Spec => []ReportsAreTrue
<1>1. IInv => ReportsAreTrue
  <2> SUFFICES ASSUME IInv, NEW r \in Runs
               PROVE  /\ outcome[r] = "merged" => life = "merged" /\ r \in landed
                      /\ outcome[r] = "enabled" => armedOnce
                      /\ outcome[r] \in {"skipped", "dry-run"} =>
                           r \notin landed /\ late[r] = 0
    BY DEF ReportsAreTrue
  <2>1. RunInv(r) /\ late[r] \in Nat
    BY DEF IInv, TypeOK
  <2> QED
    BY <2>1 DEF RunInv, CallFits, EffectStands, OutcomeFits
<1> QED BY <1>1, Invariance, PTL

\* Nothing is done, not even by an abandoned request, for a run that did not
\* first see the pull request eligible.
THEOREM Vouched == Spec => []EffectsAreVouched
<1>1. IInv => EffectsAreVouched
  BY DEF IInv, RunInv, CallFits, EffectsAreVouched
<1> QED BY <1>1, Invariance, PTL

\* A run that fails although its mutation was executed lost track of a request.
THEOREM Honest == Spec => []ErrorsAreHonest
<1>1. IInv => ErrorsAreHonest
  BY DEF IInv, RunInv, OutcomeFits, Accounted, ErrorsAreHonest
<1> QED BY <1>1, Invariance, PTL

\* However many runs race for the pull request, at most one reports
\* to have merged it.
THEOREM SingleMerger == Spec => []OneMerger
<1>1. IInv => OneMerger
  BY DEF IInv, RunInv, OutcomeFits, OneMergeLands, OneMerger
<1> QED BY <1>1, Invariance, PTL

-----------------------------------------------------------------------------
(* Why runs skip and fail.  A run whose snapshot nothing has outdated sees  *)
(* the pull request as it is, so what it decided from the snapshot is still *)
(* right: that has to be carried from the decision to the run's end.        *)

\* A run with a current snapshot holds one GitHub could report this moment.
Current(r) == r \in fresh => /\ view[r] \in Reports
                             /\ pc[r] \notin {"idle", "queued"}

\* A mutation is on its way because of what the snapshot says.
ActsOn(r) ==
  /\ op[r] = "merge" => Merges(view[r])
  /\ op[r] = "enable" => ~Skips(view[r]) /\ ~Merges(view[r]) /\ ~Unknown(view[r])

SkipCause(r) ==
  outcome[r] = "skipped" /\ r \in fresh =>
    \/ ~Eligible(view[r], input[r])
    \/ Skips(view[r])
    \/ refreshes[r] = MaxRefreshes /\ Unknown(view[r])

\* Only a draft or a closed pull request is refused to a current snapshot.
Refused(r) ==
  /\ reply[r] = "graphqlErrors" /\ op[r] \in Mutations
  /\ "graphqlErrors" \notin Faults /\ r \in fresh
  => view[r].draft \/ life # "open"

Reasons(r) == Current(r) /\ ActsOn(r) /\ SkipCause(r) /\ Refused(r)

Reasoned == \A r \in Runs : Reasons(r)

\* Classify's four answers and the questions they stand for.
LEMMA ClassifyMeans ==
  ASSUME NEW v
  PROVE  /\ Classify(v) = "merge" => Merges(v)
         /\ Classify(v) = "ok" => ~Skips(v) /\ ~Merges(v) /\ ~Unknown(v)
         /\ Classify(v) = "skip" => Skips(v)
         /\ Classify(v) = "retry" => Unknown(v)
<1>1. CASE Skips(v)
  <2>1. Classify(v) = "skip"
    BY <1>1, Zenon DEF Classify, Merges
  <2> QED BY <1>1, <2>1
<1>2. CASE Merges(v)
  <2>1. Classify(v) = "merge"
    BY <1>2, Zenon DEF Classify, Merges
  <2> QED BY <1>2, <2>1
<1>3. CASE ~Skips(v) /\ ~Merges(v) /\ Unknown(v)
  <2>1. Classify(v) = "retry"
    BY <1>3, Zenon DEF Classify
  <2> QED BY <1>3, <2>1
<1>4. CASE ~Skips(v) /\ ~Merges(v) /\ ~Unknown(v)
  <2>1. Classify(v) = "ok"
    BY <1>4, Zenon DEF Classify
  <2> QED BY <1>4, <2>1
<1> QED
  BY <1>1, <1>2, <1>3, <1>4

\* Nobody has looked, acted or ended before the first event.
LEMMA ReasonsInit == Init => Reasoned
  BY DEF Init, Reasoned, Reasons, Current, ActsOn, SkipCause, Refused, Mutations

\* What another run's step leaves of a run's reasons: the run itself, and
\* either the pull request as it was or no current snapshot at all.
Alone(s) ==
  /\ pc'[s] = pc[s] /\ op'[s] = op[s] /\ reply'[s] = reply[s]
  /\ view'[s] = view[s] /\ outcome'[s] = outcome[s]
  /\ input'[s] = input[s] /\ refreshes'[s] = refreshes[s]
  /\ \/ s \notin fresh'
     \/ UNCHANGED <<facts, life, armed>> /\ (s \in fresh' => s \in fresh)

\* A run's reasons survive whatever leaves it alone.
LEMMA ReasonsKept ==
  ASSUME NEW s \in Runs, Reasons(s), Alone(s)
  PROVE  Reasons(s)'
<1>1. ActsOn(s)' /\ (s \notin fresh' => Reasons(s)')
  BY DEF Reasons, Current, ActsOn, SkipCause, Refused, Alone
<1>2. ASSUME UNCHANGED <<facts, life, armed>>
      PROVE  Reports' = Reports
  BY <1>2 DEF Reports
<1>3. CASE s \in fresh'
  BY <1>1, <1>2, <1>3 DEF Reasons, Current, SkipCause, Refused, Alone
<1> QED BY <1>1, <1>3

\* The helper ends a run or sends a mutation for the reason it read in the
\* snapshot.
LEMMA HelperReasons ==
  ASSUME IInv, NEW r \in Runs, Helper(r), Reasons(r)
  PROVE  Reasons(r)'
<1>1. TypeOK /\ RunInv(r)
  BY DEF IInv
<1>2. /\ view' = view /\ input' = input /\ fresh' = fresh
      /\ UNCHANGED <<facts, life, armed>> /\ Reports' = Reports
  BY DEF Helper, RejectInput, DryRun, Fetch, Retry, GiveUp, Ineligible,
         AlreadyEnabled, Refresh, SkipState, Mutate, Conclude, Elsewhere,
         github, Reports
<1> USE DEF TypeOK, RunInv, CallFits, OutcomeFits, Finish, Send, Queries,
            Mutations
<1>3. Current(r)'
  BY <1>1, <1>2 DEF Reasons, Current, Helper, RejectInput, DryRun, Fetch, Retry,
     GiveUp, Ineligible, AlreadyEnabled, Refresh, SkipState, Mutate, Conclude
<1>4. ActsOn(r)'
  <2>1. CASE Mutate(r)
    BY <1>1, <1>2, <2>1, ClassifyMeans DEF Mutate, Reasons, ActsOn
  <2>2. CASE op'[r] = op[r] \/ op'[r] \in Queries
    BY <1>2, <2>2 DEF Reasons, ActsOn
  <2> QED
    BY <1>1, <2>1, <2>2 DEF Helper, RejectInput, DryRun, Fetch, Retry, GiveUp,
       Ineligible, AlreadyEnabled, Refresh, SkipState, Conclude
<1>5. SkipCause(r)'
  <2>1. CASE Ineligible(r)
    BY <1>1, <1>2, <2>1 DEF Ineligible, Admitted, Holds, SkipCause
  <2>2. CASE SkipState(r)
    <3>1. Skips(view[r]) \/ (Unknown(view[r]) /\ refreshes[r] >= MaxRefreshes)
      BY <1>1, <2>2, ClassifyMeans, RetryAssumption
      DEF SkipState, Settled, Refreshing
    <3>2. refreshes[r] \in 0 .. MaxRefreshes /\ refreshes' = refreshes
      BY <1>1, <2>2 DEF SkipState
    <3> QED BY <1>2, <3>1, <3>2, RetryAssumption DEF SkipCause
  <2>3. CASE DryRun(r)
    BY <1>2, <2>3 DEF DryRun, Reasons, Current, SkipCause
  <2>4. CASE outcome'[r] # "skipped"
    BY <2>4 DEF SkipCause
  <2> QED
    BY <1>1, <2>1, <2>2, <2>3, <2>4 DEF Helper, RejectInput, Fetch, Retry, GiveUp,
       AlreadyEnabled, Refresh, Mutate, Conclude, Settled, Admitted, Holds
<1>6. Refused(r)'
  <2>1. CASE reply'[r] = reply[r] /\ op'[r] = op[r]
    BY <1>2, <2>1 DEF Reasons, Refused
  <2>2. CASE reply'[r] = "none"
    BY <2>2 DEF Refused
  <2> QED
    BY <1>1, <2>1, <2>2 DEF Helper, RejectInput, DryRun, Fetch, Retry, GiveUp,
       Ineligible, AlreadyEnabled, Refresh, SkipState, Mutate, Conclude
<1> QED
  BY <1>3, <1>4, <1>5, <1>6 DEF Reasons

\* Nobody's reasons but its own are a run's to change.
LEMMA HelperAlone ==
  ASSUME TypeOK, NEW r \in Runs, Helper(r)
  PROVE  \A s \in Runs \ {r} : Alone(s)
<1> USE DEF TypeOK, Alone, Elsewhere, github, Finish, Send
<1> QED
  BY DEF Helper, RejectInput, DryRun, Fetch, Retry, GiveUp, Ineligible,
         AlreadyEnabled, Refresh, SkipState, Mutate, Conclude

\* A mutation decided on a current snapshot is refused for a draft or because
\* the pull request is no longer open: GitHub judges the state the run saw.
LEMMA RefusedForCause ==
  ASSUME TypeOK, NEW r \in Runs, ActsOn(r), view[r] \in Reports,
         op[r] \in Mutations, FALSE \in Verdicts(op[r])
  PROVE  view[r].draft \/ life # "open"
<1> SUFFICES ASSUME life = "open", ~facts.draft
             PROVE  FALSE
  BY DEF Reports
<1>1. view[r].state \in {"UNKNOWN", facts.state}
  BY DEF Reports
<1>2. CASE op[r] = "merge"
  BY <1>1, <1>2 DEF ActsOn, Merges, MergeStateDirectMerge, Verdicts
<1>3. CASE op[r] = "enable"
  <2>1. facts.state \in MergeStateDirectMerge
    BY <1>3 DEF Verdicts
  <2>2. view[r].state = facts.state
    BY <1>1, <1>3 DEF ActsOn, Unknown
  <2> QED BY <1>3, <2>1, <2>2 DEF ActsOn, Merges
<1> QED BY <1>2, <1>3 DEF Mutations

\* GitHub's answer gives a run a current snapshot, or a refusal with a cause.
LEMMA GithubReasons ==
  ASSUME IInv, NEW r \in Runs, Reasons(r),
         Trigger(r) \/ Github(r) \/ ExecuteLate(r) \/ RefuseLate(r)
  PROVE  Reasons(r)'
<1>1. TypeOK /\ RunInv(r)
  BY DEF IInv
<1> USE DEF TypeOK, Queries, Mutations
<1>2. CASE Trigger(r)
  <2>1. /\ r \notin fresh' /\ op'[r] = "none" /\ outcome'[r] = "none"
    BY <1>1, <1>2 DEF Trigger, Elsewhere, Reasons, Current, RunInv, CallFits,
       OutcomeFits
  <2> QED
    BY <2>1 DEF Reasons, Current, ActsOn, SkipCause, Refused
<1>3. CASE AnswerQuery(r)
  <2>1. /\ op'[r] \in Queries /\ outcome'[r] = "none" /\ view'[r] \in Reports
        /\ pc'[r] = "answered"
    BY <1>1, <1>3 DEF AnswerQuery, Deliver, RunInv, OutcomeFits
  <2>2. Reports' = Reports
    BY <1>3 DEF AnswerQuery, github, Reports
  <2> QED
    BY <2>1, <2>2 DEF Reasons, Current, ActsOn, SkipCause, Refused
<1>4. CASE Execute(r) \/ ExecuteLate(r)
  <2>1. /\ r \notin fresh' /\ op'[r] = op[r] /\ view'[r] = view[r]
    BY <1>4 DEF Execute, ExecuteLate, Apply, Deliver, client
  <2> QED
    BY <2>1 DEF Reasons, Current, ActsOn, SkipCause, Refused
<1>5. CASE Refuse(r)
  <2>1. /\ UNCHANGED <<fresh, op, view, outcome, input, refreshes, life>>
        /\ pc'[r] = "answered" /\ Reports' = Reports
    BY <1>1, <1>5 DEF Refuse, Deliver, github, Reports
  <2>2. r \in fresh => view[r].draft \/ life # "open"
    BY <1>1, <1>5, RefusedForCause DEF Refuse, Reasons, Current
  <2> QED
    BY <2>1, <2>2 DEF Reasons, Current, ActsOn, SkipCause, Refused
<1>6. CASE FailRequest(r)
  <2>1. /\ UNCHANGED <<fresh, op, view, outcome, input, refreshes, life>>
        /\ pc'[r] = "answered" /\ Reports' = Reports /\ reply'[r] \in Faults
    BY <1>1, <1>6 DEF FailRequest, Deliver, github, Reports
  <2> QED
    BY <2>1 DEF Reasons, Current, ActsOn, SkipCause, Refused
<1>7. CASE RefuseLate(r)
  <2>1. Alone(r)
    BY <1>7 DEF RefuseLate, client, github, Alone
  <2> QED BY <2>1, ReasonsKept
<1> QED
  BY <1>2, <1>3, <1>4, <1>5, <1>6, <1>7 DEF Github

\* An answer to one run leaves the others alone.
LEMMA GithubAlone ==
  ASSUME TypeOK, NEW r \in Runs,
         Trigger(r) \/ Github(r) \/ ExecuteLate(r) \/ RefuseLate(r)
  PROVE  \A s \in Runs \ {r} : Alone(s)
<1> USE DEF TypeOK, Alone, Elsewhere, github, client, Deliver, Apply
<1>1. CASE Trigger(r)  BY <1>1 DEF Trigger
<1>2. CASE AnswerQuery(r)  BY <1>2 DEF AnswerQuery
<1>3. CASE Execute(r)  BY <1>3 DEF Execute
<1>4. CASE Refuse(r)  BY <1>4 DEF Refuse
<1>5. CASE FailRequest(r)  BY <1>5 DEF FailRequest
<1>6. CASE ExecuteLate(r)  BY <1>6 DEF ExecuteLate
<1>7. CASE RefuseLate(r)  BY <1>7 DEF RefuseLate
<1> QED
  BY <1>1, <1>2, <1>3, <1>4, <1>5, <1>6, <1>7 DEF Github

\* Every step keeps every run's reasons; people outdate the snapshots.
LEMMA ReasonsStep == IInv /\ Reasoned /\ [Next]_vars => Reasoned'
<1> SUFFICES ASSUME IInv, Reasoned, [Next]_vars, NEW s \in Runs
             PROVE  Reasons(s)'
  BY DEF Reasoned
<1>1. TypeOK /\ Reasons(s)
  BY DEF IInv, Reasoned
<1>2. ASSUME NEW r \in Runs, Helper(r)
      PROVE  Reasons(s)'
  BY <1>1, <1>2, HelperReasons, HelperAlone, ReasonsKept
<1>3. ASSUME NEW r \in Runs,
             Trigger(r) \/ Github(r) \/ ExecuteLate(r) \/ RefuseLate(r)
      PROVE  Reasons(s)'
  BY <1>1, <1>3, GithubReasons, GithubAlone, ReasonsKept
<1>4. CASE Others
  <2>1. Alone(s)
    BY <1>4 DEF Others, ByOthers, client, Alone, Edit, ArmByHand, Disarm,
       MergeElsewhere, CloseOrReopen
  <2> QED BY <1>1, <2>1, ReasonsKept
<1>5. CASE UNCHANGED vars
  <2>1. Alone(s)
    BY <1>5 DEF vars, github, client, Alone
  <2> QED BY <1>1, <2>1, ReasonsKept
<1> QED BY <1>2, <1>3, <1>4, <1>5 DEF Next, Quiet

\* In every behaviour each run's snapshot, call, refusal and skip fit together.
THEOREM Reasoning == Spec => []Reasoned
  BY ReasonsInit, ReasonsStep, Invariance, PTL DEF Spec

\* A run gives up on an eligible, open and unchanged pull request only because
\* it is DIRTY or BEHIND, or when every refresh is used and the state unknown.
THEOREM SkipsJustified == Spec => []SkipsForCause
<1>1. IInv /\ Reasoned => SkipsForCause
  <2> SUFFICES ASSUME IInv, Reasoned, NEW r \in Runs, outcome[r] = "skipped",
                      r \in fresh, life = "open", Eligible(facts, input[r])
               PROVE  \/ facts.state \in {"DIRTY", "BEHIND"}
                      \/ refreshes[r] = MaxRefreshes /\ Unknown(view[r])
    BY DEF SkipsForCause
  <2>1. view[r] \in Reports /\ SkipCause(r) /\ facts \in AllFacts
    BY FactsAssumption DEF Reasoned, Reasons, Current, IInv, TypeOK
  <2>2. Eligible(view[r], input[r])
    BY <2>1 DEF Eligible, Reports
  <2>3. CASE Skips(view[r])
    <3>1. facts.state \notin {"MERGED", "UNKNOWN"}
      BY <2>1 DEF AllFacts
    <3>2. /\ view[r].state \in {"UNKNOWN", facts.state}
          /\ view[r].mergeable = "CONFLICTING" => facts.state = "DIRTY"
      BY <2>1 DEF Reports
    <3> QED BY <2>3, <3>1, <3>2 DEF Skips, MergeStateSkip
  <2> QED BY <2>1, <2>2, <2>3 DEF SkipCause
<1> QED BY <1>1, Invariance, Reasoning, PTL

\* A refused mutation is a lost race, or one the snapshot already spoke against.
THEOREM RefusalsJustified == Spec => []OnlyRacesFail
<1>1. Reasoned => OnlyRacesFail
  BY DEF Reasoned, Reasons, Refused, OnlyRacesFail
<1> QED BY <1>1, Reasoning, PTL

-----------------------------------------------------------------------------
(* Automerge implements MergeGate. *)

\* The initial states map to the initial state of the gate.
LEMMA GateInit == Init => Gate!Init
  BY DEF Init, Gate!Init, Did

\* A step of the helper tells, sees or is nothing to the gate.
LEMMA GateHelper ==
  ASSUME IInv, NEW r \in Runs, Helper(r)
  PROVE  [Gate!Next]_(Gate!vars)
<1>1. TypeOK /\ RunInv(r)
  BY DEF IInv
<1>2. UNCHANGED <<life, armedOnce, landed>> /\ Did' = Did
  <2>1. UNCHANGED <<life, armedOnce, landed>>
    BY <1>1, HelperOthers
  <2>2. \A s \in Runs : s \in landed => op'[s] = op[s]
    BY <1>1, HelperOthers, HelperRun DEF Untouched
  <2> QED BY <2>1, <2>2 DEF Did
<1>3. \A o \in Outcomes : Gate!Tell(r, o) => Gate!Next
  BY DEF Gate!Next, Outcomes
<1>4. Gate!See(r) => Gate!Next
  BY DEF Gate!Next
<1> DEFINE Ends(o) == /\ outcome' = [outcome EXCEPT ![r] = o]
                      /\ vouched' \in {vouched, vouched \cup {r}}
<1>5. ASSUME NEW o \in Outcomes, Ends(o), pc[r] # "done", Gate!True(r, o)
      PROVE  Gate!Tell(r, o)
  BY <1>1, <1>2, <1>5 DEF Gate!Tell, RunInv, OutcomeFits
<1>6. ASSUME op[r] \in Queries \cup {"none"}
      PROVE  Did[r] = "nothing"
  BY <1>1, <1>6 DEF RunInv, CallFits, Queries, Mutations, Did
<1>7. ASSUME outcome' = outcome, vouched' = vouched
      PROVE  UNCHANGED Gate!vars
  BY <1>2, <1>7 DEF Gate!vars
<1>8. ASSUME NEW o \in {"skipped", "dry-run", "error"}, Ends(o),
             pc[r] # "done", op[r] \in Queries \cup {"none"} \/ o = "error"
      PROVE  Gate!Next
  <2>1. Gate!True(r, o)
    BY <1>6, <1>8 DEF Gate!True
  <2> QED BY <1>3, <1>5, <1>8, <2>1 DEF Outcomes
<1>9. CASE RejectInput(r)
  BY <1>8, <1>9 DEF RejectInput, Finish
<1>10. CASE DryRun(r)
  BY <1>1, <1>8, <1>10 DEF DryRun, Finish, RunInv, CallFits
<1>11. CASE Fetch(r)  BY <1>7, <1>11 DEF Fetch, Send
<1>12. CASE Retry(r)  BY <1>7, <1>12 DEF Retry
<1>13. CASE GiveUp(r)  BY <1>8, <1>13 DEF GiveUp, Finish
<1>14. CASE Ineligible(r)
  BY <1>8, <1>14 DEF Ineligible, Holds, Finish
<1>15. CASE AlreadyEnabled(r)
  <2>1. armedOnce /\ pc[r] # "done" /\ Ends("enabled")
    BY <1>1, <1>15 DEF AlreadyEnabled, Settled, Admitted, Holds, SeenArmed,
       RunInv, ReplyFits, Finish, Vouch
  <2> QED BY <1>3, <1>5, <2>1 DEF Gate!True, Outcomes
<1>16. CASE Refresh(r)
  <2>1. outcome[r] = "none"
    BY <1>1, <1>16 DEF Refresh, Admitted, Holds, RunInv, OutcomeFits
  <2>2. outcome' = outcome /\ vouched' \in {vouched, vouched \cup {r}}
    BY <1>16 DEF Refresh, Send, Vouch
  <2> QED BY <1>2, <1>4, <1>7, <2>1, <2>2 DEF Gate!See
<1>17. CASE SkipState(r)
  BY <1>8, <1>17 DEF SkipState, Settled, Admitted, Holds, Finish, Vouch
<1>18. CASE Mutate(r)
  <2>1. pc[r] # "done" /\ vouched' \in {vouched, vouched \cup {r}}
    BY <1>18 DEF Mutate, Settled, Admitted, Holds, Vouch
  <2>2. outcome[r] = "none"
    BY <1>1, <2>1 DEF RunInv, OutcomeFits
  <2>3. CASE view[r].id
    BY <1>2, <1>4, <1>7, <1>18, <2>1, <2>2, <2>3 DEF Mutate, Send, Gate!See
  <2>4. CASE ~view[r].id
    BY <1>8, <1>18, <2>1, <2>4 DEF Mutate, Finish
  <2> QED BY <2>3, <2>4
<1>19. CASE Conclude(r)
  <2>1. r \in landed /\ pc[r] # "done" /\ op[r] \in Mutations
    BY <1>1, <1>19 DEF Conclude, RunInv, ReplyFits
  <2>2. CASE op[r] = "merge"
    <3>1. Gate!True(r, "merged") /\ Ends("merged")
      BY <1>1, <1>19, <2>1, <2>2 DEF Conclude, Finish, Gate!True, Did, RunInv,
         EffectStands
    <3> QED BY <1>3, <1>5, <2>1, <3>1 DEF Outcomes
  <2>3. CASE op[r] = "enable"
    <3>1. Gate!True(r, "enabled") /\ Ends("enabled")
      BY <1>1, <1>19, <2>1, <2>3 DEF Conclude, Finish, Gate!True, Did, RunInv,
         EffectStands
    <3> QED BY <1>3, <1>5, <2>1, <3>1 DEF Outcomes
  <2> QED BY <2>1, <2>2, <2>3 DEF Mutations
<1> QED
  BY <1>9, <1>10, <1>11, <1>12, <1>13, <1>14, <1>15, <1>16, <1>17, <1>18, <1>19
  DEF Helper

\* An executed mutation is an act the gate allows; every other answer is a stutter.
LEMMA GateGithub ==
  ASSUME IInv, NEW r \in Runs,
         Trigger(r) \/ Github(r) \/ ExecuteLate(r) \/ RefuseLate(r)
  PROVE  [Gate!Next]_(Gate!vars)
<1>1. TypeOK /\ RunInv(r)
  BY DEF IInv
<1>2. ASSUME Apply(r), TRUE \in Verdicts(op[r]), op[r] \in Mutations,
             r \in vouched, outcome[r] \notin {"skipped", "dry-run"},
             UNCHANGED <<op, outcome, vouched>>
      PROVE  Gate!Act(r, op[r])
  <2>1. life = "open"
    BY <1>2 DEF Verdicts, Mutations
  <2>2. Did' = [Did EXCEPT ![r] = op[r]]
    BY <1>1, <1>2 DEF Apply, Did, TypeOK
  <2>3. Did[r] \in {"nothing", op[r]}
    BY DEF Did
  <2> QED BY <1>2, <2>1, <2>2, <2>3 DEF Gate!Act, Apply
<1>3. op[r] \in Mutations => (Gate!Act(r, op[r]) => Gate!Next)
  BY DEF Gate!Next, Mutations
<1>4. ASSUME UNCHANGED <<life, armedOnce, vouched, outcome, op, landed>>
      PROVE  UNCHANGED Gate!vars
  BY <1>4 DEF Gate!vars, Did
<1>5. CASE Trigger(r)  BY <1>4, <1>5 DEF Trigger, Elsewhere, github
<1>6. CASE AnswerQuery(r)
  BY <1>4, <1>6 DEF AnswerQuery, Deliver, github
<1>7. CASE Execute(r)
  <2>1. op[r] \in Mutations /\ r \in vouched
        /\ outcome[r] \notin {"skipped", "dry-run"}
    BY <1>1, <1>7 DEF Execute, RunInv, CallFits, OutcomeFits
  <2> QED BY <1>2, <1>3, <1>7, <2>1 DEF Execute, Deliver
<1>8. CASE Refuse(r)
  BY <1>4, <1>8 DEF Refuse, Deliver, github
<1>9. CASE FailRequest(r)
  BY <1>4, <1>9 DEF FailRequest, Deliver, github
<1>10. CASE ExecuteLate(r)
  <2>1. op[r] \in Mutations /\ r \in vouched
        /\ outcome[r] \notin {"skipped", "dry-run"}
    BY <1>1, <1>10 DEF ExecuteLate, RunInv, CallFits, OutcomeFits
  <2> QED BY <1>2, <1>3, <1>10, <2>1 DEF ExecuteLate, client
<1>11. CASE RefuseLate(r)
  BY <1>4, <1>11 DEF RefuseLate, client, github
<1> QED
  BY <1>5, <1>6, <1>7, <1>8, <1>9, <1>10, <1>11 DEF Github

\* What people do is the gate's world.
LEMMA GateOthers ==
  ASSUME TypeOK, Others
  PROVE  [Gate!Next]_(Gate!vars)
<1>1. UNCHANGED <<vouched, Did, outcome>>
  BY DEF Others, ByOthers, client, Did, Edit, ArmByHand, Disarm,
         MergeElsewhere, CloseOrReopen
<1>2. /\ life' \in (IF life = "merged" THEN {"merged"}
                                       ELSE {"open", "merged", "closed"})
      /\ armedOnce' \in (IF armedOnce THEN {TRUE} ELSE BOOLEAN)
  BY DEF Others, TypeOK, Edit, ArmByHand, Disarm, MergeElsewhere, CloseOrReopen
<1> QED
  BY <1>1, <1>2 DEF Gate!Next, Gate!World

\* Every behaviour of the helper runs, with their retries, lost replies and
\* stale snapshots, is one that MergeGate allows.
THEOREM Refinement == Spec => GateSpec
<1>1. IInv /\ [Next]_vars => [Gate!Next]_(Gate!vars)
  <2> SUFFICES ASSUME IInv, [Next]_vars PROVE [Gate!Next]_(Gate!vars)
    OBVIOUS
  <2>1. CASE \E r \in Runs : Trigger(r) \/ Helper(r) \/ Github(r)
                             \/ ExecuteLate(r) \/ RefuseLate(r)
    BY <2>1, GateHelper, GateGithub
  <2>2. CASE Others
    BY <2>2, GateOthers DEF IInv
  <2>3. CASE UNCHANGED vars
    BY <2>3 DEF vars, github, client, Gate!vars, Did
  <2> QED BY <2>1, <2>2, <2>3 DEF Next, Quiet
<1> QED
  BY <1>1, GateInit, Invariance, PTL DEF Spec, GateSpec, Gate!Spec

-----------------------------------------------------------------------------
(* How far a run is from its end.  That every run ends needs fairness, which *)
(* is TLC's; that it cannot go on for ever does not.                         *)

\* The steps of one request: it is sent and answered, and as often repeated as
\* MaxRetries allows.
Room == 2 * MaxRetries + 2

\* What is left until the request on its way, or the first one, is answered.
Now(r) ==
  IF pc[r] = "idle" THEN Room + 2
  ELSE IF pc[r] = "queued" THEN Room + 1
  ELSE IF pc[r] = "await" THEN 2 * (MaxRetries - attempt[r]) + 2
  ELSE IF pc[r] = "answered" THEN 2 * (MaxRetries - attempt[r]) + 1
  ELSE 0

\* The requests still to come: the refreshes that are left, and a mutation.
Later(r) ==
  IF pc[r] = "done" \/ op[r] \in Mutations THEN 0
  ELSE Room * (MaxRefreshes - refreshes[r] + 1)

StepsLeft(r) == Now(r) + Later(r)

\* A request takes at least one step.
LEMMA RoomTyped == Room \in Nat \ {0}
  BY RetryAssumption DEF Room

\* Room for n requests and for one more.
LEMMA RoomForMore ==
  ASSUME NEW n \in Nat
  PROVE  /\ Room \in Nat \ {0} /\ Room * n \in Nat
         /\ Room * (n + 1) = Room * n + Room
<1>1. Room \in Nat \ {0}
  BY RoomTyped
<1>2. \A m \in Nat : m * n \in Nat /\ m * (n + 1) = m * n + m
  OBVIOUS
<1> QED BY <1>1, <1>2

\* Both parts are numbers, of which a refresh takes room for one request.
LEMMA LeftTyped ==
  ASSUME TypeOK, NEW r \in Runs
  PROVE  /\ Now(r) \in 0 .. Room + 2 /\ Later(r) \in Nat
         /\ Later(r) <= Room * (MaxRefreshes + 1)
         /\ pc[r] \in {"await", "answered"} => Now(r) >= 1
         /\ ~(pc[r] = "done" \/ op[r] \in Mutations) => Later(r) >= Room
<1>1. /\ attempt[r] \in 0 .. MaxRetries /\ refreshes[r] \in 0 .. MaxRefreshes
      /\ MaxRetries \in Nat /\ MaxRefreshes \in Nat
  BY RetryAssumption DEF TypeOK
<1>2. /\ Now(r) \in 0 .. Room + 2
      /\ pc[r] \in {"await", "answered"} => Now(r) >= 1
  BY <1>1 DEF Now, Room
<1> DEFINE n == MaxRefreshes - refreshes[r]
<1>3. /\ n \in Nat /\ refreshes[r] \in Nat /\ MaxRefreshes + 1 = n + 1 + refreshes[r]
      /\ Later(r) = IF pc[r] = "done" \/ op[r] \in Mutations THEN 0 ELSE Room * (n + 1)
  BY <1>1 DEF Later
<1> HIDE DEF n
<1>4. /\ Room \in Nat \ {0} /\ Room * n \in Nat
      /\ Room * (n + 1) = Room * n + Room
  BY <1>3, RoomForMore
<1>5. Room * (n + 1 + refreshes[r]) = Room * (n + 1) + Room * refreshes[r]
      /\ Room * refreshes[r] \in Nat
  <2>1. \A a, b, c \in Nat : a * (b + c) = a * b + a * c /\ a * c \in Nat
    OBVIOUS
  <2> QED BY <1>3, <1>4, <2>1
<1> QED BY <1>2, <1>3, <1>4, <1>5

\* What is left is a number before and after a step.
LEMMA LeftTypedNext ==
  ASSUME TypeOK', NEW r \in Runs
  PROVE  StepsLeft(r)' \in Nat
<1>1. /\ attempt'[r] \in 0 .. MaxRetries /\ refreshes'[r] \in 0 .. MaxRefreshes
      /\ MaxRetries \in Nat /\ MaxRefreshes \in Nat /\ Room \in Nat
  BY RetryAssumption, RoomTyped DEF TypeOK
<1>2. Now(r)' \in Nat
  BY <1>1 DEF Now
<1>3. Later(r)' \in Nat
  <2>1. MaxRefreshes - refreshes'[r] + 1 \in Nat
    BY <1>1
  <2>2. Room * (MaxRefreshes - refreshes'[r] + 1) \in Nat
    BY <1>1, <2>1, RoomForMore
  <2> QED BY <2>2 DEF Later
<1> QED BY <1>2, <1>3 DEF StepsLeft

\* A run whose place, call and counters stay is as far from its end as before.
LEMMA LeftSame ==
  ASSUME NEW s \in Runs, pc'[s] = pc[s], op'[s] = op[s], attempt'[s] = attempt[s],
         refreshes'[s] = refreshes[s]
  PROVE  StepsLeft(s)' = StepsLeft(s)
  BY DEF StepsLeft, Now, Later

\* A run that ends, or goes on with what it has room for, comes nearer to its end.
LEMMA HelperAdvances ==
  ASSUME IInv, NEW r \in Runs, Helper(r)
  PROVE  StepsLeft(r)' < StepsLeft(r)
<1>1. TypeOK /\ CallFits(r)
  BY DEF IInv, RunInv
<1>2. /\ Now(r) \in Nat /\ Later(r) \in Nat /\ Room \in Nat
      /\ pc[r] \in {"await", "answered"} => Now(r) >= 1
      /\ ~(pc[r] = "done" \/ op[r] \in Mutations) => Later(r) >= Room
  BY <1>1, LeftTyped, RoomTyped
<1>3. /\ attempt[r] \in 0 .. MaxRetries /\ refreshes[r] \in 0 .. MaxRefreshes
      /\ MaxRetries \in Nat /\ MaxRefreshes \in Nat
  BY <1>1, RetryAssumption DEF TypeOK
<1>4. CASE pc'[r] = "done" /\ pc[r] \in {"queued", "answered"}
  <2>1. Now(r)' = 0 /\ Later(r)' = 0
    BY <1>4 DEF Now, Later
  <2>2. Now(r) >= 1
    BY <1>2, <1>4 DEF Now
  <2> QED BY <1>2, <2>1, <2>2 DEF StepsLeft
<1>5. CASE Fetch(r)
  <2>1. /\ pc[r] = "queued" /\ pc'[r] = "await" /\ attempt'[r] = 0 /\ refreshes' = refreshes
        /\ op[r] = "none" /\ op'[r] = "fetch"
    BY <1>1, <1>5 DEF Fetch, Send, TypeOK, CallFits
  <2>2. Now(r) = Room + 1 /\ Now(r)' = Room
    BY <1>3, <2>1 DEF Now, Room
  <2>3. Later(r)' = Later(r)
    BY <2>1 DEF Later, Mutations
  <2> QED BY <1>2, <2>2, <2>3 DEF StepsLeft
<1>6. CASE Retry(r)
  <2>1. /\ pc[r] = "answered" /\ pc'[r] = "await" /\ attempt'[r] = attempt[r] + 1
        /\ op' = op /\ refreshes' = refreshes
    BY <1>1, <1>6 DEF Retry, TypeOK
  <2>2. Now(r)' = Now(r) - 1
    BY <1>3, <2>1 DEF Now
  <2>3. Later(r)' = Later(r)
    BY <2>1 DEF Later
  <2> QED BY <1>2, <2>2, <2>3 DEF StepsLeft
<1>7. CASE Refresh(r)
  <2>1. /\ pc[r] = "answered" /\ pc'[r] = "await" /\ attempt'[r] = 0
        /\ op[r] \in Queries /\ op'[r] = "refresh"
        /\ refreshes[r] < MaxRefreshes /\ refreshes'[r] = refreshes[r] + 1
    BY <1>1, <1>7 DEF Refresh, Refreshing, Admitted, Holds, Send, TypeOK
  <2>2. Now(r)' = Room
    BY <1>3, <2>1 DEF Now, Room
  <2> DEFINE n == MaxRefreshes - refreshes[r]
  <2>3. n \in Nat /\ MaxRefreshes - (refreshes[r] + 1) + 1 = n
    BY <1>3
  <2>4. Later(r) = Room * (n + 1) /\ Later(r)' = Room * n
    BY <2>1, <2>3 DEF Later, Queries, Mutations
  <2> HIDE DEF n
  <2>5. Room * (n + 1) = Room * n + Room /\ Room * n \in Nat
    BY <2>3, RoomForMore
  <2> QED BY <1>2, <2>1, <2>2, <2>4, <2>5 DEF StepsLeft
<1>8. CASE Mutate(r) /\ view[r].id
  <2>1. /\ pc[r] = "answered" /\ pc'[r] = "await" /\ attempt'[r] = 0
        /\ op[r] \in Queries /\ op'[r] \in Mutations
    BY <1>1, <1>8 DEF Mutate, Settled, Admitted, Holds, Send, TypeOK, Mutations
  <2>2. Now(r)' = Room /\ Later(r)' = 0
    BY <1>3, <2>1 DEF Now, Room, Later
  <2>3. Later(r) >= Room
    BY <1>2, <2>1 DEF Queries, Mutations
  <2> QED BY <1>2, <2>1, <2>2, <2>3 DEF StepsLeft
<1>9. \/ pc'[r] = "done" /\ pc[r] \in {"queued", "answered"}
      \/ Fetch(r) \/ Retry(r) \/ Refresh(r)
      \/ Mutate(r) /\ view[r].id
  <2>1. pc \in [Runs -> {"idle", "queued", "await", "answered", "done"}]
    BY <1>1 DEF TypeOK
  <2>2. CASE RejectInput(r) \/ DryRun(r)
    BY <2>1, <2>2 DEF RejectInput, DryRun, Finish
  <2>3. CASE GiveUp(r) \/ Conclude(r)
    BY <2>1, <2>3 DEF GiveUp, Conclude, Finish
  <2>4. CASE Ineligible(r) \/ AlreadyEnabled(r) \/ SkipState(r)
    BY <2>1, <2>4 DEF Ineligible, AlreadyEnabled, SkipState, Settled, Admitted, Holds, Finish
  <2>5. CASE Mutate(r) /\ ~view[r].id
    BY <2>1, <2>5 DEF Mutate, Settled, Admitted, Holds, Finish
  <2> QED BY <2>2, <2>3, <2>4, <2>5 DEF Helper
<1> QED BY <1>4, <1>5, <1>6, <1>7, <1>8, <1>9

\* A request that is settled, and a run that is dispatched, come a step nearer.
LEMMA GithubAdvances ==
  ASSUME TypeOK, NEW r \in Runs, Trigger(r) \/ Github(r)
  PROVE  StepsLeft(r)' < StepsLeft(r)
<1>1. /\ op' = op /\ attempt' = attempt /\ refreshes' = refreshes
      /\ \/ pc[r] = "idle" /\ pc'[r] = "queued"
         \/ pc[r] = "await" /\ pc'[r] = "answered"
  BY DEF Trigger, Github, AnswerQuery, Execute, Refuse, FailRequest, Deliver, TypeOK
<1>2. Later(r)' = Later(r) /\ Later(r) \in Nat /\ Now(r) \in Nat
  <2>1. Later(r) \in Nat /\ Now(r) \in Nat
    BY LeftTyped, RoomTyped
  <2>2. Later(r)' = Later(r)
    BY <1>1 DEF Later
  <2> QED BY <2>1, <2>2
<1>3. Now(r)' = Now(r) - 1
  <2>1. attempt[r] \in Nat /\ MaxRetries \in Nat /\ Room \in Nat
    BY RetryAssumption, RoomTyped DEF TypeOK
  <2> QED BY <1>1, <2>1 DEF Now
<1> QED BY <1>2, <1>3 DEF StepsLeft

\* No step takes a run away from its end, and every step of the run itself or
\* of GitHub settling its request brings it nearer, whatever the other runs and
\* people do meanwhile.
Advances ==
  \A r \in Runs : /\ StepsLeft(r)' <= StepsLeft(r)
                  /\ (Helper(r) \/ Github(r)) => StepsLeft(r)' < StepsLeft(r)

\* A run's step leaves the others' requests and counters alone.
LEMMA OthersKeepWay ==
  ASSUME TypeOK, NEW r \in Runs, NEW s \in Runs \ {r}, Helper(r) \/ Trigger(r) \/ Github(r)
  PROVE  StepsLeft(s)' = StepsLeft(s)
<1>1. CASE Helper(r)
  <2> USE DEF TypeOK, Finish, Send
  <2>1. pc'[s] = pc[s] /\ op'[s] = op[s] /\ attempt'[s] = attempt[s] /\ refreshes'[s] = refreshes[s]
    BY <1>1 DEF Helper, RejectInput, DryRun, Fetch, Retry, GiveUp, Ineligible,
                AlreadyEnabled, Refresh, SkipState, Mutate, Conclude
  <2> QED BY <2>1, LeftSame
<1>2. CASE Trigger(r) \/ Github(r)
  <2>1. /\ op' = op /\ attempt' = attempt /\ refreshes' = refreshes
        /\ pc'[s] = pc[s]
    BY <1>2 DEF Trigger, Github, AnswerQuery, Execute, Refuse, FailRequest, Deliver, TypeOK
  <2> QED BY <2>1, LeftSame
<1> QED BY <1>1, <1>2

\* Under every interleaving the runs only come nearer to their ends.
LEMMA AdvancesStep == IInv /\ [Next]_vars => Advances
<1> SUFFICES ASSUME IInv, [Next]_vars, NEW s \in Runs
             PROVE  /\ StepsLeft(s)' <= StepsLeft(s)
                    /\ (Helper(s) \/ Github(s)) => StepsLeft(s)' < StepsLeft(s)
  BY DEF Advances
<1>1. TypeOK
  BY DEF IInv
<1>2. StepsLeft(s) \in Nat
  <2>1. Now(s) \in 0 .. Room + 2 /\ Later(s) \in Nat
    BY <1>1, LeftTyped
  <2> QED BY <2>1, RoomTyped DEF StepsLeft
<1>3. ASSUME Helper(s) \/ Trigger(s) \/ Github(s)
      PROVE  StepsLeft(s)' < StepsLeft(s) /\ StepsLeft(s)' <= StepsLeft(s)
  <2>1. StepsLeft(s)' < StepsLeft(s)
    BY <1>1, <1>3, HelperAdvances, GithubAdvances
  <2>2. TypeOK'
    BY <1>1, TypeStep
  <2>3. StepsLeft(s)' \in Nat
    BY <2>2, LeftTypedNext
  <2> QED BY <1>2, <2>1, <2>3
<1>4. ASSUME NEW r \in Runs, r # s, Helper(r) \/ Trigger(r) \/ Github(r)
      PROVE  StepsLeft(s)' <= StepsLeft(s)
  BY <1>1, <1>2, <1>4, OthersKeepWay
<1>5. ASSUME UNCHANGED client
      PROVE  StepsLeft(s)' <= StepsLeft(s)
  <2>1. UNCHANGED <<pc, op, attempt, refreshes>>
    BY <1>5 DEF client
  <2> QED BY <1>2, <2>1, LeftSame
<1>6. StepsLeft(s)' <= StepsLeft(s)
  <2>1. CASE \E r \in Runs : Trigger(r) \/ Helper(r) \/ Github(r)
    BY <2>1, <1>3, <1>4
  <2>2. CASE \E r \in Runs : ExecuteLate(r) \/ RefuseLate(r)
    BY <2>2, <1>5 DEF ExecuteLate, RefuseLate
  <2>3. CASE Others
    BY <2>3, <1>5 DEF Others, ByOthers, Edit, ArmByHand, Disarm, MergeElsewhere, CloseOrReopen
  <2>4. CASE UNCHANGED vars
    BY <2>4, <1>5 DEF vars
  <2> QED BY <2>1, <2>2, <2>3, <2>4 DEF Next, Quiet
<1> QED BY <1>3, <1>6

\* Every behaviour takes each run nearer to its end with every step it makes: a
\* helper whose requests are settled cannot loop, however often requests fail,
\* GitHub says UNKNOWN and people interfere.
THEOREM Advancing == Spec => [][Advances]_vars
  BY AdvancesStep, Invariance, PTL DEF Spec

\* The requests of a run: a first look, MaxRefreshes more and a mutation, each
\* with its repetitions; and two steps before the first is sent.
MaxSteps == Room * (MaxRefreshes + 2) + 2

\* The way of a run is no longer than that.
LEMMA WithinMaxSteps ==
  ASSUME TypeOK, NEW r \in Runs
  PROVE  StepsLeft(r) \in 0 .. MaxSteps
<1>1. MaxRefreshes + 1 \in Nat /\ MaxRefreshes + 1 + 1 = MaxRefreshes + 2
  BY RetryAssumption
<1>2. /\ Room \in Nat /\ Room * (MaxRefreshes + 1) \in Nat
      /\ Room * (MaxRefreshes + 1 + 1) = Room * (MaxRefreshes + 1) + Room
  BY <1>1, RoomForMore
<1>3. /\ Now(r) \in 0 .. Room + 2 /\ Later(r) \in Nat
      /\ Later(r) <= Room * (MaxRefreshes + 1)
  BY LeftTyped
<1> DEFINE some == Room * (MaxRefreshes + 1)
           all == Room * (MaxRefreshes + 2)
<1>4. some \in Nat /\ all = some + Room /\ Later(r) <= some
  BY <1>1, <1>2, <1>3
<1>5. MaxSteps = all + 2
  BY DEF MaxSteps
<1> HIDE DEF some, all
<1> QED BY <1>2, <1>3, <1>4, <1>5 DEF StepsLeft

\* A run has at most MaxSteps to go, and so, with Advancing, makes at most
\* (MaxRetries + 1) * (MaxRefreshes + 2) requests.
THEOREM BoundedRuns == Spec => [](\A r \in Runs : StepsLeft(r) \in 0 .. MaxSteps)
<1>1. TypeOK => \A r \in Runs : StepsLeft(r) \in 0 .. MaxSteps
  BY WithinMaxSteps, Zenon
<1> QED BY <1>1, Typing, PTL
=============================================================================
