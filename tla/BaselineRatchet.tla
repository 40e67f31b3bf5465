-------------------------- MODULE BaselineRatchet --------------------------
(***************************************************************************)
(* The coverage ratchet: the Restore, Ratchet and Save steps of            *)
(* generate-coverage/action.yml with scripts/ratchet_coverage.py, in the   *)
(* two workflows that run them: coverage-main.yml on the main branch and   *)
(* ci.yml on one pull request.  Runs of a branch cancel each other; a run  *)
(* may be run again and keeps its run_id.  Coverage and the tolerance are  *)
(* counted in steps of a fraction of a percentage point.                   *)
(*                                                                         *)
(* The store is the Actions cache: entries are immutable, and a branch     *)
(* reads its own before those of main.  actions/cache restores when its    *)
(* step runs and saves when the job is over, if nothing has failed.        *)
(***************************************************************************)
EXTENDS Naturals, Sequences

CONSTANTS
  MainRuns, PullRuns,  \* workflow runs of main, and of the pull request
  Languages,           \* rust and python, each with a baseline file of its own
  Measured,            \* those of the project
  Levels,              \* the highest coverage
  Band,                \* RATCHET_TOLERANCE_PP
  MaxAttempts          \* bound: how often each run is started

Runs == MainRuns \cup PullRuns

ASSUME RunsAssumption == MainRuns \cap PullRuns = {}
ASSUME MeasuredAssumption == Measured \subseteq Languages
ASSUME NumbersAssumption ==
         Levels \in Nat /\ Band \in Nat /\ MaxAttempts \in [Runs -> Nat]

VARIABLES
  store,     \* the cache entries, oldest first
  pc, attempt,
  files,     \* each run's baseline files
  covered,   \* what its job measured
  hit,       \* "Save baselines" found its key
  since      \* history: the entries there were when it restored

vars == <<store, pc, attempt, files, covered, hit, since>>

Percents == [Languages -> 0 .. Levels]
Zero == [l \in Languages |-> 0]

Scope(r) == IF r \in MainRuns THEN "main" ELSE "pull"
Group(r) == {s \in Runs : Scope(s) = Scope(r)}

Active == {"restore", "ratchet", "save", "post"}
Over == {"passed", "failed", "cancelled"}

\* As it was before the run_id was part of it.
KeyConstant(r) == "ratchet-baseline"
\* ratchet-baseline-<os>-<run_id>
Key(r) == r

InScope(c) == {i \in DOMAIN store : Scope(store[i].run) = c}
Exact(r) == {i \in InScope(Scope(r)) : Key(store[i].run) = Key(r)}
Newest(I) == {i \in I : \A j \in I : j <= i}

\* What the key and then the restore-keys prefix find.
Restored(r) ==
  CASE Exact(r) # {} -> Newest(Exact(r))
    [] Exact(r) = {} /\ InScope(Scope(r)) # {} -> Newest(InScope(Scope(r)))
    [] InScope(Scope(r)) = {} -> Newest(InScope("main"))

\* The decisions of ratchet_coverage.py; and as if every passing run were followed.
Passes(base, percent) == percent + Band >= base
AdvanceAlways(base, percent) == percent
Advance(base, percent) == IF percent > base + Band THEN percent ELSE base

Init == /\ store = <<>>
        /\ pc = [r \in Runs |-> "idle"]
        /\ attempt = [r \in Runs |-> 0]
        /\ files = [r \in Runs |-> Zero]
        /\ covered = [r \in Runs |-> Zero]
        /\ hit = [r \in Runs |-> FALSE]
        /\ since = [r \in Runs |-> 0]

Goto(r, place) == pc' = [pc EXCEPT ![r] = place]

Running(R) == {r \in R : pc[r] \in Active}

\* With a job its runner goes, and all that was of the job.
Discard(R) == /\ files' = [r \in Runs |-> IF r \in R THEN Zero ELSE files[r]]
              /\ covered' = [r \in Runs |-> IF r \in R THEN Zero ELSE covered[r]]
              /\ hit' = [r \in Runs |-> r \notin R /\ hit[r]]
              /\ since' = [r \in Runs |-> IF r \in R THEN 0 ELSE since[r]]

\* A run is started, or started again, on a fresh runner and cancels whatever
\* its concurrency group is running.
Start(r) == /\ pc[r] = "idle" \/ pc[r] \in Over
            /\ attempt[r] < MaxAttempts[r]
            /\ attempt' = [attempt EXCEPT ![r] = @ + 1]
            /\ pc' = [s \in Runs |-> IF s = r THEN "restore"
                                     ELSE IF s \in Running(Group(r)) THEN "cancelled"
                                     ELSE pc[s]]
            /\ Discard(Running(Group(r)))
            /\ UNCHANGED store

\* Restore baselines, and Ensure baseline files.
Restore(r) == /\ pc[r] = "restore"
              /\ \/ /\ InScope(Scope(r)) = {} /\ InScope("main") = {}
                    /\ files' = [files EXCEPT ![r] = Zero]
                 \/ \E i \in Restored(r) :
                      files' = [files EXCEPT ![r] = store[i].base]
              /\ since' = [since EXCEPT ![r] = Len(store)]
              /\ Goto(r, "ratchet")
              /\ UNCHANGED <<store, attempt, covered, hit>>

\* The tests are run and each measured language is held against its file.
Ratchet(r) ==
  /\ pc[r] = "ratchet"
  /\ \E c \in Percents :
       /\ \A l \in Languages \ Measured : c[l] = 0
       /\ \A l \in Measured : Passes(files[r][l], c[l])
       /\ covered' = [covered EXCEPT ![r] = c]
       /\ files' = [files EXCEPT ![r] =
                      [l \in Languages |-> IF l \in Measured
                                           THEN Advance(@[l], c[l]) ELSE @[l]]]
  /\ Goto(r, "save")
  /\ UNCHANGED <<store, attempt, hit, since>>

\* As if set -e were missing.
RatchetFailsUnnoticed(r) ==
  /\ pc[r] = "ratchet"
  /\ \E l \in Measured : \E c \in 0 .. Levels :
       /\ ~Passes(files[r][l], c)
       /\ covered' = [covered EXCEPT ![r] = [Zero EXCEPT ![l] = c]]
  /\ Goto(r, "save")
  /\ UNCHANGED <<store, attempt, files, hit, since>>

RatchetFails(r) ==
  /\ pc[r] = "ratchet"
  /\ \E l \in Measured : \E c \in 0 .. Levels : ~Passes(files[r][l], c)
  /\ Goto(r, "failed")
  /\ Discard({r})
  /\ UNCHANGED <<store, attempt>>

\* Save baselines restores first: where the key is there already, its entry
\* replaces the files.
Save(r) == /\ pc[r] = "save"
           /\ \/ Exact(r) = {} /\ UNCHANGED <<files, hit>>
              \/ \E i \in Exact(r) :
                   /\ files' = [files EXCEPT ![r] = store[i].base]
                   /\ hit' = [hit EXCEPT ![r] = TRUE]
           /\ Goto(r, "post")
           /\ UNCHANGED <<store, attempt, covered, since>>

\* The end of the job: an entry is saved unless the key was found.
Post(r) == /\ pc[r] = "post"
           /\ IF hit[r] \/ Exact(r) # {}
              THEN UNCHANGED store
              ELSE store' = Append(store, [run |-> r, base |-> files[r],
                                           cov |-> covered[r]])
           /\ Goto(r, "passed")
           /\ Discard({r})
           /\ UNCHANGED attempt

\* The tests, or another step of the job before or after, fail.
Fail(r) == /\ pc[r] \in Active
           /\ Goto(r, "failed")
           /\ Discard({r})
           /\ UNCHANGED <<store, attempt>>

Stopped == /\ \A r \in Runs : pc[r] \in Over /\ attempt[r] = MaxAttempts[r]
           /\ UNCHANGED vars

Next == \/ \E r \in Runs : Start(r) \/ Restore(r) \/ Ratchet(r) \/ RatchetFails(r)
                           \/ Save(r) \/ Post(r) \/ Fail(r)
        \/ Stopped

Spec == Init /\ [][Next]_vars

-----------------------------------------------------------------------------
Entry == [run : Runs, base : Percents, cov : Percents]

TypeOK == /\ store \in Seq(Entry)
          /\ pc \in [Runs -> {"idle"} \cup Active \cup Over]
          /\ attempt \in [Runs -> Nat]
          /\ \A r \in Runs : attempt[r] <= MaxAttempts[r]
          /\ files \in [Runs -> Percents] /\ covered \in [Runs -> Percents]
          /\ hit \in [Runs -> BOOLEAN]
          /\ since \in [Runs -> Nat]

\* A branch's baseline never goes down, whatever is cancelled, fails or is run
\* again: of two entries of a branch the later is as high in either language.
OnlyRises ==
  \A i, k \in DOMAIN store :
    i < k /\ Scope(store[i].run) = Scope(store[k].run)
    => \A l \in Languages : store[i].base[l] <= store[k].base[l]

\* Dips inside the band do not add up: what the ratchet lets pass is within the
\* band of every baseline its branch had when the job started, and not of the
\* last one alone, unless it is one of an old run that is run again and looks at
\* its own.
NoSlowDrift ==
  \A r \in Runs : pc[r] \in {"save", "post"} =>
    \A i \in 1 .. since[r] :
      \/ Scope(store[i].run) # Scope(r)
      \/ \A l \in Measured : Passes(store[i].base[l], covered[r][l])
      \/ \E n \in 1 .. i - 1 : store[n].run = r

\* An improvement beyond the band survives: a run that passes at its first
\* attempt leaves an entry that is no further below what was measured for it.
ImprovementKept ==
  \A r \in Runs : pc[r] = "passed" /\ attempt[r] = 1 =>
    \E i \in DOMAIN store :
      store[i].run = r /\ \A l \in Measured : store[i].cov[l] <= store[i].base[l] + Band

\* A baseline is stored only by a job both of whose languages it would let
\* pass: one that advanced Rust and then failed on Python leaves nothing.
SavedByPassing ==
  \A i \in DOMAIN store : \A l \in Measured :
    Passes(store[i].base[l], store[i].cov[l])

\* coverage-main.yml: the baseline written on main is the one the pull
\* request's checks compare against.
PullComparesWithMain ==
  \A r \in PullRuns : pc[r] = "ratchet" =>
    \A i \in Newest({j \in InScope("main") : j <= since[r]}) :
      files[r] = store[i].base
=============================================================================
