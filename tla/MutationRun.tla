---------------------------- MODULE MutationRun ----------------------------
(***************************************************************************)
(* One run of mutation-cargo.yml: a job detects what to mutate and fans    *)
(* out a matrix of legs, each leg runs cargo-mutants on one target and     *)
(* uploads its report, and a last job merges the reports into a summary.   *)
(* A target is a position: 0 is the root, i the crate extra-crate-dirs[i]; *)
(* a leg is a target and a shard.  A file stands for one mutant of it.     *)
(***************************************************************************)
EXTENDS Naturals, Sequences, FiniteSets

CONSTANTS
  Files, Dirs,
  Home,        \* the crate of a file, "." for the root workspace
  Under,       \* [Dirs -> SUBSET Files]: the files strictly under <dir>/src
  RootFiles,   \* the files under a prefix of the input paths
  Index,       \* the position of a file's mutant in cargo-mutants' list
  SlugOf,      \* [Dirs -> STRING]: a directory with each "/" made a "-"
  Configs,     \* values of the input extra-crate-dirs
  Trees,       \* sets of files that exist at the tip
  ShardCount,  \* input shard-count
  MaxFaults    \* bound: legs that go wrong

\* A file is handed to the crate it belongs to: crates nested in one another
\* are listed innermost first, and paths covers files of the root workspace.
Beneath(dirs, f) == {i \in DOMAIN dirs : f \in Under[dirs[i]]}
ASSUME LayoutAssumption ==
  \A c \in Configs : \A f \in Files :
    /\ \A i \in Beneath(c, f) :
         (\A j \in Beneath(c, f) : i <= j) => Home[f] = c[i]
    /\ f \in RootFiles /\ Beneath(c, f) = {} => Home[f] = "."
ASSUME ConstantsAssumption ==
  /\ Configs \subseteq Seq(Dirs) /\ Trees \subseteq SUBSET Files
  /\ Home \in [Files -> Dirs \cup {"."}] /\ Index \in [Files -> Nat]
  /\ "." \notin Dirs
  /\ ShardCount \in Nat \ {0} /\ MaxFaults \in Nat

VARIABLES
  event, extra, tree, logged,    \* what triggered the run, and on what
  weak,                          \* files with a mutant the tests do not catch
  legs, job, report, found,      \* the matrix; the report a leg writes
  artefacts,                     \* legs whose report is uploaded
  pc, entries                    \* the run; the survivors in its summary

given == <<event, extra, tree, logged, weak>>
vars == <<given, legs, job, report, found, artefacts, pc, entries>>

Full == event = "workflow_dispatch"

Init == /\ event \in {"workflow_dispatch", "schedule"}
        /\ extra \in Configs /\ tree \in Trees
        /\ logged \in (IF Full THEN {{}} ELSE SUBSET Files)
        /\ weak \in SUBSET tree
        /\ legs = {} /\ job = <<>> /\ report = <<>> /\ found = <<>>
        /\ artefacts = {} /\ pc = "detect" /\ entries = {}

-----------------------------------------------------------------------------
(* The detect job. *)

\* changed_files: what git log names and still exists.
Changed == logged \cap tree

\* bucket_files: the first crate a file lies under, then the root prefixes.
Bucket(i) ==
  {f \in Changed :
     IF i = 0 THEN f \in RootFiles /\ Beneath(extra, f) = {}
     ELSE i \in Beneath(extra, f) /\ \A j \in Beneath(extra, f) : i <= j}

\* The root has n shards, every crate one.
FullRunMatrix == ({0} \X (0..ShardCount - 1)) \cup ((DOMAIN extra) \X {0})

ScopedRunMatrix == {i \in {0} \cup DOMAIN extra : Bucket(i) # {}} \X {0}

Matrix == IF Full THEN FullRunMatrix ELSE ScopedRunMatrix

Detect == /\ pc = "detect" /\ Matrix # {}
          /\ legs' = Matrix /\ pc' = "legs"
          /\ job' = [l \in Matrix |-> "running"]
          /\ report' = [l \in Matrix |-> "none"]
          /\ found' = [l \in Matrix |-> {}]
          /\ UNCHANGED <<given, artefacts, entries>>

\* has_changes is false: both later jobs are skipped.
Skip == /\ pc = "detect" /\ Matrix = {}
        /\ pc' = "quiet"
        /\ UNCHANGED <<given, legs, job, report, found, artefacts, entries>>

\* Without its outputs the later jobs are skipped too.
DetectFails == /\ pc = "detect"
               /\ pc' = "broken"
               /\ UNCHANGED <<given, legs, job, report, found, artefacts, entries>>

-----------------------------------------------------------------------------
(* The legs. *)

TargetDir(i) == IF i = 0 THEN "." ELSE extra[i]
SlugFor(i) == IF i = 0 THEN "root" ELSE SlugOf[extra[i]]
Name(l) == <<SlugFor(l[1]), l[2]>>

\* As if --shard were not passed on.
TestedUnsharded(l) ==
  {f \in tree : Home[f] = TargetDir(l[1]) /\ (Full \/ f \in Bucket(l[1]))}

\* cargo mutants --dir, with --shard k/n when there is more than one, or with
\* --file for each file of the leg: external, from the arguments it is given.
Tested(l) ==
  {f \in tree : /\ Home[f] = TargetDir(l[1])
                /\ IF Full THEN l[1] = 0 => Index[f] % ShardCount = l[2]
                   ELSE f \in Bucket(l[1])}
Missed(l) == Tested(l) \cap weak

InformativeExitCodes == {0, 2, 3}

\* What cargo mutants leaves in mutants.out, all of it (with nothing to mutate
\* perhaps no directory) or as far as it got, and its exit code: external.
Complete(l) == \/ /\ found' = [found EXCEPT ![l] = Missed(l)]
                  /\ report' = [report EXCEPT ![l] = "readable"]
               \/ Tested(l) = {} /\ UNCHANGED <<report, found>>
Partial(l) ==
  \/ /\ \E s \in SUBSET Missed(l) : found' = [found EXCEPT ![l] = s]
     /\ report' = [report EXCEPT ![l] = "readable"]
  \/ /\ \E k \in {"garbled", "none"} : report' = [report EXCEPT ![l] = k]
     /\ UNCHANGED found
CargoMutants(l, code) ==
  \/ code \in {IF Missed(l) = {} THEN 0 ELSE 2, 3} /\ Complete(l)
  \/ code \in {1, 4, 70} /\ Partial(l)

\* Bound.
MayFault == Cardinality({l \in legs : job[l] \in {"faulted", "red", "lost"}}) < MaxFaults

InLeg(l, j) == /\ job' = [job EXCEPT ![l] = j]
               /\ UNCHANGED <<given, legs, pc, entries>>

\* Checkout, setup-rust, binstall or the setup commands fail.
SetupFails(l) == /\ job[l] = "running" /\ MayFault
                 /\ InLeg(l, "faulted")
                 /\ UNCHANGED <<report, found, artefacts>>

RunCargo(l) ==
  /\ job[l] = "running"
  /\ \E code \in {0, 1, 2, 3, 4, 70} :
       /\ CargoMutants(l, code)
       /\ \/ code \in InformativeExitCodes /\ InLeg(l, "tested")
          \/ code \notin InformativeExitCodes /\ MayFault /\ InLeg(l, "faulted")
  /\ UNCHANGED artefacts

\* The step is cut off at timeout-minutes; the job goes on to its last step.
StepTimesOut(l) == /\ job[l] = "running" /\ MayFault
                   /\ InLeg(l, "faulted") /\ Partial(l)
                   /\ UNCHANGED artefacts

\* Another leg, of whatever target, has a report of this name.
Taken(l) == \E m \in artefacts : Name(m) = Name(l)

\* As if an upload replaced the one of that name.
UploadOverwrites(l) ==
  /\ job[l] \in {"tested", "faulted"}
  /\ InLeg(l, IF job[l] = "tested" THEN "green" ELSE "red")
  /\ artefacts' = IF report[l] = "none" THEN artefacts
                  ELSE {m \in artefacts : Name(m) # Name(l)} \cup {l}
  /\ UNCHANGED <<report, found>>

\* always(); a name that is taken is refused, a missing path only warned of.
Upload(l) ==
  /\ job[l] \in {"tested", "faulted"}
  /\ \/ /\ report[l] = "none"
        /\ InLeg(l, IF job[l] = "tested" THEN "green" ELSE "red")
        /\ UNCHANGED artefacts
     \/ /\ report[l] # "none" /\ ~Taken(l)
        /\ InLeg(l, IF job[l] = "tested" THEN "green" ELSE "red")
        /\ artefacts' = artefacts \cup {l}
     \/ /\ report[l] # "none" /\ Taken(l)
        /\ InLeg(l, "red")
        /\ UNCHANGED artefacts
  /\ UNCHANGED <<report, found>>

\* The job reaches its own ceiling, its runner dies, or the upload fails.
LegLost(l) == /\ job[l] \in {"running", "tested", "faulted"} /\ MayFault
              /\ InLeg(l, "lost")
              /\ UNCHANGED <<report, found, artefacts>>

Leg(l) == \/ SetupFails(l) \/ RunCargo(l) \/ StepTimesOut(l)
          \/ Upload(l) \/ LegLost(l)

-----------------------------------------------------------------------------
(* The summarize job. *)

\* As if without always().
LegsOverGreen == \A l \in legs : job[l] = "green"
\* always(), and needs: whatever became of the legs, they are over.
LegsOver == \A l \in legs : job[l] \in {"green", "red", "lost"}

\* As if the reports of red legs were left out.
CollectReportsOfGreen ==
  UNION {{[slug |-> SlugFor(l[1]), leg |-> l, file |-> f] : f \in found[l]} :
           l \in {m \in artefacts : report[m] = "readable" /\ job[m] = "green"}}

\* collect_reports: missing and invalid reports are skipped, the rest merged
\* by the slug in their names.
CollectReports ==
  UNION {{[slug |-> SlugFor(l[1]), leg |-> l, file |-> f] : f \in found[l]} :
           l \in {m \in artefacts : report[m] = "readable"}}

Summarize == /\ pc = "legs" /\ LegsOver
             /\ entries' = CollectReports /\ pc' = "posted"
             /\ UNCHANGED <<given, legs, job, report, found, artefacts>>

SummarizeFails == /\ pc = "legs" /\ LegsOver
                  /\ pc' = "unposted"
                  /\ UNCHANGED <<given, legs, job, report, found, artefacts, entries>>

-----------------------------------------------------------------------------

Next == \/ Detect \/ Skip \/ DetectFails
        \/ \E l \in legs : Leg(l)
        \/ Summarize \/ SummarizeFails

Positions == UNION {DOMAIN c : c \in Configs}
AllLegs == ({0} \X (0..ShardCount - 1)) \cup (Positions \X {0})

\* Every job is run, and a step has a timeout.
Fairness == /\ WF_vars(Detect \/ Skip) /\ WF_vars(Summarize)
            /\ \A l \in AllLegs : WF_vars(l \in legs /\ Leg(l))

Spec == Init /\ [][Next]_vars /\ Fairness

-----------------------------------------------------------------------------
(* Properties. *)

Over == {"quiet", "broken", "posted", "unposted"}
Jobs == {"running", "tested", "faulted", "green", "red", "lost"}

\* The types of the state; the legs are the ones GitHub was given a name for.
TypeOK == /\ extra \in Configs /\ tree \in Trees
          /\ logged \subseteq Files /\ weak \subseteq tree
          /\ legs \subseteq AllLegs /\ artefacts \subseteq legs
          /\ job \in [legs -> Jobs]
          /\ report \in [legs -> {"none", "readable", "garbled"}]
          /\ found \in [legs -> SUBSET Files]
          /\ pc \in {"detect", "legs"} \cup Over

\* What the run is asked to test: everything, or what has changed.
Targets == {TargetDir(i) : i \in {0} \cup DOMAIN extra}
InScope(f) ==
  /\ f \in tree /\ Home[f] \in Targets
  /\ Full \/ (f \in logged /\ (f \in RootFiles \/ Beneath(extra, f) # {}))

RunIsGreen == \/ pc = "quiet"
              \/ pc = "posted" /\ \A l \in legs : job[l] = "green"

\* A run that ends green lists the survivors of its scope, all of them and no
\* other, each under the name of its crate: sharding, bucketing, uploads from
\* concurrent legs and the merge lose none.
GreenIsExact ==
  RunIsGreen =>
    \A f \in Files :
      IF InScope(f) /\ f \in weak
      THEN \E e \in entries : /\ e.file = f
                              /\ e.slug = IF Home[f] = "." THEN "root" ELSE SlugOf[Home[f]]
      ELSE ~\E e \in entries : e.file = f

\* Whatever goes wrong with other legs, a survivor that a leg wrote down is in
\* the posted summary, unless the leg was lost before its upload or the name
\* of its report was taken, in which case the run is red.
SurvivorKept ==
  pc = "posted" =>
    \A l \in legs : \A f \in found[l] :
      \/ [slug |-> SlugFor(l[1]), leg |-> l, file |-> f] \in entries
      \/ job[l] = "lost"
      \/ job[l] = "red" /\ \E m \in artefacts \ {l} : Name(m) = Name(l)

\* No mutant is counted twice, in a red run either: whatever overlap of shards
\* or of configured crates there is stops at the name of a report.
CountedOnce == \A d, e \in entries : d.file = e.file => d = e

\* A run always comes to its end: faulty legs do not hold up the summary.
RunEnds == <>(pc \in Over)
=============================================================================
