------------------------- MODULE MutationRunProofs -------------------------
(* What holds of a mutation run for every layout, number of shards and fault. *)
EXTENDS MutationRun, WellFoundedInduction, TLAPS

-----------------------------------------------------------------------------
(* The matrix. *)

\* A crate of the configuration is a directory, and a position is positive.
LEMMA ExtraTyped ==
  ASSUME TypeOK
  PROVE  /\ \A i \in DOMAIN extra : i \in Nat /\ i # 0 /\ extra[i] \in Dirs
         /\ DOMAIN extra \subseteq Positions
<1>1. extra \in Seq(Dirs) /\ extra \in Configs
  BY ConstantsAssumption DEF TypeOK
<1>2. DOMAIN extra = 1..Len(extra) /\ Len(extra) \in Nat
  BY <1>1
<1> QED BY <1>1, <1>2 DEF Positions

\* A file that lies under some crate has a first one, and it is its own.
LEMMA FirstCrate ==
  ASSUME TypeOK, NEW f \in Files, Beneath(extra, f) # {}
  PROVE  \E i \in DOMAIN extra :
           /\ i \in Beneath(extra, f) /\ \A j \in Beneath(extra, f) : i <= j
           /\ Home[f] = extra[i]
<1>1. Beneath(extra, f) \subseteq DOMAIN extra /\ Beneath(extra, f) \subseteq Nat
  BY ExtraTyped DEF Beneath
<1>2. PICK i \in Beneath(extra, f) :
        \A j \in Beneath(extra, f) : <<j, i>> \notin OpToRel(<, Nat)
  BY <1>1, WFMin, NatLessThanWellFounded
<1>3. \A j \in Beneath(extra, f) : ~(j < i)
  BY <1>1, <1>2 DEF OpToRel
<1>4. \A j \in Beneath(extra, f) : i <= j
  BY <1>1, <1>3
<1>5. Home[f] = extra[i]
  BY <1>4, LayoutAssumption DEF TypeOK
<1> QED BY <1>1, <1>4, <1>5

\* The legs are among those that have a name.
LEMMA MatrixTyped ==
  ASSUME TypeOK
  PROVE  Matrix \subseteq AllLegs
  BY ExtraTyped, ConstantsAssumption DEF Matrix, FullRunMatrix, ScopedRunMatrix, AllLegs

\* Every file in scope is tested by some leg.
LEMMA Reached ==
  ASSUME TypeOK, NEW f \in Files, InScope(f)
  PROVE  \E l \in Matrix : f \in Tested(l) /\ TargetDir(l[1]) = Home[f]
<1>1. CASE Full
  <2>1. PICK i \in {0} \cup DOMAIN extra : Home[f] = TargetDir(i)
    BY DEF InScope, Targets
  <2> DEFINE k == IF i = 0 THEN Index[f] % ShardCount ELSE 0
  <2>2. Index[f] \in Nat /\ ShardCount \in Nat \ {0}
    BY ConstantsAssumption
  <2>3. Index[f] % ShardCount \in 0..ShardCount - 1
    BY <2>2
  <2>4. <<i, k>> \in Matrix
    BY <1>1, <2>1, <2>3 DEF Matrix, FullRunMatrix
  <2>5. f \in Tested(<<i, k>>)
    BY <1>1, <2>1 DEF Tested, InScope
  <2> QED BY <2>1, <2>4, <2>5
<1>2. CASE ~Full
  <2>1. f \in Changed /\ f \in tree
    BY <1>2 DEF InScope, Changed
  <2>2. PICK i \in {0} \cup DOMAIN extra : f \in Bucket(i) /\ Home[f] = TargetDir(i)
    <3>1. CASE Beneath(extra, f) = {}
      <4>1. f \in RootFiles
        BY <1>2, <3>1 DEF InScope
      <4>2. Home[f] = "."
        BY <3>1, <4>1, LayoutAssumption DEF TypeOK
      <4> QED BY <2>1, <3>1, <4>1, <4>2 DEF Bucket, TargetDir
    <3>2. CASE Beneath(extra, f) # {}
      <4>1. PICK i \in DOMAIN extra :
              /\ i \in Beneath(extra, f) /\ \A j \in Beneath(extra, f) : i <= j
              /\ Home[f] = extra[i]
        BY <3>2, FirstCrate
      <4> QED BY <2>1, <4>1, ExtraTyped DEF Bucket, TargetDir
    <3> QED BY <3>1, <3>2
  <2>3. <<i, 0>> \in Matrix
    BY <1>2, <2>2 DEF Matrix, ScopedRunMatrix
  <2>4. f \in Tested(<<i, 0>>)
    BY <1>2, <2>1, <2>2 DEF Tested
  <2> QED BY <2>2, <2>3, <2>4
<1> QED BY <1>1, <1>2

\* What a leg tests is in scope, and of the leg's target.
LEMMA NothingElse ==
  ASSUME TypeOK, NEW l \in Matrix, NEW f \in Tested(l)
  PROVE  f \in Files /\ InScope(f) /\ Home[f] = TargetDir(l[1])
<1>1. f \in tree /\ f \in Files /\ Home[f] = TargetDir(l[1])
  BY ConstantsAssumption DEF Tested, TypeOK
<1>2. l[1] \in {0} \cup DOMAIN extra
  BY DEF Matrix, FullRunMatrix, ScopedRunMatrix
<1>3. CASE Full
  BY <1>1, <1>2, <1>3 DEF InScope, Targets
<1>4. CASE ~Full
  <2>1. f \in Bucket(l[1])
    BY <1>4 DEF Tested
  <2> QED BY <1>1, <1>2, <2>1 DEF InScope, Targets, Bucket, Changed
<1> QED BY <1>1, <1>3, <1>4

\* Two legs that test the same file report under the same name.
LEMMA SameName ==
  ASSUME TypeOK, NEW l \in Matrix, NEW m \in Matrix,
         NEW f \in Tested(l), f \in Tested(m)
  PROVE  Name(l) = Name(m)
<1>1. TargetDir(l[1]) = TargetDir(m[1])
  BY DEF Tested
<1>2. /\ l[1] \in {0} \cup DOMAIN extra /\ m[1] \in {0} \cup DOMAIN extra
      /\ l[1] # 0 => l[2] = 0
      /\ m[1] # 0 => m[2] = 0
  BY DEF Matrix, FullRunMatrix, ScopedRunMatrix
<1>3. l[1] = 0 <=> m[1] = 0
  BY <1>1, <1>2, ExtraTyped, ConstantsAssumption DEF TargetDir
<1>4. SlugFor(l[1]) = SlugFor(m[1])
  BY <1>1, <1>2, <1>3 DEF SlugFor, TargetDir
<1>5. l[2] = m[2]
  <2>1. CASE Full
    BY <1>2, <1>3, <2>1 DEF Tested
  <2>2. CASE ~Full
    BY <2>2 DEF Matrix, ScopedRunMatrix
  <2> QED BY <2>1, <2>2
<1> QED BY <1>4, <1>5 DEF Name

-----------------------------------------------------------------------------
(* The inductive invariant. *)

\* The matrix is what the inputs call for, and there is one.
Planned == /\ pc = "detect" => legs = {}
           /\ pc \in {"legs", "posted", "unposted"} => legs = Matrix
           /\ pc = "quiet" => Matrix = {}
           /\ pc # "posted" => entries = {}

\* What a leg wrote down are survivors, and in a report that can be read.
Recorded == \A l \in legs :
              /\ found[l] \subseteq Missed(l)
              /\ job[l] = "running" \/ report[l] # "readable" => found[l] = {}

\* A leg that went well has written down all of them,
Thorough == \A l \in legs :
              job[l] \in {"tested", "green"} =>
                /\ found[l] = Missed(l)
                /\ report[l] = "readable" \/ Missed(l) = {}

\* and what a leg wrote was uploaded by its end unless its name was taken.
Uploaded == \A l \in legs :
              /\ job[l] = "green" => l \in artefacts \/ report[l] = "none"
              /\ job[l] = "red" => \/ l \in artefacts \/ report[l] = "none"
                                  \/ \E m \in artefacts \ {l} : Name(m) = Name(l)

OneName == \A l, m \in artefacts : Name(l) = Name(m) => l = m

Posted == pc = "posted" => entries = CollectReports /\ LegsOver

IInv == /\ TypeOK /\ Planned /\ Recorded /\ Thorough
        /\ Uploaded /\ OneName /\ Posted

\* The run starts well typed, and with nothing on record.
LEMMA InvInit == Init => IInv
<1> SUFFICES ASSUME Init PROVE IInv
  OBVIOUS
<1>1. logged \subseteq Files
  BY DEF Init
<1>2. TypeOK
  BY <1>1 DEF Init, TypeOK, Jobs, Over
<1> QED
  BY <1>1, <1>2 DEF Init, IInv, Planned, Recorded, Thorough, Uploaded, OneName, Posted

\* What is given stays, and with it what the legs are to do.
LEMMA GivenStays ==
  ASSUME UNCHANGED given
  PROVE  /\ Matrix' = Matrix
         /\ \A l : /\ Missed(l)' = Missed(l) /\ Tested(l)' = Tested(l)
                  /\ Name(l)' = Name(l) /\ SlugFor(l[1])' = SlugFor(l[1])
  BY DEF given, Matrix, FullRunMatrix, ScopedRunMatrix, Bucket, Changed, Beneath,
     Full, Missed, Tested, TargetDir, Name, SlugFor

\* Detection opens the matrix, or ends the run.
LEMMA DetectStep ==
  ASSUME IInv, Detect \/ Skip \/ DetectFails
  PROVE  IInv'
<1>1. CASE Detect
  <2>1. artefacts = {} /\ Matrix \subseteq AllLegs
    BY <1>1, MatrixTyped DEF IInv, Detect, Planned, TypeOK
  <2>2. Planned'
    BY <1>1, GivenStays DEF IInv, Detect, Planned
  <2>3. TypeOK'
    BY <1>1, <2>1 DEF IInv, Detect, TypeOK, given, Jobs, Over
  <2> QED
    BY <1>1, <2>1, <2>2, <2>3
    DEF IInv, Detect, Recorded, Thorough, Uploaded, OneName, Posted
<1>2. CASE Skip \/ DetectFails
  <2>1. TypeOK'
    BY <1>2 DEF IInv, Skip, DetectFails, TypeOK, given, Over
  <2> QED
    BY <1>2, <2>1, GivenStays DEF IInv, Skip, DetectFails, Planned, Recorded,
       Thorough, Uploaded, OneName, Posted
<1> QED BY <1>1, <1>2

\* A step of a leg before its upload disturbs the leg's own record alone.
LEMMA RecordStep ==
  ASSUME IInv, NEW l \in legs, NEW j \in {"tested", "faulted", "lost"},
         job[l] \in {"running", "tested", "faulted"}, InLeg(l, j),
         UNCHANGED artefacts,
         \/ UNCHANGED <<report, found>> /\ j # "tested"
         \/ job[l] = "running" /\ Complete(l)
         \/ job[l] = "running" /\ Partial(l) /\ j # "tested"
  PROVE  IInv'
<1> USE DEF IInv
<1>1. UNCHANGED <<given, legs, pc, entries>> /\ job' = [job EXCEPT ![l] = j]
  BY DEF InLeg
<1>2. Missed(l) \subseteq Files
  BY ConstantsAssumption DEF Missed, Tested, TypeOK
<1>3. /\ found' \in [legs -> SUBSET Files]
      /\ report' \in [legs -> {"none", "readable", "garbled"}]
      /\ \A m \in legs \ {l} : found'[m] = found[m] /\ report'[m] = report[m]
      /\ found'[l] \subseteq Missed(l)
      /\ report'[l] # "readable" => found'[l] = {}
      /\ j = "tested" => /\ found'[l] = Missed(l)
                         /\ report'[l] = "readable" \/ Missed(l) = {}
  <2>1. CASE UNCHANGED <<report, found>> /\ j # "tested"
    BY <2>1 DEF TypeOK, Recorded
  <2>2. CASE job[l] = "running" /\ Complete(l)
    BY <1>2, <2>2 DEF Complete, TypeOK, Recorded, Missed
  <2>3. CASE job[l] = "running" /\ Partial(l) /\ j # "tested"
    BY <1>2, <2>3 DEF Partial, TypeOK, Recorded
  <2> QED BY <2>1, <2>2, <2>3
<1>4. TypeOK'
  BY <1>1, <1>3 DEF TypeOK, Jobs, given
<1>5. Planned' /\ OneName' /\ Posted'
  BY <1>1, GivenStays DEF Planned, OneName, Posted, LegsOver
<1>6. Recorded' /\ Thorough'
  BY <1>1, <1>3, GivenStays DEF Recorded, Thorough, TypeOK
<1>7. Uploaded'
  BY <1>1, <1>3, GivenStays DEF Uploaded, TypeOK
<1> QED BY <1>4, <1>5, <1>6, <1>7

\* An upload ends the leg; only a free name is taken.
LEMMA UploadStep ==
  ASSUME IInv, NEW l \in legs, Upload(l)
  PROVE  IInv'
<1> USE DEF IInv
<1>1. /\ UNCHANGED <<given, legs, pc, entries, report, found>>
      /\ job[l] \in {"tested", "faulted"}
      /\ artefacts \subseteq artefacts' /\ artefacts' \subseteq artefacts \cup {l}
  BY DEF Upload, InLeg
<1>2. PICK j \in {"green", "red"} :
        /\ job' = [job EXCEPT ![l] = j]
        /\ j = "green" => job[l] = "tested" /\ (l \in artefacts' \/ report[l] = "none")
        /\ j = "red" => \/ l \in artefacts' \/ report[l] = "none"
                       \/ \E m \in artefacts : Name(m) = Name(l)
  BY <1>1 DEF Upload, InLeg, Taken
<1>3. TypeOK'
  BY <1>1, <1>2 DEF TypeOK, Jobs, given
<1>4. Planned' /\ Posted'
  BY <1>1, GivenStays DEF Planned, Posted, LegsOver
<1>5. Recorded' /\ Thorough'
  BY <1>1, <1>2, GivenStays DEF Recorded, Thorough, TypeOK
<1>6. OneName'
  <2>1. l \in artefacts' => l \in artefacts \/ \A m \in artefacts : Name(m) # Name(l)
    BY DEF Upload, Taken
  <2> QED BY <1>1, <2>1, GivenStays DEF OneName
<1>7. Uploaded'
  BY <1>1, <1>2, GivenStays DEF Uploaded, TypeOK
<1> QED BY <1>3, <1>4, <1>5, <1>6, <1>7

\* Every step keeps the inductive invariant.
LEMMA InvStep == IInv /\ [Next]_vars => IInv'
<1> SUFFICES ASSUME IInv, [Next]_vars PROVE IInv'
  OBVIOUS
<1>1. ASSUME NEW l \in legs, Leg(l) PROVE IInv'
  <2>1. CASE SetupFails(l)
    BY <1>1, <2>1, RecordStep DEF SetupFails
  <2>2. CASE RunCargo(l)
    <3>1. PICK code \in {0, 1, 2, 3, 4, 70} :
            /\ CargoMutants(l, code)
            /\ \/ code \in InformativeExitCodes /\ InLeg(l, "tested")
               \/ code \notin InformativeExitCodes /\ InLeg(l, "faulted")
      BY <2>2 DEF RunCargo
    <3>2. job[l] = "running" /\ UNCHANGED artefacts
      BY <2>2 DEF RunCargo
    <3>3. CASE code \in InformativeExitCodes /\ InLeg(l, "tested")
      <4>1. Complete(l)
        BY <3>1, <3>3 DEF CargoMutants, InformativeExitCodes
      <4> QED BY <3>2, <3>3, <4>1, RecordStep
    <3>4. CASE code \notin InformativeExitCodes /\ InLeg(l, "faulted")
      <4>1. Complete(l) \/ Partial(l)
        BY <3>1 DEF CargoMutants
      <4> QED BY <3>2, <3>4, <4>1, RecordStep
    <3> QED BY <3>1, <3>3, <3>4
  <2>3. CASE StepTimesOut(l)
    BY <1>1, <2>3, RecordStep DEF StepTimesOut
  <2>4. CASE Upload(l)
    BY <2>4, UploadStep
  <2>5. CASE LegLost(l)
    BY <1>1, <2>5, RecordStep DEF LegLost
  <2> QED BY <1>1, <2>1, <2>2, <2>3, <2>4, <2>5 DEF Leg
<1>2. CASE Summarize \/ SummarizeFails
  <2>1. TypeOK' /\ Planned'
    BY <1>2, GivenStays DEF IInv, Summarize, SummarizeFails, TypeOK, Planned, given, Over
  <2>2. Recorded' /\ Thorough' /\ Uploaded' /\ OneName'
    BY <1>2, GivenStays DEF IInv, Summarize, SummarizeFails, Recorded, Thorough,
       Uploaded, OneName
  <2>3. Posted'
    BY <1>2, GivenStays
    DEF Summarize, SummarizeFails, Posted, CollectReports, LegsOver
  <2> QED BY <2>1, <2>2, <2>3 DEF IInv
<1>3. CASE UNCHANGED vars
  BY <1>3, GivenStays DEF vars, given, IInv, TypeOK, Planned, Recorded, Thorough,
     Uploaded, OneName, Posted, CollectReports, LegsOver
<1> QED BY <1>1, <1>2, <1>3, DetectStep DEF Next

-----------------------------------------------------------------------------
(* The results. *)

\* The invariant holds in every behaviour.
THEOREM Invariance == Spec => []IInv
  BY InvInit, InvStep, PTL DEF Spec

\* The state is always well typed.
THEOREM Typing == Spec => []TypeOK
<1>1. IInv => TypeOK
  BY DEF IInv
<1> QED BY <1>1, Invariance, PTL

\* What an entry of a posted summary is.
LEMMA EntryIs ==
  ASSUME IInv, pc = "posted", NEW e \in entries
  PROVE  \E l \in artefacts :
           /\ l \in Matrix /\ l \in legs
           /\ \E f \in found[l] : /\ f \in Tested(l) /\ f \in weak
                                 /\ e = [slug |-> SlugFor(l[1]), leg |-> l, file |-> f]
<1>1. entries = CollectReports /\ legs = Matrix /\ artefacts \subseteq legs
  BY DEF IInv, Posted, Planned, TypeOK
<1>2. PICK l \in artefacts :
        \E f \in found[l] : e = [slug |-> SlugFor(l[1]), leg |-> l, file |-> f]
  BY <1>1 DEF CollectReports
<1> QED BY <1>1, <1>2 DEF IInv, Recorded, Missed

\* Wherever the files lie and however the mutants are sharded, a green run
\* lists the survivors of its scope and nothing else.
THEOREM Exact == Spec => []GreenIsExact
<1>1. IInv => GreenIsExact
  <2> SUFFICES ASSUME IInv, RunIsGreen, NEW f \in Files
               PROVE  IF InScope(f) /\ f \in weak
                      THEN \E e \in entries :
                             /\ e.file = f
                             /\ e.slug = IF Home[f] = "." THEN "root"
                                         ELSE SlugOf[Home[f]]
                      ELSE ~\E e \in entries : e.file = f
    BY DEF GreenIsExact
  <2>t. TypeOK
    BY DEF IInv
  <2>1. CASE pc = "quiet"
    <3>1. entries = {} /\ Matrix = {}
      BY <2>1 DEF IInv, Planned
    <3> QED BY <2>t, <3>1, Reached
  <2>2. CASE pc = "posted" /\ InScope(f) /\ f \in weak
    <3>1. \A l \in legs : job[l] = "green"
      BY <2>2 DEF RunIsGreen
    <3>2. PICK l \in Matrix : f \in Tested(l) /\ TargetDir(l[1]) = Home[f]
      BY <2>t, <2>2, Reached
    <3>3. l \in legs /\ f \in Missed(l)
      BY <2>2, <3>2 DEF IInv, Planned, Missed
    <3>4. l \in artefacts /\ report[l] = "readable" /\ f \in found[l]
      BY <3>1, <3>3 DEF IInv, Thorough, Uploaded
    <3>5. [slug |-> SlugFor(l[1]), leg |-> l, file |-> f] \in entries
      BY <2>2, <3>4 DEF IInv, Posted, CollectReports
    <3>6. SlugFor(l[1]) = IF Home[f] = "." THEN "root" ELSE SlugOf[Home[f]]
      <4>1. l[1] \in {0} \cup DOMAIN extra
        BY DEF Matrix, FullRunMatrix, ScopedRunMatrix
      <4> QED BY <2>t, <3>2, <4>1, ExtraTyped, ConstantsAssumption DEF SlugFor, TargetDir
    <3> QED BY <2>2, <3>5, <3>6
  <2>3. CASE pc = "posted" /\ ~(InScope(f) /\ f \in weak)
    <3>1. ASSUME NEW e \in entries, e.file = f PROVE FALSE
      BY <2>t, <2>3, <3>1, EntryIs, NothingElse
    <3> QED BY <2>3, <3>1
  <2> QED BY <2>1, <2>2, <2>3 DEF RunIsGreen
<1> QED BY <1>1, Invariance, PTL

\* What one leg has found is not lost by the faults of the others.
THEOREM Kept == Spec => []SurvivorKept
<1>1. IInv => SurvivorKept
  <2> SUFFICES ASSUME IInv, pc = "posted", NEW l \in legs, NEW f \in found[l]
               PROVE  \/ [slug |-> SlugFor(l[1]), leg |-> l, file |-> f] \in entries
                      \/ job[l] = "lost"
                      \/ job[l] = "red" /\ \E m \in artefacts \ {l} : Name(m) = Name(l)
    BY DEF SurvivorKept
  <2>1. entries = CollectReports /\ job[l] \in {"green", "red", "lost"}
    BY DEF IInv, Posted, LegsOver
  <2>2. report[l] = "readable"
    BY <2>1 DEF IInv, Recorded
  <2>3. l \in artefacts => [slug |-> SlugFor(l[1]), leg |-> l, file |-> f] \in entries
    BY <2>1, <2>2 DEF CollectReports
  <2> QED BY <2>1, <2>2, <2>3 DEF IInv, Uploaded
<1> QED BY <1>1, Invariance, PTL

\* No survivor is listed twice, whatever overlaps.
THEOREM Once == Spec => []CountedOnce
<1>1. IInv => CountedOnce
  <2> SUFFICES ASSUME IInv, NEW d \in entries, NEW e \in entries, d.file = e.file
               PROVE  d = e
    BY DEF CountedOnce
  <2>1. pc = "posted"
    BY DEF IInv, Planned
  <2>2. PICK l \in artefacts :
          /\ l \in Matrix
          /\ \E f \in found[l] : /\ f \in Tested(l)
                                /\ d = [slug |-> SlugFor(l[1]), leg |-> l, file |-> f]
    BY <2>1, EntryIs
  <2>3. PICK m \in artefacts :
          /\ m \in Matrix
          /\ \E f \in found[m] : /\ f \in Tested(m)
                                /\ e = [slug |-> SlugFor(m[1]), leg |-> m, file |-> f]
    BY <2>1, EntryIs
  <2>4. Name(l) = Name(m)
    BY <2>2, <2>3, SameName DEF IInv
  <2>5. l = m
    BY <2>4 DEF IInv, OneName
  <2> QED BY <2>2, <2>3, <2>5
<1> QED BY <1>1, Invariance, PTL
=============================================================================
