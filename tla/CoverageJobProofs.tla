------------------------ MODULE CoverageJobProofs ------------------------
(* What holds of every job that measures coverage, for any projects,       *)
(* inputs, paths and number of uses.                                       *)
EXTENDS CoverageJob, FiniteSetTheorems, SequenceTheorems, TLAPS

-----------------------------------------------------------------------------
(* The inductive invariant. *)

Configured == {"rust", "cucumber", "merge", "report"}
InRust == {"tools", "nextest", "cargo"} \cup Configured
InVenv == {"venv", "sync", "tooling", "pytest"}
Between == {"idle", "detect"}

\* A use is at a place for its language and format, and has not failed before
\* it is over.
Placed ==
  /\ pc # "idle" => now > 0
  /\ pc \notin {"idle", "out"} => status = "ok"
  /\ now > 0 => lang \in {"none", Lang(use)}
  /\ lang # "none" => now > 0 /\ Compatible(lang, use.fmt)
  /\ pc \notin Between \cup {"out"} => lang # "none"
  /\ pc \in {"idle", "out"} /\ now > 0 /\ status \in {"ok", "gate", "taken"} => lang # "none"
  /\ pc \in InRust => Has(lang, "rust")
  /\ pc \in InVenv \cup {"xml", "percent"} => Has(lang, "python")
  /\ pc = "combine" => lang = "mixed"
  /\ pc \in {"cucumber", "merge"} => use.cucumber
  /\ pc = "xml" => use.fmt = "coveragepy"
  /\ pc = "percent" => use.fmt = "cobertura"

\* The configuration of nextest is what it was, or can be restored.
Restorable ==
  /\ before \in {"none", "directory", "user", "default"}
  /\ pc \in Configured => Restored = before
  /\ pc \notin Configured => made = {} /\ (status # "killed" => config = before)

\* The binary was verified, and what pytest needs is installed.
Equipped ==
  /\ pc \in {"cargo"} \cup Configured /\ use.nextest => Verified(nextest)
  /\ pc = "tooling" => "project" \in installed
  /\ pc = "pytest" => Ready
  /\ pc = "xml" /\ project.writesData => There(DataFile)

\* What a use has measured is in its files, place by place.
RF == RustFile(use, lang)
CF == CucumberFile(use, lang)
PF == PythonFile(use, lang)
MeasuredParts == {r.part : r \in measured}
RustIn == There(RF) /\ files[RF] = measured /\ MeasuredParts = Asked(use, "rust")
Whole ==
  /\ There(use.path)
  /\ use.fmt = "coveragepy" => \A r \in files[use.path] : r.part = "data"
  /\ use.fmt # "coveragepy" => files[use.path] = measured /\ MeasuredParts = Asked(use, lang)
Kept ==
  /\ pc \in {"detect", "tools", "nextest", "cargo", "rust"} => measured = {}
  /\ pc = "cucumber" => There(RF) /\ files[RF] = measured /\ MeasuredParts = {"rust"}
  /\ pc = "merge" => /\ There(RF) /\ There(CF) /\ files[RF] \cup files[CF] = measured
                     /\ MeasuredParts = {"rust", "cucumber"}
  /\ pc = "report" => RustIn
  /\ pc \in InVenv => IF lang = "mixed" THEN RustIn ELSE measured = {}
  /\ pc = "percent" =>
       /\ There(PF) /\ MeasuredParts = Asked(use, lang)
       /\ IF lang = "mixed" THEN There(RF) /\ files[RF] \cup files[PF] = measured
          ELSE files[PF] = measured
  /\ pc = "combine" => /\ There(RF) /\ There(PF) /\ files[RF] \cup files[PF] = measured
                       /\ MeasuredParts = Asked(use, lang)
  /\ pc = "ratchet" => Whole
  /\ pc \in {"idle", "out"} /\ now > 0 /\ status \in {"ok", "gate", "taken"} => Whole

\* Records bear the use that has written them.
Stamped ==
  /\ \A r \in measured : r.use = now
  /\ There(DataFile) => \A r \in files[DataFile] : r.part = "data"
  /\ \A p \in DOMAIN files : \A r \in files[p] :
       r.part = "data" \/ (r.use \in 1..now /\ p \in Touched(uses[r.use]))

\* What was uploaded and handed over is of an earlier use, or of one that is over.
Named(a) == \E l \in {"none", "rust", "python", "mixed"} : a.name = ArtefactName(uses[a.use], l)
Dated ==
  /\ \A a \in artefacts : a.use \in 1..now /\ Named(a) /\ (pc # "idle" => a.use < now)
  /\ \A h \in handed : h.use \in 1..now /\ (pc # "idle" => h.use < now)

\* Files and what was measured are finite, so that lines can be counted.
Countable ==
  /\ measured \in Reports /\ IsFiniteSet(measured)
  /\ \A p \in DOMAIN files : files[p] \in Reports /\ IsFiniteSet(files[p])

IInv == /\ TypeOK /\ Placed /\ Restorable /\ Equipped /\ Kept /\ Stamped /\ Dated /\ Countable
        /\ RedForCause /\ PinnedNextest /\ LlvmUnlessHidden /\ ReportsStand /\ ArtefactIsOwn
        /\ ReportArchived

-----------------------------------------------------------------------------
(* Paths, files and uses. *)

LEMMA Uses ==
  ASSUME TypeOK, now > 0
  PROVE  use \in Inputs /\ use = uses[now] /\ now \in 1..MaxUses
<1>1. uses \in Seq(Inputs) /\ now <= MaxUses /\ MaxUses \in Nat
  BY UsesAssumption DEF TypeOK
<1>2. now \in Nat /\ uses[now] \in Inputs
  BY <1>1, LenProperties DEF now
<1> QED BY <1>1, <1>2 DEF use, now, Last

\* Steps but the first two of a use.
LEMMA Stays ==
  ASSUME Next, ~Use, ~Detect
  PROVE  UNCHANGED <<project, uses, lang>>
BY DEF Next, MeasureElsewhere, InstallTools, InstallNextest, EnterConfig, Rust, Cucumber, RunCargo,
       MergeCucumber, Kill, ReportRust, RefuseWorkers, AcquireVenv, SyncProject, InstallTooling,
       Pytest, CoveragePy, ReportPython, Combine, Ratchet, Archive, InPython, context, workspace

LEMMA ProjectStays == Next => project' = project
BY Stays DEF Use, Detect

LEMMA Same ==
  ASSUME UNCHANGED <<project, uses, lang>>
  PROVE  /\ use' = use /\ now' = now /\ Lang(use)' = Lang(use)
         /\ RF' = RF /\ CF' = CF /\ PF' = PF
         /\ Asked(use, "rust")' = Asked(use, "rust") /\ Asked(use, lang)' = Asked(use, lang)
         /\ Compatible(lang, use.fmt)' = Compatible(lang, use.fmt)
         /\ Has(lang, "rust")' = Has(lang, "rust") /\ Has(lang, "python")' = Has(lang, "python")
BY DEF use, now, Lang, Forced, Manifest, Syncable, RF, CF, PF, RustFile, CucumberFile, PythonFile,
       Asked, Compatible, Has

LEMMA TouchedKept ==
  ASSUME NEW n, project' = project, uses'[n] = uses[n]
  PROVE  Touched(uses[n])' = Touched(uses[n])
BY DEF Touched, Lang, Forced, Manifest, Syncable, RustFile, CucumberFile, PythonFile, Has

LEMMA ConcatFirst ==
  ASSUME NEW S, NEW s \in Seq(S), NEW t \in Seq(S), NEW i \in 1 .. Len(s)
  PROVE  (s \o t)[i] = s[i]
<1>1. Len(s) \in Nat /\ Len(t) \in Nat
  BY LenProperties
<1>2. i \in 1 .. Len(s) + Len(t) /\ i <= Len(s)
  BY <1>1
<1> QED BY <1>2, ConcatProperties

\* A piece is inserted before the last one.
LEMMA Infixing ==
  ASSUME NEW S, NEW p \in Seq(S), Len(p) > 1, NEW x
  PROVE  /\ Infixed(p, x) \in Seq(S \cup {x}) /\ Len(Infixed(p, x)) = Len(p) + 1
         /\ Infixed(p, x)[Len(p)] = x
<1> DEFINE T == S \cup {x}
           a == SubSeq(p, 1, Len(p) - 1)
           b == SubSeq(p, Len(p), Len(p))
           c == <<x>>
<1>1. p \in Seq(T) /\ Len(p) \in Nat
  BY LenProperties, SeqMonotonic
<1> HIDE DEF T
<1>2. a \in Seq(T) /\ Len(a) = Len(p) - 1 /\ b \in Seq(T) /\ Len(b) = 1
  BY <1>1, SubSeqProperties
<1>3. c \in Seq(T) /\ Len(c) = 1 /\ c[1] = x
  BY DEF T
<1>4. Infixed(p, x) = (a \o c) \o b
  BY DEF Infixed, InsertAt
<1> HIDE DEF a, b, c
<1>5. a \o c \in Seq(T) /\ Len(a \o c) = Len(a) + Len(c)
  BY <1>2, <1>3, ConcatProperties
<1>6. (a \o c)[Len(p)] = x
  <2>1. \A i \in 1 .. Len(a) + Len(c) : (a \o c)[i] = IF i <= Len(a) THEN a[i] ELSE c[i - Len(a)]
    BY <1>2, <1>3, ConcatProperties
  <2>2. Len(p) \in 1 .. Len(a) + Len(c) /\ ~(Len(p) <= Len(a)) /\ Len(p) - Len(a) = 1
    BY <1>1, <1>2, <1>3
  <2> QED BY <1>3, <2>1, <2>2
<1>7. (a \o c) \o b \in Seq(T) /\ Len((a \o c) \o b) = Len(p) + 1
  BY <1>1, <1>2, <1>3, <1>5, ConcatProperties
<1>8. ((a \o c) \o b)[Len(p)] = x
  <2> DEFINE d == a \o c
  <2>1. d \in Seq(T) /\ Len(d) = Len(p) /\ d[Len(p)] = x
    BY <1>1, <1>2, <1>3, <1>5, <1>6
  <2> HIDE DEF d
  <2>2. Len(p) \in 1 .. Len(d)
    BY <1>1, <2>1
  <2>3. (d \o b)[Len(p)] = d[Len(p)]
    BY <1>2, <2>1, <2>2, ConcatFirst
  <2> QED BY <2>1, <2>3 DEF d
<1> QED BY <1>4, <1>7, <1>8 DEF T

LEMMA Apart ==
  ASSUME NEW u \in Inputs, NEW l
  PROVE  /\ u.path # DataFile /\ RustFile(u, l) # DataFile /\ PythonFile(u, l) # DataFile
         /\ CucumberFile(u, l) # DataFile /\ RustFile(u, l) # CucumberFile(u, l)
         /\ l = "mixed" => /\ RustFile(u, l) # PythonFile(u, l)
                           /\ RustFile(u, l) # u.path /\ PythonFile(u, l) # u.path
<1> DEFINE n == Len(u.path)
           r == Infixed(u.path, "rust")
           q == Infixed(u.path, "python")
           f == RustFile(u, l)
           g == Infixed(f, "cucumber")
           S == STRING \cup {"rust"}
<1>1. u.path \in Seq(STRING) /\ n > 1 /\ n \in Nat
  BY InputsAssumption, PathsAssumption, LenProperties
<1>2. u.path \in Seq(S) /\ r \in Seq(S) /\ Len(r) = n + 1 /\ r[n] = "rust"
  BY <1>1, Infixing, SeqMonotonic
<1>3. Len(q) = n + 1 /\ q[n] = "python"
  BY <1>1, Infixing
<1> HIDE DEF n, r, q, S
<1>4. f \in Seq(S) /\ Len(f) > 1 /\ Len(f) \in Nat
  BY <1>1, <1>2 DEF RustFile, r, n
<1> HIDE DEF f
<1>5. Len(g) = Len(f) + 1
  BY <1>4, Infixing
<1>6. Len(PythonFile(u, l)) \in {n, n + 1} /\ Len(DataFile) = 1
  BY <1>1, <1>3 DEF PythonFile, DataFile, q, n
<1>7. r # q /\ r # u.path /\ q # u.path
  BY <1>1, <1>2, <1>3 DEF n
<1> HIDE DEF g
<1>10. Len(g) # 1 /\ Len(g) # Len(f) /\ Len(f) # 1
  <2>1. Len(f) > 1 /\ Len(f) \in Nat /\ Len(g) = Len(f) + 1
    BY <1>4, <1>5
  <2>2. \A k \in Nat : k > 1 => k # 1 /\ k + 1 # 1 /\ k + 1 # k
    OBVIOUS
  <2> QED BY <2>1, <2>2
<1>11. n # 1 /\ n + 1 # 1
  BY <1>1
<1>8. Len(g) # 1 /\ Len(g) # Len(f) /\ Len(f) # 1 /\ n # 1 /\ Len(PythonFile(u, l)) # 1
  BY <1>6, <1>10, <1>11
<1>9. u.path # DataFile /\ f # DataFile /\ PythonFile(u, l) # DataFile /\ g # DataFile /\ f # g
  BY <1>6, <1>8 DEF n
<1> QED BY <1>7, <1>9 DEF RustFile, PythonFile, CucumberFile, r, q, f, g

LEMMA Writing ==
  ASSUME NEW fs, NEW p, NEW report
  PROVE  /\ DOMAIN Write(fs, p, report) = DOMAIN fs \cup {p} /\ Write(fs, p, report)[p] = report
         /\ \A q \in DOMAIN fs \ {p} : Write(fs, p, report)[q] = fs[q]
BY DEF Write

LEMMA Unlinking ==
  ASSUME NEW fs, NEW gone
  PROVE  /\ DOMAIN Unlink(fs, gone) = DOMAIN fs \ gone
         /\ \A q \in DOMAIN fs \ gone : Unlink(fs, gone)[q] = fs[q]
BY DEF Unlink

-----------------------------------------------------------------------------
(* Types and places. *)

\* The parts of TypeOK.
UsesOK == project \in Projects /\ uses \in Seq(Inputs) /\ now <= MaxUses
FilesOK == \A p \in DOMAIN files : files[p] \in Reports
PlaceOK ==
  /\ config \in {"none", "directory", "user", "default"} /\ nextest \in Binaries
  /\ venv \in {"none", "broken", "good"} /\ installed \subseteq {"project", "tooling"}
  /\ lang \in {"none", "rust", "python", "mixed"} /\ pc \in Steps /\ status \in Reasons
  /\ made \in {{}, {"file"}, {"directory", "file"}} /\ (made # {} => config = "default")
PercentsOK ==
  /\ DOMAIN percents \subseteq Languages
  /\ \A l \in DOMAIN percents : percents[l] \in Nat \X Nat /\ percents[l][1] <= percents[l][2]

LEMMA Parts ==
  /\ TypeOK <=> UsesOK /\ FilesOK /\ PlaceOK /\ PercentsOK
  /\ TypeOK' <=> UsesOK' /\ FilesOK' /\ PlaceOK' /\ PercentsOK'
BY DEF TypeOK, UsesOK, FilesOK, PlaceOK, PercentsOK

\* The next use.
LEMMA Following ==
  ASSUME TypeOK, Use
  PROVE  /\ now \in Nat /\ now' = now + 1 /\ uses' \in Seq(Inputs) /\ now' <= MaxUses
         /\ use' = uses'[now'] /\ use' \in Inputs
         /\ \A n \in 1..now : uses'[n] = uses[n]
<1>1. uses \in Seq(Inputs) /\ now \in Nat /\ now < MaxUses /\ MaxUses \in Nat
  BY UsesAssumption, LenProperties DEF TypeOK, Use, now
<1>2. PICK u \in Inputs : uses' = Append(uses, u)
  BY DEF Use
<1>3. /\ uses' \in Seq(Inputs) /\ Len(uses') = Len(uses) + 1 /\ uses'[Len(uses) + 1] = u
      /\ \A n \in 1..Len(uses) : uses'[n] = uses[n]
  BY <1>1, <1>2, AppendProperties
<1> QED BY <1>1, <1>3 DEF now, use, Last

LEMMA UsesStay ==
  ASSUME TypeOK, Next
  PROVE  UsesOK'
<1>1. CASE Use
  BY <1>1, Following, ProjectStays DEF UsesOK, TypeOK
<1>2. CASE ~Use
  BY <1>2, Stays, ProjectStays DEF UsesOK, TypeOK, Detect, now
<1> QED BY <1>1, <1>2

LEMMA PlaceStays ==
  ASSUME TypeOK, Placed, Restorable, Next
  PROVE  PlaceOK'
<1>1. PlaceOK /\ project \in Projects
  BY Parts DEF UsesOK
<1>2. nextest \in Binaries /\ project.cached \in SUBSET Binaries
  BY <1>1, ProjectsAssumption DEF PlaceOK
<1>3. CASE Use \/ MeasureElsewhere \/ Kill
  <2>1. pc' \in {pc, "detect", "out"} /\ status' \in {status, "ok", "killed"}
    BY <1>3 DEF Use, MeasureElsewhere, Kill, Fail
  <2>2. lang' \in {lang, "none"} /\ made' \in {made, {}}
    BY <1>3 DEF Use, MeasureElsewhere, Kill, context
  <2>3. UNCHANGED <<config, nextest, venv, installed>>
    BY <1>3 DEF Use, MeasureElsewhere, Kill, Fail, context, workspace
  <2> QED BY <1>1, <2>1, <2>2, <2>3 DEF PlaceOK, Steps, Reasons
<1>4. CASE Combine \/ Ratchet \/ Archive
  <2>1. pc' \in {"ratchet", "out", "idle"} /\ status' \in {status, "fault", "gate", "taken"}
    BY <1>4 DEF Combine, Ratchet, Archive, Goto, Fail
  <2>2. UNCHANGED <<config, nextest, venv, installed, lang, made>>
    BY <1>4 DEF Combine, Ratchet, Archive, context, workspace
  <2> QED BY <1>1, <2>1, <2>2 DEF PlaceOK, Steps, Reasons
<1>5. CASE Detect
  <2>1. Lang(use) \in {"none", "rust", "python", "mixed"}
    BY <1>1, <1>5, InputsAssumption, Uses DEF Lang, Detect, Placed
  <2> QED BY <1>1, <1>5, <2>1 DEF PlaceOK, Detect, Goto, Fail, Steps, Reasons, workspace
<1>6. CASE InstallTools \/ InstallNextest
  <2>1. pc' \in {"nextest", "cargo", "out"} /\ status' \in {status, "fault"}
    BY <1>6 DEF InstallTools, InstallNextest, Goto, Fail
  <2>2. nextest' \in Binaries
    BY <1>2, <1>6 DEF InstallTools, InstallNextest
  <2>3. UNCHANGED <<config, venv, installed, lang, made>>
    BY <1>6 DEF InstallTools, InstallNextest, context
  <2> QED BY <1>1, <2>1, <2>2, <2>3 DEF PlaceOK, Steps, Reasons
<1>7. CASE EnterConfig
  BY <1>1, <1>7 DEF PlaceOK, EnterConfig, Missing, Goto, Steps, Reasons
<1>8. CASE Rust \/ Cucumber \/ MergeCucumber \/ ReportRust
  <2>1. pc' \in {"cucumber", "report", "merge", "venv", "ratchet", "out"} /\ status' \in {status, "fault"}
    BY <1>8 DEF Rust, Cucumber, RunCargo, MergeCucumber, ReportRust, After, Goto, Fail
  <2>2. \/ config' = config /\ made' = made
        \/ config' = Restored /\ made' = {}
    BY <1>8 DEF Rust, Cucumber, RunCargo, MergeCucumber, ReportRust
  <2>3. UNCHANGED <<nextest, venv, installed, lang>>
    BY <1>8 DEF Rust, Cucumber, RunCargo, MergeCucumber, ReportRust
  <2>4. Restored \in {"none", "directory", "user", "default"}
    BY <1>1 DEF PlaceOK, Restored
  <2> QED BY <1>1, <2>1, <2>2, <2>3, <2>4 DEF PlaceOK, Steps, Reasons
<1>9. CASE RefuseWorkers \/ AcquireVenv \/ SyncProject \/ InstallTooling
  <2>1. pc' \in {"out", "sync", "tooling", "pytest"} /\ status' \in {status, "refused", "fault", "unsyncable"}
    BY <1>9 DEF RefuseWorkers, AcquireVenv, RecreateVenv, SyncProject, InstallTooling, Goto, Fail
  <2>2. venv' \in {venv, "good", "none", "broken"} /\ installed' \subseteq installed \cup {"project", "tooling"}
    BY <1>9 DEF RefuseWorkers, AcquireVenv, RecreateVenv, SyncProject, InstallTooling
  <2>3. UNCHANGED <<config, nextest, lang, made>>
    BY <1>9 DEF RefuseWorkers, AcquireVenv, SyncProject, InstallTooling, InPython
  <2> QED BY <1>1, <2>1, <2>2, <2>3 DEF PlaceOK, Steps, Reasons
<1>10. CASE Pytest \/ CoveragePy \/ ReportPython
  <2>1. /\ pc' \in {"out", "xml", "percent", "combine", "ratchet"}
        /\ status' \in {status, "fault", "unready", "nodata"}
    BY <1>10 DEF Pytest, CoveragePy, ReportPython, After, Goto, Fail
  <2>2. UNCHANGED <<config, nextest, venv, installed, lang, made>>
    BY <1>10 DEF Pytest, CoveragePy, ReportPython, InPython
  <2> QED BY <1>1, <2>1, <2>2 DEF PlaceOK, Steps, Reasons
<1> QED BY <1>3, <1>4, <1>5, <1>6, <1>7, <1>8, <1>9, <1>10 DEF Next

\* Steps within a use.
LEMMA PlacedStays ==
  ASSUME TypeOK, Placed, Next
  PROVE  Placed'
<1>1. CASE Use
  <2>1. now' > 0 /\ pc' = "detect" /\ status' = "ok" /\ lang' = "none"
    BY <1>1, Following DEF Use
  <2> QED BY <2>1 DEF Placed, Between, InRust, Configured, InVenv
<1>2. CASE Detect
  <2>1. use' = use /\ now' = now /\ Lang(use)' = Lang(use) /\ lang = lang /\ now > 0
    BY <1>2 DEF Detect, use, now, Lang, Forced, Manifest, Syncable, Placed
  <2>2. Lang(use) \in {"none", "rust", "python", "mixed"}
    BY <2>1, InputsAssumption, Uses DEF Lang
  <2>3. CASE Compatible(Lang(use), use.fmt) /\ lang' = Lang(use)
             /\ Goto(IF Has(lang', "rust") THEN "tools" ELSE "venv")
    BY <1>2, <2>1, <2>2, <2>3 DEF Detect, Placed, Between, InRust, Configured, InVenv, Goto, Has,
       Compatible
  <2>4. CASE lang' = lang /\ Fail("refused")
    BY <1>2, <2>1, <2>2, <2>4 DEF Detect, Placed, Between, InRust, Configured, InVenv, Fail,
       Compatible
  <2> QED BY <1>2, <2>3, <2>4 DEF Detect
<1>3. ASSUME ~Use, ~Detect PROVE Placed'
  <2>1. /\ use' = use /\ now' = now /\ Lang(use)' = Lang(use) /\ lang' = lang
        /\ Compatible(lang, use.fmt)' = Compatible(lang, use.fmt)
        /\ Has(lang, "rust")' = Has(lang, "rust") /\ Has(lang, "python")' = Has(lang, "python")
    BY <1>3, Stays, Same
  <2>2. now > 0 => use.fmt \in {"lcov", "cobertura", "coveragepy"}
    BY InputsAssumption, Uses
  <2>3. CASE MeasureElsewhere
    BY <2>1, <2>3 DEF Placed, MeasureElsewhere
  <2>4. CASE Archive
    BY <2>1, <2>4 DEF Placed, Archive, Between, InRust, Configured, InVenv
  <2>5. CASE InstallTools \/ InstallNextest \/ EnterConfig \/ Kill
    BY <2>1, <2>5 DEF Placed, InstallTools, InstallNextest, EnterConfig, Kill, Goto, Fail, Between,
       InRust, Configured, InVenv
  <2>6. CASE Rust \/ Cucumber \/ MergeCucumber
    BY <2>1, <2>6 DEF Placed, Rust, Cucumber, RunCargo, MergeCucumber, Goto, Fail, Between,
       InRust, Configured, InVenv
  <2>7. CASE ReportRust
    BY <2>1, <2>7 DEF Placed, ReportRust, After, Goto, Fail, Between, InRust, Configured, InVenv, Has
  <2>8. CASE RefuseWorkers \/ AcquireVenv \/ SyncProject \/ InstallTooling
    BY <2>1, <2>8 DEF Placed, RefuseWorkers, AcquireVenv, RecreateVenv, SyncProject, InstallTooling,
       Goto, Fail, Between, InRust, Configured, InVenv
  <2>9. CASE Pytest \/ CoveragePy \/ ReportPython
    BY <2>1, <2>2, <2>9 DEF Placed, Pytest, CoveragePy, ReportPython, After, Goto, Fail, Between,
       InRust, Configured, InVenv, Has, Compatible
  <2>10. CASE Combine \/ Ratchet
    BY <2>1, <2>10 DEF Placed, Combine, Ratchet, Goto, Fail, Between, InRust, Configured, InVenv
  <2> QED BY <1>3, <2>3, <2>4, <2>5, <2>6, <2>7, <2>8, <2>9, <2>10 DEF Next
<1> QED BY <1>1, <1>2, <1>3

-----------------------------------------------------------------------------
(* What cargo and pytest find. *)

LEMMA RestorableStays ==
  ASSUME TypeOK, Placed, Restorable, Next
  PROVE  Restorable'
<1>1. PlaceOK
  BY Parts
<1>2. CASE Use
  BY <1>1, <1>2 DEF Use, PlaceOK, Restorable, Configured, workspace
<1>3. CASE EnterConfig
  <2>1. config = before /\ before' = before /\ pc' = "rust" /\ made' = Missing
    BY <1>3 DEF EnterConfig, Restorable, Configured, Placed, Between, Goto, history
  <2>2. config' = IF Missing = {} THEN config ELSE "default"
    BY <1>3 DEF EnterConfig
  <2>3. CASE Missing = {}
    BY <2>1, <2>2, <2>3 DEF Restorable, Restored, Configured
  <2>4. CASE Missing = {"file"} /\ config = "directory"
    BY <2>1, <2>2, <2>4 DEF Restorable, Restored, Configured
  <2>5. CASE Missing = {"directory", "file"} /\ config = "none"
    BY <2>1, <2>2, <2>5 DEF Restorable, Restored, Configured
  <2> QED BY <1>1, <2>3, <2>4, <2>5 DEF Missing, PlaceOK
<1>4. CASE Rust \/ Cucumber \/ MergeCucumber \/ ReportRust
  <2>1. pc \in Configured /\ before' = before
    BY <1>4 DEF Rust, Cucumber, RunCargo, MergeCucumber, ReportRust, Configured, history
  <2>2. \/ config' = config /\ made' = made /\ pc' \in {"cucumber", "merge", "report"}
        \/ config' = Restored /\ made' = {} /\ pc' \in {"out", "venv", "combine", "ratchet"}
    BY <1>4 DEF Rust, Cucumber, RunCargo, MergeCucumber, ReportRust, After, Goto, Fail
  <2>3. config' = config /\ made' = made => Restored' = Restored
    BY DEF Restored
  <2> QED BY <2>1, <2>2, <2>3 DEF Restorable, Configured
<1>5. CASE Kill
  BY <1>5 DEF Kill, Restorable, Configured, Fail, history
<1>6. CASE MeasureElsewhere \/ Detect \/ InstallTools \/ InstallNextest
  BY <1>6 DEF MeasureElsewhere, Detect, InstallTools, InstallNextest, Restorable, Configured, Placed,
     Between, Goto, Fail, context, workspace, history
<1>7. CASE RefuseWorkers \/ AcquireVenv \/ SyncProject \/ InstallTooling
  BY <1>7 DEF RefuseWorkers, AcquireVenv, RecreateVenv, SyncProject, InstallTooling, Restorable,
     Configured, Placed, Between, Goto, Fail, InPython
<1>8. CASE Pytest \/ CoveragePy \/ ReportPython
  BY <1>8 DEF Pytest, CoveragePy, ReportPython, After, Restorable, Configured, Placed, Between, Goto,
     Fail, InPython
<1>9. CASE Combine \/ Ratchet \/ Archive
  <2>1. pc \notin Configured /\ pc' \notin Configured /\ UNCHANGED <<config, made, before>>
    BY <1>9 DEF Combine, Ratchet, Archive, Configured, Goto, Fail, context, workspace, history
  <2>2. status = "killed" => status' = "killed"
    BY <1>9 DEF Combine, Ratchet, Archive, Placed, Goto, Fail
  <2> QED BY <2>1, <2>2 DEF Restorable
<1> QED BY <1>2, <1>3, <1>4, <1>5, <1>6, <1>7, <1>8, <1>9 DEF Next

LEMMA EquippedStays ==
  ASSUME TypeOK, Placed, Equipped, Next
  PROVE  Equipped'
<1>1. PlaceOK
  BY Parts
<1>2. CASE Use \/ Detect
  BY <1>2 DEF Use, Detect, Equipped, Configured, Goto, Fail
<1>3. ASSUME ~Use, ~Detect PROVE Equipped'
  <2>1. use' = use /\ project' = project
    BY <1>3, Stays, Same
  <2>2. CASE InstallTools \/ InstallNextest
    BY <2>1, <2>2 DEF InstallTools, InstallNextest, Equipped, Configured, Verified, Goto, Fail
  <2>3. CASE EnterConfig \/ Rust \/ Cucumber \/ MergeCucumber \/ ReportRust \/ Kill
    <3>1. /\ pc \in {"cargo"} \cup Configured /\ nextest' = nextest
          /\ pc' \in Configured \cup {"venv", "combine", "ratchet", "out"}
      BY <2>3 DEF EnterConfig, Rust, Cucumber, RunCargo, MergeCucumber, ReportRust, Kill, After,
         Configured, Goto, Fail, workspace
    <3> QED BY <2>1, <3>1 DEF Equipped, Configured, Verified
  <2>4. CASE RefuseWorkers \/ AcquireVenv \/ SyncProject \/ InstallTooling
    BY <1>1, <2>1, <2>4 DEF RefuseWorkers, AcquireVenv, RecreateVenv, SyncProject, InstallTooling,
       Equipped, Configured, Ready, PlaceOK, Goto, Fail
  <2>5. CASE Pytest
    BY <2>1, <2>5 DEF Pytest, Equipped, Configured, Ready, There, Data, Write, Goto, Fail
  <2>6. CASE MeasureElsewhere \/ CoveragePy \/ ReportPython \/ Combine \/ Ratchet \/ Archive
    <3>1. pc' \in {"idle", "combine", "ratchet", "out"}
      BY <2>6 DEF MeasureElsewhere, CoveragePy, ReportPython, Combine, Ratchet, Archive, After, Goto, Fail
    <3> QED BY <3>1 DEF Equipped, Configured
  <2> QED BY <1>3, <2>2, <2>3, <2>4, <2>5, <2>6 DEF Next
<1> QED BY <1>2, <1>3

\* The runs of cargo.
LEMMA RunsStay ==
  ASSUME TypeOK, Equipped, PinnedNextest, LlvmUnlessHidden, Next
  PROVE  PinnedNextest' /\ LlvmUnlessHidden'
<1>1. project' = project /\ project.cranelift \subseteq Places
  BY ProjectStays, ProjectsAssumption DEF TypeOK
<1>2. CASE Rust \/ Cucumber
  <2>1. runs' = runs \cup {CargoRun} /\ (use.nextest => Verified(nextest))
    BY <1>2 DEF Rust, Cucumber, RunCargo, Equipped, Configured
  <2>2. CargoRun.nextest \in {"unused", "pinned"}
    BY <2>1 DEF CargoRun, Verified
  <2>3. CargoRun.backend = "cranelift" =>
          /\ project.cranelift \cap {"dotted", "workspace"} # {}
          /\ project.cranelift \cap {"config", "manifest"} = {}
    BY <1>1 DEF CargoRun, Backend, Detected, Places
  <2> QED BY <1>1, <2>1, <2>2, <2>3 DEF PinnedNextest, LlvmUnlessHidden
<1>3. CASE ~(Rust \/ Cucumber)
  <2>1. runs' = runs
    BY <1>3 DEF Next, Use, Detect, MeasureElsewhere, InstallTools, InstallNextest, EnterConfig,
       MergeCucumber, Kill, ReportRust, RefuseWorkers, AcquireVenv, SyncProject, InstallTooling,
       Pytest, CoveragePy, ReportPython, Combine, Ratchet, Archive, InPython, history
  <2> QED BY <1>1, <2>1 DEF PinnedNextest, LlvmUnlessHidden
<1> QED BY <1>2, <1>3

LEMMA CauseStays ==
  ASSUME TypeOK, Placed, Equipped, Dated, RedForCause, Next
  PROVE  RedForCause'
<1>1. CASE Use
  BY <1>1 DEF Use, RedForCause
<1>2. ASSUME ~Use PROVE RedForCause'
  <2>1. UNCHANGED <<project, uses>> /\ use' = use /\ now' = now
    BY <1>2, Stays DEF Detect, use, now
  <2>2. CASE status' = status /\ lang' = lang
    <3>1. ArtefactName(use, lang)' = ArtefactName(use, lang)
      BY <2>1, <2>2 DEF ArtefactName
    <3>2. \A n : ArtefactName(uses[n], "some")' = ArtefactName(uses[n], "some")
      BY <2>1 DEF ArtefactName
    <3> QED BY <2>1, <2>2, <3>1, <3>2 DEF RedForCause
  <2>3. CASE status' \in {"ok", "refused", "fault", "gate", "killed"}
    BY <2>3 DEF RedForCause
  <2>4. CASE SyncProject
    <3>1. CASE status' = "unsyncable"
      <4>1. ~Syncable /\ Has(lang, "python") /\ lang = Lang(use) /\ use \in Inputs
        BY <2>4, <3>1, Uses DEF SyncProject, Placed, Goto, Fail, InRust, Configured, InVenv, Between
      <4>2. use.language = "auto" /\ project.pyproject # "none"
        BY <4>1, InputsAssumption DEF Lang, Forced, Has
      <4>3. project.pyproject = "tooling"
        BY <4>1, <4>2, ProjectsAssumption DEF TypeOK, Syncable
      <4> QED BY <2>1, <3>1, <4>2, <4>3 DEF RedForCause
    <3>2. CASE status' # "unsyncable"
      <4>1. status' \in {"ok", "fault"}
        BY <2>4, <3>2 DEF SyncProject, Placed, Goto, Fail
      <4> QED BY <4>1 DEF RedForCause
    <3> QED BY <3>1, <3>2
  <2>5. CASE Pytest
    <3>1. status' \in {"ok", "fault"}
      BY <2>5 DEF Pytest, Equipped, Placed, Goto, Fail
    <3> QED BY <3>1 DEF RedForCause
  <2>6. CASE CoveragePy
    <3>1. status' \in {"ok", "fault"} \/ (status' = "nodata" /\ ~There(DataFile))
      BY <2>6 DEF CoveragePy, Placed, Goto, Fail
    <3>2. use.fmt = "coveragepy" /\ (~There(DataFile) => ~project.writesData)
      BY <2>6 DEF CoveragePy, Placed, Equipped
    <3> QED BY <2>1, <3>1, <3>2 DEF RedForCause
  <2>7. CASE Archive /\ status' # status
    <3>1. lang' = lang /\ status' = "taken" /\ status = "ok" /\ Taken(ArtefactName(use, lang))
      BY <2>7 DEF Archive, context
    <3>2. PICK a \in artefacts : a.name = ArtefactName(use, lang)
      BY <3>1 DEF Taken
    <3>3. a.use \in 1..now - 1 /\ Named(a) /\ lang # "none"
      <4>1. now \in Nat
        BY LenProperties DEF TypeOK, now
      <4> QED BY <2>7, <3>1, <4>1 DEF Dated, Archive, Placed
    <3>4. ArtefactName(uses[a.use], "some") = ArtefactName(use, lang)
      BY <3>2, <3>3 DEF Named, ArtefactName
    <3>5. ArtefactName(uses[a.use], "some")' = ArtefactName(use, lang)'
      BY <2>1, <3>1, <3>4 DEF ArtefactName
    <3> QED BY <2>1, <3>1, <3>3, <3>5 DEF RedForCause
  <2>8. CASE Archive /\ status' = status
    BY <2>2, <2>8 DEF Archive, context
  <2>9. CASE MeasureElsewhere
    BY <2>2, <2>9 DEF MeasureElsewhere, context
  <2>10. \/ status' \in {"ok", "refused", "fault", "gate", "killed"}
         \/ SyncProject \/ Pytest \/ CoveragePy \/ Archive \/ MeasureElsewhere
    BY <1>2 DEF Next, Detect, InstallTools, InstallNextest, EnterConfig, Rust, Cucumber, RunCargo,
       MergeCucumber, Kill, ReportRust, RefuseWorkers, AcquireVenv, RecreateVenv, InstallTooling,
       ReportPython, Combine, Ratchet, Placed, Goto, Fail
  <2> QED BY <2>3, <2>4, <2>5, <2>6, <2>7, <2>8, <2>9, <2>10
<1> QED BY <1>1, <1>2

-----------------------------------------------------------------------------
(* Reports. *)

\* A step that keeps files, and what was measured, keeps what is said of them.
LEMMA FilesSame ==
  ASSUME UNCHANGED <<project, uses, lang, files, measured>>
  PROVE  (RustIn <=> RustIn') /\ (Whole <=> Whole') /\ MeasuredParts' = MeasuredParts
<1>1. use' = use /\ RF' = RF /\ Asked(use, "rust")' = Asked(use, "rust")
      /\ Asked(use, lang)' = Asked(use, lang)
  BY Same
<1>2. MeasuredParts' = MeasuredParts
  BY DEF MeasuredParts
<1> QED BY <1>1, <1>2 DEF RustIn, Whole, There

LEMMA PartAdded ==
  ASSUME NEW rec, measured' = measured \cup {rec}
  PROVE  /\ MeasuredParts' = MeasuredParts \cup {rec.part}
         /\ measured = {} => MeasuredParts' = {rec.part}
BY DEF MeasuredParts

LEMMA KeptInRust ==
  ASSUME TypeOK, Placed, Kept, Rust \/ Cucumber \/ MergeCucumber \/ ReportRust
  PROVE  Kept'
<1>1. /\ use' = use /\ RF' = RF /\ CF' = CF /\ lang' = lang /\ now > 0
      /\ Asked(use, "rust")' = Asked(use, "rust") /\ Asked(use, lang)' = Asked(use, lang)
  BY Stays, Same DEF Next, Rust, Cucumber, RunCargo, MergeCucumber, ReportRust, Use, Detect, Placed
<1>2. use \in Inputs /\ Has(lang, "rust") /\ lang # "none" /\ Compatible(lang, use.fmt)
  BY Uses, <1>1 DEF Placed, InRust, Configured, Between, Rust, Cucumber, MergeCucumber, ReportRust
<1>3. RF # CF
  BY <1>2, Apart DEF RF, CF
<1>4. CASE pc' = "out"
  <2>1. status' = "fault"
    BY <1>4 DEF Rust, Cucumber, RunCargo, MergeCucumber, ReportRust, Goto, Fail, After
  <2> QED BY <1>4, <2>1 DEF Kept, InVenv
<1>5. CASE Rust /\ pc' # "out"
  <2> DEFINE rec(hit) == Record("rust", hit)
  <2>1. PICK hit \in Hits : /\ files' = Write(files, RF, {rec(hit)})
                            /\ measured' = measured \cup {rec(hit)}
    BY <1>5 DEF Rust, RunCargo, Fail, RF
  <2>2. measured = {} /\ pc' = IF use.cucumber THEN "cucumber" ELSE "report"
    BY <1>5 DEF Rust, RunCargo, Fail, Goto, Kept
  <2>3. RF \in DOMAIN files' /\ files'[RF] = {rec(hit)} /\ measured' = {rec(hit)}
    BY <2>1, <2>2 DEF Write
  <2>4. MeasuredParts' = {"rust"}
    <3>1. rec(hit).part = "rust"
      BY DEF Record
    <3> QED BY <2>1, <2>2, <3>1, PartAdded
  <2>5. ~use.cucumber => Asked(use, "rust") = {"rust"}
    BY DEF Asked, Has
  <2> QED BY <1>1, <2>2, <2>3, <2>4, <2>5 DEF Kept, InVenv, RustIn, There
<1>6. CASE Cucumber /\ pc' # "out"
  <2> DEFINE rec(hit) == Record("cucumber", hit)
  <2>1. PICK hit \in Hits : /\ files' = Write(files, CF, {rec(hit)})
                            /\ measured' = measured \cup {rec(hit)}
    BY <1>6 DEF Cucumber, RunCargo, Fail, CF
  <2>2. pc' = "merge" /\ There(RF) /\ files[RF] = measured /\ MeasuredParts = {"rust"}
    BY <1>6 DEF Cucumber, RunCargo, Fail, Goto, Kept
  <2>3. /\ RF \in DOMAIN files' /\ CF \in DOMAIN files'
        /\ files'[RF] = measured /\ files'[CF] = {rec(hit)}
    BY <1>3, <2>1, <2>2 DEF There, Write
  <2>4. MeasuredParts' = {"rust", "cucumber"}
    <3>1. rec(hit).part = "cucumber"
      BY DEF Record
    <3> HIDE DEF rec
    <3> QED BY <2>1, <2>2, <3>1, PartAdded
  <2> QED BY <1>1, <2>1, <2>2, <2>3, <2>4 DEF Kept, InVenv, There
<1>7. CASE MergeCucumber /\ pc' # "out"
  <2>1. /\ files' = Unlink(Write(files, RF, files[RF] \cup files[CF]), {CF}) /\ measured' = measured
        /\ pc' = "report"
    BY <1>7 DEF MergeCucumber, Merged, RF, CF, Goto, Fail, history
  <2>2. files[RF] \cup files[CF] = measured /\ MeasuredParts = {"rust", "cucumber"}
    BY <1>7 DEF MergeCucumber, Kept
  <2>3. RF \in DOMAIN files' /\ files'[RF] = measured
    BY <1>3, <2>1, <2>2 DEF Write, Unlink
  <2>4. Asked(use, "rust") = {"rust", "cucumber"}
    BY <1>7 DEF Asked, Has, MergeCucumber, Placed
  <2>5. MeasuredParts' = MeasuredParts
    BY <2>1 DEF MeasuredParts
  <2> QED BY <1>1, <2>1, <2>2, <2>3, <2>4, <2>5 DEF Kept, InVenv, RustIn, There
<1>8. CASE ReportRust /\ pc' # "out"
  <2>1. /\ UNCHANGED <<project, uses, lang, files, measured>> /\ RustIn
        /\ pc' = IF lang = "mixed" THEN "venv" ELSE "ratchet"
    BY <1>8 DEF ReportRust, Kept, After, Goto, Fail, history
  <2>2. lang # "mixed" => RF = use.path /\ lang = "rust" /\ use.fmt # "coveragepy"
    BY <1>2 DEF RF, RustFile, Has, Compatible
  <2>3. lang # "mixed" => Whole
    BY <2>1, <2>2 DEF RustIn, Whole
  <2>4. RustIn' /\ (Whole => Whole')
    BY <2>1, FilesSame
  <2> QED BY <1>1, <2>1, <2>3, <2>4 DEF Kept, InVenv
<1> QED BY <1>4, <1>5, <1>6, <1>7, <1>8

LEMMA KeptInPython ==
  ASSUME TypeOK, Placed, Kept, Stamped, Pytest \/ CoveragePy \/ ReportPython \/ Combine
  PROVE  Kept'
<1>1. /\ use' = use /\ RF' = RF /\ PF' = PF /\ lang' = lang /\ now > 0
      /\ Asked(use, lang)' = Asked(use, lang)
  BY Stays, Same DEF Next, Pytest, CoveragePy, ReportPython, Combine, InPython, context, Placed
<1>2. use \in Inputs /\ Has(lang, "python") /\ lang # "none" /\ Compatible(lang, use.fmt)
  BY Uses, <1>1 DEF Placed, InVenv, InRust, Configured, Between, Has, Pytest, CoveragePy,
     ReportPython, Combine
<1>3. /\ use.path # DataFile /\ PF # DataFile /\ RF # DataFile
      /\ lang = "mixed" => RF # PF /\ RF # use.path /\ PF # use.path
  BY <1>2, Apart DEF RF, PF
<1>4. CASE pc' = "out"
  <2>1. status' \in {"fault", "unready", "nodata"}
    BY <1>4 DEF Pytest, CoveragePy, ReportPython, Combine, Goto, Fail, After
  <2> QED BY <1>4, <2>1 DEF Kept, InVenv
<1>5. CASE Pytest /\ pc' # "out"
  <2>1. CASE use.fmt = "coveragepy"
    <3>1. pc' = "xml"
      BY <1>5, <2>1 DEF Pytest, Goto, Fail
    <3> QED BY <3>1 DEF Kept, InVenv
  <2>2. CASE use.fmt # "coveragepy"
    <3> DEFINE rec(hit) == Record("python", hit)
               written(hit) == Write(files, PF, {rec(hit)})
    <3>1. use.fmt = "cobertura"
      BY <1>2, <2>2, InputsAssumption DEF Has, Compatible
    <3>2. PICK hit \in Hits : /\ files' = Data(written(hit), hit)
                              /\ measured' = measured \cup {rec(hit)} /\ pc' = "percent"
      BY <1>5, <2>2, <3>1 DEF Pytest, Slipcover, PF, Goto, Fail
    <3>3. IF lang = "mixed" THEN RustIn ELSE measured = {}
      BY <1>5 DEF Kept, Pytest, InVenv
    <3>4. /\ PF \in DOMAIN files' /\ files'[PF] = {rec(hit)}
          /\ lang = "mixed" => RF \in DOMAIN files' /\ files'[RF] = measured
      BY <1>3, <3>2, <3>3 DEF Data, Write, RustIn, There
    <3>5. rec(hit).part = "python"
      BY DEF Record
    <3> HIDE DEF rec
    <3>6. MeasuredParts' = MeasuredParts \cup {"python"} /\ (measured = {} => MeasuredParts' = {"python"})
      BY <3>2, <3>5, PartAdded
    <3>7. MeasuredParts' = Asked(use, lang)
      BY <1>2, <3>3, <3>6 DEF RustIn, Asked, Has
    <3> QED BY <1>1, <3>2, <3>3, <3>4, <3>7 DEF Kept, InVenv, RustIn, There
  <2> QED BY <2>1, <2>2
<1>6. CASE CoveragePy /\ pc' # "out"
  <2>1. lang = "python" /\ use.fmt = "coveragepy"
    BY <1>2, <1>6 DEF CoveragePy, Placed, Has, Compatible
  <2>2. /\ files' = Write(Unlink(files, {XmlTmp(use.path), DataFile}), use.path, files[DataFile])
        /\ There(DataFile) /\ pc' = "ratchet"
    BY <1>6, <2>1 DEF CoveragePy, After, Goto, Fail
  <2>3. use.path \in DOMAIN files' /\ files'[use.path] = files[DataFile]
    BY <2>2 DEF Write
  <2>4. Whole'
    BY <1>1, <2>1, <2>2, <2>3 DEF Whole, There, Stamped
  <2> QED BY <2>2, <2>4 DEF Kept, InVenv
<1>7. CASE ReportPython /\ pc' # "out"
  <2>1. /\ UNCHANGED <<project, uses, lang, files, measured>> /\ pc = "percent"
        /\ pc' = IF lang = "mixed" THEN "combine" ELSE "ratchet"
    BY <1>7 DEF ReportPython, After, Goto, Fail, InPython
  <2>2. MeasuredParts' = MeasuredParts
    BY <2>1, FilesSame
  <2>3. lang # "mixed" => PF = use.path /\ use.fmt = "cobertura"
    BY <2>1 DEF PF, PythonFile, Placed
  <2>4. lang # "mixed" => Whole
    BY <2>1, <2>3 DEF Kept, Whole, There
  <2>5. Whole => Whole'
    BY <2>1, FilesSame
  <2> QED BY <1>1, <2>1, <2>2, <2>4, <2>5 DEF Kept, InVenv, There
<1>8. CASE Combine /\ pc' # "out"
  <2>1. /\ files' = Unlink(Write(files, use.path, files[RF] \cup files[PF]), {RF, PF})
        /\ measured' = measured /\ pc' = "ratchet" /\ lang = "mixed"
    BY <1>8 DEF Combine, Merged, RF, PF, Goto, Fail, history, Placed
  <2>2. files[RF] \cup files[PF] = measured /\ MeasuredParts = Asked(use, lang) /\ use.fmt = "cobertura"
    BY <1>2, <1>8, <2>1 DEF Combine, Kept, Compatible
  <2>3. use.path \in DOMAIN files' /\ files'[use.path] = measured
    BY <1>3, <2>1, <2>2 DEF Write, Unlink
  <2>4. MeasuredParts' = MeasuredParts
    BY <2>1 DEF MeasuredParts
  <2>5. Whole'
    BY <1>1, <2>1, <2>2, <2>3, <2>4 DEF Whole, There
  <2> QED BY <2>1, <2>5 DEF Kept, InVenv
<1> QED BY <1>4, <1>5, <1>6, <1>7, <1>8

LEMMA KeptStays ==
  ASSUME TypeOK, Placed, Kept, Stamped, Next
  PROVE  Kept'
<1>1. CASE Use
  BY <1>1 DEF Use, Kept, InVenv
<1>2. CASE Detect
  <2>1. measured' = {}
    BY <1>2 DEF Detect, Kept, history
  <2>2. \/ pc' = "out" /\ status' = "refused"
        \/ pc' = "tools"
        \/ pc' = "venv" /\ lang' # "mixed"
    BY <1>2 DEF Detect, Goto, Fail, Has
  <2> QED BY <2>1, <2>2 DEF Kept, InVenv
<1>3. CASE MeasureElsewhere
  <2>1. UNCHANGED <<project, uses, lang, measured, status, pc>> /\ pc = "idle"
    BY <1>3 DEF MeasureElsewhere, context, history
  <2>2. use' = use /\ Asked(use, lang)' = Asked(use, lang) /\ now' = now
    BY <2>1, Same
  <2>3. MeasuredParts' = MeasuredParts
    BY <2>1 DEF MeasuredParts
  <2>4. ASSUME now > 0, Whole PROVE Whole'
    <3>1. use.path # DataFile
      BY <2>4, Uses, Apart
    <3>2. use.path \in DOMAIN files' /\ files'[use.path] = files[use.path]
      BY <1>3, <2>4, <3>1 DEF MeasureElsewhere, Write, Whole, There
    <3> QED BY <2>1, <2>2, <2>3, <2>4, <3>2 DEF Whole, There
  <2> QED BY <2>1, <2>2, <2>4 DEF Kept, InVenv
<1>4. CASE Rust \/ Cucumber \/ MergeCucumber \/ ReportRust
  BY <1>4, KeptInRust
<1>5. CASE Pytest \/ CoveragePy \/ ReportPython \/ Combine
  BY <1>5, KeptInPython
<1>6. CASE InstallTools \/ InstallNextest \/ EnterConfig \/ Kill
  <2>1. measured' = measured
    BY <1>6 DEF InstallTools, InstallNextest, EnterConfig, Kill, history
  <2>2. \/ pc' = "out" /\ status' \in {"fault", "killed"}
        \/ pc \in {"tools", "nextest", "cargo"} /\ pc' \in {"nextest", "cargo", "rust"}
    BY <1>6 DEF InstallTools, InstallNextest, EnterConfig, Kill, Goto, Fail
  <2> QED BY <2>1, <2>2 DEF Kept, InVenv
<1>7. CASE RefuseWorkers \/ AcquireVenv \/ SyncProject \/ InstallTooling
  <2>1. UNCHANGED <<project, uses, lang, files, measured>>
    BY <1>7 DEF RefuseWorkers, AcquireVenv, SyncProject, InstallTooling, InPython
  <2>2. \/ pc' = "out" /\ status' \in {"fault", "refused", "unsyncable"}
        \/ pc \in InVenv /\ pc' \in InVenv
    BY <1>7 DEF RefuseWorkers, AcquireVenv, RecreateVenv, SyncProject, InstallTooling, Goto, Fail, InVenv
  <2>3. RustIn => RustIn'
    BY <2>1, FilesSame
  <2> QED BY <2>1, <2>2, <2>3 DEF Kept, InVenv
<1>8. CASE Ratchet \/ Archive
  <2>1. UNCHANGED <<project, uses, lang, files, measured>>
    BY <1>8 DEF Ratchet, Archive, context, workspace, history
  <2>2. now' = now /\ now > 0
    BY <1>8, <2>1 DEF now, Placed, Ratchet, Archive
  <2>3. /\ pc' \in {"idle", "out"}
        /\ pc = "ratchet" \/ (pc = "out" /\ (status' # status => status = "ok"))
    BY <1>8 DEF Ratchet, Archive, Goto, Fail
  <2>4. Whole => Whole'
    BY <2>1, FilesSame
  <2> QED BY <2>1, <2>2, <2>3, <2>4 DEF Kept, InVenv
<1> QED BY <1>1, <1>2, <1>3, <1>4, <1>5, <1>6, <1>7, <1>8 DEF Next

-----------------------------------------------------------------------------
(* Every change of a file. *)

\* What a file can become.
FromData(report) == report \in Reports /\ IsFiniteSet(report) /\ \A r \in report : r.part = "data"
FromUse(report) ==
  report \in Reports /\ IsFiniteSet(report) /\ \A r \in report : r.part = "data" \/ r.use = now

\* A use at work touches nothing but its own paths.
AtWork == pc \notin Between \cup {"out"}

LEMMA OwnPaths ==
  ASSUME TypeOK, Placed, AtWork
  PROVE  /\ now > 0 /\ use \in Inputs /\ use = uses[now] /\ now \in 1..MaxUses
         /\ {use.path, DataFile} \subseteq Touched(use)
         /\ Has(lang, "rust") => RF \in Touched(use)
         /\ Has(lang, "rust") /\ use.cucumber => CF \in Touched(use)
         /\ Has(lang, "python") => PF \in Touched(use)
         /\ use.fmt = "coveragepy" => XmlTmp(use.path) \in Touched(use)
         /\ use.path # DataFile /\ RF # DataFile /\ CF # DataFile /\ PF # DataFile
<1>1. now > 0 /\ lang = Lang(use) /\ lang # "none"
  BY DEF Placed, AtWork, Between
<1>2. use \in Inputs /\ use = uses[now] /\ now \in 1..MaxUses
  BY <1>1, Uses
<1>3. use.path # DataFile /\ RF # DataFile /\ CF # DataFile /\ PF # DataFile
  BY <1>2, Apart DEF RF, CF, PF
<1>4. {use.path, DataFile} \subseteq Touched(use)
  BY DEF Touched
<1>5. lang # "mixed" => RF = use.path /\ PF = use.path
  BY DEF RF, PF, RustFile, PythonFile
<1>6. lang = "mixed" => RF \in Touched(use) /\ PF \in Touched(use)
  BY <1>1 DEF Touched, RF, PF
<1>7. Has(lang, "rust") /\ use.cucumber => CF \in Touched(use)
  BY <1>1 DEF Touched, CF
<1>8. use.fmt = "coveragepy" => XmlTmp(use.path) \in Touched(use)
  BY DEF Touched, XmlTmp
<1> QED BY <1>1, <1>2, <1>3, <1>4, <1>5, <1>6, <1>7, <1>8

LEMMA RecordTyped ==
  ASSUME now \in 1..MaxUses, NEW part \in {"rust", "cucumber", "python", "data"}, NEW hit \in Hits
  PROVE  {Record(part, hit)} \in Reports /\ IsFiniteSet({Record(part, hit)})
         /\ Record(part, hit).use = now /\ Record(part, hit).part = part
<1>1. now \in 0..MaxUses
  BY UsesAssumption
<1>2. Record(part, hit) \in [use : 0..MaxUses, part : {"rust", "cucumber", "python", "data"}, hit : Hits]
  BY <1>1 DEF Record
<1>3. Record(part, hit).use = now /\ Record(part, hit).part = part
  BY DEF Record
<1> QED BY <1>2, <1>3, FS_Singleton DEF Reports

\* Of a file that a step leaves.
Changed(q) ==
  \/ q \in DOMAIN files /\ files'[q] = files[q]
  \/ q = DataFile /\ FromData(files'[q])
  \/ AtWork /\ q \in Touched(use) /\ q # DataFile /\ FromUse(files'[q])

LEMMA FilesChange ==
  ASSUME TypeOK, Placed, Kept, Stamped, Countable, Next
  PROVE  /\ \A q \in DOMAIN files' : Changed(q)
         /\ \A q \in DOMAIN files \ DOMAIN files' : AtWork /\ q \in Touched(use)
         /\ measured' = measured \/ measured' = {}
            \/ \E rec : measured' = measured \cup {rec} /\ {rec} \in Reports /\ rec.use = now
<1>1. CASE MeasureElsewhere
  <2>1. PICK hit \in Hits :
          files' = Write(files, DataFile, {[use |-> 0, part |-> "data", hit |-> hit]})
    BY <1>1 DEF MeasureElsewhere
  <2> DEFINE rec == [use |-> 0, part |-> "data", hit |-> hit]
  <2>2. rec \in [use : 0..MaxUses, part : {"rust", "cucumber", "python", "data"}, hit : Hits]
    BY UsesAssumption
  <2>3. FromData({rec})
    BY <2>2, FS_Singleton DEF FromData, Reports
  <2> HIDE DEF rec
  <2>4. files' = Write(files, DataFile, {rec})
    BY <2>1 DEF rec
  <2>5. measured' = measured
    BY <1>1 DEF MeasureElsewhere, history
  <2> QED BY <2>3, <2>4, <2>5 DEF Write, Changed
<1>2. CASE Rust
  <2>1. AtWork /\ Has(lang, "rust")
    BY <1>2 DEF Rust, Placed, InRust, Configured, AtWork, Between
  <2>2. CASE UNCHANGED <<files, measured>>
    BY <2>2 DEF Changed
  <2>3. CASE \E hit \in Hits : /\ files' = Write(files, RF, {Record("rust", hit)})
                               /\ measured' = measured \cup {Record("rust", hit)}
    <3>1. PICK hit \in Hits : /\ files' = Write(files, RF, {Record("rust", hit)})
                              /\ measured' = measured \cup {Record("rust", hit)}
      BY <2>3
    <3>2. {Record("rust", hit)} \in Reports /\ FromUse({Record("rust", hit)}) /\ Record("rust", hit).use = now
      BY <2>1, OwnPaths, RecordTyped DEF FromUse
    <3> QED BY <2>1, <3>1, <3>2, OwnPaths DEF Write, Changed
  <2> QED BY <1>2, <2>2, <2>3 DEF Rust, RunCargo, RF
<1>3. CASE Cucumber
  <2>1. AtWork /\ Has(lang, "rust") /\ use.cucumber
    BY <1>3 DEF Cucumber, Placed, InRust, Configured, AtWork, Between
  <2>2. CASE UNCHANGED <<files, measured>>
    BY <2>2 DEF Changed
  <2>3. CASE \E hit \in Hits : /\ files' = Write(files, CF, {Record("cucumber", hit)})
                               /\ measured' = measured \cup {Record("cucumber", hit)}
    <3>1. PICK hit \in Hits : /\ files' = Write(files, CF, {Record("cucumber", hit)})
                              /\ measured' = measured \cup {Record("cucumber", hit)}
      BY <2>3
    <3>2. /\ {Record("cucumber", hit)} \in Reports /\ FromUse({Record("cucumber", hit)})
          /\ Record("cucumber", hit).use = now
      BY <2>1, OwnPaths, RecordTyped DEF FromUse
    <3> QED BY <2>1, <3>1, <3>2, OwnPaths DEF Write, Changed
  <2> QED BY <1>3, <2>2, <2>3 DEF Cucumber, RunCargo, CF
<1>4. FromUse(measured)
  BY DEF Countable, Stamped, FromUse
<1>5. CASE MergeCucumber
  <2>1. AtWork /\ Has(lang, "rust") /\ use.cucumber /\ files[RF] \cup files[CF] = measured
    BY <1>5 DEF MergeCucumber, Placed, InRust, Configured, AtWork, Between, Kept
  <2>2. /\ measured' = measured
        /\ files' = files \/ files' = Unlink(Write(files, RF, measured), {CF})
    BY <1>5, <2>1 DEF MergeCucumber, Merged, RF, CF, history
  <2> QED BY <1>4, <2>1, <2>2, OwnPaths DEF Write, Unlink, Changed
<1>6. CASE Combine
  <2>1. /\ AtWork /\ Has(lang, "rust") /\ Has(lang, "python")
        /\ files[RF] \cup files[PF] = measured
    BY <1>6 DEF Combine, Placed, AtWork, Between, Kept, Has
  <2>2. /\ measured' = measured
        /\ files' = files \/ files' = Unlink(Write(files, use.path, measured), {RF, PF})
    BY <1>6, <2>1 DEF Combine, Merged, RF, PF, history
  <2> QED BY <1>4, <2>1, <2>2, OwnPaths DEF Write, Unlink, Changed
<1>7. CASE CoveragePy
  <2>1. AtWork /\ use.fmt = "coveragepy" /\ measured' = measured
    BY <1>7 DEF CoveragePy, Placed, AtWork, Between
  <2> DEFINE xml == XmlTmp(use.path)
  <2>2. xml \in Touched(use) /\ use.path \in Touched(use) /\ DataFile \in Touched(use)
        /\ use.path # DataFile
    BY <2>1, OwnPaths
  <2>3. There(DataFile) => FromUse(files[DataFile])
    BY DEF There, Countable, Stamped, FromUse
  <2>4. \/ files' = files
        \/ files' = Unlink(files, {xml})
        \/ /\ There(DataFile)
           /\ files' = Write(Unlink(files, {xml, DataFile}), use.path, files[DataFile])
    BY <1>7 DEF CoveragePy
  <2> HIDE DEF xml
  <2> QED BY <2>1, <2>2, <2>3, <2>4 DEF Write, Unlink, Changed
<1>8. CASE Pytest
  <2>1. AtWork /\ Has(lang, "python")
    BY <1>8 DEF Pytest, Placed, InVenv, AtWork, Between
  <2>2. PICK hit \in Hits :
          /\ measured' = measured \/ measured' = measured \cup {Record("python", hit)}
          /\ files' \in {files, Data(files, hit), Data(Slipcover(files, hit), hit)}
    BY <1>8 DEF Pytest
  <2>3. /\ {Record("python", hit)} \in Reports /\ FromUse({Record("python", hit)})
        /\ Record("python", hit).use = now
    BY <2>1, OwnPaths, RecordTyped DEF FromUse
  <2>4. FromData({Record("data", hit)})
    BY <2>1, OwnPaths, RecordTyped DEF FromData
  <2> DEFINE recp == Record("python", hit)
             recd == Record("data", hit)
             w == Write(files, PF, {recp})
  <2>5. \/ files' = files \/ files' = w
        \/ files' = Write(files, DataFile, {recd}) \/ files' = Write(w, DataFile, {recd})
    BY <2>2 DEF Data, Slipcover, PF
  <2> HIDE DEF recp, recd
  <2>6. PF \in Touched(use) /\ PF # DataFile
    BY <2>1, OwnPaths
  <2>7. FromUse({recp}) /\ FromData({recd})
    BY <2>3, <2>4 DEF recp, recd
  <2>8. \A q \in DOMAIN files' : Changed(q)
    <3>1. CASE files' = files
      BY <3>1 DEF Changed
    <3>2. CASE files' = w
      BY <2>1, <2>6, <2>7, <3>2 DEF Write, Changed
    <3>3. CASE files' = Write(files, DataFile, {recd})
      BY <2>7, <3>3 DEF Write, Changed
    <3>4. CASE files' = Write(w, DataFile, {recd})
      <4>1. DOMAIN files' = DOMAIN files \cup {PF, DataFile} /\ files'[DataFile] = {recd}
        BY <3>4 DEF Write
      <4>2. \A q \in DOMAIN files' : q # DataFile => files'[q] = IF q = PF THEN {recp} ELSE files[q]
        BY <3>4 DEF Write
      <4> QED BY <2>1, <2>6, <2>7, <4>1, <4>2 DEF Changed
    <3> QED BY <2>5, <3>1, <3>2, <3>3, <3>4
  <2>9. DOMAIN files \subseteq DOMAIN files'
    BY <2>5 DEF Write
  <2> QED BY <2>2, <2>3, <2>8, <2>9
<1>9. CASE ~(MeasureElsewhere \/ Rust \/ Cucumber \/ MergeCucumber \/ Combine \/ CoveragePy \/ Pytest)
  <2>1. files' = files /\ measured' \in {measured, {}}
    BY <1>9 DEF Next, Use, Detect, InstallTools, InstallNextest, EnterConfig, Kill, ReportRust,
       RefuseWorkers, AcquireVenv, SyncProject, InstallTooling, ReportPython, Ratchet, Archive,
       workspace, history, InPython
  <2> QED BY <2>1 DEF Changed
<1> QED BY <1>1, <1>2, <1>3, <1>5, <1>6, <1>7, <1>8, <1>9

-----------------------------------------------------------------------------
(* What follows for reports and artefacts. *)

\* Uses that have begun do not change.
LEMMA Numbers ==
  ASSUME TypeOK, Next
  PROVE  /\ now \in Nat /\ now' \in Nat /\ now <= now'
         /\ \A n \in 1..now : uses'[n] = uses[n]
         /\ pc # "idle" => uses' = uses /\ now' = now /\ use' = use
<1>1. now \in Nat
  BY LenProperties DEF TypeOK, now
<1>2. CASE Use
  <2>1. now' = now + 1 /\ \A n \in 1..now : uses'[n] = uses[n]
    BY <1>2, Following
  <2>2. pc = "idle"
    BY <1>2 DEF Use
  <2> QED BY <1>1, <2>1, <2>2
<1>3. CASE ~Use
  <2>1. uses' = uses
    BY <1>3, Stays DEF Detect
  <2> QED BY <1>1, <2>1 DEF now, use
<1> QED BY <1>2, <1>3

LEMMA StampedStays ==
  ASSUME TypeOK, Placed, Kept, Stamped, Countable, Next
  PROVE  Stamped'
<1>1. project' = project /\ now \in Nat /\ now' \in Nat /\ now <= now'
      /\ \A n \in 1..now : uses'[n] = uses[n]
  BY Numbers, ProjectStays
<1>2. \A r \in measured' : r.use = now'
  <2>1. CASE measured' = {}
    BY <2>1
  <2>2. CASE measured' # {}
    <3>1. ~Use
      BY <2>2 DEF Use
    <3>2. now' = now
      BY <3>1, Stays DEF Detect, now
    <3> QED BY <2>2, <3>2, FilesChange DEF Stamped
  <2> QED BY <2>1, <2>2
<1>3. There(DataFile)' => \A r \in files'[DataFile] : r.part = "data"
  <2>1. DataFile \in DOMAIN files' => Changed(DataFile)
    BY FilesChange
  <2> QED BY <2>1 DEF Changed, FromData, Stamped, There, DataFile
<1>4. ASSUME NEW q \in DOMAIN files', NEW r \in files'[q], r.part # "data"
      PROVE  r.use \in 1..now' /\ q \in Touched(uses[r.use])'
  <2>1. r.use \in 1..now /\ q \in Touched(uses[r.use])
    <3>1. CASE q \in DOMAIN files /\ files'[q] = files[q]
      BY <1>4, <3>1 DEF Stamped
    <3>2. CASE q = DataFile /\ FromData(files'[q])
      BY <1>4, <3>2 DEF FromData
    <3>3. CASE AtWork /\ q \in Touched(use) /\ FromUse(files'[q])
      <4>1. r.use = now /\ now \in 1..MaxUses /\ use = uses[now]
        BY <1>4, <3>3, OwnPaths DEF FromUse
      <4> QED BY <1>1, <3>3, <4>1
    <3> QED BY <3>1, <3>2, <3>3, FilesChange DEF Changed
  <2>2. uses'[r.use] = uses[r.use]
    BY <1>1, <2>1
  <2>3. Touched(uses[r.use])' = Touched(uses[r.use])
    <3> DEFINE n == r.use
    <3>1. uses'[n] = uses[n]
      BY <2>2
    <3> HIDE DEF n
    <3>2. Touched(uses[n])' = Touched(uses[n])
      BY <1>1, <3>1, TouchedKept
    <3> QED BY <3>2 DEF n
  <2> QED BY <1>1, <2>1, <2>3
<1> QED BY <1>2, <1>3, <1>4 DEF Stamped

LEMMA CountableStays ==
  ASSUME TypeOK, Placed, Kept, Stamped, Countable, Next
  PROVE  Countable' /\ FilesOK'
<1>1. measured' \in Reports /\ IsFiniteSet(measured')
  <2>1. CASE measured' = {}
    BY <2>1, FS_EmptySet DEF Reports
  <2>2. CASE measured' = measured
    BY <2>2 DEF Countable
  <2>3. CASE \E rec : measured' = measured \cup {rec} /\ {rec} \in Reports /\ rec.use = now
    <3>1. PICK rec : measured' = measured \cup {rec} /\ {rec} \in Reports
      BY <2>3
    <3>2. IsFiniteSet({rec}) /\ IsFiniteSet(measured) /\ measured \in Reports
      BY FS_Singleton DEF Countable
    <3>3. IsFiniteSet(measured \cup {rec})
      BY <3>2, FS_Union
    <3> QED BY <3>1, <3>2, <3>3 DEF Reports
  <2> QED BY <2>1, <2>2, <2>3, FilesChange
<1>2. ASSUME NEW q \in DOMAIN files' PROVE files'[q] \in Reports /\ IsFiniteSet(files'[q])
  <2>1. Changed(q)
    BY FilesChange
  <2> QED BY <2>1 DEF Changed, FromData, FromUse, Countable
<1>3. Reports' = Reports
  BY DEF Reports
<1> QED BY <1>1, <1>2, <1>3 DEF Countable, FilesOK

\* Percentages are of files that are there.
LEMMA PercentTyped ==
  ASSUME NEW fmt, NEW report \in Reports, IsFiniteSet(report)
  PROVE  Percent(fmt, report) \in Nat \X Nat /\ Percent(fmt, report)[1] <= Percent(fmt, report)[2]
<1> DEFINE L == Cardinality(Lines)
           R == Cardinality(report)
           C == {x \in report \X Lines : x[2] \in x[1].hit}
<1>1. L \in Nat /\ R \in Nat /\ IsFiniteSet(Lines)
  BY LinesAssumption, FS_CardinalityType
<1>2. IsFiniteSet(report \X Lines) /\ Cardinality(report \X Lines) = R * L
  BY <1>1, FS_Product
<1>3. C \in SUBSET (report \X Lines)
  OBVIOUS
<1> HIDE DEF C
<1>4. Cardinality(C) \in Nat /\ Cardinality(C) <= R * L
  BY <1>2, <1>3, FS_Subset, FS_CardinalityType
<1>5. Covered(report) \in SUBSET Lines
  BY LinesAssumption DEF Covered, Reports
<1>6. Cardinality(Covered(report)) \in Nat /\ Cardinality(Covered(report)) <= L
  BY <1>1, <1>5, FS_Subset, FS_CardinalityType
<1>7. R * L \in Nat
  BY <1>1
<1> HIDE DEF L, R
<1>8. LcovPercent(report) = <<Cardinality(C), R * L>>
  BY DEF LcovPercent, Counted, C, R, L
<1>9. CoberturaPercent(report) = <<Cardinality(Covered(report)), L>>
  BY DEF CoberturaPercent, L
<1> QED BY <1>1, <1>4, <1>6, <1>7, <1>8, <1>9 DEF Percent

LEMMA PercentsStay ==
  ASSUME TypeOK, Placed, Kept, Countable, Next
  PROVE  PercentsOK'
<1>1. PercentsOK
  BY Parts
<1>2. CASE percents' = percents
  BY <1>1, <1>2 DEF PercentsOK
<1>3. CASE Use
  <2>1. percents' = <<>>
    BY <1>3 DEF Use
  <2>2. DOMAIN percents' = {}
    BY <2>1
  <2> QED BY <2>2 DEF PercentsOK
<1>4. ASSUME NEW language \in Languages, NEW p \in DOMAIN files,
             Known(language, Percent(use.fmt, files[p]))
      PROVE  PercentsOK'
  <2> DEFINE percent == Percent(use.fmt, files[p])
  <2>1. percent \in Nat \X Nat /\ percent[1] <= percent[2]
    BY PercentTyped DEF Countable
  <2> HIDE DEF percent
  <2>2. percents' = [l \in DOMAIN percents \cup {language} |->
                       IF l = language THEN percent ELSE percents[l]]
    BY <1>4 DEF Known, percent
  <2> QED BY <1>1, <2>1, <2>2 DEF PercentsOK
<1>5. CASE ReportRust
  BY <1>2, <1>4, <1>5 DEF ReportRust, Kept, RustIn, There, RF, Languages
<1>6. CASE CoveragePy
  BY <1>2, <1>4, <1>6 DEF CoveragePy, There, Languages
<1>7. CASE ReportPython
  BY <1>2, <1>4, <1>7 DEF ReportPython, Kept, There, PF, Languages
<1>8. CASE ~(Use \/ ReportRust \/ CoveragePy \/ ReportPython)
  <2>1. percents' = percents
    BY <1>8 DEF Next, Detect, MeasureElsewhere, InstallTools, InstallNextest, EnterConfig, Rust,
       Cucumber, RunCargo, MergeCucumber, Kill, RefuseWorkers, AcquireVenv, SyncProject,
       InstallTooling, Pytest, Combine, Ratchet, Archive, context
  <2> QED BY <1>2, <2>1
<1> QED BY <1>3, <1>5, <1>6, <1>7, <1>8

LEMMA DatedStays ==
  ASSUME TypeOK, Placed, Dated, Next
  PROVE  Dated'
<1>1. /\ now \in Nat /\ now' \in Nat /\ now <= now' /\ \A n \in 1..now : uses'[n] = uses[n]
      /\ pc # "idle" => uses' = uses /\ now' = now
  BY Numbers
<1>2. pc = "idle" /\ pc' # "idle" => now < now'
  <2>1. pc = "idle" /\ pc' # "idle" => Use
    BY DEF Next, MeasureElsewhere, Detect, InstallTools, InstallNextest, EnterConfig, Rust, Cucumber,
       MergeCucumber, Kill, ReportRust, RefuseWorkers, AcquireVenv, SyncProject, InstallTooling,
       Pytest, CoveragePy, ReportPython, Combine, Ratchet, Archive
  <2> QED BY <1>1, <2>1, Following
<1>3. ASSUME NEW a \in artefacts PROVE a.use \in 1..now' /\ Named(a)' /\ (pc' # "idle" => a.use < now')
  <2>1. a.use \in 1..now /\ Named(a) /\ (pc # "idle" => a.use < now)
    BY DEF Dated
  <2>2. Named(a)'
    BY <1>1, <2>1 DEF Named, ArtefactName
  <2> QED BY <1>1, <1>2, <2>1, <2>2
<1>4. ASSUME NEW h \in handed PROVE h.use \in 1..now' /\ (pc' # "idle" => h.use < now')
  <2>1. h.use \in 1..now /\ (pc # "idle" => h.use < now)
    BY DEF Dated
  <2> QED BY <1>1, <1>2, <2>1
<1>5. CASE Archive
  <2>1. /\ pc' = "idle" /\ uses' = uses /\ now' = now /\ now \in 1..now
    BY <1>1, <1>5 DEF Archive, Placed
  <2>2. ASSUME NEW a \in artefacts', a \notin artefacts PROVE a.use = now /\ Named(a)'
    <3>1. a.use = now /\ a.name = ArtefactName(use, lang)
      BY <1>5, <2>2 DEF Archive
    <3>2. use = uses[now]
      BY DEF use, now, Last
    <3>3. lang \in {"none", "rust", "python", "mixed"}
      BY DEF TypeOK
    <3>4. ArtefactName(uses[a.use], lang)' = ArtefactName(use, lang)
      BY <1>5, <2>1, <3>1, <3>2 DEF ArtefactName, Archive, context
    <3>5. Named(a)
      BY <3>1, <3>2, <3>3 DEF Named
    <3> QED BY <2>1, <3>1, <3>5 DEF Named, ArtefactName
  <2>3. ASSUME NEW h \in handed', h \notin handed PROVE h.use = now
    BY <1>5, <2>3 DEF Archive
  <2> QED BY <1>3, <1>4, <2>1, <2>2, <2>3 DEF Dated
<1>6. CASE ~Archive
  <2>1. artefacts' = artefacts /\ handed' = handed
    BY <1>6 DEF Next, Use, Detect, MeasureElsewhere, InstallTools, InstallNextest, EnterConfig, Rust,
       Cucumber, RunCargo, MergeCucumber, Kill, ReportRust, RefuseWorkers, AcquireVenv, SyncProject,
       InstallTooling, Pytest, CoveragePy, ReportPython, Combine, Ratchet, InPython, history
  <2> QED BY <1>3, <1>4, <2>1 DEF Dated
<1> QED BY <1>5, <1>6

LEMMA StandStays ==
  ASSUME TypeOK, Placed, Kept, Stamped, Countable, Dated, ReportsStand, Next
  PROVE  ReportsStand'
<1>1. /\ now \in Nat /\ now' \in Nat /\ now <= now' /\ \A n \in 1..now : uses'[n] = uses[n]
      /\ pc # "idle" => uses' = uses /\ now' = now
      /\ project' = project
  BY Numbers, ProjectStays
<1>2. ASSUME NEW h \in handed
      PROVE  \/ There(uses[h.use].path)' /\ files'[uses'[h.use].path] = h.report
             \/ \E n \in h.use+1..now' : uses'[h.use].path \in Touched(uses[n])'
  <2> DEFINE p == uses[h.use].path
  <2>1. h.use \in 1..now /\ (pc # "idle" => h.use < now) /\ uses'[h.use].path = p
    BY <1>1 DEF Dated
  <2>2. p # DataFile
    <3>1. uses[h.use] \in Inputs
      BY <2>1, ElementOfSeq DEF TypeOK, now
    <3> QED BY <3>1, Apart
  <2>3. CASE \E n \in h.use+1..now : p \in Touched(uses[n])
    <3>1. PICK n \in h.use+1..now : p \in Touched(uses[n])
      BY <2>3
    <3>2. Touched(uses[n])' = Touched(uses[n]) /\ n \in h.use+1..now'
      BY <1>1, <2>1, TouchedKept
    <3> QED BY <2>1, <3>1, <3>2
  <2>4. CASE p \in DOMAIN files' /\ files'[p] = h.report
    BY <2>1, <2>4 DEF There
  <2>5. CASE p \in DOMAIN files /\ files[p] = h.report /\ AtWork /\ p \in Touched(use)
    <3>1. now' = now /\ now \in h.use+1..now /\ use = uses[now] /\ uses' = uses
      BY <1>1, <2>1, <2>5, OwnPaths DEF AtWork, Between
    <3>2. PICK n \in h.use+1..now : n = now
      BY <3>1
    <3>3. Touched(uses[n])' = Touched(uses[n]) /\ use = uses[n]
      BY <1>1, <3>1, <3>2, TouchedKept
    <3> QED BY <2>1, <2>5, <3>1, <3>2, <3>3
  <2>6. \/ \E n \in h.use+1..now : p \in Touched(uses[n])
        \/ p \in DOMAIN files /\ files[p] = h.report
    BY DEF ReportsStand, There
  <2>7. p \in DOMAIN files' => Changed(p)
    BY FilesChange
  <2>8. p \in DOMAIN files /\ p \notin DOMAIN files' => AtWork /\ p \in Touched(use)
    BY FilesChange
  <2> QED BY <2>2, <2>3, <2>4, <2>5, <2>6, <2>7, <2>8 DEF Changed
<1>3. ASSUME NEW h \in handed', h \notin handed
      PROVE  There(uses[h.use].path)' /\ files'[uses'[h.use].path] = h.report
  <2>1. /\ Archive /\ status' = "ok" /\ h.use = now /\ h.report = files[use.path]
        /\ files' = files /\ uses' = uses
    BY <1>3 DEF Next, Use, Detect, MeasureElsewhere, InstallTools, InstallNextest, EnterConfig, Rust,
       Cucumber, RunCargo, MergeCucumber, Kill, ReportRust, RefuseWorkers, AcquireVenv, SyncProject,
       InstallTooling, Pytest, CoveragePy, ReportPython, Combine, Ratchet, Archive, InPython, history,
       context, workspace
  <2>2. status = "ok" /\ pc = "out" /\ now > 0
    BY <2>1 DEF Archive, Placed
  <2>3. There(use.path) /\ use = uses[now]
    BY <2>2, Uses DEF Kept, Whole
  <2> QED BY <2>1, <2>3 DEF There
<1> QED BY <1>2, <1>3 DEF ReportsStand

LEMMA OwnStays ==
  ASSUME TypeOK, Placed, Kept, Stamped, Dated, ArtefactIsOwn, Next
  PROVE  ArtefactIsOwn'
<1>1. /\ now \in Nat /\ project' = project /\ \A n \in 1..now : uses'[n] = uses[n]
  BY Numbers, ProjectStays
<1>2. ASSUME NEW a \in artefacts', NEW r \in a.report, r.part # "data", r.use # a.use
      PROVE  a.red /\ r.use \in 1..a.use /\ a.use \in 1..now /\ uses[a.use].path \in Touched(uses[r.use])
  <2>1. CASE a \in artefacts
    BY <1>2, <2>1 DEF ArtefactIsOwn, Dated
  <2>2. CASE a \notin artefacts
    <3>1. /\ Archive /\ a.use = now /\ a.red = (status # "ok") /\ a.report = files[use.path]
          /\ There(use.path)
      BY <1>2, <2>2 DEF Next, Use, Detect, MeasureElsewhere, InstallTools, InstallNextest, EnterConfig,
         Rust, Cucumber, RunCargo, MergeCucumber, Kill, ReportRust, RefuseWorkers, AcquireVenv,
         SyncProject, InstallTooling, Pytest, CoveragePy, ReportPython, Combine, Ratchet, Archive,
         InPython, history
    <3>2. now > 0 /\ pc = "out" /\ use = uses[now]
      BY <3>1, Uses DEF Archive, Placed
    <3>3. status # "ok"
      <4>1. ASSUME status = "ok" PROVE FALSE
        <5>1. Whole
          BY <3>2, <4>1 DEF Kept
        <5>2. r \in measured
          BY <1>2, <3>1, <5>1 DEF Whole
        <5> QED BY <1>2, <3>1, <5>2 DEF Stamped
      <4> QED BY <4>1
    <3>4. r.use \in 1..now /\ use.path \in Touched(uses[r.use])
      BY <1>2, <3>1 DEF Stamped, There
    <3>5. a.red
      BY <3>1, <3>3, Zenon
    <3>6. now \in 1..now /\ a.use = now
      BY <1>1, <3>1, <3>2
    <3> QED BY <3>2, <3>4, <3>5, <3>6
  <2> QED BY <2>1, <2>2
<1>3. ASSUME NEW a \in artefacts', NEW r \in a.report, r.part # "data", r.use # a.use
      PROVE  a.red /\ r.use \in 1..a.use /\ uses'[a.use].path \in Touched(uses[r.use])'
  <2>1. a.red /\ r.use \in 1..a.use /\ a.use \in 1..now /\ uses[a.use].path \in Touched(uses[r.use])
    BY <1>2, <1>3
  <2>2. uses'[a.use] = uses[a.use] /\ uses'[r.use] = uses[r.use]
    BY <1>1, <2>1
  <2> DEFINE n == r.use
  <2>3. uses'[n] = uses[n]
    BY <2>2
  <2> HIDE DEF n
  <2>4. Touched(uses[n])' = Touched(uses[n])
    BY <1>1, <2>3, TouchedKept
  <2> QED BY <2>1, <2>2, <2>4 DEF n
<1> QED BY <1>3 DEF ArtefactIsOwn

LEMMA ArchivedStays ==
  ASSUME TypeOK, Placed, Kept, Dated, ReportArchived, Next
  PROVE  ReportArchived'
<1>1. CASE Archive
  <2>1. /\ use' = use /\ lang' = lang /\ now' = now /\ files' = files /\ now > 0
    BY <1>1 DEF Archive, use, now, context, workspace, Placed
  <2>2. ArtefactName(use, lang)' = ArtefactName(use, lang)
    BY <2>1 DEF ArtefactName
  <2>3. ASSUME status' \in {"ok", "gate", "taken"}
        PROVE  \E a \in artefacts' : \/ a.use = now /\ a.report = files[use.path]
                                     \/ a.use < now /\ a.name = ArtefactName(use, lang)
    <3>1. status \in {"ok", "gate", "taken"} /\ pc = "out"
      BY <1>1, <2>3 DEF Archive
    <3>2. There(use.path)
      BY <2>1, <3>1 DEF Kept, Whole
    <3>3. CASE Taken(ArtefactName(use, lang))
      <4>1. PICK a \in artefacts : a.name = ArtefactName(use, lang)
        BY <3>3 DEF Taken
      <4>2. a.use < now
        BY <3>1 DEF Dated
      <4>3. a \in artefacts'
        BY <1>1 DEF Archive
      <4> QED BY <4>1, <4>2, <4>3
    <3>4. CASE ~Taken(ArtefactName(use, lang))
      <4> DEFINE b == [name |-> ArtefactName(use, lang), use |-> now, red |-> status # "ok",
                       report |-> files[use.path]]
      <4>1. artefacts' = artefacts \cup {b}
        BY <1>1, <3>2, <3>4 DEF Archive
      <4>2. b.use = now /\ b.report = files[use.path]
        OBVIOUS
      <4> HIDE DEF b
      <4> QED BY <4>1, <4>2
    <3> QED BY <3>3, <3>4
  <2> QED BY <2>1, <2>2, <2>3 DEF ReportArchived
<1>2. CASE MeasureElsewhere
  <2>1. UNCHANGED <<uses, lang, pc, status, artefacts>> /\ pc = "idle"
    BY <1>2 DEF MeasureElsewhere, context
  <2>2. use' = use /\ now' = now /\ ArtefactName(use, lang)' = ArtefactName(use, lang)
    BY <2>1 DEF use, now, ArtefactName
  <2>3. ASSUME Over, status \in {"ok", "gate", "taken"} PROVE files'[use.path] = files[use.path]
    <3>1. use.path # DataFile /\ use.path \in DOMAIN files
      BY <2>1, <2>3, Uses, Apart DEF Over, Kept, Whole, There
    <3> QED BY <1>2, <3>1 DEF MeasureElsewhere, Write
  <2> QED BY <2>1, <2>2, <2>3 DEF ReportArchived, Over
<1>3. CASE ~(Archive \/ MeasureElsewhere)
  <2>1. pc' # "idle"
    BY <1>3 DEF Next, Use, Detect, InstallTools, InstallNextest, EnterConfig, Rust, Cucumber, RunCargo,
       MergeCucumber, Kill, ReportRust, RefuseWorkers, AcquireVenv, RecreateVenv, SyncProject,
       InstallTooling, Pytest, CoveragePy, ReportPython, Combine, Ratchet, After, Goto, Fail
  <2> QED BY <2>1 DEF ReportArchived, Over
<1> QED BY <1>1, <1>2, <1>3

-----------------------------------------------------------------------------
(* The theorems. *)

LEMMA InitIInv == Init => IInv
<1> SUFFICES ASSUME Init PROVE IInv
  OBVIOUS
<1>1. /\ pc = "idle" /\ status = "ok" /\ uses = <<>> /\ lang = "none" /\ made = {} /\ files = <<>>
      /\ percents = <<>> /\ artefacts = {} /\ handed = {} /\ measured = {} /\ runs = {}
      /\ before = config /\ installed = {}
  BY DEF Init
<1>2. now = 0 /\ DOMAIN files = {} /\ DOMAIN percents = {}
  BY <1>1 DEF now
<1>3. /\ project \in Projects /\ config \in {"none", "directory", "user"} /\ nextest \in Binaries
      /\ venv \in {"none", "broken", "good"}
  BY ProjectsAssumption DEF Init
<1>4. TypeOK
  <2>1. uses \in Seq(Inputs) /\ now <= MaxUses
    BY <1>1, <1>2, UsesAssumption
  <2> QED BY <1>1, <1>2, <1>3, <2>1 DEF TypeOK, Steps, Reasons
<1>5. Placed /\ Restorable /\ Equipped /\ Kept /\ Stamped /\ Dated
  BY <1>1, <1>2, <1>3 DEF Placed, Restorable, Equipped, Kept, Stamped, Dated, Configured, InRust,
     InVenv, Between, There
<1>6. Countable
  BY <1>1, <1>2, FS_EmptySet DEF Countable, Reports
<1>7. /\ RedForCause /\ PinnedNextest /\ LlvmUnlessHidden /\ ReportsStand /\ ArtefactIsOwn
      /\ ReportArchived
  BY <1>1, <1>2 DEF RedForCause, PinnedNextest, LlvmUnlessHidden, ReportsStand, ArtefactIsOwn,
     ReportArchived, Over
<1> QED BY <1>4, <1>5, <1>6, <1>7 DEF IInv

LEMMA NextIInv == IInv /\ [Next]_vars => IInv'
<1> SUFFICES ASSUME IInv, [Next]_vars PROVE IInv'
  OBVIOUS
<1>1. CASE Next
  <2>1. TypeOK'
    BY <1>1, UsesStay, PlaceStays, CountableStays, PercentsStay, Parts DEF IInv
  <2>2. Placed' /\ Restorable' /\ Equipped' /\ Kept'
    BY <1>1, PlacedStays, RestorableStays, EquippedStays, KeptStays DEF IInv
  <2>3. Stamped' /\ Dated' /\ Countable'
    BY <1>1, StampedStays, DatedStays, CountableStays DEF IInv
  <2>4. RedForCause' /\ PinnedNextest' /\ LlvmUnlessHidden'
    BY <1>1, CauseStays, RunsStay DEF IInv
  <2>5. ReportsStand' /\ ArtefactIsOwn' /\ ReportArchived'
    BY <1>1, StandStays, OwnStays, ArchivedStays DEF IInv
  <2> QED BY <2>1, <2>2, <2>3, <2>4, <2>5 DEF IInv
<1>2. CASE UNCHANGED vars
  <2>1. UNCHANGED <<project, files, config, nextest, venv, installed, uses, lang, pc, status, made,
                    percents, artefacts, handed, measured, before, runs>>
    BY <1>2 DEF vars, workspace, context, history
  <2>2. TypeOK'
    BY <2>1 DEF IInv, TypeOK, now, Reports, Steps, Reasons, Binaries, Languages
  <2>3. Placed' /\ Restorable' /\ Equipped'
    BY <2>1, Same DEF IInv, Placed, Restorable, Restored, Equipped, Verified, Ready, There
  <2>4. (RustIn <=> RustIn') /\ (Whole <=> Whole') /\ MeasuredParts' = MeasuredParts
    BY <2>1, FilesSame
  <2>5. Kept'
    BY <2>1, <2>4, Same DEF IInv, Kept, There
  <2>6. \A n : Touched(uses[n])' = Touched(uses[n])
    BY <2>1, TouchedKept
  <2>7. Stamped' /\ Dated' /\ Countable'
    BY <2>1, <2>6 DEF IInv, Stamped, Dated, Countable, now, There, Named, ArtefactName, Reports
  <2>8. RedForCause' /\ PinnedNextest' /\ LlvmUnlessHidden'
    BY <2>1 DEF IInv, RedForCause, PinnedNextest, LlvmUnlessHidden, ArtefactName, use, now
  <2>9. ReportsStand' /\ ArtefactIsOwn' /\ ReportArchived'
    BY <2>1, <2>6 DEF IInv, ReportsStand, ArtefactIsOwn, ReportArchived, ArtefactName, use, now,
       Over, There
  <2> QED BY <2>2, <2>3, <2>5, <2>7, <2>8, <2>9 DEF IInv
<1> QED BY <1>1, <1>2

LEMMA Invariance == Spec => []IInv
BY InitIInv, NextIInv, PTL DEF Spec

\* The state is well formed, and no percentage is above one hundred.
THEOREM Typing == Spec => []TypeOK
<1>1. IInv => TypeOK
  BY DEF IInv
<1> QED BY <1>1, Invariance, PTL

\* A green use hands over all it was asked to measure, and nothing else.
THEOREM Complete == Spec => []GreenIsWhole
<1>1. IInv => GreenIsWhole
  BY DEF IInv, Kept, Whole, GreenIsWhole, Green, Over, MeasuredParts
<1> QED BY <1>1, Invariance, PTL

\* What is uploaded was measured by the use that uploads it, or that is red.
THEOREM Own == Spec => []ArtefactIsOwn
<1>1. IInv => ArtefactIsOwn
  BY DEF IInv
<1> QED BY <1>1, Invariance, PTL

\* A report that is complete is archived, whatever the ratchet says.
THEOREM Archived == Spec => []ReportArchived
<1>1. IInv => ReportArchived
  BY DEF IInv
<1> QED BY <1>1, Invariance, PTL

\* A use does not fail for what a failed one has left behind.
THEOREM Caused == Spec => []RedForCause
<1>1. IInv => RedForCause
  BY DEF IInv
<1> QED BY <1>1, Invariance, PTL

\* Reports that were handed over are only replaced by uses of the same paths.
THEOREM Standing == Spec => []ReportsStand
<1>1. IInv => ReportsStand
  BY DEF IInv
<1> QED BY <1>1, Invariance, PTL

\* The configuration of nextest is restored, unless the step is killed.
THEOREM ConfigRestored == Spec => []ConfigKept
<1>1. IInv => ConfigKept
  BY DEF IInv, Restorable, ConfigKept, Configured, Over
<1> QED BY <1>1, Invariance, PTL

\* Tests run under the pinned nextest only.
THEOREM Pinned == Spec => []PinnedNextest
<1>1. IInv => PinnedNextest
  BY DEF IInv
<1> QED BY <1>1, Invariance, PTL

\* Coverage builds are LLVM's, but for what cannot be seen.
THEOREM Llvm == Spec => []LlvmUnlessHidden
<1>1. IInv => LlvmUnlessHidden
  BY DEF IInv
<1> QED BY <1>1, Invariance, PTL

-----------------------------------------------------------------------------
(* Percentages. *)

\* What a percentage is to the records it is made of.
Sound(percent, own, exact) ==
  /\ \E r \in own : percent[1] * Cardinality(Lines) >= Cardinality(r.hit) * percent[2]
  /\ percent[1] * Cardinality(Lines) <= Cardinality(Covered(own)) * percent[2]
  /\ exact => percent[1] * Cardinality(Lines) = Cardinality(Covered(own)) * percent[2]
Of(l, records) == {r \in records : (r.part = "python") = (l = "python")}
Exact == ~(use.fmt = "lcov" /\ use.cucumber)

LEMMA Soundness ==
  PercentIsSound <=>
    \A l \in DOMAIN percents :
      use.fmt # "coveragepy" => Sound(percents[l], Of(l, measured), Exact)
BY DEF PercentIsSound, Sound, Of, Exact

\* Two halves are between the smaller of them and a bound of both.
LEMMA Halves ==
  ASSUME NEW a \in Nat, NEW b \in Nat, NEW d \in Nat, NEW n \in Nat, a <= b, b <= d
  PROVE  /\ (a + b) * n >= a * (2 * n) /\ (a + b) * n <= d * (2 * n)
         /\ (b + a) * n >= a * (2 * n) /\ (b + a) * n <= d * (2 * n)
<1> DEFINE p == a * n
           q == b * n
           r == d * n
<1>1. p \in Nat /\ q \in Nat /\ r \in Nat
  OBVIOUS
<1>2. p <= q /\ q <= r
  OBVIOUS
<1>3. /\ (a + b) * n = p + q /\ (b + a) * n = p + q
      /\ a * (2 * n) = 2 * p /\ d * (2 * n) = 2 * r
  OBVIOUS
<1> HIDE DEF p, q, r
<1> QED BY <1>1, <1>2, <1>3

\* The lines of one record, and of two.
LEMMA CountOne ==
  ASSUME NEW a, a.hit \in SUBSET Lines
  PROVE  /\ IsFiniteSet({x \in {a} \X Lines : x[2] \in x[1].hit})
         /\ Counted({a}) = Cardinality(a.hit)
         /\ IsFiniteSet(a.hit) /\ Cardinality(a.hit) \in Nat
<1>1. IsFiniteSet(a.hit) /\ Cardinality(a.hit) \in Nat
  BY LinesAssumption, FS_Subset, FS_CardinalityType
<1>2. {x \in {a} \X Lines : x[2] \in x[1].hit} = {a} \X a.hit
  OBVIOUS
<1>3. IsFiniteSet({a}) /\ Cardinality({a}) = 1
  BY FS_Singleton
<1>4. IsFiniteSet({a} \X a.hit) /\ Cardinality({a} \X a.hit) = 1 * Cardinality(a.hit)
  BY <1>1, <1>3, FS_Product
<1> QED BY <1>1, <1>2, <1>4 DEF Counted

\* Those of two records are counted apart, also where they are the same lines.
LEMMA CountTwo ==
  ASSUME NEW a, NEW b, a # b, a.hit \in SUBSET Lines, b.hit \in SUBSET Lines
  PROVE  Counted({a, b}) = Cardinality(a.hit) + Cardinality(b.hit)
<1> DEFINE C(report) == {x \in report \X Lines : x[2] \in x[1].hit}
<1>1. C({a, b}) = C({a}) \cup C({b}) /\ C({a}) \cap C({b}) = {}
  OBVIOUS
<1>2. /\ IsFiniteSet(C({a})) /\ Cardinality(C({a})) = Cardinality(a.hit)
      /\ IsFiniteSet(C({b})) /\ Cardinality(C({b})) = Cardinality(b.hit)
      /\ Cardinality(a.hit) \in Nat /\ Cardinality(b.hit) \in Nat
  BY CountOne DEF Counted
<1>3. Counted({a, b}) = Cardinality(C({a, b}))
  BY DEF Counted
<1> HIDE DEF C
<1>4. Cardinality(C({a}) \cup C({b})) =
        Cardinality(C({a})) + Cardinality(C({b})) - Cardinality(C({a}) \cap C({b}))
  BY <1>2, FS_Union
<1>5. Cardinality(C({a}) \cap C({b})) = 0
  BY <1>1, FS_EmptySet
<1>6. Cardinality(C({a, b})) = Cardinality(a.hit) + Cardinality(b.hit) - 0
  BY <1>1, <1>2, <1>4, <1>5
<1> QED BY <1>2, <1>3, <1>6

\* The percentage of a report that has one record or two.
LEMMA PercentSound ==
  ASSUME NEW fmt, NEW report \in Reports, report # {}, NEW exact \in BOOLEAN,
         fmt = "lcov" => \E a, b : report = {a, b},
         fmt = "lcov" /\ exact => \E a : report = {a}
  PROVE  Sound(Percent(fmt, report), report, exact)
<1> DEFINE L == Cardinality(Lines)
           D == Cardinality(Covered(report))
<1>1. L \in Nat /\ IsFiniteSet(Lines)
  BY LinesAssumption, FS_CardinalityType
<1>2. Covered(report) \in SUBSET Lines /\ \A r \in report : r.hit \in SUBSET Lines
                                                       /\ r.hit \in SUBSET Covered(report)
  BY LinesAssumption DEF Covered, Reports
<1>3. IsFiniteSet(Covered(report)) /\ D \in Nat
  BY <1>1, <1>2, FS_Subset, FS_CardinalityType
<1>4. \A r \in report : Cardinality(r.hit) \in Nat /\ Cardinality(r.hit) <= D
  BY <1>1, <1>2, <1>3, FS_Subset, FS_CardinalityType
<1> HIDE DEF L, D
<1>5. CASE fmt # "lcov"
  <2>1. Percent(fmt, report) = <<D, L>>
    BY <1>5 DEF Percent, CoberturaPercent, D, L
  <2>2. PICK r \in report : TRUE
    OBVIOUS
  <2>3. D * L >= Cardinality(r.hit) * L
    <3> DEFINE h == Cardinality(r.hit)
    <3>1. h \in Nat /\ h <= D
      BY <1>4
    <3> HIDE DEF h
    <3>2. D * L >= h * L
      BY <1>1, <1>3, <3>1
    <3> QED BY <3>2 DEF h
  <2>4. /\ \E s \in report : D * L >= Cardinality(s.hit) * L
        /\ D * L <= D * L
    BY <1>1, <1>3, <2>3
  <2> QED BY <2>1, <2>4 DEF Sound, D, L
<1>6. ASSUME NEW a, report = {a}, fmt = "lcov"
      PROVE  Sound(Percent(fmt, report), report, exact)
  <2>1. Percent(fmt, report) = <<Cardinality(a.hit), 1 * L>>
    BY <1>2, <1>6, CountOne, FS_Singleton DEF Percent, LcovPercent, L
  <2>2. D = Cardinality(a.hit)
    BY <1>6 DEF D, Covered
  <2>3. 1 * L = L /\ D * L <= D * L
    BY <1>1, <1>3
  <2> QED BY <1>6, <2>1, <2>2, <2>3 DEF Sound, D, L
<1>7. ASSUME NEW a, NEW b, report = {a, b}, a # b, fmt = "lcov"
      PROVE  Sound(Percent(fmt, report), report, exact)
  <2> DEFINE A == Cardinality(a.hit)
             B == Cardinality(b.hit)
  <2>1. A \in Nat /\ B \in Nat /\ A <= D /\ B <= D
    BY <1>4, <1>7
  <2>2. ~exact
    BY <1>7
  <2>3. Counted(report) = A + B
    BY <1>2, <1>7, CountTwo
  <2>4. Cardinality(report) = 2
    <3>1. Cardinality({a}) = 1 /\ IsFiniteSet({a}) /\ {a, b} = {a} \cup {b} /\ b \notin {a}
      BY <1>7, FS_Singleton
    <3>2. Cardinality({a} \cup {b}) = IF b \in {a} THEN Cardinality({a}) ELSE Cardinality({a}) + 1
      BY <3>1, FS_AddElement
    <3> QED BY <1>7, <3>1, <3>2
  <2>5. Percent(fmt, report) = <<A + B, 2 * L>>
    BY <1>7, <2>3, <2>4 DEF Percent, LcovPercent, L
  <2> HIDE DEF A, B
  <2>6. (A + B) * L <= D * (2 * L) /\ ((A + B) * L >= A * (2 * L) \/ (A + B) * L >= B * (2 * L))
    <3>1. CASE A <= B
      BY <1>1, <1>3, <2>1, <3>1, Halves
    <3>2. CASE B <= A
      BY <1>1, <1>3, <2>1, <3>2, Halves
    <3> QED BY <2>1, <3>1, <3>2
  <2>7. \E r \in report : (A + B) * L >= Cardinality(r.hit) * (2 * L)
    BY <1>7, <2>6 DEF A, B
  <2> QED BY <2>2, <2>5, <2>6, <2>7 DEF Sound, D, L
<1> QED BY <1>5, <1>6, <1>7

\* A part is measured once in a use, before its percentage is known, and the
\* report of the Python tests has their record only.
Single == \A r, s \in measured : r.part = s.part => r = s
Weighed ==
  /\ Single
  /\ pc \in {"detect"} \cup InRust => DOMAIN percents = {}
  /\ pc \in InVenv \cup {"xml", "percent"} => "python" \notin DOMAIN percents
  /\ pc = "percent" => files[PF] = {r \in measured : r.part = "python"}
  /\ PercentIsSound

\* Percentages stay sound while nothing is measured.
LEMMA SoundSame ==
  ASSUME PercentIsSound, UNCHANGED <<uses, measured, percents>>
  PROVE  PercentIsSound'
BY DEF PercentIsSound, use, Covered

\* A step that measures nothing and reports nothing.
LEMMA WeighedQuiet ==
  ASSUME Weighed, Next, UNCHANGED <<uses, measured, percents>>, pc' # "percent"
  PROVE  Weighed'
<1>1. /\ pc' \in {"detect"} \cup InRust => pc \in {"detect"} \cup InRust
      /\ pc' \in InVenv \cup {"xml", "percent"} =>
           pc \in {"detect"} \cup InRust \cup InVenv \cup {"xml", "percent"}
  BY DEF Next, Use, Detect, MeasureElsewhere, InstallTools, InstallNextest, EnterConfig, Rust,
     Cucumber, RunCargo, MergeCucumber, Kill, ReportRust, RefuseWorkers, AcquireVenv, RecreateVenv,
     SyncProject, InstallTooling, Pytest, CoveragePy, ReportPython, Combine, Ratchet, Archive,
     Goto, Fail, After, InRust, InVenv, Configured
<1>2. Single' /\ PercentIsSound'
  BY SoundSame DEF Weighed, Single
<1> QED BY <1>1, <1>2 DEF Weighed

\* The report of cargo has one record, and one more where there are scenarios.
LEMMA WeighedRust ==
  ASSUME TypeOK, Placed, Kept, Countable, Weighed, ReportRust, pc' # "out"
  PROVE  Weighed'
<1> DEFINE percent == Percent(use.fmt, measured)
<1>1. /\ pc = "report" /\ RustIn /\ DOMAIN percents = {} /\ measured' = measured /\ uses' = uses
      /\ use' = use /\ measured \in Reports
  BY DEF ReportRust, Kept, Weighed, InRust, Configured, history, use, Countable
<1>2. percents' = [l \in {"rust"} |-> percent]
  BY <1>1 DEF ReportRust, Known, RustIn, RF, Fail
<1> HIDE DEF percent
<1>3. pc' \in {"venv", "ratchet"}
  BY DEF ReportRust, After, Goto, Fail
<1>4. measured # {} /\ \A r \in measured : r.part \in {"rust", "cucumber"}
  BY <1>1 DEF RustIn, Asked, Has, MeasuredParts
<1>5. ASSUME ~use.cucumber PROVE \E a : measured = {a}
  <2>1. MeasuredParts = {"rust"}
    BY <1>1, <1>5 DEF RustIn, Asked, Has
  <2>2. PICK a \in measured : TRUE
    BY <1>4
  <2>3. \A r \in measured : r.part = "rust"
    BY <2>1 DEF MeasuredParts
  <2>4. measured = {a}
    BY <2>2, <2>3 DEF Weighed, Single
  <2> QED BY <2>4
<1>6. \E a, b : measured = {a, b}
  <2>1. CASE use.cucumber
    <3>1. MeasuredParts = {"rust", "cucumber"}
      BY <1>1, <2>1 DEF RustIn, Asked, Has
    <3>2. PICK a \in measured, b \in measured : a.part = "rust" /\ b.part = "cucumber"
      BY <3>1 DEF MeasuredParts
    <3>3. measured = {a, b}
      BY <1>4, <3>2 DEF Weighed, Single
    <3> QED BY <3>3
  <2>2. CASE ~use.cucumber
    <3>1. PICK a : measured = {a}
      BY <1>5, <2>2
    <3>2. measured = {a, a}
      BY <3>1
    <3> QED BY <3>2
  <2> QED BY <2>1, <2>2
<1>7. Sound(percent, measured, Exact)
  <2>1. Exact \in BOOLEAN /\ (use.fmt = "lcov" /\ Exact => ~use.cucumber)
    BY DEF Exact
  <2> QED BY <1>1, <1>4, <1>5, <1>6, <2>1, PercentSound DEF percent
<1>8. Of("rust", measured) = measured
  BY <1>4 DEF Of
<1>9. Covered(measured)' = Covered(measured) /\ Exact' = Exact
  BY <1>1 DEF Covered, Exact
<1>10. PercentIsSound'
  <2>1. DOMAIN percents' = {"rust"} /\ percents'["rust"] = percent
    BY <1>2
  <2>2. Sound(percents'["rust"], Of("rust", measured'), Exact')
    BY <1>1, <1>7, <1>8, <1>9, <2>1
  <2> QED BY <1>1, <2>1, <2>2 DEF PercentIsSound, Sound, Of, Exact
<1> QED BY <1>1, <1>2, <1>3, <1>10 DEF Weighed, Single, InRust, InVenv, Configured

\* Every other step.
LEMMA WeighedStays ==
  ASSUME TypeOK, Placed, Kept, Countable, Weighed, Next
  PROVE  Weighed'
<1>1. CASE Use
  <2>1. measured' = {} /\ DOMAIN percents' = {} /\ pc' = "detect"
    BY <1>1 DEF Use
  <2> QED BY <2>1 DEF Weighed, Single, PercentIsSound, InVenv
<1>2. CASE UNCHANGED <<uses, measured, percents>> /\ pc' # "percent"
  BY <1>2, WeighedQuiet
<1>3. CASE (Rust \/ Cucumber) /\ measured' # measured
  <2>1. PICK part \in {"rust", "cucumber"}, hit \in Hits :
          measured' = measured \cup {Record(part, hit)} /\ part = IF Rust THEN "rust" ELSE "cucumber"
    BY <1>3 DEF Rust, Cucumber, RunCargo
  <2>2. \A r \in measured : r.part # part
    BY <1>3, <2>1 DEF Rust, Cucumber, Kept, MeasuredParts
  <2>3. Record(part, hit).part = part
    BY DEF Record
  <2>4. Single'
    BY <2>1, <2>2, <2>3 DEF Weighed, Single
  <2>5. DOMAIN percents' = {}
    BY <1>3 DEF Rust, Cucumber, RunCargo, Weighed, InRust, Configured
  <2>6. pc' \in {"cucumber", "report", "merge"}
    BY <1>3 DEF Rust, Cucumber, RunCargo, Goto
  <2> QED BY <2>4, <2>5, <2>6 DEF Weighed, PercentIsSound, InVenv
<1>4. CASE ReportRust /\ pc' # "out"
  BY <1>4, WeighedRust
<1>5. CASE Pytest /\ pc' # "out"
  <2> DEFINE rec(hit) == Record("python", hit)
  <2>1. PICK hit \in Hits : /\ measured' = measured \cup {rec(hit)}
                            /\ files' = Data(Slipcover(files, hit), hit)
    BY <1>5 DEF Pytest, Fail
  <2>2. /\ pc = "pytest" /\ uses' = uses /\ lang' = lang /\ percents' = percents
        /\ pc' = IF use.fmt = "coveragepy" THEN "xml" ELSE "percent"
    BY <1>5 DEF Pytest, InPython, Goto, Fail
  <2>3. use' = use /\ PF' = PF
    BY <2>2 DEF use, PF, PythonFile
  <2>4. rec(hit).part = "python"
    BY DEF Record
  <2>5. \A r \in measured : r.part # "python"
    BY <2>2 DEF Kept, InVenv, RustIn, Asked, Has, MeasuredParts
  <2>6. pc' = "percent" => files'[PF] = {rec(hit)}
    <3>1. use \in Inputs /\ PF # DataFile /\ Compatible(lang, use.fmt) /\ Has(lang, "python")
      BY <2>2, Uses, Apart DEF Placed, InVenv, InRust, Configured, Between, PF
    <3>2. use.fmt # "coveragepy" => use.fmt = "cobertura"
      BY <3>1, InputsAssumption DEF Has, Compatible
    <3> QED BY <2>1, <2>2, <3>1, <3>2 DEF Data, Slipcover, Write, PF
  <2> HIDE DEF rec
  <2>7. {r \in measured' : r.part = "python"} = {rec(hit)}
    BY <2>1, <2>4, <2>5
  <2>8. Single'
    BY <2>1, <2>4, <2>5 DEF Weighed, Single
  <2>9. DOMAIN percents \subseteq {"rust"}
    BY <2>2 DEF Weighed, InVenv, TypeOK, Languages
  <2>10. \A l \in DOMAIN percents : Of(l, measured') = Of(l, measured)
    BY <2>1, <2>4, <2>9 DEF Of
  <2>11. PercentIsSound'
    BY <2>2, <2>3, <2>10 DEF Weighed, PercentIsSound, Of, Covered
  <2> QED BY <2>2, <2>3, <2>6, <2>7, <2>8, <2>9, <2>11 DEF Weighed, InRust, InVenv, Configured
<1>6. CASE CoveragePy /\ pc' # "out"
  <2>1. /\ uses' = uses /\ lang' = lang /\ measured' = measured /\ use.fmt = "coveragepy"
        /\ pc' \in {"combine", "ratchet"}
    BY <1>6 DEF CoveragePy, Placed, After, Goto, Fail, InPython
  <2>2. PercentIsSound'
    BY <2>1 DEF PercentIsSound, use
  <2> QED BY <2>1, <2>2 DEF Weighed, Single, InRust, InVenv, Configured
<1>7. CASE ReportPython /\ pc' # "out"
  <2> DEFINE percent == Percent(use.fmt, files[PF])
             own == {r \in measured : r.part = "python"}
  <2>1. /\ uses' = uses /\ lang' = lang /\ measured' = measured /\ use.fmt = "cobertura"
        /\ pc = "percent" /\ pc' \in {"combine", "ratchet"} /\ files[PF] = own
        /\ measured \in Reports
    BY <1>7 DEF ReportPython, Placed, After, Goto, Fail, InPython, Weighed, Countable
  <2>2. /\ DOMAIN percents' = DOMAIN percents \cup {"python"} /\ percents'["python"] = percent
        /\ \A l \in DOMAIN percents : l # "python" => percents'[l] = percents[l]
    BY <1>7 DEF ReportPython, Known, PF, Fail
  <2>3. own # {} /\ own \in Reports
    <3>1. "python" \in MeasuredParts
      BY <2>1 DEF Kept, Placed, Asked
    <3> QED BY <2>1, <3>1 DEF MeasuredParts, Reports
  <2>4. Sound(percent, own, TRUE)
    <3> HIDE DEF own
    <3> QED BY <2>1, <2>3, PercentSound DEF percent
  <2>5. Of("python", measured) = own
    BY DEF Of
  <2>6. use' = use /\ Of("python", measured') = own
    BY <2>1, <2>5 DEF use
  <2> HIDE DEF percent, own
  <2>7. ASSUME NEW l \in DOMAIN percents'
        PROVE  Sound(percents'[l], Of(l, measured), Exact)
    <3>1. CASE l = "python"
      BY <2>2, <2>4, <2>5, <3>1 DEF Sound
    <3>2. CASE l # "python"
      BY <2>1, <2>2, <3>2, Soundness DEF Weighed
    <3> QED BY <3>1, <3>2
  <2>8. PercentIsSound'
    BY <2>1, <2>6, <2>7 DEF PercentIsSound, Sound, Of, Exact, Covered
  <2> QED BY <2>1, <2>8 DEF Weighed, Single, InRust, InVenv, Configured
<1>8. \/ Use
      \/ UNCHANGED <<uses, measured, percents>> /\ pc' # "percent"
      \/ (Rust \/ Cucumber) /\ measured' # measured
      \/ (ReportRust \/ Pytest \/ CoveragePy \/ ReportPython) /\ pc' # "out"
  BY DEF Next, Detect, MeasureElsewhere, InstallTools, InstallNextest, EnterConfig, Rust,
     Cucumber, RunCargo, MergeCucumber, Kill, ReportRust, RefuseWorkers, AcquireVenv, RecreateVenv,
     SyncProject, InstallTooling, Pytest, CoveragePy, ReportPython, Combine, Ratchet, Archive,
     Goto, Fail, After, InPython, context, history
<1> QED BY <1>1, <1>2, <1>3, <1>4, <1>5, <1>6, <1>7, <1>8

\* The percentage a use reports is that of what it has itself measured, and only
\* the scenarios of lcov make it lie between those of its parts.
THEOREM Percentages == Spec => []PercentIsSound
<1>1. Init => Weighed
  BY DEF Init, Weighed, Single, PercentIsSound, InRust, InVenv, Configured
<1>2. IInv /\ Weighed /\ [Next]_vars => Weighed'
  <2>1. IInv /\ Weighed /\ UNCHANGED vars => Weighed'
    <3> SUFFICES ASSUME IInv, Weighed, UNCHANGED vars PROVE Weighed'
      OBVIOUS
    <3>1. UNCHANGED <<uses, lang, pc, files, measured, percents>>
      BY DEF vars, workspace, context, history
    <3>2. PF' = PF
      BY <3>1 DEF PF, PythonFile, use
    <3> QED BY <3>1, <3>2, SoundSame DEF Weighed, Single
  <2> QED BY <2>1, WeighedStays DEF IInv
<1>3. Weighed => PercentIsSound
  BY DEF Weighed
<1> QED BY <1>1, <1>2, <1>3, Invariance, PTL DEF Spec
=============================================================================
