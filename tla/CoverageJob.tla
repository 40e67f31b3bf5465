---------------------------- MODULE CoverageJob ----------------------------
(***************************************************************************)
(* A job that uses generate-coverage several times, each time for the      *)
(* languages, the format and the output path its inputs ask for.  A use    *)
(* begins with what the earlier ones left in the workspace: reports and    *)
(* their intermediate files, .coverage, the virtual environment, the       *)
(* configuration of nextest, the cargo-nextest binary; and it may fail in  *)
(* each of its steps, after which the last two steps are still taken.      *)
(*                                                                         *)
(* A report is a set of records: a use, the part of its tests that was     *)
(* run, and the lines that were hit.  A path is the sequence of the pieces *)
(* of its file name.  cargo itself is the subject of CargoRunner, and the  *)
(* ratchet of BaselineRatchet: here they succeed or fail.                  *)
(***************************************************************************)
EXTENDS Naturals, Sequences, FiniteSets, SequencesExt

CONSTANTS
  Projects,  \* what a repository and a runner may have
  Inputs,    \* the inputs of a use
  Lines,     \* the lines of each language
  Hits,      \* the sets of lines a run of tests may hit
  Slug,      \* what _normalize_component makes of artefact-name-suffix
  MaxUses    \* bound: uses of the action in one job

Languages == {"rust", "python"}
Places == {"environment", "config", "manifest", "dotted", "workspace"}
Binaries == {"absent", "other", "pinned"}
DataFile == <<".coverage">>

ASSUME LinesAssumption == IsFiniteSet(Lines) /\ Lines # {} /\ Hits \subseteq SUBSET Lines
ASSUME ProjectsAssumption ==
  Projects \subseteq [cargo : {"none", "nested", "root"}, pyproject : {"none", "tooling", "project"},
                      cranelift : SUBSET Places, config : {"none", "directory", "user"},
                      nextest : Binaries, cached : SUBSET Binaries,
                      venv : {"none", "broken", "good"}, writesData : BOOLEAN]
ASSUME InputsAssumption ==
  Inputs \subseteq [language : {"auto", "rust", "python", "mixed"}, manifest : BOOLEAN,
                    fmt : {"lcov", "cobertura", "coveragepy"}, nextest : BOOLEAN,
                    cucumber : BOOLEAN, workers : {"serial", "parallel", "invalid"},
                    ratchet : BOOLEAN, path : Seq(STRING), suffix : DOMAIN Slug]
ASSUME PathsAssumption == \A u \in Inputs : Len(u.path) > 1
ASSUME UsesAssumption == MaxUses \in Nat

VARIABLES
  project,            \* one of Projects
  files,              \* path -> report, for the files there are
  config,             \* .config of nextest: "none", "directory", "user" or "default"
  nextest,            \* the cargo-nextest that is found
  venv, installed,    \* .venv-coverage, and what was installed in it
  uses,               \* the inputs of the uses so far
  lang,               \* the language detected by this one
  pc, status,         \* where it is, and "ok" or why it is red
  made,               \* what ensure_nextest_config has created
  percents,           \* language -> <<lines hit, lines>>, where it is known
  artefacts,          \* what was uploaded
  handed,             \* history: what green uses have handed over
  measured,           \* history: the records of this use
  before,             \* history: config at the beginning of this use
  runs                \* history: the cargo runs of the job

workspace == <<files, config, nextest, venv, installed>>
context == <<uses, lang, made, percents>>
history == <<handed, measured, before, runs>>
vars == <<project, workspace, context, pc, status, artefacts, history>>

use == Last(uses)
now == Len(uses)

\* As if: reports were opened for appending.
WriteAppending(fs, p, report) ==
  [q \in DOMAIN fs \cup {p} |->
     IF q # p THEN fs[q] ELSE report \cup (IF p \in DOMAIN fs THEN fs[p] ELSE {})]

\* Reading and writing files.
There(p) == p \in DOMAIN files
Write(fs, p, report) == [q \in DOMAIN fs \cup {p} |-> IF q = p THEN report ELSE fs[q]]
Unlink(fs, gone) == [q \in DOMAIN fs \ gone |-> fs[q]]

\* As if: the temporary file had one name for all.
XmlTmpOfAll(p) == <<"coverage", "xml">>

\* with_name(stem.infix.suffix) and with_suffix(".xml").
Infixed(p, infix) == InsertAt(p, Len(p), infix)
XmlTmp(p) == ReplaceAt(p, Len(p), "xml")

Init == /\ project \in Projects
        /\ files = <<>> /\ config = project.config /\ nextest = project.nextest
        /\ venv = project.venv /\ installed = {}
        /\ uses = <<>> /\ lang = "none" /\ pc = "idle" /\ status = "ok" /\ made = {}
        /\ percents = <<>> /\ artefacts = {}
        /\ handed = {} /\ measured = {} /\ before = config /\ runs = {}

\* The job goes on after a red use where its steps say so.
Use == /\ pc = "idle" /\ now < MaxUses
       /\ \E u \in Inputs : uses' = Append(uses, u)
       /\ pc' = "detect" /\ status' = "ok" /\ lang' = "none" /\ made' = {} /\ percents' = <<>>
       /\ measured' = {} /\ before' = config
       /\ UNCHANGED <<project, workspace, artefacts, handed, runs>>

\* Another step of the job measures with coverage.py and leaves its data.
MeasureElsewhere ==
  /\ pc = "idle" /\ ~There(DataFile)
  /\ \E hit \in Hits :
       files' = Write(files, DataFile, {[use |-> 0, part |-> "data", hit |-> hit]})
  /\ UNCHANGED <<project, config, nextest, venv, installed, context, pc, status, artefacts, history>>

Goto(place) == pc' = place /\ status' = status
Fail(why) == pc' = "out" /\ status' = why

-----------------------------------------------------------------------------
(* detect.py *)

Manifest(u) == project.cargo = "root" \/ (u.manifest /\ project.cargo = "nested")
Syncable == project.pyproject = "project"

\* get_lang: auto goes by the files, a forced language by what it needs.
Forced(u) == /\ u.language \in {"rust", "mixed"} => Manifest(u)
             /\ u.language \in {"python", "mixed"} => Syncable
Lang(u) ==
  IF u.language # "auto" THEN (IF Forced(u) THEN u.language ELSE "none")
  ELSE IF Manifest(u) THEN (IF project.pyproject = "none" THEN "rust" ELSE "mixed")
  ELSE IF project.pyproject = "none" THEN "none" ELSE "python"

Compatible(l, fmt) == /\ l # "none"
                      /\ l = "rust" => fmt # "coveragepy"
                      /\ l = "python" => fmt # "lcov"
                      /\ l = "mixed" => fmt = "cobertura"

Has(l, language) == l \in {language, "mixed"}

Detect ==
  /\ pc = "detect"
  /\ \/ /\ Compatible(Lang(use), use.fmt)
        /\ lang' = Lang(use)
        /\ Goto(IF Has(lang', "rust") THEN "tools" ELSE "venv")
     \/ /\ ~Compatible(Lang(use), use.fmt)
        /\ lang' = lang /\ Fail("refused")
  /\ UNCHANGED <<project, workspace, uses, made, percents, artefacts, history>>

-----------------------------------------------------------------------------
(* The tools, and run_rust.py. *)

\* verify_nextest_binary
Verified(binary) == binary = "pinned"

\* The cache of cargo is restored, and may replace a cargo-nextest; then
\* cargo-binstall and cargo-llvm-cov are installed.
InstallTools ==
  /\ pc = "tools"
  /\ nextest' \in {nextest} \cup project.cached
  /\ Goto("nextest") \/ Fail("fault")
  /\ UNCHANGED <<project, files, config, venv, installed, context, artefacts, history>>

\* install_cargo_nextest.py: what is there and verified is used, else it is
\* installed and must be verified.
InstallNextest ==
  /\ pc = "nextest"
  /\ \/ (use.nextest => Verified(nextest)) /\ nextest' = nextest /\ Goto("cargo")
     \/ /\ use.nextest /\ ~Verified(nextest)
        /\ nextest' \in Binaries
        /\ \/ Verified(nextest') /\ Goto("cargo")
           \/ Fail("fault")
  /\ UNCHANGED <<project, files, config, venv, installed, context, artefacts, history>>

\* ensure_nextest_config: what is missing is created, and removed at the end.
Missing == IF ~use.nextest \/ config \in {"user", "default"} THEN {}
           ELSE IF config = "none" THEN {"directory", "file"} ELSE {"file"}

\* What is left when the context is left.
Restored == IF "directory" \in made THEN "none" ELSE IF "file" \in made THEN "directory" ELSE config

\* get_cargo_coverage_env: a table or the manifest that sets Cranelift is seen.
Detected == project.cranelift \cap {"config", "manifest"} # {}

\* cargo, whose environment has lost the variables that name a backend.
Backend == IF ~Detected /\ project.cranelift \ {"environment"} # {} THEN "cranelift" ELSE "llvm"
CargoRun == [backend |-> Backend, nextest |-> IF use.nextest THEN nextest ELSE "unused"]

RustFile(u, l) == IF l = "mixed" THEN Infixed(u.path, "rust") ELSE u.path
CucumberFile(u, l) == Infixed(RustFile(u, l), "cucumber")
Record(part, hit) == [use |-> now, part |-> part, hit |-> hit]

EnterConfig ==
  /\ pc = "cargo"
  /\ made' = Missing
  /\ config' = IF Missing = {} THEN config ELSE "default"
  /\ Goto("rust")
  /\ UNCHANGED <<project, files, nextest, venv, installed, uses, lang, percents, artefacts, history>>

\* cargo writes the report at its end, and raises where tests have failed.
RunCargo(file, part, next) ==
  /\ runs' = runs \cup {CargoRun}
  /\ \/ \E hit \in Hits : /\ files' = Write(files, file, {Record(part, hit)})
                          /\ measured' = measured \cup {Record(part, hit)}
                          /\ config' = config /\ made' = made /\ Goto(next)
     \/ /\ files' = files /\ measured' = measured
        /\ config' = Restored /\ made' = {} /\ Fail("fault")
  /\ UNCHANGED <<project, nextest, venv, installed, uses, lang, percents, artefacts, handed, before>>

Rust == pc = "rust" /\ RunCargo(RustFile(use, lang), "rust",
                                IF use.cucumber THEN "cucumber" ELSE "report")
Cucumber == pc = "cucumber" /\ RunCargo(CucumberFile(use, lang), "cucumber", "merge")

\* As if: the second report replaced the first one.
MergedLast(base, extra) == files[extra]

\* merge-cobertura, and _merge_lcov, which refuses what cargo left malformed.
Merged(base, extra) == files[base] \cup files[extra]

MergeCucumber ==
  /\ pc = "merge"
  /\ LET out == RustFile(use, lang)
         extra == CucumberFile(use, lang)
     IN  \/ /\ files' = Unlink(Write(files, out, Merged(out, extra)), {extra})
            /\ config' = config /\ made' = made /\ Goto("report")
         \/ /\ files' = files
            /\ config' = Restored /\ made' = {} /\ Fail("fault")
  /\ UNCHANGED <<project, nextest, venv, installed, uses, lang, percents, artefacts, history>>

\* The process is killed, by a timeout or a cancellation, inside the context.
Kill ==
  /\ pc \in {"rust", "cucumber", "merge"}
  /\ made' = {} /\ Fail("killed")
  /\ UNCHANGED <<project, workspace, uses, lang, percents, artefacts, history>>

\* The lines of a report: record by record, and each once.
Counted(report) == Cardinality({x \in report \X Lines : x[2] \in x[1].hit})
Covered(report) == UNION {r.hit : r \in report}

\* Percentages: the counts of lcov are added up record by record, the lines of
\* cobertura are counted.
LcovPercent(report) == <<Counted(report), Cardinality(report) * Cardinality(Lines)>>
CoberturaPercent(report) == <<Cardinality(Covered(report)), Cardinality(Lines)>>

\* As if: the output of the first run were read.
PercentOfTests(fmt, report) == CoberturaPercent({r \in report : r.part # "cucumber"})

\* _compute_coverage_percent
Percent(fmt, report) == IF fmt = "lcov" THEN LcovPercent(report) ELSE CoberturaPercent(report)

Known(language, percent) ==
  percents' = [l \in DOMAIN percents \cup {language} |->
                 IF l = language THEN percent ELSE percents[l]]
After(language) == IF language = "rust" /\ lang = "mixed" THEN "venv"
                     ELSE IF lang = "mixed" THEN "combine" ELSE "ratchet"

\* The context is left and the percentage computed, unless the report is invalid.
ReportRust ==
  /\ pc = "report"
  /\ config' = Restored /\ made' = {}
  /\ \/ Known("rust", Percent(use.fmt, files[RustFile(use, lang)])) /\ Goto(After("rust"))
     \/ percents' = percents /\ Fail("fault")
  /\ UNCHANGED <<project, files, nextest, venv, installed, uses, lang, artefacts, history>>

-----------------------------------------------------------------------------
(* run_python.py *)

InPython == UNCHANGED <<project, config, nextest, uses, lang, made, artefacts, handed, before, runs>>

\* A value of pytest-workers that is no number of workers is refused.
RefuseWorkers ==
  /\ pc = "venv" /\ use.workers = "invalid"
  /\ Fail("refused")
  /\ UNCHANGED <<files, venv, installed, percents, measured>> /\ InPython

\* _find_coverage_python: a directory with a Python in it.
HasPython == venv = "good"

\* _recreate_coverage_venv: what is there is removed; uv may fail, or make a
\* directory without a Python.
RecreateVenv ==
  /\ ~HasPython /\ installed' = {}
  /\ \/ venv' = "good" /\ Goto("sync")
     \/ venv' \in {"none", "broken"} /\ Fail("fault")

\* As if: what is used again were not installed again.
AcquireVenvAlone ==
  /\ pc = "venv" /\ use.workers # "invalid"
  /\ (HasPython /\ UNCHANGED <<venv, installed>> /\ Goto("pytest")) \/ RecreateVenv
  /\ UNCHANGED <<files, percents, measured>> /\ InPython

\* _acquire_coverage_python
AcquireVenv ==
  /\ pc = "venv" /\ use.workers # "invalid"
  /\ (HasPython /\ UNCHANGED <<venv, installed>> /\ Goto("sync")) \/ RecreateVenv
  /\ UNCHANGED <<files, percents, measured>> /\ InPython

\* _sync_project_deps: uv needs a project.
SyncProject ==
  /\ pc = "sync"
  /\ \/ Syncable /\ installed' = installed \cup {"project"} /\ Goto("tooling")
     \/ Syncable /\ installed' = installed /\ Fail("fault")
     \/ ~Syncable /\ installed' = installed /\ Fail("unsyncable")
  /\ UNCHANGED <<files, venv, percents, measured>> /\ InPython

InstallTooling ==
  /\ pc = "tooling"
  /\ \/ installed' = installed \cup {"tooling"} /\ Goto("pytest")
     \/ installed' = installed /\ Fail("fault")
  /\ UNCHANGED <<files, venv, percents, measured>> /\ InPython

PythonFile(u, l) == IF l = "mixed" THEN Infixed(u.path, "python") ELSE u.path

\* slipcover writes a report for cobertura only; the project's own pytest
\* options may have coverage.py write its data.  Where tests fail, slipcover
\* has written or not.
Slipcover(fs, hit) ==
  IF use.fmt = "cobertura" THEN Write(fs, PythonFile(use, lang), {Record("python", hit)}) ELSE fs
Data(fs, hit) == IF project.writesData THEN Write(fs, DataFile, {Record("data", hit)}) ELSE fs
Ready == installed = {"project", "tooling"}
Pytest ==
  /\ pc = "pytest"
  /\ \E hit \in Hits :
       \/ /\ Ready
          /\ files' = Data(Slipcover(files, hit), hit)
          /\ measured' = measured \cup {Record("python", hit)}
          /\ Goto(IF use.fmt = "coveragepy" THEN "xml" ELSE "percent")
       \/ /\ files' \in IF Ready THEN {files, Data(files, hit), Data(Slipcover(files, hit), hit)}
                      ELSE {files}
          /\ measured' = measured /\ Fail(IF Ready THEN "fault" ELSE "unready")
  /\ UNCHANGED <<venv, installed, percents>> /\ InPython

\* tmp_coveragepy_xml: coverage.py makes a report of its data, which is removed
\* when it is read; then the data become the output.
CoveragePy ==
  /\ pc = "xml"
  /\ LET xml == XmlTmp(use.path)
     IN  \/ /\ There(DataFile)
            /\ files' = Write(Unlink(files, {xml, DataFile}), use.path, files[DataFile])
            /\ Known("python", Percent(use.fmt, files[DataFile])) /\ Goto(After("python"))
         \/ /\ There(DataFile)
            /\ files' \in {files, Unlink(files, {xml})} /\ percents' = percents /\ Fail("fault")
         \/ ~There(DataFile) /\ UNCHANGED <<files, percents>> /\ Fail("nodata")
  /\ UNCHANGED <<venv, installed, measured>> /\ InPython

ReportPython ==
  /\ pc = "percent"
  /\ \/ Known("python", Percent(use.fmt, files[PythonFile(use, lang)])) /\ Goto(After("python"))
     \/ percents' = percents /\ Fail("fault")
  /\ UNCHANGED <<files, venv, installed, measured>> /\ InPython

-----------------------------------------------------------------------------
(* The end of a use. *)

\* merge_cobertura.py
Combine ==
  /\ pc = "combine"
  /\ LET rust == RustFile(use, lang)
         python == PythonFile(use, lang)
     IN  \/ /\ files' = Unlink(Write(files, use.path, Merged(rust, python)), {rust, python})
            /\ Goto("ratchet")
         \/ files' = files /\ Fail("fault")
  /\ UNCHANGED <<project, config, nextest, venv, installed, context, artefacts, history>>

Ratchet == /\ pc = "ratchet"
           /\ Goto("out") \/ (use.ratchet /\ Fail("gate"))
           /\ UNCHANGED <<project, workspace, context, artefacts, history>>

\* build_artefact_name; a use without a format has the name of its job.
ArtefactName(u, l) == IF l = "none" THEN <<"coverage">> ELSE <<u.fmt, Slug[u.suffix]>>
Taken(name) == \E a \in artefacts : a.name = name

\* The last two steps: what is at the output path is uploaded, whoever wrote it.
\* actions/upload-artifact passes without a file and refuses a name it has.
Archive ==
  /\ pc = "out"
  /\ LET name == ArtefactName(use, lang)
         uploads == There(use.path)
     IN  /\ status' = IF uploads /\ Taken(name) /\ status = "ok" THEN "taken" ELSE status
         /\ artefacts' = IF uploads /\ ~Taken(name)
                         THEN artefacts \cup {[name |-> name, use |-> now, red |-> status # "ok",
                                               report |-> files[use.path]]}
                         ELSE artefacts
         /\ handed' = IF status' = "ok" THEN handed \cup {[use |-> now, report |-> files[use.path]]}
                      ELSE handed
  /\ pc' = "idle"
  /\ UNCHANGED <<project, workspace, context, measured, before, runs>>

Next == \/ Use \/ MeasureElsewhere \/ Detect
        \/ InstallTools \/ InstallNextest \/ EnterConfig \/ Rust \/ Cucumber \/ MergeCucumber \/ Kill \/ ReportRust
        \/ RefuseWorkers \/ AcquireVenv \/ SyncProject \/ InstallTooling \/ Pytest \/ CoveragePy \/ ReportPython
        \/ Combine \/ Ratchet \/ Archive

Spec == Init /\ [][Next]_vars

-----------------------------------------------------------------------------
Reports == SUBSET [use : 0..MaxUses, part : {"rust", "cucumber", "python", "data"}, hit : Hits]
Steps == {"idle", "detect", "tools", "nextest", "cargo", "rust", "cucumber", "merge", "report",
                 "venv", "sync", "tooling", "pytest", "xml", "percent", "combine", "ratchet", "out"}
Reasons == {"ok", "refused", "unsyncable", "unready", "nodata", "fault", "gate", "killed", "taken"}

\* The state is well formed, and a file that nextest is to have lost again is
\* there as long as it is needed.
TypeOK ==
  /\ project \in Projects /\ uses \in Seq(Inputs) /\ now <= MaxUses
  /\ \A p \in DOMAIN files : files[p] \in Reports
  /\ config \in {"none", "directory", "user", "default"} /\ nextest \in Binaries
  /\ venv \in {"none", "broken", "good"} /\ installed \subseteq {"project", "tooling"}
  /\ lang \in {"none", "rust", "python", "mixed"} /\ pc \in Steps /\ status \in Reasons
  /\ made \in {{}, {"file"}, {"directory", "file"}} /\ (made # {} => config = "default")
  /\ DOMAIN percents \subseteq Languages
  /\ \A l \in DOMAIN percents : percents[l] \in Nat \X Nat /\ percents[l][1] <= percents[l][2]

\* The parts a use is asked to measure.
Asked(u, l) == (IF Has(l, "rust") THEN {"rust"} \cup (IF u.cucumber THEN {"cucumber"} ELSE {}) ELSE {})
               \cup (IF Has(l, "python") THEN {"python"} ELSE {})

Over == pc = "idle" /\ now > 0
Green == Over /\ status = "ok"

\* A green use hands over a report that has each part of the tests it was asked
\* to run, measured by itself, and nothing else: run_rust.py, run_python.py and
\* the two merges.  The format coveragepy reports what it finds in .coverage.
GreenIsWhole ==
  Green /\ use.fmt # "coveragepy" =>
    There(use.path) /\ files[use.path] = measured
                    /\ {r.part : r \in measured} = Asked(use, lang)

\* A percentage lies between those of the parts it is made of, and is the
\* overall one, except for lcov with scenarios, whose lines count twice.
PercentIsSound ==
  \A l \in DOMAIN percents :
    LET own == {r \in measured : (r.part = "python") = (l = "python")}
        hit == percents[l][1]
        lines == percents[l][2]
    IN  use.fmt # "coveragepy" =>
          /\ \E r \in own : hit * Cardinality(Lines) >= Cardinality(r.hit) * lines
          /\ hit * Cardinality(Lines) <= Cardinality(Covered(own)) * lines
          /\ ~(use.fmt = "lcov" /\ use.cucumber) =>
               hit * Cardinality(Lines) = Cardinality(Covered(own)) * lines

\* The paths a use writes to or removes: its output and intermediate files.
Touched(u) ==
  LET l == Lang(u)
  IN  {u.path, DataFile} \cup (IF u.fmt = "coveragepy" THEN {ReplaceAt(u.path, Len(u.path), "xml")} ELSE {})
      \cup (IF u.cucumber /\ Has(l, "rust") THEN {CucumberFile(u, l)} ELSE {})
      \cup (IF l = "mixed" THEN {RustFile(u, l), PythonFile(u, l)} ELSE {})

\* What a use uploads it has measured itself, unless it is red and an earlier
\* use has left a file at its output path, or the report is one of coverage.py.
ArtefactIsOwn ==
  \A a \in artefacts : \A r \in a.report :
    \/ r.use = a.use \/ r.part = "data"
    \/ a.red /\ r.use \in 1..a.use /\ uses[a.use].path \in Touched(uses[r.use])

\* A use that has measured everything leaves its report in an artefact, even if
\* the ratchet fails, unless an earlier use has taken the name.
ReportArchived ==
  Over /\ status \in {"ok", "gate", "taken"} =>
    \E a \in artefacts : \/ a.use = now /\ a.report = files[use.path]
                         \/ a.use < now /\ a.name = ArtefactName(use, lang)

\* A use fails because something outside failed, because its inputs do not fit
\* the project, or for a clash with an earlier one; never because of what an
\* earlier use that failed has left in the virtual environment, and with an
\* explicit language never for want of a project uv can synchronise.
RedForCause ==
  /\ status # "unready"
  /\ status = "unsyncable" => use.language = "auto" /\ project.pyproject = "tooling"
  /\ status = "nodata" => use.fmt = "coveragepy" /\ ~project.writesData
  /\ status = "taken" => \E n \in 1..now-1 : ArtefactName(uses[n], "some") = ArtefactName(use, lang)

\* A report that was handed over stays as it is until a later use has the same
\* output path, or has it for one of its intermediate files.
ReportsStand ==
  \A h \in handed :
    LET p == uses[h.use].path
    IN  \/ There(p) /\ files[p] = h.report
        \/ \E n \in h.use+1..now : p \in Touched(uses[n])

\* The configuration of nextest is after a use what it was before, however the
\* use ends, short of being killed.
ConfigKept == Over /\ status # "killed" => config = before

\* A run under nextest has the pinned binary, whatever the caches restored.
PinnedNextest == \A r \in runs : r.nextest \in {"unused", "pinned"}

\* A coverage build is made by LLVM unless Cranelift is asked for in a way that
\* cannot be seen: with a dotted key, or in the workspace of a member.
LlvmUnlessHidden ==
  \A r \in runs : r.backend = "cranelift" =>
    /\ project.cranelift \cap {"dotted", "workspace"} # {}
    /\ project.cranelift \cap {"config", "manifest"} = {}

=============================================================================
