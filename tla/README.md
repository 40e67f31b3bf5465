# Specifications of shared-actions

TLA+ models of the parts of this repository that are hard to test, the TLC runs
that check them, and TLAPS proofs of what matters most in them. The repository
is a collection of GitHub Actions and reusable workflows with Python helpers.
Most helpers are short sequential scripts. What is difficult is what happens
around them: workflow runs that race, requests that are retried, processes and
pipes, caches that outlive a run, steps that fail half-way.

Paths below are relative to `src/`.

## 1. Inventory

For each component: its state, its operations, who it talks to, what is hard,
and what makes it correct.

### Dependabot auto-merge (modelled)

`workflow_scripts/dependabot_automerge.py`, `graphql_client.py`, `output.py`,
`.github/workflows/dependabot-automerge.yml`.

* State: none on disk. A run holds a `PullRequestContext` snapshot, the current
  attempt of a GraphQL request, and the number of merge-state refreshes.
* Operations: validate the inputs, evaluate an event payload (dry run), fetch
  the pull request, refresh while mergeability is `UNKNOWN`, arm auto-merge or
  merge directly, emit one `Decision`.
* Talks to: GitHub's GraphQL API, which other runs and people change too.
* Hard: no concurrency group serialises the runs; mutations are retried after
  transport errors although GitHub may have executed them; a snapshot is stale
  when it is acted on.
* Correct when: what a run reports is so; nothing is armed or merged for a run
  that saw no eligible pull request; at most one run claims the merge; it ends.

### Generate coverage: the cargo runner (modelled)

`.github/actions/generate-coverage/scripts/_cargo_runner.py`.

* State: a child process, two pipes, two text streams with buffers, a selector
  (POSIX) or two threads and a list of their exceptions (Windows), a deadline.
* Operations: spawn, pump, poll, kill, join, wait, close.
* Hard: buffered lines a selector cannot see, `readline()` on an unfinished
  line, descendants that keep the pipes, threads that raise between two looks.
* Correct when: a success has read every line, no cargo is left behind, the
  reported outcome is the real one, and the run ends.

### Generate coverage: ratchet and baselines (modelled)

`.github/actions/generate-coverage/action.yml`, `scripts/ratchet_coverage.py`,
`.github/workflows/coverage-main.yml`, `.github/workflows/ci.yml`.

* State: baseline files of a job, and the Actions cache that carries them from
  run to run, keyed by `run_id`, with scopes per branch.
* Operations: restore, compare and advance, restore again (the save step is
  `actions/cache`), save after the job.
* Hard: concurrency cancellation, re-runs that keep their `run_id`, two
  languages of which one may fail after the other has advanced.
* Correct when: the baseline never falls, dips inside the tolerance do not add
  up, improvements are not lost, nothing is stored by a failing job.

### Generate coverage: measurement (modelled)

`.github/actions/generate-coverage/action.yml`, `scripts/detect.py`, `run_rust.py`,
`run_python.py`, `_cranelift.py`, `install_cargo_nextest.py`,
`coverage_parsers.py`, `merge_cobertura.py`, `set_outputs.py`.

* State, all of it in the workspace and on the runner: reports and their
  intermediate files, `.coverage`, the virtual environment `.venv-coverage`,
  the configuration of nextest, the cargo-nextest binary; and the artefacts
  of the run.
* Operations: detect the language, install and verify the tools, enter the
  temporary configuration, run the Rust tests and the scenarios, merge the two,
  compute a percentage; prepare the environment, run pytest, compute a
  percentage; merge the languages, run the ratchet, upload.
* Talks to: cargo (through `_run_cargo`), uv, slipcover, coverage.py,
  `actions/upload-artifact`, the ratchet.
* Hard: every step may fail and the last two are taken nevertheless; several
  uses in one job find each other's files, whose names are made from the output
  path; an environment is left half made; a compiler backend can be set in
  many places.
* Correct when: a green use hands over all it was asked to measure and nothing
  else, what is uploaded is its own, a report stands once it was handed over,
  the checkout is left as it was, and a failure has a cause outside.

The older `ratchet-coverage` action keeps its baseline under one constant cache
key and compares without a tolerance; it is not modelled.

### Rust release builds (modelled)

`.github/actions/rust-build-release/action.yml` and `src/`.

* State: what one use of the action leaves to the next in a job: `RUSTFLAGS`,
  `CROSS_NO_DOCKER` and `RBR_TOOLCHAIN` in `GITHUB_ENV`, installed toolchains and
  cross, `.cargo/config.toml`, llvm-mingw on `PATH`. In `main.py`: the chosen
  toolchain, whether rustup added the target, the engines that answered.
* Operations: validate the target, determine the toolchain, export flags, set up
  llvm-mingw, find or install the toolchain, add the target, install cross,
  probe docker and podman, decide, build, retry on the host, stage.
* Hard: probes that are stale when cross runs, a switch for one target that
  stays on for the next, toolchains found by prefix, a file edited by pattern.
* Correct when: a target that needs a container is never built without one, a
  build uses the toolchain and flags that were asked for, and the configuration
  stays one cargo accepts.

### Release staging and asset upload (modelled)

`.github/actions/stage-release-artefacts`, `.github/actions/upload-release-assets`.

* State: the workspace of a job; of a use `staged_paths`, `checksums` and
  `outputs`; the release that all jobs share.
* Operations: load the configuration, wipe the staging directory, copy each
  artefact and write its checksum, build the binstall archive, write outputs;
  discover assets, upload one after another.
* Hard: a failure between any two steps, destinations that coincide, uses that
  share a directory, uploads that fail half-way and are run again on another
  build, assets of one name from two places.
* Correct when: outputs name files that are there with the digest they state,
  what is required is staged, a success has published what is in `dist`, and a
  checksum on the release is the one of its file.

### Release to PyPI (planned)

`check_github_release.py` asks for a release, with retries;
`validate_toml_versions.py`, `determine_release.py`, `publish_release.py` and
`confirm_release.py` surround it. Hard: a release that changes between the check
and the publication, which cannot be undone.

### Mutation testing: cargo (modelled)

`mutation_detect_changes.py`, `mutation_run_cargo.py`,
`mutation_summarize_cargo.py`, `.github/workflows/mutation-cargo.yml`.

* State: none that outlives a run. A run has a matrix of legs, each with a job
  and a `mutants.out`, and the artefacts the legs upload.
* Operations: detect changed files and bucket them by crate, build the matrix,
  run cargo-mutants on a target or a shard of it, upload its report, merge the
  reports by slug into the job summary.
* Hard: legs run at once and share a name space of artefacts; slugs are not
  injective; a leg may be cut off half-way, and its report missing or invalid.
* Correct when: a green run lists the survivors of what it was asked to test,
  exactly; a red one keeps what was found and counts nothing twice.

### Mutation testing: mutmut (not modelled)

`mutation_run_mutmut.py`, `.github/workflows/mutation-mutmut.yml`,
`mutation-testing-caller.yml`: the same detection and one job that runs one
sequential script. It publishes its results when mutmut has finished, so a step
timeout loses them.

### Linux packages and their validation (modelled)

`.github/actions/linux-packages`, `.github/actions/validate-linux-packages`.

* State: the packages in `dist`, the formats nfpm failed for, a polythene session
  (its isolation, whether `--isolation` is known, whether its root file system
  exists), root file systems in a store the user named.
* Operations: write the manifest, package each format; choose a store, locate the
  one package, read its metadata, pull and start a sandbox, install, check each
  path, run the command, remove.
* Hard: packages are told apart by file name alone; sandboxes refuse the option
  or the isolation half-way; every command may fail.
* Correct when: one failing format does not cost the others, the right package is
  validated, a green validation has made every check in one sandbox, and no root
  file system is left behind by an error inside a session.

### Not worth a model

Packaging for macOS and Windows (`macos-package`, `windows-package`) formats configuration and calls one tool. The small actions
(`determine-release-modes`, `ensure-cargo-version`, `export-cargo-metadata`,
`setup-rust`, `install-*`, `upload-codescene-coverage`, ...) parse inputs or
install something. `cmd_utils.py`, `cargo_utils.py`, `actions_common.py`,
`bool_utils.py` are helpers without state, and `rust-toy-app` is an example.

### How they interact

Components meet only through files, step outputs and GitHub. `run_rust.py` calls
`_run_cargo`; the coverage action runs the ratchet on the percentages it
reports; coverage on `main` and on pull requests meet in the Actions cache; the
release actions run one after another in a caller's workflow, and meet in `dist`:
staging and upload are one model, packaging and validation another. The models
are otherwise separate. Where two components share something (the cache, the pull
request) the model has several actors around that one thing.

## 2. The modules

| Module | What it is |
| --- | --- |
| `Automerge` | the auto-merge helper with its GraphQL client, any number of runs, GitHub and people around them |
| `MergeGate` | what the helper promises, without requests or retries; `Automerge` implements it |
| `MCAutomerge` | facts, inputs and faults for TLC |
| `AutomergeProofs` | theorems about `Automerge` |
| `CargoRunner` | `_run_cargo` on POSIX and Windows, with cargo, a descendant, pipes and the clock |
| `CargoRunnerProofs` | theorems about `CargoRunner` |
| `BaselineRatchet` | restore, ratchet, save and the cache, over runs of `main` and of a pull request |
| `MCBaselineRatchet` | which runs may be run again, and what is symmetric |
| `BaselineRatchetProofs` | theorems about `BaselineRatchet` |
| `CoverageJob` | a job that uses generate-coverage several times, with what the uses leave to each other |
| `MCCoverageJob` | nine repositories and runners, nine inputs whose paths and artefact names clash |
| `CoverageJobProofs` | theorems about `CoverageJob` |
| `MutationRun` | one run of the cargo-mutants workflow: detection, legs, uploads, summary |
| `MCMutationRun` | a layout of files and crates whose names collide |
| `MutationRunProofs` | theorems about `MutationRun` |
| `RustBuild` | a job that uses rust-build-release for one target after another |
| `MCRustBuild` | a Linux and a Windows runner, five kinds of target, two projects |
| `RustBuildProofs` | theorems about `RustBuild` |
| `LinuxPackages` | a job that packages and validates, with nfpm and polythene around it |
| `MCLinuxPackages` | four targets, two releases, three lists of formats |
| `LinuxPackagesProofs` | theorems about `LinuxPackages` |
| `Release` | jobs that stage artefacts and upload them to one release |
| `MCRelease` | six targets, of which three have a wrong configuration, and the workspaces of two jobs |
| `ReleaseProofs` | theorems about `Release` |

Definitions that begin like another one and say "As if ..." (`MergesCleanOnly`,
`PumpDoneAtExit`, `KeyConstant`, ...) are the mutants: plausible bugs, unused in
the specification, each of which breaks the property named in `PROJECT.json`.

### Automerge

A run is a chain of HTTP requests and everything it does between two of them is
one action, since it touches nothing shared in between. `pc` is `idle`, `queued`
(the event is dispatched and its payload read), `await` (a request is on the
wire), `answered`, `done`; `op` is the request, `view` the last snapshot.

* `RejectInput`, `DryRun`, `Fetch`: `main` and the start of the two handlers.
* `Retry`, `GiveUp`: `_handle_response_or_retry`, `_parse_graphql_response`.
* `Ineligible`, `AlreadyEnabled`, `Refresh`, `SkipState`, `Mutate`, `Conclude`:
  the early returns of `_handle_live_execution` and the loop of
  `_refresh_merge_state`, in the order of the code.
* `AnswerQuery`, `Execute`, `Refuse`, `FailRequest`: GitHub takes the request,
  or the request fails in one of seven ways. A mutation that failed in a way
  that leaves its fate unknown joins `late` or is lost; `ExecuteLate` and
  `RefuseLate` settle it at any later time.
* `Edit`, `ArmByHand`, `Disarm`, `MergeElsewhere`, `CloseOrReopen`: everybody
  else.

`armedOnce`, `vouched`, `landed`, `doubtful` and `fresh` are history: no guard
reads them. GitHub's rules (`Verdicts`, `Reports`, `Consistent`) are external.
The helper's own comment says that GitHub rejects auto-merge on a clean or
unstable pull request, and they follow it; whether a draft may be armed is left
open.

### CargoRunner

A line is a count; a fragment is a line whose end is not written yet, in the pipe
or in the reader's buffer. `TakeLine` is `readline()` returning: from the buffer,
else from the pipe (taking everything there into the buffer), else the unfinished
last line of an ended stream. On POSIX `Select` takes only what the pipes show,
`Event*` handles the events one by one, and the deadline is looked at between
selects. On Windows `Thread*` are the pump threads and `Poll*` the main thread,
with the look at `thread_exceptions` and the look at the threads two separate
steps. `Kill` is `kill()` and `wait(timeout=5)`. `Close` waits for a thread that
sits in `readline()`. cargo may close its files, exit, leave a descendant that
holds the pipes, or hang.

### BaselineRatchet

Each run of a workflow goes through `Start` (which cancels the running ones of
its concurrency group), `Restore`, `Ratchet` or `RatchetFails`, `Save`, `Post`,
and may `Fail` in between. `store` is the sequence of cache entries, oldest
first; `Discard` is the end of a runner, with which everything goes that was of
the job only. `Restored` is the look-up of `actions/cache`: exact key, then the newest
of the branch, then the newest of `main`. Coverage counts in steps: `Levels` is
100 % and `Band` the tolerance.

### CoverageJob

A use begins with `Use` and goes through `Detect`, `InstallTools` and
`InstallNextest`; then, for Rust, `EnterConfig`, `Rust`, `Cucumber`,
`MergeCucumber`, `ReportRust`; for Python, `RefuseWorkers` or `AcquireVenv`,
`SyncProject`, `InstallTooling`, `Pytest`, and `ReportPython` or `CoveragePy`; then
`Combine`, `Ratchet`, `Archive`. `RunCargo` is cargo succeeding or raising, at
which `ensure_nextest_config` puts its configuration back; `Kill` is a timeout or a
cancellation of the step, at which it does not. A step that fails goes to `out`, since
`Archive` stands for the two steps marked `always()`. `MeasureElsewhere` is another
step of the job that runs pytest with coverage.py.

A report is a set of records: the use that measured it, the part of its tests and
the lines that were hit. A path is the sequence of the pieces of its file name, so
that `with_name` and `with_suffix` are an insertion and a replacement. lcov's counts are
added up record by record, as the text of the two reports is concatenated;
cobertura's lines are counted once. `handed`, `measured`, `before` and `runs` are
history.

### MutationRun

A target is a position: 0 for the root workspace, i for the i-th of
`extra-crate-dirs`; a leg is a target and a shard. A file stands for one mutant
in it. `Detect`, `Skip`, `DetectFails` are the job `detect`, with
`bucket_files` as `Bucket` and the two matrices as sets of legs (a directory
listed twice makes two legs of a full run and one of a scoped run). In a leg,
`SetupFails`, `RunCargo` and `StepTimesOut` are the steps up to the run, with
cargo-mutants' exit code and report external: codes 0, 2 and 3 come with a full
report, the others and a timeout with whatever was written so far, in a file
that can be read or not, or with no file. `Upload` always follows and is refused
when the name is taken; `LegLost` is a job that is cut off before. `Summarize`
waits for every leg, whatever became of it, and skips reports it cannot read.
`extra` is chosen among several inputs initially, so that one run checks several
layouts. `LayoutAssumption` says that a file is handed to the crate it belongs
to: crates nested in one another are listed innermost first, which the code
relies on and does not check (`bucket_files` takes the first).

### RustBuild

`pc` follows the composite steps (`Invoke`, `Determine`, `ExportRustflags`,
`SetupRust`), `setup_gnullvm.py` (`Prepare`, `Download`, `Configure`) and `main` of
`main.py` (`Begin` to `HandleCrossContainerError`), then `Stage`. A step that fails
ends the job (`failed`); one that succeeds returns to `idle`, and the next use
finds `env` and `disk` as they are. A toolchain name is a sequence of parts, so
that the search by prefix (`_matches_toolchain_channel`) is `IsPrefix`;
`Order` is the order of rustup's list, which decides among several. `config` has
the target tables of `.cargo/config.toml`, each with or without the generated
header above it, by their places in the file: every table there ever was keeps
its place, a new one gets the next (`End`), and one that is cut leaves its place
empty. `WriteTargetConfig` does to it what the regular expression does.
`written` records the target of every place, those of the project first.
`ProjectsAssumption` says that a project does not come with two tables of one
target under the generated header. Network, rustup, setup-rust, cross and cargo are external: they
succeed or fail in every way the code tells apart. `runs` records the build
commands of a use with what they were given.

### LinuxPackages

`Use` is a step of the workflow that uses one of the two actions. `Manifest`,
`Pack`, `PackagesDone` are `package.py`; a package is a record of what it was
built from, and a file is named by format, architecture label and release only
(`File`). The validation is `RejectInputs` to `AllValidated`, the session
`Pull` to `RemoveRootfs`. `support` is `_isolation_supported`; `Refused` is the
command that is tried again without the option. `facts` records each check with
the isolation it was made under. `rootfs` is how many root file systems the
user's store has, `excused` how many of them polythene failed to name, to start or
to remove; where a session has one that it has not given up is `Rooted`. Any
other store is a temporary directory and goes with the use (`Own`).

### Release

Each job goes through `LoadConfig`, `InitializeStagingDir`, one `StageArtefact` for
each artefact, `StageBinstallArchive`, `Finish`, `WriteOutputs`, for each target of
its plan, then `DiscoverAssets`, `UploadAsset` for each asset, `Uploaded`. A file's
content is the sequence of what was done to it, so that equal digests are equal
contents; `Index` is the order in which a directory lists its files, by which
files of one age are told apart. `Chosen` and `Newest` are the search for a source
over templates and globs; `Free`, `Usable` and `Stageable` say where a file
or a directory in the way makes a step fail. `todo` is the artefact due, `queue`
what is left to upload, of which `First` is next; an upload that fails may have
stored the asset (`GhUploads`), or not, or have deleted the one before it (`GhFails`). `Resolve` is `Path.resolve`, with `..` as a name. `RepeatUpload` and `Rerun`
are a failed step and a failed job run again, the latter on a new build in a new
workspace. `release` is what gh makes of it: an asset has the base name of the
file; what `_resolve_asset_name` builds follows the `#` and is a label.

### MergeGate

One actor per run that sees eligible or not, acts at most with its mutation, and
tells; the world may change anything else. The refinement is
`seen <- vouched, did <- Did, told <- outcome`.

## 3. The runs

| Run | Shows | Bounds |
| --- | --- | --- |
| `automerge` | `ReportsAreTrue`, `EffectsAreVouched`, `SkipsForCause`, `RunsEnd`, `GateSpec` | one run, one retry, two refreshes, all merge states, all faults, every refusal of the input |
| `automerge_race` | `OneMerger`, `ErrorsAreHonest`, `OnlyRacesFail` | two runs, one retry, one refresh, lost replies |
| `automerge_draft` | violation of `ActsOnEligibleSnapshot` | one run, no fault |
| `cargo_runner` | `SuccessIsComplete`, `NoCargoLeft`, `OutcomeIsGenuine`, `EndsUnlessHeld` | three lines a stream, two fill a pipe |
| `cargo_timeout` | violation of `BoundedByTimeout` | two lines, one fills a pipe |
| `baseline_ratchet` | `OnlyRises`, `NoSlowDrift`, `ImprovementKept`, `SavedByPassing` | three runs of main, one of them twice, one of a pull request; two languages, three levels, a band of one |
| `baseline_pull` | violation of `PullComparesWithMain` | two runs of each, one language |
| `coverage_job` | `GreenIsWhole`, `PercentIsSound`, `ArtefactIsOwn`, `RedForCause`, `ReportsStand` | two uses, two lines, of which any may be hit, nine projects, nine inputs |
| `rust_build` | `TypeOK`, `ContainedOrNotAtAll`, `SupportedOrContained`, `RequestedToolchain`, `FlagsReachTheBuild`, `OneTable` | two uses on Linux, four on Windows; three attempts to download |
| `linux_packages` | `EveryFormatTried`, `RightPackage`, `SuccessIsEarned`, `NothingLeftBehind` | three uses, two targets of one architecture, one foreign, one without; releases 1 and 10 |
| `release` | `TypeOK`, `OutputsHold`, `RequiredStaged`, `Published`, `ChecksumsMatch` | two jobs of up to two targets, one of them twice |
| `mutation_run` | `GreenIsExact`, `SurvivorKept`, `CountedOnce`, `RunEnds` | four files, a root of two shards and two crates, a leg that goes wrong |

`TypeOK` is proved for every component, and checked here of `RustBuild` and
`Release`, whose types relate several variables. `ReportArchived`, `ConfigKept`, `PinnedNextest` and
`LlvmUnlessHidden` of `CoverageJob` are proved and not run either.

Why the bounds are enough. One retry is the least that sends a mutation twice,
two refreshes the least at which the loop can stop early, on time or late. Two
runs make every race of the helper, whose properties speak of one or of two
runs. Two lines in a pipe and three on a stream make the cases that matter: a
pipe that is full, a buffer that holds a line the selector does not see, and a
line behind it. Three runs of `main` are the least in which a dip follows on a
dip, each with an entry of its own; the first of them, run again, finds its own
entry below newer ones. The band is half the range, so that dips inside it,
improvements inside it and moves beyond it all occur: two dips of a band each
cross the whole of it. The mutation
run has a crate nested under a root prefix, a crate whose slug is another one's,
one listed twice and one called `root`, so every way for two legs to share a
name occurs, with one leg that goes wrong on top. Legs meet only in the names of
artefacts, so a second faulty leg adds nothing but another absence. The proofs
of the components that have any hold for all of these constants.

The properties of a coverage job relate a use to what one earlier use has left, so
two uses make every case; of the inputs, every pair may follow each other. The
output paths are one another's intermediate names (`cov.xml`, `cov.rust.xml`,
`cov.dat`), three inputs share an artefact name or make one that normalises to
another's, and every place where Cranelift can be set occurs with a backend that is
seen and one that is not. With two lines, a run may hit either of them or both, which
makes reports that differ and a union that is more than either.

Four uses on Windows are the least that configure two targets in turn twice, and
hold every order of a gnullvm target before one that needs a container; on Linux
nothing but toolchains and flags accumulates and two uses show it. Three uses of
the Linux actions are two packages and a validation, or two validations of one
package. The release `1` is a prefix of `10`, as the search for RPM packages
confuses them. In `release` the first job may be run again on another build, or
may repeat its upload, while the second uploads files of the same names; the
targets share a directory, nest one artefact's checksum in another's
destination, leave the workspace, use a reserved key or a template that does
not render.

`Automerge` is symmetric in `Runs`, and `automerge_race`, which checks no
liveness, uses that. `baseline_ratchet` uses that runs of `main` which are
started once differ in nothing, and neither do the languages; it checks no
liveness either.

Deadlock is checked for `Automerge` and `BaselineRatchet`, whose end states
stutter explicitly (`Quiet`, `Stopped`). It is off for `CargoRunner`: the runner
ends, or hangs in one of the two ways `Held` names; and for `MutationRun`, which
stops when the run is over (`RunEnds` shows that it stops nowhere else). The jobs of
`CoverageJob`, `RustBuild`, `LinuxPackages` and `Release` are over when a step has failed or
all uses are made; these are sequential scripts, and their order of steps is the
liveness they have.

### Fairness

* `Automerge`: a helper that can take a step takes it, and a request is settled,
  because `httpx.Client(timeout=30)` turns silence into a transport error
  (`graphql_client.py:75`). People, triggers and GitHub's late executions are
  not fair.
* `CargoRunner`: the runner's threads are scheduled and time passes. cargo and
  its descendants are not fair: they may hang at any point, and this is what a
  deadline is for.
* `MutationRun`: GitHub runs every job, and a leg comes to its end since its
  run step has a timeout (`mutation-cargo.yml:277`) and its job another (`:175`).
  That a job fails is not fair.
* `CoverageJob`, `RustBuild`, `LinuxPackages` and `Release` claim no liveness: their programs wait
  for other programs, some of them without a timeout.
* `BaselineRatchet` claims no liveness: a workflow may be cancelled for ever.

### What the violation runs show

1. `automerge_draft`. `_handle_live_execution` evaluates the first snapshot
   (`dependabot_automerge.py:774-782`). `_refresh_merge_state` fetches author,
   draft state and labels again, and nobody evaluates them. A pull request that
   is converted to a draft or loses its label during the back-off is armed. The
   docstring (`:15`) and `docs/dependabot-automerge-workflow.md:9` say that
   auto-merge is enabled only when all conditions are met.
2. `cargo_timeout`. On POSIX `readline()` on an unfinished line
   (`_cargo_runner.py:183`) keeps the runner from its deadline; the docstring
   (`:8-10`) says pumping is bounded on both platforms. `EndsUnlessHeld` shows
   that this and a descendant that holds a pipe on Windows are the only two
   ways to hang.
3. `baseline_pull`. `restore-keys` (`generate-coverage/action.yml:107`) finds the
   pull request's own entries before those of `main`, so a pull request goes on
   comparing with what it saved first, and not with "the baseline written here"
   (`coverage-main.yml:8-9`).

### What the exceptions in the properties say

Where a property has an "unless", TLC finds a counterexample without it, and the
exception is what the code does:

* `NoCargoLeft`: both Windows pump threads raise after `_poll_pump_loop_iteration` has
  looked at the list (`_cargo_runner.py:93`); no thread is alive at `:97`, and the run
  ends without the kill that `tests/test_scripts.py:1187` asserts of one exception.
* `GreenIsWhole`, `ArtefactIsOwn`: for the format `coveragepy`, `run_python.py` runs the
  tests under slipcover, which writes no `.coverage`, then converts and moves away
  whatever `.coverage` is there (`:464-466`): a report of an earlier step passes for
  this one's, and where there is none the use fails (`RedForCause`). Only with pytest
  options that run coverage.py as well is the file its own.
* `PercentIsSound`: with scenarios, the lcov report has two records for each source
  file, and `get_line_coverage_percent_from_lcov` adds both up
  (`coverage_parsers.py:113-114`). If the tests hit one half of the lines and the
  scenarios the other, it says 50 % for files that are covered wholly. What is
  reported lies between the coverage of one run and that of both.
* `ArtefactIsOwn`: a use that is red uploads what it finds at its output path, which may
  be an earlier use's report or one of its intermediate files.
* `ReportsStand`: intermediate files are named after the output path. A use for `cov.dat`
  in the format `coveragepy` removes `cov.xml`, one for `cov.xml` with two
  languages removes `cov.rust.xml`, whoever has made them.
* `RedForCause`: a project with a `pyproject.toml` for its tools only is taken for a
  Python project by `auto` (`detect.py`) and cannot be synchronised.
* `ConfigKept`: a process that is killed leaves the configuration it has made, and the
  next use takes it for the project's.
* `LlvmUnlessHidden`: `_cranelift.py` sees tables, not dotted keys, and looks above the
  manifest it is given, not in the workspace's root manifest.
* `OneTable`: configuring two gnullvm targets in turn twice, or a project with a
  table of its own, leaves two tables of one target, and cargo refuses the file.
  `_write_target_config` cuts a stanza up to the next `[`, and with it the comment
  line by which the stanza behind it is found the next time.
* `SupportedOrContained`: when a container engine fails to start, the retry on the
  host runs cargo for a target rustup may not have.
* `FlagsReachTheBuild`: the input `rustflags` of a second use has no effect, and
  neither has that of the first where the job's `RUSTFLAGS` is set but empty.
* `RightPackage`: a package of a foreign architecture is accepted for any target,
  since the architecture is compared after the sandbox is skipped
  (`validate_packages.py:277`); gnu and musl packages have one file name; an RPM
  package of release `10` is accepted for `1` (`validate_locators.py:37`). The
  input `arch` counts for RPM packages and not for deb ones.
* `OutputsHold`: two targets of one platform and architecture have one default
  staging directory, and the second use wipes what the first has reported. A
  file that another one's checksum is written to is not what was staged.
* `RequiredStaged`: two artefacts of one destination replace each other. A
  pattern that reaches into a staging directory finds what was staged there.
* `Published`, `ChecksumsMatch`: `_resolve_asset_name` promises a unique asset name,
  but `gh release upload file#name` takes it for a display label; files of one
  base name clash, or with `--clobber` replace each other. A job that is run
  again on a build without a file leaves the asset and its checksum from the
  first time (`Dropped`), and a checksum that the build made itself, or that
  is staged as an artefact, is nobody's concern (`Foreign`). The exception
  `Dropped` was found by the proof; nothing in TLC's instance shows it.

Also seen while modelling, and covered by no property: a staging directory that
is the workspace is removed (`pipeline.py:132`); a staging directory written with
`..` passes the safety check and fails after copying, on `relative_to`; an
artefact that is its own destination is unlinked before it is copied; a binstall
archive is no candidate for upload while its checksum is one; `packages-dir: .`
counts as unset (`validate_cli.py:79`).

Re-runs are worth a word. `generate-coverage/action.yml:283-285` says that the
restore never hits its primary key within a run. A run that is run again keeps
its `run_id` and does: it compares with its own entry and saves nothing. Hence
the exception in `NoSlowDrift` and the restriction of `ImprovementKept` to first
attempts, both of which TLC needs.

## 4. What is proved

The theorems hold for every value of the constants under the named assumptions
of the modules: `MaxRetries` and `MaxRefreshes` are naturals, `Facts`, `Inputs`
and `Faults` are subsets of what is possible and consistent
(`RetryAssumption`, `FactsAssumption`, `InputsAssumption`, `FaultsAssumption`);
`MaxLines` is a natural and a pipe holds at least one line; runs of `main` and of
the pull request are distinct, and numbers are naturals. `Runs` need not be
finite. Every property a passing run checks, but for liveness, is the conclusion
of a theorem, and so is every `TypeOK`.

* `AutomergeProofs`: `Typing`, `Truthful`, `Vouched`, `Honest`, `SingleMerger`,
  `Refinement`. None of the properties is inductive: that a report is true
  depends on what a reply in hand says of a mutation that was executed several
  steps before. `IInv` adds, for each run, that its call fits its place
  (`CallFits`: a mutation is only ever asked for by a vouched run), that
  what landed stands (`EffectStands`: a landed merge means that the pull request
  is merged, a landed arming that it was armed), that a reply fits what happened
  (`ReplyFits`: "data" for a mutation means that it landed), that an outcome fits
  the last call (`OutcomeFits`), and that a landed mutation whose run does not
  know of it is `doubtful` (`Accounted`). `OneMergeLands` says that two merges
  cannot both land; a merged pull request never opens again. The refinement
  needs `IInv` as well: that `told` is never false is a fact about `landed`.
  `SkipsJustified` and `RefusalsJustified` are about why a run stops. `Reasoned` carries
  the cause from the decision to the end: a snapshot that nothing has outdated
  is one GitHub would report now (`Current`), a mutation is on its way because of
  what the snapshot says (`ActsOn`), a skip has one of three causes in it
  (`SkipCause`), and of a current snapshot only a draft or a closed pull request
  is refused (`Refused`).
  `Advancing` is the half of `RunsEnd` that needs no fairness: `StepsLeft`, the
  steps of the requests still possible, falls with every step of a run and every
  answer to it, and nothing raises it. It starts at no more than `MaxSteps`
  (`BoundedRuns`), so no run makes more than `(MaxRetries + 1) * (MaxRefreshes + 2)`
  requests. What is left to TLC is that a run that is not over can go on.
* `CargoRunnerProofs`: `Typing`, `CompleteSuccess`, `NothingLeft`,
  `GenuineOutcome`. `IInv` adds conservation: the lines captured and those still
  in the buffer, the pipe and the fragment are never more than were begun, and
  exactly as many unless somebody raised over one (`Counted`, `Conserved`); a
  stream that is no longer open was read to its end or its thread raised
  (`ReadOut`); and what each place in the program knows (`Control`, `Results`).
  `SuccessIsComplete` is what is left of it when no thread raised and all
  streams are closed.
* `BaselineRatchetProofs`: `Typing`, `Rising`, `Earned`, `Driftless`, `Keeping`. A
  run's files are only as good as the moment it restored them. `IInv` says that one job of a branch
  runs at a time (`Alone`, which is what the concurrency groups are for), that
  the files it holds are no lower than any entry of its branch (`AboveBranch`),
  and that what is about to be saved passes (`Passing`). Without `Alone` a
  cancelled job's stale files could be saved over a higher baseline. The last two
  theorems look back, from what the ratchet has let pass to what there was when the
job started, and need
  a second invariant, `History`: a run's files, and then what it measured, answer
  for every entry its branch had when it restored, except for those behind an
  entry of its own (`Remembers`); and a first attempt finds no entry of its own,
  so that it saves, and what it saves is near what it measured (`FirstAttempt`).
* `MutationRunProofs`: `Typing`, `Exact`, `Kept`, `Once`. Two facts about the
  matrix carry the argument: every file in scope is tested by a leg (`Reached`,
  where the first crate of a bucket exists because positions are well-founded),
  and two legs that test the same file report under the same name (`SameName`).
  `IInv` adds that a leg writes down only survivors of what it tests
  (`Recorded`), all of them if it goes well (`Thorough`), that what it wrote is
  uploaded by its end unless the name was taken (`Uploaded`), and that names are
  unique (`OneName`). The assumptions are `LayoutAssumption` and the types of
  the constants; nothing is assumed of the slugs.
* `RustBuildProofs`: `Typing`, `Containment`, `Support`, `Toolchain`, `OneRustflags`,
  `SingleTables`. `runs` is a record of the past, and what makes a build in it right is read from
  variables that the next step could change. `IInv` says that they do not change
  before the use ends: from the decision to the retry on the host, the target,
  the engines that answered and what rustup added stay as they were when the
  build was allowed (`Allowed`), the toolchain in use is one of the channel that
  was asked for (`Named`, over `Extends`, which says that a name found by prefix
  extends the channel), and `RUSTFLAGS` is settled by the first use
  (`FlagsSettled`). `ToolchainAssumption` asks that a name made from the inputs
  is a sequence of strings and that rustup's list has it.
  `OneTable` has an invariant of its own, `Tabled`: a table is at the place that
  `written` records for its target (`Placed`), no two tables of one target have the
  header (`Generated`), and a table of ours without the header lost it to a table
  in front of it, whose target was written before it and again behind it
  (`Shorn`). So a second table of a target, where the project has none, comes
  after the target and another were written in turn, twice (`Justified`).
* `LinuxPackagesProofs`: `Typing`, `Tried`, `Removed`, `Looked`, `Deserved`. A green
  end is about checks made many steps earlier, format by format. `IInv` carries
  them: the package at hand is the only one located (`AtHand`), a session keeps
  one mode that the runner permits (`Steady`, `OneMode`), each place in the session
  has established what the places before it check, and for the paths still to
  come nothing (`Progress`), and the formats that are behind are settled for good
  (`Settled`), which holds because a validation does not write to `dist` and
  facts are only added. `Removed` rests on `Kept`: the user's store has what was
given up and, where a session holds one, one more (`Held`), which is so only as
every way out of a session goes by the `finally`. That RPM's aliases tell the architectures apart
  (`LabelsAssumption`) is what `RightPackage` needs of the tables. What normalising a
  list gives is an assumption (`ListsAssumption`), since folds and `SelectSeq` are
  out of the prover's reach; TLC evaluates it for the lists of its runs.
* `CoverageJobProofs`: `Typing`, `Complete`, `Own`, `Archived`, `Caused`, `Standing`,
  `ConfigRestored`, `Pinned`, `Llvm`, `Percentages`. Two parts of `IInv` carry the rest. `Kept` says
  at each place of a use what of it is in which file: after the scenarios the two
  files together are what was measured, after the merge one is, and so on to the
  output path. It needs that the paths of a use differ from one another, which is
  a fact about inserting a piece into a sequence (`Infixing`, `Apart`; here
  `PathsAssumption` is used: a path has a name and a suffix). `Stamped` says that
  every record in a file is of a use that has this path among its own (`Touched`).
  `FilesChange` describes every change a step can make to a file, once for all
  steps; that reports stand and that artefacts are a use's own follow from it.
  `Restorable` says that inside the context the configuration can be put back to
  what it was, and `Equipped` what cargo and pytest find when they are started.
  `Percentages` needs no induction over a report: a use measures each part once and
  reports each language once (`Weighed`), so that a report counted by
  records has one or two (`CountOne`, `CountTwo`), and the rounded mean of two is
  between them (`Halves`).
* `ReleaseProofs`: `Typing`, `Publication`, `Keeping`, `Requirement`, `Matching`. The
  arguments are about paths. Two directories above one file are one above the other
  (`Comparable`), so a staging directory either overlaps another or its files
  are safe from it; a sidecar is under a directory if its file is, and has one
  owner (`SidecarUnder`, `OneOwner`). On these rest, after `TypeInv`, five
  invariants, one for each thing a later step could undo. `Publishing`: what has left the
  queue is on the release, or a namesake was sent. `Holding`: what was staged
  is below its target's directory and has its digest beside it, for the use at
  work and for every report no later use overlaps. `Claims`: the artefacts
  behind `todo` are staged, and outside the staging directories the workspace is
  as it was built, so a source is a file of the build. `Explaining`: every
  file is from the build, or staged, or the checksum of a staged one.
  `Sending`: what is on the release was sent by a job that is done or still
  uploading. `ChecksumsMatch` follows from all of them but
  `Claims` when no upload is open.
  Assumed are the types of the constants (`PathsAssumption`, `PlansAssumption`,
  `BuildsAssumption`, `ArtefactsAssumption`, `AttemptsAssumption`), and that
  the paths include every safe place that is staged to, with its sidecar
  (`PlacesAssumption`): there is no other limit on what a workspace may hold.

Only model-checked: the liveness properties `RunsEnd`, `RunEnds` and `EndsUnlessHeld`,
since fairness and ENABLED are out of the prover's reach, and the three
violations, which are counterexamples. What the folds of `LinuxPackages` compute is
assumed in the proofs (`ListsAssumption`) and evaluated by TLC.

## 5. What is not modelled

* Auto-merge: the shell steps that find the workflow's own source, more than one
  pull request, more than 100 labels, 3xx responses. `CLEAN` with a `mergeable`
  that is still `UNKNOWN` is merged directly, as in the code, although the
  documentation says that `UNKNOWN` is retried; a merge GitHub cannot make is
  refused. The retries are configured with numbers: that
  `_merge_state_retry_config` refuses what is none, and fails the run before
  anything was asked of GitHub but the first snapshot, is left out.
* The cargo runner: `nan` and `inf` as timeouts, the child's environment, the
  text of what is echoed.
* The ratchet: eviction of cache entries, jobs of one run that share a key, and
  floating point. The code compares floats with two decimals; for 177 baselines
  a dip of exactly one point fails (64.98 to 63.98 is one), since
  `baseline - 1.0` is not the nearest number. The model's numbers are exact.
* The mutation run: file names with spaces, `exclude-globs`, `extra-args`,
  re-runs of single jobs, and the window of time in which detection looks for
  changes (planned: a change that lands in a window no run sees). Counts of
  caught, timed-out and unviable mutants are left out; only survivors are
  followed.
* Rust builds: apt packages, the linkers `configure_windows_linkers` sets in its own
  process, the location of the manifest, macOS and 32-bit runners (they differ in
  their default host only).
* Linux packages: the text of the nfpm manifest, logging. `RpmAliases` stands for
  `acceptable_rpm_architectures` of what `rpm_expected_architecture` makes of the
  input. An `OSError` in a use whose store is a temporary directory reaches the
  workflow as a `RuntimeError` of the generator (`_polythene_store` suppresses it and
  yields a second time): it is red either way.
* Release: symbolic links inside the workspace, case-insensitive file systems,
  destination templates with `{source_name}`. `Remains` and `HelpDir` allow a little
  more than the code: what a failing copy leaves is any of the stages of the
  copy, and a directory of help is any in which something was staged.
* Coverage measurement: a runner that has no build of cargo-nextest fails as an
  installation does; a configuration of nextest in the user's home or in
  `NEXTEST_CONFIG` counts as the project's; the text of arguments and summaries;
  and the older `ratchet-coverage` action.
* Release to PyPI, mutmut, macOS and Windows packaging and
  the small actions: see section 1.

## 6. Plan

Done, in this order, the most hazardous first: `Automerge` with `MergeGate`,
`CargoRunner`, `BaselineRatchet`, `MutationRun`, `RustBuild`, `LinuxPackages`, `Release`
and `CoverageJob`, each with its proofs.

Next:

1. Measures like `StepsLeft` for `CargoRunner` and `MutationRun`: the half of their
   liveness that needs no ENABLED.
2. `MutationWindow`: cadence, drift and queueing of scheduled runs against the
   window of detection. To prove: with a window no shorter than cadence and
   drift, no change slips between two runs that both run.
3. `PublishCheck`: the PyPI check with retries against a release that others edit.
