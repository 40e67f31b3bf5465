----------------------------- MODULE RustBuild -----------------------------
(***************************************************************************)
(* The rust-build-release action in a job that uses it for one target      *)
(* after another: its composite steps, setup_gnullvm.py and main.py.       *)
(* From one use to the next the job keeps what it wrote to GITHUB_ENV, the *)
(* toolchains and cross it installed and the project's .cargo/config.toml. *)
(*                                                                         *)
(* A toolchain name is the sequence of its parts, so that a name extends a *)
(* request by "-" or "." where the request is a prefix of it.              *)
(***************************************************************************)
EXTENDS Naturals, Sequences, FiniteSets, SequencesExt

CONSTANTS
  Targets,         \* the well-formed target triples
  BsdSuffix,       \* which of BSD_TARGET_SUFFIXES a triple has, or "none"
  GnuTargets,      \* *-pc-windows-gnu
  GnullvmTargets,  \* TARGET_CONFIGS of setup_gnullvm.py
  StagedTargets,   \* those the Stage artefacts step is for
  HostOf,          \* platform -> DEFAULT_HOST_TARGET
  GnuHostOf,       \* platform -> <arch>-pc-windows-gnu of the runner
  Projects,        \* what repositories hold: [files, msrv, config]
  Requests,        \* values of the input toolchain, <<>> for none
  Default,         \* TOOLCHAIN_VERSION
  Order,           \* every toolchain name, as rustup lists them
  Image,           \* the toolchains a fresh runner has
  Retries,         \* of download_and_unzip
  MaxBuilds        \* bound: uses of the action in one job

Platforms == DOMAIN HostOf
WindowsTargets == GnuTargets \cup GnullvmTargets
Names == ToSet(Order)

\* read_repo_toolchain: what rust-toolchain.toml and rust-toolchain name, of the
\* manifest's directory and then of those above it; <<>> where they name nothing.
ToolchainFiles(p) == p.files

\* read_manifest_rust_version, of the package or of the workspace.
RustVersion(p) == p.msrv

\* resolve_requested_toolchain: the input, the nearest toolchain file that
\* names a channel, rust-version, the default.
Requested(p, request) ==
  SelectSeq(<<request>> \o ToolchainFiles(p) \o <<RustVersion(p), Default>>,
            LAMBDA tc : tc # <<>>)[1]

\* _has_embedded_target_triple.
HasTriple(tc) == Last(tc) \in Targets \cup Range(HostOf) \cup Range(GnuHostOf)

\* resolve_toolchain of action_setup.py: for the GNU ABI, the GNU host.
ForRunner(runner, tc, t) ==
  IF runner = "win32" /\ t \in GnuTargets /\ ~HasTriple(tc)
  THEN Append(tc, GnuHostOf[runner]) ELSE tc

\* What rustup calls the toolchain it installs for a request.
Installs(runner, tc) == IF HasTriple(tc) THEN tc ELSE Append(tc, HostOf[runner])

ASSUME TargetsAssumption ==
  /\ WindowsTargets \cup StagedTargets \subseteq Targets
  /\ Targets \cup Range(HostOf) \subseteq DOMAIN BsdSuffix
  /\ "win32" \in Platforms /\ Targets \subseteq STRING
ASSUME ToolchainAssumption ==
  /\ Default # <<>> /\ Order \in Seq(Seq(STRING)) /\ Image \subseteq Names
  /\ \A runner \in Platforms, p \in Projects, r \in Requests \cup {<<>>}, t \in Targets :
       LET tc == ForRunner(runner, Requested(p, r), t)
       IN  tc \in Seq(STRING) /\ Installs(runner, tc) \in Names
\* A file has at most one table of a target that this action generated.
ASSUME ProjectsAssumption ==
  \A p \in Projects :
    /\ p.config \in Seq([target : Targets, header : BOOLEAN])
    /\ \A h, i \in DOMAIN p.config : p.config[h] = p.config[i] /\ p.config[h].header => h = i
ASSUME BoundsAssumption == Retries \in Nat \ {0} /\ MaxBuilds \in [Platforms -> Nat]

VARIABLES
  platform, project, inherited,  \* the runner, the repository, RUSTFLAGS at first
  uses, use,                     \* how many there were, and the inputs of this one
  flags, nodocker, wanted,       \* GITHUB_ENV: RUSTFLAGS, CROSS_NO_DOCKER, RBR_TOOLCHAIN
  config, mingw,                 \* .cargo/config.toml; llvm-mingw on PATH
  toolchains, cross,             \* what is installed
  pc, attempt,
  used, supported,               \* main.py: toolchain_name, target_installed
  found, engine,                 \* engines that answered; CROSS_CONTAINER_ENGINE
  runs,                          \* history: the build commands of this use,
  first, written                 \* the first one's rustflags; the target of each table
                                 \* that was ever in config.toml

job == <<platform, project, inherited>>
env == <<flags, nodocker, wanted>>
disk == <<config, mingw, toolchains, cross>>
local == <<used, supported, found, engine>>
history == <<first, written>>
vars == <<job, uses, use, env, disk, pc, attempt, local, runs, history>>

Engines == {"docker", "podman"}
Flags == {"unset", "empty", "inherited", "warnings", "caller"}
Win32 == platform = "win32"
HostTarget == HostOf[platform]
Target == use.target

Init == /\ platform \in Platforms /\ project \in Projects
        /\ inherited \in {"unset", "empty", "inherited"}
        /\ uses = 0
        /\ use = [target |-> "malformed", request |-> <<>>, rustflags |-> FALSE]
        /\ flags = inherited /\ nodocker = FALSE /\ wanted = <<>>
        /\ config = project.config /\ mingw = FALSE
        /\ toolchains = Image /\ cross = "none"
        /\ pc = "idle" /\ attempt = 0
        /\ used = <<>> /\ supported = FALSE
        /\ found = {} /\ engine \in {"none", "podman"}
        /\ runs = <<>> /\ first = FALSE
        /\ written = [i \in DOMAIN project.config |-> project.config[i].target]

\* main.py is a process of its own: nothing of it reaches the next use.
Fresh == used' = <<>> /\ supported' = FALSE /\ found' = {} /\ runs' = <<>>

-----------------------------------------------------------------------------
(* The steps of action.yml before the build. *)

\* validate_target: two parts at least, of the characters of a triple.
WellFormed(t) == t \in Targets

\* One use of the action; the job is over if the target is refused.
Invoke == /\ pc = "idle" /\ uses < MaxBuilds[platform]
          /\ \E t \in Targets \cup {"malformed"}, r \in Requests, f \in BOOLEAN :
               /\ t \in GnuTargets \cup GnullvmTargets => Win32
               /\ use' = [target |-> t, request |-> r, rustflags |-> f]
               /\ first' = IF uses = 0 THEN f ELSE first
               /\ pc' = IF WellFormed(t) THEN "toolchain" ELSE "failed"
          /\ uses' = uses + 1
          /\ UNCHANGED <<job, env, disk, attempt, local, runs, written>>

\* As if an RBR_TOOLCHAIN that is there were kept.
DetermineOnce == /\ pc = "toolchain"
                 /\ wanted' = IF wanted = <<>> THEN ForRunner(platform, Requested(project, use.request), Target)
                              ELSE wanted
                 /\ pc' = "flags"
                 /\ UNCHANGED <<job, uses, use, flags, nodocker, disk, attempt, local, runs, history>>
Determine == /\ pc = "toolchain"
             /\ wanted' = ForRunner(platform, Requested(project, use.request), Target)
             /\ pc' = "flags"
             /\ UNCHANGED <<job, uses, use, flags, nodocker, disk, attempt, local, runs, history>>

\* As if an empty RUSTFLAGS counted as unset.
ExportNonEmpty ==
  /\ pc = "flags" /\ pc' = "setup"
  /\ flags' = IF use.rustflags /\ flags \in {"unset", "empty"} THEN "caller" ELSE flags
  /\ UNCHANGED <<job, uses, use, nodocker, wanted, disk, attempt, local, runs, history>>
\* The input is exported before setup-rust sets its own default, and an
\* inherited value, be it empty, comes before both.
ExportRustflags ==
  /\ pc = "flags" /\ pc' = "setup"
  /\ flags' = IF use.rustflags /\ flags = "unset" THEN "caller" ELSE flags
  /\ UNCHANGED <<job, uses, use, nodocker, wanted, disk, attempt, local, runs, history>>

\* setup-rust: external.  Which toolchain it leaves is not relied on.
SetupRust ==
  /\ pc = "setup"
  /\ \/ /\ toolchains' \in {toolchains, toolchains \cup {Installs(platform, wanted)}}
        /\ flags' = IF flags = "unset" THEN "warnings" ELSE flags
        /\ pc' = IF Win32 /\ Target \in GnullvmTargets THEN "prepare" ELSE "main"
     \/ pc' = "failed" /\ UNCHANGED <<toolchains, flags>>
  /\ UNCHANGED <<job, uses, use, nodocker, wanted, config, mingw, cross, attempt, local, runs, history>>

-----------------------------------------------------------------------------
(* setup_gnullvm.py. *)

\* The variant of the archive is the host's, or else x86_64's; a version that
\* has no checksum for it is refused before it is downloaded.
Prepare == /\ pc = "prepare"
           /\ pc' \in {"download", "failed"}
           /\ UNCHANGED <<job, uses, use, env, disk, attempt, local, runs, history>>

\* As if the last attempt were followed by one more.
DownloadOnceMore ==
  /\ pc = "download"
  /\ \/ /\ attempt <= Retries
        /\ pc' = "download" /\ attempt' = attempt + 1 /\ UNCHANGED mingw
     \/ /\ pc' = "configure" /\ attempt' = 0 /\ mingw' = TRUE
     \/ /\ pc' = "failed" /\ attempt' = 0 /\ UNCHANGED mingw
  /\ UNCHANGED <<job, uses, use, env, config, toolchains, cross, local, runs, history>>
\* download_and_unzip tries again when the network fails, and gives up when the
\* archive is not the one expected or would write outside its directory.
Download ==
  /\ pc = "download"
  /\ \/ /\ attempt + 1 < Retries
        /\ pc' = "download" /\ attempt' = attempt + 1 /\ UNCHANGED mingw
     \/ /\ pc' = "configure" /\ attempt' = 0 /\ mingw' = TRUE
     \/ /\ pc' = "failed" /\ attempt' = 0 /\ UNCHANGED mingw
  /\ UNCHANGED <<job, uses, use, env, config, toolchains, cross, local, runs, history>>

\* Every table there has been has a place, in the order of the file.
Stanza(t) == [target |-> t, header |-> TRUE]
End == Len(written) + 1
At(c, i, x) == [k \in DOMAIN c \cup {i} |-> IF k = i THEN x ELSE c[k]]

\* As if the stanza that is there were not looked for.
WriteAnother(c, t) == At(c, End, Stanza(t))
\* _write_target_config: the stanza under CONFIG_HEADER is cut up to the next
\* "[", with it the header of the stanza that follows, and written at the end.
WriteTargetConfig(c, t) ==
  LET cut == {i \in DOMAIN c : c[i] = Stanza(t)}
      follows(k, i) == k < i /\ \A m \in DOMAIN c : ~(k < m /\ m < i)
      rest == [i \in DOMAIN c \ cut |-> IF \E k \in cut : follows(k, i)
                                        THEN [c[i] EXCEPT !.header = FALSE] ELSE c[i]]
  IN  At(rest, End, Stanza(t))

Configure == /\ pc = "configure" /\ pc' = "main"
             /\ config' = WriteTargetConfig(config, Target)
             /\ nodocker' = TRUE
             /\ written' = Append(written, Target)
             /\ UNCHANGED <<job, uses, use, flags, wanted, mingw, toolchains, cross,
                            attempt, local, runs, first>>

-----------------------------------------------------------------------------
(* main.py. *)

\* The next call of main.
ToMain(place) == /\ pc' = place
                 /\ UNCHANGED <<job, uses, use, env, config, mingw, attempt, history>>

\* Before the toolchain: the target, the manifest and rustup must be there.
Begin == /\ pc = "main"
         /\ \E place \in {"resolve", "failed"} : ToMain(place)
         /\ UNCHANGED <<toolchains, cross, local, runs>>

First(S) == Order[Min({i \in DOMAIN Order : Order[i] \in S})]

\* _resolve_toolchain_name: the name itself or the name for the target, else
\* the first in rustup's list that extends it.
Preferred(tc, t) == toolchains \cap {tc, Append(tc, t)}
Matching(tc) == {n \in toolchains : IsPrefix(tc, n)}
ResolveToolchainName(tc, t) ==
  IF Preferred(tc, t) # {} THEN First(Preferred(tc, t)) ELSE First(Matching(tc))

\* RBR_TOOLCHAIN is set, hence explicit; the first part of _resolve_toolchain.
ResolveToolchain ==
  /\ pc = "resolve" /\ Matching(wanted) # {}
  /\ used' = ResolveToolchainName(wanted, Target)
  /\ ToMain("target")
  /\ UNCHANGED <<toolchains, cross, supported, found, engine, runs>>

\* _install_toolchain_channel, after which the list is read again.
InstallToolchain ==
  /\ pc = "resolve" /\ Matching(wanted) = {}
  /\ \/ toolchains' = toolchains \cup {Installs(platform, wanted)} /\ ToMain("resolve")
     \/ ToMain("failed") /\ UNCHANGED toolchains
  /\ UNCHANGED <<cross, local, runs>>

\* _ensure_target_installed: an answer, not an error.
AddTarget ==
  /\ pc = "target"
  /\ supported' \in BOOLEAN
  /\ ToMain("linkers")
  /\ UNCHANGED <<toolchains, cross, used, found, engine, runs>>

\* configure_windows_linkers sets linkers of its own process, and raises when
\* rustup does not know the toolchain.
ConfigureLinkers ==
  /\ pc = "linkers"
  /\ \/ ToMain("cross")
     \/ Win32 /\ ToMain("failed")
  /\ UNCHANGED <<toolchains, cross, local, runs>>

\* ensure_cross("0.2.5"): a version that is old or cannot be read is replaced.
EnsureCross ==
  /\ pc = "cross"
  /\ ToMain(IF cross = "recent" THEN "probe" ELSE IF Win32 THEN "release" ELSE "install")
  /\ UNCHANGED <<toolchains, cross, local, runs>>

\* The lookup after an installation: another cross may come first on PATH, or
\* PATH may lack the directory.
LookedUp == cross' \in {"none", "old", "recent"} /\ ToMain("probe")

\* install_cross_release: the archive has the published digest and its cross
\* runs, or cargo is asked.
InstallRelease ==
  /\ pc = "release"
  /\ \/ LookedUp
     \/ ToMain("install") /\ UNCHANGED cross
  /\ UNCHANGED <<toolchains, local, runs>>

\* cargo install, and the same from git.  Without it Windows goes on without
\* cross, and others raise.
InstallCross ==
  /\ pc = "install"
  /\ \/ LookedUp
     \/ Win32 /\ cross' = "none" /\ ToMain("probe")
     \/ ~Win32 /\ ToMain("failed") /\ UNCHANGED cross
  /\ UNCHANGED <<toolchains, local, runs>>

\* should_probe_container.
ShouldProbe == IF Win32 THEN Target \notin WindowsTargets ELSE Target # HostTarget

\* runtime_available: the engine is there, is what it says it is and answers in
\* time; podman has CAP_SYS_ADMIN besides.
RuntimeAvailable(e, answer) ==
  answer = "full" \/ (answer = "restricted" /\ e = "docker")

\* Both engines are probed, one after the other; one that does not answer in
\* time is unavailable.
Probe ==
  /\ pc = "probe"
  /\ \E answer \in [Engines -> {"none", "restricted", "full"}] :
       found' = {e \in Engines : ShouldProbe /\ RuntimeAvailable(e, answer[e])}
  /\ ToMain("decide")
  /\ UNCHANGED <<toolchains, cross, used, supported, engine, runs>>

\* _decide_cross_usage.
RequiresContainer == BsdSuffix[Target] \notin {"none", BsdSuffix[HostTarget]}
LocalBackend == Win32 /\ nodocker
UseCross == cross # "none" /\ (found # {} \/ LocalBackend)
ContainerEngine == IF "docker" \in found THEN "docker" ELSE "podman"

\* _validate_cross_requirements, and the test of the target that follows it.
\* As if the local backend were a container.
MayBuildAnyCross ==
  /\ RequiresContainer => UseCross /\ ~LocalBackend
  /\ supported \/ UseCross
MayBuild ==
  /\ RequiresContainer => UseCross /\ ~LocalBackend
  /\ supported \/ (UseCross /\ ~LocalBackend)

\* Up to _configure_cross_container_engine, for the process.
Decide ==
  /\ pc = "decide"
  /\ ToMain(IF MayBuild THEN "build" ELSE "failed")
  /\ UNCHANGED <<toolchains, cross, local, runs>>

\* What a build command is given.
Command(by, backend) ==
  [by |-> by, backend |-> backend, toolchain |-> used, supported |-> supported,
   flags |-> flags, target |-> Target]

\* _configure_cross_container_engine: the one that is configured, else the one
\* found; main restores what was there.
EngineFor == IF engine = "none" THEN ContainerEngine ELSE engine

\* _build_cargo_command and _build_cross_command; the toolchain is in the
\* command of the one and in the environment of the other.
CargoCommand == Command("cargo", "local")
CrossCommand == Command("cross", IF LocalBackend THEN "local" ELSE EngineFor)

\* run_cmd(build_cmd): cargo and cross are external.  cross ends with one of
\* CROSS_CONTAINER_ERROR_CODES when its engine does not start, found or not.
RunBuild ==
  /\ pc = "build"
  /\ runs' = <<IF UseCross THEN CrossCommand ELSE CargoCommand>>
  /\ \/ ToMain("stage")
     \/ ToMain("failed")
     \/ UseCross /\ ToMain("uncontained")
  /\ UNCHANGED <<toolchains, cross, local>>

\* _handle_cross_container_error: as if the local backend let a target that
\* requires a container be retried.
RetryAlways ==
  /\ pc = "uncontained"
  /\ runs' = Append(runs, CargoCommand)
  /\ \E place \in {"stage", "failed"} : ToMain(place)
  /\ UNCHANGED <<toolchains, cross, local>>
HandleCrossContainerError ==
  /\ pc = "uncontained"
  /\ \/ /\ RequiresContainer /\ ~LocalBackend
        /\ ToMain("failed") /\ UNCHANGED runs
     \/ /\ ~RequiresContainer \/ LocalBackend
        /\ runs' = Append(runs, CargoCommand)
        /\ \E place \in {"stage", "failed"} : ToMain(place)
  /\ UNCHANGED <<toolchains, cross, local>>

\* Stage artefacts needs the binary and, unless told otherwise, one man page.
Stage == /\ pc = "stage"
         /\ \/ ToMain("idle") /\ Fresh
            \/ /\ Target \in StagedTargets /\ ToMain("failed")
               /\ UNCHANGED <<used, supported, found, runs>>
         /\ UNCHANGED <<toolchains, cross, engine>>

Main == \/ Begin \/ ResolveToolchain \/ InstallToolchain \/ AddTarget \/ ConfigureLinkers
        \/ EnsureCross \/ InstallRelease \/ InstallCross
        \/ Probe \/ Decide \/ RunBuild \/ HandleCrossContainerError

Next == \/ Invoke \/ Determine \/ ExportRustflags \/ SetupRust
        \/ Prepare \/ Download \/ Configure
        \/ Main \/ Stage

Spec == Init /\ [][Next]_vars

-----------------------------------------------------------------------------
(* Properties. *)

\* The values the variables take.
TypeOK ==
  /\ platform \in Platforms /\ project \in Projects
  /\ inherited \in Flags /\ flags \in Flags /\ nodocker \in BOOLEAN
  /\ uses \in 0 .. MaxBuilds[platform]
  /\ use \in [target : Targets \cup {"malformed"}, request : Requests \cup {<<>>},
              rustflags : BOOLEAN]
  /\ DOMAIN config \subseteq DOMAIN written /\ Range(config) \subseteq [target : Targets, header : BOOLEAN]
  /\ mingw \in BOOLEAN
  /\ toolchains \subseteq Names /\ cross \in {"none", "old", "recent"}
  /\ attempt \in 0 .. Retries - 1
  /\ supported \in BOOLEAN /\ found \subseteq Engines /\ engine \in {"none"} \cup Engines
  /\ Len(runs) <= 2
  /\ first \in BOOLEAN /\ written \in Seq(Targets)
  /\ pc \in {"idle", "toolchain", "flags", "setup", "prepare", "download",
             "configure", "main", "resolve", "target", "linkers", "cross", "release", "install",
             "probe", "decide", "build", "uncontained", "stage",
             "failed"}

Ran == {runs[i] : i \in DOMAIN runs}
Contained(r) == r.by = "cross" /\ r.backend \in Engines

\* A target that requires a container is built in one or not at all: not on the
\* host after cross failed, and not by the local backend a gnullvm build before
\* it has left switched on (README.md of the action, lines 6 to 8).
ContainedOrNotAtAll ==
  \A r \in Ran : BsdSuffix[r.target] \notin {"none", BsdSuffix[HostTarget]} => Contained(r)

\* A build that needs the toolchain's own copy of the target starts only when
\* rustup has added it; only the retry after a container failed may lack it.
SupportedOrContained ==
  \A i \in DOMAIN runs :
    runs[i].supported \/ Contained(runs[i]) \/ (i = 2 /\ Contained(runs[1]))

\* Whatever other uses in the job asked for and have installed, each command is
\* given a toolchain of the channel this use asks for, of the GNU ABI where the
\* target has it.
RequestedToolchain ==
  \A r \in Ran : IsPrefix(ForRunner(platform, Requested(project, use.request), r.target), r.toolchain)

\* Every build of a job sees one RUSTFLAGS: what the job inherited, be it empty,
\* else the input of the first use, else setup-rust's default.
FlagsReachTheBuild ==
  \A r \in Ran : r.flags = IF inherited # "unset" THEN inherited
                           ELSE IF first THEN "caller" ELSE "warnings"

Tables(t) == Cardinality({i \in DOMAIN config : config[i].target = t})
Alternates(s, t) == \E a, b, c, d \in DOMAIN written :
                      /\ a < b /\ b < c /\ c < d
                      /\ written[a] = s /\ written[b] = t
                      /\ written[c] = s /\ written[d] = t

\* config.toml has two tables of one target, and cargo refuses it, only where
\* the project had one of its own, or where the target and another were
\* configured in turn, twice, of which the project may have done the first.
OneTable ==
  \A t \in GnullvmTargets :
    Tables(t) > 1 => \/ \E i \in DOMAIN project.config : project.config[i].target = t
                     \/ \E s \in GnullvmTargets \ {t} : Alternates(s, t)
=============================================================================
