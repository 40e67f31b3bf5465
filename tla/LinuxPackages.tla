--------------------------- MODULE LinuxPackages ---------------------------
(***************************************************************************)
(* A job that builds Linux packages with linux-packages and validates them *)
(* with validate-linux-packages, each as often as it likes and for any     *)
(* target.  What the uses share is the directory dist, whose files are     *)
(* named by nfpm after format, architecture and release, and the store of  *)
(* polythene, where every validated package has a root file system.        *)
(*                                                                         *)
(* A release is the sequence of its characters; the version and the name   *)
(* of the package are the same in all uses of a job.                       *)
(***************************************************************************)
EXTENDS Naturals, Sequences, FiniteSets, SequencesExt

CONSTANTS
  Targets,         \* target triples
  NfpmArch,        \* nfpm_arch_for_target, or "unsupported"
  DebArch,         \* deb_arch_for_target, or "unsupported"
  LabelOf,         \* format -> architecture of nfpm -> what the package says
  RpmAliases,      \* acceptable_rpm_architectures of what rpm_expected_architecture says
  HostAliases,     \* _host_architectures
  Isolation,       \* POLYTHENE_ISOLATION of the job, or DEFAULT_ISOLATION
  PackageInputs,   \* the inputs of linux-packages
  ValidateInputs,  \* the inputs of validate-linux-packages
  Bin, Man,        \* the installed binary and its manual page
  MaxUses          \* bound: uses of the two actions in one job

Unsupported == "unsupported"
Independent == {"all", "any", "noarch"}
Formats == DOMAIN LabelOf
Isolations == {"bubblewrap", "proot"}

\* _normalize_list and normalize_formats: each format once, the first time.
Requested(u) ==
  FoldLeft(LAMBDA seen, f : IF Contains(seen, f) THEN seen ELSE Append(seen, f),
           <<>>, u.formats)

\* The input arch, else what the target says; and what deb calls the target.
ArchOf(u) == IF u.arch # "auto" THEN u.arch ELSE NfpmArch[u.target]
DebArchOf(u) == DebArch[u.target]

\* _prepare_paths: the binary and every executable are expected as well.
Executables(u) == IF u.executables = <<>> THEN <<Bin>> ELSE u.executables
Expected(u) ==
  LET given == IF Contains(u.expected, Bin) THEN u.expected ELSE <<Bin>> \o u.expected
  IN  given \o SelectSeq(Executables(u), LAMBDA x : ~Contains(given, x))

ASSUME TargetsAssumption ==
  /\ DOMAIN NfpmArch = Targets /\ DOMAIN DebArch = Targets
  /\ \A t \in Targets : NfpmArch[t] = Unsupported <=> DebArch[t] = Unsupported
ASSUME IsolationAssumption == Isolation \in Isolations
ASSUME InputsAssumption ==
  /\ \A u \in PackageInputs : u.kind = "package" /\ u.target \in Targets /\ u.man \in BOOLEAN
  /\ \A u \in ValidateInputs : u.kind = "validate" /\ u.target \in Targets
ASSUME UsesAssumption == MaxUses \in Nat

\* What becomes of the lists of an input: formats are sequences without
\* repetition of those that were given, and no executable is left unexpected.
ASSUME ListsAssumption ==
  /\ \A u \in PackageInputs \cup ValidateInputs :
       /\ Requested(u) \in Seq(Formats) /\ IsInjective(Requested(u))
       /\ ToSet(Requested(u)) = ToSet(u.formats)
       /\ u.release \in Seq(STRING)
  /\ \A u \in ValidateInputs :
       /\ Expected(u) \in Seq(STRING) /\ Executables(u) \in Seq(STRING)
       /\ ToSet(Executables(u)) \cup ToSet(u.executables) \subseteq ToSet(Expected(u))

\* Formats have a label for each architecture, and an alias no other one's.
ASSUME LabelsAssumption ==
  /\ \A u \in PackageInputs, f \in Formats : ArchOf(u) # Unsupported => ArchOf(u) \in DOMAIN LabelOf[f]
  /\ \A u \in ValidateInputs :
       ArchOf(u) # Unsupported =>
         RpmAliases[ArchOf(u)] \cap Range(LabelOf["rpm"]) \subseteq {LabelOf["rpm"][ArchOf(u)]}

VARIABLES
  dist,              \* the packages there are
  knows, denied,     \* polythene: has the option --isolation; isolations refused
  uses, use,         \* how many uses there were, and the inputs of this one
  pc, todo,          \* where it is, and the formats before it
  failures,          \* package.py: formats nfpm failed for
  package,           \* the package that was located, as a set
  paths,             \* the paths before the loop that checks them
  isolation, support,\* the session: its isolation, and whether the option exists
  broken,            \* an error is on its way up
  rootfs, excused,   \* root file systems in the user's store; history: those
                     \* that polythene failed to name, start or remove
  facts              \* history: what this use has established

runner == <<knows, denied>>
session == <<isolation, support, broken>>
store == <<rootfs, excused>>
vars == <<dist, runner, uses, use, pc, todo, failures, package, paths, session, store, facts>>

Ended == {"idle", "packed", "validated"}

Init == /\ dist = {}
        /\ knows = FALSE /\ denied = {}
        /\ uses = 0 /\ use = [kind |-> "none"]
        /\ pc = "idle" /\ todo = <<>> /\ failures = {}
        /\ package = {} /\ paths = <<>>
        /\ isolation = Isolation /\ support = "unknown" /\ broken = FALSE
        /\ rootfs = 0 /\ excused = 0 /\ facts = {}

\* A step of the workflow: both scripts begin from nothing but the files.
Use == /\ pc \in Ended /\ uses < MaxUses
       /\ use' \in PackageInputs \cup ValidateInputs
       /\ uses' = uses + 1
       /\ pc' = IF use'.kind = "package" THEN "manifest" ELSE "config"
       /\ todo' = <<>> /\ failures' = {} /\ package' = {} /\ paths' = <<>> /\ facts' = {}
       /\ isolation' = Isolation /\ support' = "unknown" /\ broken' = FALSE
       /\ knows' = FALSE /\ denied' = {}
       /\ UNCHANGED <<dist, store>>

-----------------------------------------------------------------------------
(* linux-packages: package.py and nfpm. *)

\* What nfpm writes for a format, and where: files are told apart by name.
Packed(u, f) == [format |-> f, arch |-> LabelOf[f][ArchOf(u)], release |-> u.release,
                 target |-> u.target, man |-> u.man]
File(p) == <<p.format, p.arch, p.release>>

\* The contents: the binary, and what build_man_entries makes of the pages.
Files(p) == {Bin} \cup IF p.man THEN {Man} ELSE {}

ToPackage(place) ==
  /\ pc' = place
  /\ UNCHANGED <<runner, uses, use, package, paths, session, store, facts>>

\* main up to the loop: the manifest is written unless the target has no
\* architecture, or the binary, a manual page or nfpm is missing.
Manifest ==
  /\ pc = "manifest"
  /\ \/ ArchOf(use) # Unsupported /\ ToPackage("pack") /\ todo' = Requested(use)
     \/ ToPackage("failed") /\ UNCHANGED todo
  /\ UNCHANGED <<dist, failures>>

\* As if the first failure ended the loop.
PackOrStop ==
  /\ pc = "pack" /\ todo # <<>>
  /\ todo' = Tail(todo)
  /\ \/ /\ dist' = {p \in dist : File(p) # File(Packed(use, Head(todo)))}
                     \cup {Packed(use, Head(todo))}
        /\ ToPackage("pack") /\ UNCHANGED failures
     \/ failures' = failures \cup {Head(todo)} /\ ToPackage("failed") /\ UNCHANGED dist
\* One format: a file of that name is replaced; a failure of the only format
\* ends the use, others are remembered until all were tried.
Pack ==
  /\ pc = "pack" /\ todo # <<>>
  /\ todo' = Tail(todo)
  /\ \/ /\ dist' = {p \in dist : File(p) # File(Packed(use, Head(todo)))}
                     \cup {Packed(use, Head(todo))}
        /\ ToPackage("pack") /\ UNCHANGED failures
     \/ /\ failures' = failures \cup {Head(todo)}
        /\ ToPackage(IF Len(Requested(use)) = 1 THEN "failed" ELSE "pack")
        /\ UNCHANGED dist

PackagesDone ==
  /\ pc = "pack" /\ todo = <<>>
  /\ ToPackage(IF failures = {} THEN "packed" ELSE "failed")
  /\ UNCHANGED <<dist, todo, failures>>

-----------------------------------------------------------------------------
(* validate-linux-packages: its configuration, and one package's metadata. *)

ToValidate(place) ==
  /\ pc' = place
  /\ UNCHANGED <<dist, uses, use, failures>>

\* normalize_paths, normalize_command and _build_config refuse what is no path,
\* no command or no number.
RejectInputs ==
  /\ pc = "config"
  /\ ToValidate("failed")
  /\ UNCHANGED <<runner, todo, package, paths, session, store, facts>>

\* _build_config.  The polythene of this use and what the runner permits matter
\* from here.
Config ==
  /\ pc = "config"
  /\ ArchOf(use) # Unsupported /\ DebArchOf(use) # Unsupported
  /\ knows' \in BOOLEAN /\ denied' \in SUBSET Isolations
  /\ todo' = Requested(use) /\ ToValidate("store")
  /\ UNCHANGED <<package, paths, session, store, facts>>

\* _polythene_store: the user's, the workspace, the runner's or the system's
\* temporary directory, the first that exists and that can be executed in; the
\* user's has no alternative.
OpenStore ==
  /\ pc = "store"
  /\ \E place \in {"format", "failed"} : ToValidate(place)
  /\ UNCHANGED <<runner, todo, package, paths, session, store, facts>>

\* As if the first of several matches were taken.
LocatedFirst(f) ==
  LET found == {p \in dist : /\ p.format = f
                              /\ IF f = "deb" THEN p.release = use.release
                                              ELSE IsPrefix(use.release, p.release)}
  IN  IF found = {} THEN {} ELSE {CHOOSE p \in found : TRUE}
\* locate_deb and locate_rpm: the pattern of the latter ends with the release.
Located(f) ==
  {p \in dist : /\ p.format = f
                /\ IF f = "deb" THEN p.release = use.release
                                ELSE IsPrefix(use.release, p.release)}

\* What dpkg-deb -c and rpm -qlp list.
Listing(p) == Files(p)

\* validate_deb_package and validate_rpm_package; the latter takes the release
\* for a prefix again.
DebHolds(p) == p.release = use.release
RpmHolds(p) == IsPrefix(use.release, p.release)

\* The validators of a package, and ensure_subset of its payload.
MetadataHolds(p) ==
  /\ IF p.format = "deb" THEN DebHolds(p) ELSE RpmHolds(p)
  /\ ToSet(Expected(use)) \subseteq Listing(p)

\* _should_skip_sandbox.
Foreign(p) == p.arch \notin Independent \cup HostAliases

\* The architecture_validator: the input arch is for RPM packages alone.
ArchitectureHolds(p) ==
  IF p.format = "deb" THEN p.arch = DebArchOf(use)
                      ELSE p.arch \in RpmAliases[ArchOf(use)]

Fact(what, path) == [format |-> Head(todo), what |-> what, path |-> path,
                     mode |-> IF support' = "no" THEN "none" ELSE isolation]

\* _FORMAT_HANDLERS.
Handled(f) == f \in {"deb", "rpm"}

\* What the metadata of the package alone establishes.
Payload(p) == {[format |-> p.format, what |-> "payload", path |-> x, mode |-> "host"] :
                 x \in Listing(p)}

\* _validate_format: a handler, an image, a command and the only match.
ValidateFormat ==
  /\ pc = "format" /\ todo # <<>>
  /\ \/ ToValidate("failed") /\ UNCHANGED package
     \/ /\ Handled(Head(todo))
        /\ \E p \in Located(Head(todo)) : Located(Head(todo)) = {p} /\ package' = {p}
        /\ ToValidate("inspect")
  /\ UNCHANGED <<runner, todo, paths, session, store, facts>>

\* _validate_package up to the sandbox.  The architecture is looked at last, and
\* not at all when it is not the host's.
Inspect ==
  /\ pc = "inspect"
  /\ \E p \in package :
       \/ ToValidate("failed") /\ UNCHANGED <<todo, facts>>
       \/ /\ MetadataHolds(p) /\ facts' = facts \cup Payload(p)
          /\ \/ Foreign(p) /\ ToValidate("format") /\ todo' = Tail(todo)
             \/ ~Foreign(p) /\ ArchitectureHolds(p) /\ ToValidate("pull") /\ UNCHANGED todo
  /\ UNCHANGED <<runner, package, paths, session, store>>

\* The end of main's loop over the formats.
AllValidated ==
  /\ pc = "format" /\ todo = <<>>
  /\ ToValidate("validated")
  /\ UNCHANGED <<runner, todo, package, paths, session, store, facts>>

-----------------------------------------------------------------------------
(* The session with polythene, which is external: it knows the option       *)
(* --isolation or not, and the runner permits some isolations.              *)

\* PolytheneSession.exec: with the option unless it was refused before; when it
\* is refused, without it, once and for all.
Option == support # "no"
Refused == Option /\ ~knows
Exec == support' = IF Refused \/ ~Option THEN "no" ELSE "yes"
ExecFails == support' = IF Refused THEN "no" ELSE support

\* A root file system of the user's store outlives the use; any other store is a
\* temporary directory.
Own == IF use.own THEN 1 ELSE 0
Abandoned == excused' = excused + Own

\* polythene pull, and the session on what it prints last; nothing removes what
\* it pulled if that is no identifier, or has no directory.
Pull ==
  /\ pc = "pull"
  /\ \/ rootfs' = rootfs + Own /\ UNCHANGED excused /\ ToValidate("start")
     \/ rootfs' = rootfs + Own /\ Abandoned /\ ToValidate("failed")
     \/ UNCHANGED store /\ ToValidate("failed")
  /\ isolation' = Isolation /\ support' = "unknown"
  /\ UNCHANGED <<runner, todo, package, paths, broken, facts>>

Permits(i) == ~Option \/ Refused \/ i \notin denied

\* The first command of a session, true; where it is denied, once more with the
\* default isolation.  A session that does not start is not removed.
Start ==
  /\ pc = "start"
  /\ \/ Permits(isolation) /\ Exec /\ ToValidate("install") /\ UNCHANGED <<isolation, excused>>
     \/ /\ isolation # "proot" /\ isolation' = "proot"
        /\ Permits("proot") /\ Exec
        /\ ToValidate("install") /\ UNCHANGED excused
     \/ isolation' \in {isolation, "proot"} /\ ExecFails /\ Abandoned /\ ToValidate("failed")
  /\ UNCHANGED <<runner, todo, package, paths, broken, rootfs, facts>>

\* As if the finally of polythene_rootfs were an else.
LeaveUnremoved(error) == pc' = (IF error THEN "failed" ELSE "remove") /\ broken' = error
\* What ends the block of the session, well or by an error.
Leave(error) == pc' = "remove" /\ broken' = error
Inside(place) == pc' = place /\ UNCHANGED broken
Command == UNCHANGED <<dist, runner, uses, use, failures, todo, package, isolation, store>>

\* _exec_with_diagnostics: a command that fails.
Fails == ExecFails /\ Leave(TRUE) /\ UNCHANGED <<paths, facts>>

\* The same for a path: the diagnostics are commands in the sandbox of their own,
\* whose errors are part of the message.
FailsDiagnosed == Fails

\* _install_and_verify: the package is copied and installed.
Install ==
  /\ pc = "install"
  /\ \/ /\ Exec /\ Inside("describe")
        /\ facts' = facts \cup {Fact("installed", Bin)}
        /\ UNCHANGED paths
     \/ Fails
  /\ Command

\* _collect_environment_details and _collect_host_path_details are for the log;
\* but the latter lets every OSError but one pass, and ends the validation.
Describe ==
  /\ pc = "describe"
  /\ \/ Inside("exist") /\ paths' = Expected(use)
     \/ Leave(TRUE) /\ UNCHANGED paths
  /\ Command /\ UNCHANGED <<support, facts>>

\* _validate_paths_exist: test -e for each path.
Exist ==
  /\ pc = "exist"
  /\ \/ /\ paths = <<>> /\ Inside("executable")
        /\ paths' = Executables(use)
        /\ UNCHANGED <<support, facts>>
     \/ /\ paths # <<>> /\ \E p \in package : Head(paths) \in Files(p)
        /\ Exec /\ Inside("exist") /\ paths' = Tail(paths)
        /\ facts' = facts \cup {Fact("exists", Head(paths))}
     \/ paths # <<>> /\ FailsDiagnosed
  /\ Command

\* As if a path that no interpreter finds executable were only reported.
ExecutableOrReported ==
  /\ pc = "executable"
  /\ \/ /\ paths = <<>> /\ Inside("verify") /\ UNCHANGED <<support, paths, facts>>
     \/ /\ paths # <<>> /\ Head(paths) = Bin
        /\ Exec /\ Inside("executable") /\ paths' = Tail(paths)
        /\ facts' = facts \cup {Fact("executable", Head(paths))}
     \/ paths # <<>> /\ ExecFails /\ Inside("executable") /\ paths' = Tail(paths) /\ UNCHANGED facts
  /\ Command
\* _validate_paths_executable: test -x, and where it fails os.access as
\* python3 or python of the sandbox see it.  Manual pages are no executables.
Executable ==
  /\ pc = "executable"
  /\ \/ /\ paths = <<>> /\ Inside("verify") /\ UNCHANGED <<support, paths, facts>>
     \/ /\ paths # <<>> /\ Head(paths) = Bin
        /\ Exec /\ Inside("executable") /\ paths' = Tail(paths)
        /\ facts' = facts \cup {Fact("executable", Head(paths))}
     \/ paths # <<>> /\ FailsDiagnosed
  /\ Command

\* The verify command, if there is one, and dpkg -r or rpm -e, whose error is
\* only logged.
Verify ==
  /\ pc = "verify"
  /\ \/ /\ Exec /\ Leave(FALSE)
        /\ facts' = facts \cup IF use.verify THEN {Fact("verified", Bin)} ELSE {}
        /\ UNCHANGED paths
     \/ use.verify /\ Fails
  /\ Command

\* The finally of polythene_rootfs: rm, whose error is only logged; then the
\* next format, or the error goes on.
RemoveRootfs ==
  /\ pc = "remove"
  /\ \/ rootfs' = rootfs - Own /\ UNCHANGED excused
     \/ UNCHANGED rootfs /\ Abandoned
  /\ todo' = IF broken THEN todo ELSE Tail(todo)
  /\ ToValidate(IF broken THEN "failed" ELSE "format")
  /\ UNCHANGED <<runner, package, paths, isolation, support, broken, facts>>

Next == \/ Use \/ Manifest \/ Pack \/ PackagesDone
        \/ RejectInputs \/ Config \/ OpenStore \/ ValidateFormat \/ Inspect \/ AllValidated
        \/ Pull \/ Start \/ Install \/ Describe \/ Exist \/ Executable \/ Verify \/ RemoveRootfs

Spec == Init /\ [][Next]_vars

-----------------------------------------------------------------------------
(* Properties. *)

Packages == [format : Formats, arch : UNION {Range(LabelOf[f]) : f \in Formats},
             release : {u.release : u \in PackageInputs}, target : Targets, man : BOOLEAN]

\* The values the variables take; no two packages have one file name.
TypeOK ==
  /\ dist \subseteq Packages
  /\ \A p, q \in dist : File(p) = File(q) => p = q
  /\ knows \in BOOLEAN /\ denied \subseteq Isolations
  /\ uses \in 0 .. MaxUses
  /\ use \in PackageInputs \cup ValidateInputs \cup {[kind |-> "none"]}
  /\ pc \in Ended \cup {"manifest", "pack", "config", "store", "format", "inspect", "pull", "start",
                        "install", "describe", "exist", "executable", "verify", "remove", "failed"}
  /\ failures \subseteq Formats /\ package \subseteq Packages /\ Cardinality(package) <= 1
  /\ isolation \in Isolations /\ support \in {"unknown", "yes", "no"}
  /\ broken \in BOOLEAN
  /\ rootfs \in Nat /\ excused \in Nat

\* Packaging tries every format: a use that fails for one leaves all the others
\* in dist, as built by this use.
EveryFormatTried ==
  pc \in {"packed", "failed"} /\ use.kind = "package" /\ (pc = "packed" \/ failures # {}) =>
    \A f \in ToSet(use.formats) \ failures : Packed(use, f) \in dist

\* The label that the inputs stand for, without the input arch for deb.
SameLabel(p) == p.arch = IF p.format = "deb" THEN DebArch[use.target]
                         ELSE LabelOf[p.format][ArchOf(use)]

\* There is one package of a format to be taken for the one that was asked for.
Right(f) ==
  \E p \in dist :
    /\ {q \in dist : q.format = f /\ q.release = use.release} \subseteq {p}
    /\ p.format = f
    /\ p.release = use.release \/ (f = "rpm" /\ IsPrefix(use.release, p.release))
    /\ p.target = use.target \/ SameLabel(p) \/ Foreign(p)

\* After a green validation there is one package of each format to be taken for
\* the one that was asked for: of its release, but for the longer release of an
\* RPM package, and of its target, but for one of the same architecture or of
\* an architecture that is not the host's, which is not looked at.
RightPackage == pc = "validated" => \A f \in ToSet(use.formats) : Right(f)

Established(f, what, path) ==
  \E x \in facts : x.format = f /\ x.what = what /\ x.path = path

\* The isolations under which a session can run, and what one has established.
Modes == IF knows THEN Isolations \ denied ELSE {"none"}
Earned(f) ==
  /\ \A x \in ToSet(Expected(use)) : Established(f, "payload", x)
  /\ \/ \E p \in Located(f) : Foreign(p)
     \/ /\ Established(f, "installed", Bin)
        /\ \A x \in ToSet(Expected(use)) \cup ToSet(use.executables) : Established(f, "exists", x)
        /\ \A x \in ToSet(Executables(use)) : Established(f, "executable", x)
        /\ use.verify => Established(f, "verified", Bin)
        /\ \E m \in Modes :
             \A x \in facts : x.format = f /\ x.what # "payload" => x.mode = m

\* A green validation has seen all it says for every format: each path in the
\* package, and unless the architecture is foreign each path in place, each
\* executable executable and the command run, in one session under one isolation
\* that the runner permits.
SuccessIsEarned == pc = "validated" => \A f \in ToSet(use.formats) : Earned(f)

\* Where polythene_rootfs has a root file system that it has not given up.
Rooted == {"start", "install", "describe", "exist", "executable", "verify", "remove"}

\* However a session ends, its root file system is gone from the user's store when
\* it is over: what is there then, polythene failed to name, to start or to remove.
NothingLeftBehind == pc \notin Rooted => rootfs <= excused
=============================================================================
