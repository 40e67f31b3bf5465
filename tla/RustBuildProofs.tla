-------------------------- MODULE RustBuildProofs --------------------------
(* What holds of every job that uses rust-build-release, for any targets,    *)
(* projects, toolchains and number of uses.                                  *)
EXTENDS RustBuild, WellFoundedInduction, SequenceTheorems, FiniteSetTheorems, TLAPS

-----------------------------------------------------------------------------
(* Toolchain names. *)

\* rustup's list has a first among any of the names on it.
LEMMA FirstIsOne ==
  ASSUME NEW S, S \subseteq Names, S # {}
  PROVE  First(S) \in S
<1> DEFINE places == {i \in DOMAIN Order : Order[i] \in S}
<1>1. DOMAIN Order = 1..Len(Order) /\ Len(Order) \in Nat
  BY ToolchainAssumption
<1>2. places # {} /\ places \subseteq Nat
  BY <1>1 DEF Names, ToSet
<1>3. PICK i \in places : \A j \in places : <<j, i>> \notin OpToRel(<, Nat)
  BY <1>2, WFMin, NatLessThanWellFounded
<1> HIDE DEF places
<1>4. \A j \in places : ~(j < i)
  BY <1>2, <1>3 DEF OpToRel
<1>5. \A j \in places : i <= j
  BY <1>2, <1>4
<1>6. Min(places) \in places
  BY <1>5 DEF Min
<1> QED BY <1>6 DEF First, places

\* A name extends itself, and is extended by itself with another part.
LEMMA Extends ==
  ASSUME NEW tc \in Seq(STRING), NEW t \in STRING
  PROVE  IsPrefix(tc, tc) /\ IsPrefix(tc, Append(tc, t))
<1>1. Len(tc) \in Nat /\ Len(Append(tc, t)) = Len(tc) + 1
  BY LenProperties, AppendProperties
<1>2. SubSeq(Append(tc, t), 1, Len(tc)) = SubSeq(tc, 1, Len(tc))
  BY <1>1, AppendProperties
<1> QED BY <1>1, <1>2 DEF IsPrefix
-----------------------------------------------------------------------------
(* The inductive invariant. *)

Selected == {"target", "linkers", "cross", "release", "install", "probe", "decide",
             "build", "uncontained"}
Determined == {"flags", "setup", "prepare", "download", "configure", "main", "resolve"}
                \cup Selected
Started == {"toolchain", "stage"} \cup Determined
Asked == ForRunner(platform, Requested(project, use.request), Target)

\* What the invariant needs of the types of the variables.
Typed ==
  /\ platform \in Platforms /\ project \in Projects
  /\ uses \in Nat /\ first \in BOOLEAN
  /\ use.request \in Requests \cup {<<>>} /\ use.rustflags \in BOOLEAN
  /\ toolchains \subseteq Names
  /\ found \subseteq Engines /\ engine \in {"none"} \cup Engines
  /\ pc \in Started \cup {"idle", "failed"}

\* A use has a target, and has determined and selected its toolchain once it is
\* past these steps.
Named ==
  /\ pc \in Started => Target \in Targets
  /\ pc \in Determined => wanted = Asked
  /\ pc \in Selected => IsPrefix(Asked, used)

\* Nothing is built before the decision, which stands until the retry.
Allowed ==
  /\ pc \in (Started \cup {"idle"}) \ {"uncontained", "stage"} => runs = <<>>
  /\ pc \in {"build", "uncontained"} => MayBuild
  /\ pc = "uncontained" => UseCross /\ runs = <<CrossCommand>>

\* RUSTFLAGS is settled by what the job inherited, or else in its first use.
Settled == IF inherited # "unset" THEN inherited ELSE IF first THEN "caller" ELSE "warnings"
FlagsSettled ==
  /\ uses = 0 => pc = "idle" /\ flags = inherited
  /\ uses = 1 => first = use.rustflags
  /\ uses > 0 /\ pc # "failed" =>
       flags = IF inherited # "unset" THEN inherited
               ELSE IF uses = 1 /\ pc \in {"toolchain", "flags"} THEN "unset"
               ELSE IF uses = 1 /\ pc = "setup" /\ ~first THEN "unset"
               ELSE Settled

Correct == /\ ContainedOrNotAtAll /\ SupportedOrContained
           /\ RequestedToolchain /\ FlagsReachTheBuild

IInv == Typed /\ Named /\ Allowed /\ FlagsSettled /\ Correct

-----------------------------------------------------------------------------
(* What keeps the parts of it. *)

\* The properties speak of the commands of a use, which most steps leave alone.
LEMMA SameCommands ==
  ASSUME Correct, UNCHANGED <<job, use, first, runs>>
  PROVE  Correct'
BY DEF Correct, ContainedOrNotAtAll, SupportedOrContained, RequestedToolchain,
       FlagsReachTheBuild, Ran, Contained, HostTarget, Target, job

LEMMA NoCommands ==
  ASSUME runs' = <<>>
  PROVE  Correct'
BY DEF Correct, ContainedOrNotAtAll, SupportedOrContained, RequestedToolchain,
       FlagsReachTheBuild, Ran

\* What is asked for stays within a use, and the toolchain it names is a
\* sequence that rustup installs under a known name.
LEMMA SameRequest ==
  ASSUME UNCHANGED <<job, use>>
  PROVE  Asked' = Asked
BY DEF Asked, Target, job

LEMMA AskedTyped ==
  ASSUME Typed, Target \in Targets
  PROVE  Asked \in Seq(STRING) /\ Installs(platform, Asked) \in Names
BY ToolchainAssumption DEF Typed, Asked

\* RUSTFLAGS is not touched after setup-rust.
LEMMA SameFlags ==
  ASSUME FlagsSettled, UNCHANGED <<job, use, uses, first, flags>>, Typed,
         pc \notin {"idle", "toolchain", "flags", "setup", "failed"},
         pc' \notin {"toolchain", "flags", "setup"}
  PROVE  FlagsSettled'
BY DEF FlagsSettled, Settled, Typed, job

\* The decision depends on nothing that a step of main changes afterwards.
LEMMA SameDecision ==
  ASSUME UNCHANGED <<job, use, nodocker, cross, supported, found>>
  PROVE  MayBuild' = MayBuild /\ UseCross' = UseCross
BY DEF MayBuild, UseCross, LocalBackend, RequiresContainer, HostTarget, Target, Win32, job

-----------------------------------------------------------------------------
(* It is invariant. *)

LEMMA InitIInv == Init => IInv
<1> SUFFICES ASSUME Init PROVE IInv
  OBVIOUS
<1>1. Typed
  BY ToolchainAssumption DEF Init, Typed, Engines, Started
<1>2. Named /\ Allowed /\ FlagsSettled
  BY DEF Init, Named, Allowed, FlagsSettled, Started, Determined, Selected, Target
<1>3. Correct
  BY DEF Init, Correct, ContainedOrNotAtAll, SupportedOrContained, RequestedToolchain,
         FlagsReachTheBuild, Ran
<1> QED BY <1>1, <1>2, <1>3 DEF IInv

\* The steps of action.yml and of setup_gnullvm.py build nothing.
LEMMA SetupStep ==
  ASSUME IInv,
         \/ Invoke \/ Determine \/ ExportRustflags \/ SetupRust
         \/ Prepare \/ Download \/ Configure
  PROVE  IInv'
<1>1. runs' = <<>>
  BY DEF IInv, Allowed, Started, Determined, Selected, Invoke, Determine, ExportRustflags,
         SetupRust, Prepare, Download, Configure, local, history
<1>2. Correct'
  BY <1>1, NoCommands
<1>3. Allowed' \/ pc' \in {"build", "uncontained"}
  BY <1>1 DEF Allowed
<1>4. pc' \notin {"build", "uncontained", "stage"}
  BY DEF Invoke, Determine, ExportRustflags, SetupRust, Prepare, Download, Configure
<1>5. CASE Invoke
  <2>1. Typed'
    BY <1>5 DEF Invoke, IInv, Typed, job, disk, local, Started, Determined
  <2>2. Named' /\ FlagsSettled'
    BY <1>5, TargetsAssumption DEF Invoke, IInv, Typed, Named, FlagsSettled, Settled, Started,
       Determined, Selected, Target, job, env, WellFormed
  <2> QED BY <1>2, <1>3, <1>4, <2>1, <2>2 DEF IInv
<1>6. CASE Determine
  <2>1. Typed'
    BY <1>6 DEF Determine, IInv, Typed, job, disk, local, history, Started, Determined
  <2>2. Named'
    BY <1>6, SameRequest DEF Determine, IInv, Named, Asked, Started, Determined, Selected,
       Target, job
  <2>3. FlagsSettled'
    BY <1>6 DEF Determine, IInv, FlagsSettled, Settled, job, history
  <2> QED BY <1>2, <1>3, <1>4, <2>1, <2>2, <2>3 DEF IInv
<1>7. CASE ExportRustflags
  <2>1. Typed'
    BY <1>7 DEF ExportRustflags, IInv, Typed, job, disk, local, history, Started, Determined
  <2>2. Named'
    BY <1>7, SameRequest DEF ExportRustflags, IInv, Named, Started, Determined, Selected, Target
  <2>3. FlagsSettled'
    BY <1>7 DEF ExportRustflags, IInv, Typed, FlagsSettled, Settled, job, history
  <2> QED BY <1>2, <1>3, <1>4, <2>1, <2>2, <2>3 DEF IInv
<1>8. CASE SetupRust
  <2>1. Typed'
    <3>1. wanted = Asked /\ Target \in Targets
      BY <1>8 DEF SetupRust, IInv, Named, Started, Determined
    <3> QED BY <1>8, <3>1, AskedTyped DEF SetupRust, IInv, Typed, job, local, history, Started,
               Determined
  <2>2. Named'
    BY <1>8, SameRequest DEF SetupRust, IInv, Named, Started, Determined, Selected, Target
  <2>3. FlagsSettled'
    BY <1>8 DEF SetupRust, IInv, Typed, FlagsSettled, Settled, job, history
  <2> QED BY <1>2, <1>3, <1>4, <2>1, <2>2, <2>3 DEF IInv
<1>9. CASE Prepare \/ Download \/ Configure
  <2>1. Typed'
    BY <1>9 DEF Prepare, Download, Configure, IInv, Typed, job, disk, local, history, Started,
       Determined
  <2>2. Named'
    BY <1>9, SameRequest DEF Prepare, Download, Configure, IInv, Named, Started, Determined,
       Selected, Target, env
  <2>3. FlagsSettled'
    BY <1>9, SameFlags DEF Prepare, Download, Configure, IInv, history, env
  <2> QED BY <1>2, <1>3, <1>4, <2>1, <2>2, <2>3 DEF IInv
<1> QED BY <1>5, <1>6, <1>7, <1>8, <1>9

\* The toolchain that main.py takes is one of those it was asked for.
LEMMA ResolvedExtends ==
  ASSUME Typed, NEW tc \in Seq(STRING), NEW t \in STRING, Matching(tc) # {}
  PROVE  IsPrefix(tc, ResolveToolchainName(tc, t))
<1>1. CASE Preferred(tc, t) # {}
  <2>1. First(Preferred(tc, t)) \in {tc, Append(tc, t)}
    BY <1>1, FirstIsOne DEF Preferred, Typed
  <2> QED BY <1>1, <2>1, Extends DEF ResolveToolchainName
<1>2. CASE Preferred(tc, t) = {}
  <2>1. First(Matching(tc)) \in Matching(tc)
    BY FirstIsOne DEF Matching, Typed
  <2> QED BY <1>2, <2>1 DEF ResolveToolchainName, Matching
<1> QED BY <1>1, <1>2

\* The steps of main.py before the build.
LEMMA MainStep ==
  ASSUME IInv,
         \/ Begin \/ ResolveToolchain \/ InstallToolchain \/ AddTarget \/ ConfigureLinkers
         \/ EnsureCross \/ InstallRelease \/ InstallCross \/ Probe \/ Decide
  PROVE  IInv'
<1>1. /\ UNCHANGED <<job, uses, use, env, history>>
      /\ pc \in Determined \ {"flags", "setup", "uncontained", "build"}
      /\ pc' \in {"failed"} \cup (Determined \ {"flags", "setup", "uncontained"})
      /\ pc' \in Selected => pc \in Selected \/ ResolveToolchain
      /\ pc' = "build" => MayBuild /\ Decide
  BY DEF Begin, ResolveToolchain, InstallToolchain, AddTarget, ConfigureLinkers, EnsureCross,
         InstallRelease, InstallCross, Probe, Decide, ToMain, LookedUp, Determined, Selected
<1>2. runs = <<>> /\ runs' = <<>>
  <2>1. runs = <<>>
    BY <1>1 DEF IInv, Allowed, Determined, Selected, Started
  <2> QED BY <2>1 DEF Begin, ResolveToolchain, InstallToolchain, AddTarget, ConfigureLinkers,
             EnsureCross, InstallRelease, InstallCross, Probe, Decide, local
<1>3. Correct'
  BY <1>2, NoCommands
<1>4. wanted = Asked /\ Target \in Targets /\ Asked' = Asked
  BY <1>1, SameRequest DEF IInv, Named, Started
<1>5. FlagsSettled'
  BY <1>1, SameFlags DEF IInv, Determined, Selected, env, history
<1>6. Typed'
  <2>1. toolchains' \subseteq Names
    BY <1>4, AskedTyped DEF IInv, Typed, Begin, ResolveToolchain, InstallToolchain, AddTarget,
       ConfigureLinkers, EnsureCross, InstallRelease, InstallCross, Probe, Decide, LookedUp
  <2>2. found' \subseteq Engines /\ engine' = engine
    BY DEF IInv, Typed, Begin, ResolveToolchain, InstallToolchain, AddTarget,
       ConfigureLinkers, EnsureCross, InstallRelease, InstallCross, Probe, Decide, local
  <2> QED BY <1>1, <2>1, <2>2 DEF IInv, Typed, job, history, Started
<1>7. Named'
  <2>1. CASE ResolveToolchain
    BY <1>1, <1>4, <2>1, ResolvedExtends, AskedTyped, TargetsAssumption
       DEF ResolveToolchain, IInv, Named, env, Target, Started
  <2>2. CASE ~ResolveToolchain
    <3>1. pc' \in Selected => used' = used
      BY <2>2, <1>1 DEF Begin, InstallToolchain, AddTarget, ConfigureLinkers, EnsureCross,
         InstallRelease, InstallCross, Probe, Decide, local, ToMain, Selected
    <3> QED BY <1>1, <1>4, <2>2, <3>1 DEF IInv, Named, env, Target, Started
  <2> QED BY <2>1, <2>2
<1>8. Allowed'
  <2>1. CASE Decide
    BY <1>1, <1>2, <2>1, SameDecision DEF Decide, Allowed, Determined, Selected, env, local
  <2>2. CASE ~Decide
    BY <1>1, <1>2, <2>2 DEF Allowed, Determined, Selected
  <2> QED BY <2>1, <2>2
<1> QED BY <1>3, <1>5, <1>6, <1>7, <1>8 DEF IInv

\* Each build command is one that the decision allows.
LEMMA BuildStep ==
  ASSUME IInv, RunBuild \/ HandleCrossContainerError
  PROVE  IInv'
<1>1. /\ UNCHANGED <<job, uses, use, env, history, used, supported, found, engine, cross, toolchains>>
      /\ pc \in {"build", "uncontained"} /\ pc' \in {"stage", "failed", "uncontained"}
      /\ pc' = "uncontained" => UseCross /\ RunBuild
  BY DEF RunBuild, HandleCrossContainerError, ToMain, local
<1>2. MayBuild /\ wanted = Asked /\ IsPrefix(Asked, used) /\ Asked' = Asked /\ Target \in Targets
  BY <1>1, SameRequest DEF IInv, Named, Allowed, Determined, Selected, Started
<1>3. flags = Settled
  BY <1>1 DEF IInv, Typed, FlagsSettled, Settled
<1>4. Typed' /\ Named' /\ FlagsSettled'
  <2>1. Typed'
    BY <1>1 DEF IInv, Typed, job, history, Started, Determined, Selected
  <2>2. Named'
    BY <1>1, <1>2 DEF Named, env, Target, Determined, Selected, Started
  <2>3. FlagsSettled'
    BY <1>1, SameFlags DEF IInv, env, history
  <2> QED BY <2>1, <2>2, <2>3
<1>5. Allowed'
  <2>1. pc' = "uncontained" => runs' = <<CrossCommand>> /\ CrossCommand' = CrossCommand
    BY <1>1 DEF RunBuild, CrossCommand, Command, LocalBackend, EngineFor, ContainerEngine, Target,
       Win32, job, env
  <2> QED BY <1>1, <1>2, <2>1, SameDecision DEF Allowed, env, Started, Determined, Selected
\* The commands there are.
<1>6. \/ runs' = <<CargoCommand>> /\ ~UseCross
      \/ runs' = <<CrossCommand>> /\ UseCross
      \/ /\ runs' = <<CrossCommand, CargoCommand>> /\ UseCross
         /\ ~RequiresContainer \/ LocalBackend
  <2>1. CASE RunBuild
    BY <2>1 DEF RunBuild
  <2>2. CASE HandleCrossContainerError
    <3>1. runs = <<CrossCommand>> /\ UseCross
      BY <2>2 DEF HandleCrossContainerError, IInv, Allowed
    <3> QED BY <2>2, <3>1 DEF HandleCrossContainerError
  <2> QED BY <2>1, <2>2
<1>7. /\ Ran' \subseteq {CargoCommand, CrossCommand}
      /\ CargoCommand \in Ran' => ~UseCross \/ ~RequiresContainer \/ LocalBackend
      /\ CrossCommand \in Ran' => UseCross
  <2>1. CargoCommand # CrossCommand
    <3>1. CargoCommand.by = "cargo" /\ CrossCommand.by = "cross"
      BY DEF CargoCommand, CrossCommand, Command
    <3> QED BY <3>1
  <2> QED BY <1>6, <2>1 DEF Ran
<1>8. \A r \in {CargoCommand, CrossCommand} :
        /\ r.target = Target /\ r.toolchain = used /\ r.flags = flags /\ r.supported = supported
  BY DEF CargoCommand, CrossCommand, Command
<1>9. UseCross /\ ~LocalBackend => Contained(CrossCommand)
  BY DEF CrossCommand, Command, Contained, UseCross, EngineFor, ContainerEngine, IInv, Typed,
     Engines
<1>10. HostTarget' = HostTarget /\ Target' = Target /\ Settled' = Settled
  BY <1>1 DEF HostTarget, Target, Settled, job, history
<1>11. ContainedOrNotAtAll'
  <2>1. ASSUME NEW r \in Ran', BsdSuffix[r.target] \notin {"none", BsdSuffix[HostTarget]}
        PROVE  Contained(r)
    <3>1. RequiresContainer
      BY <1>7, <1>8, <2>1 DEF RequiresContainer
    <3>2. UseCross /\ ~LocalBackend
      BY <1>2, <3>1 DEF MayBuild
    <3> QED BY <1>7, <1>9, <2>1, <3>1, <3>2
  <2> QED BY <1>10, <2>1 DEF ContainedOrNotAtAll, Contained
<1>12. SupportedOrContained'
  <2>1. ASSUME NEW i \in DOMAIN runs'
        PROVE  runs'[i].supported \/ Contained(runs'[i]) \/ (i = 2 /\ Contained(runs'[1]))
    <3>1. supported \/ (UseCross /\ ~LocalBackend /\ Contained(CrossCommand))
      BY <1>2, <1>9 DEF MayBuild
    <3>2. runs'[i].supported = supported
      BY <1>6, <1>8
    <3>3. CASE UseCross /\ Contained(CrossCommand)
      BY <1>6, <3>3
    <3> QED BY <3>1, <3>2, <3>3
  <2> QED BY <2>1 DEF SupportedOrContained, Contained
<1>13. RequestedToolchain'
  <2>1. ASSUME NEW r \in Ran'
        PROVE  IsPrefix(ForRunner(platform', Requested(project', use'.request), r.target), r.toolchain)
    BY <1>1, <1>2, <1>7, <1>8 DEF Asked, job
  <2> QED BY <2>1 DEF RequestedToolchain
<1>14. FlagsReachTheBuild'
  BY <1>3, <1>7, <1>8, <1>10 DEF FlagsReachTheBuild, Settled
<1> QED BY <1>4, <1>5, <1>11, <1>12, <1>13, <1>14 DEF IInv, Correct

\* Stage ends the use, and its commands with it.
LEMMA StageStep ==
  ASSUME IInv, Stage
  PROVE  IInv'
<1>1. /\ UNCHANGED <<job, uses, use, env, history, engine, toolchains>>
      /\ pc = "stage" /\ pc' \in {"idle", "failed"}
      /\ (pc' = "idle" /\ runs' = <<>> /\ found' = {}) \/ (pc' = "failed" /\ UNCHANGED <<runs, found>>)
  BY DEF Stage, ToMain, Fresh
<1>2. Typed' /\ Named' /\ Allowed'
  BY <1>1 DEF IInv, Typed, Named, Allowed, job, history, Started, Determined, Selected
<1>3. FlagsSettled'
  BY <1>1, SameFlags DEF IInv, env, history
<1>4. Correct'
  BY <1>1, SameCommands, NoCommands DEF IInv, history
<1> QED BY <1>2, <1>3, <1>4 DEF IInv

LEMMA StutterStep ==
  ASSUME IInv, UNCHANGED vars
  PROVE  IInv'
<1> USE DEF vars, job, env, disk, local, history
<1>1. Typed' /\ Named' /\ FlagsSettled'
  BY SameRequest DEF IInv, Typed, Named, FlagsSettled, Settled, Target
<1>2. Allowed'
  BY SameDecision DEF IInv, Allowed, CrossCommand, Command, LocalBackend, EngineFor,
     ContainerEngine, Target, Win32
<1>3. Correct'
  BY SameCommands DEF IInv
<1> QED BY <1>1, <1>2, <1>3 DEF IInv

\* The invariant holds at every point of every job.
THEOREM Invariance == Spec => []IInv
<1>1. ASSUME IInv, [Next]_vars PROVE IInv'
  BY <1>1, SetupStep, MainStep, BuildStep, StageStep, StutterStep DEF Next, Main
<1> QED BY <1>1, InitIInv, PTL DEF Spec

-----------------------------------------------------------------------------
(* What follows. *)

\* A target that requires a container is built in one or not at all, whatever
\* engines answer, fail or were configured, and whatever uses came before.
THEOREM Containment == Spec => []ContainedOrNotAtAll
BY Invariance, PTL DEF IInv, Correct

\* No build starts for a target rustup has not added, but in a container or
\* after one that failed to start.
THEOREM Support == Spec => []SupportedOrContained
BY Invariance, PTL DEF IInv, Correct

\* Every command is given a toolchain of the channel its use asked for, for any
\* list of toolchains that earlier uses and the image have left.
THEOREM Toolchain == Spec => []RequestedToolchain
BY Invariance, PTL DEF IInv, Correct

\* All builds of a job see the RUSTFLAGS that were settled first.
THEOREM OneRustflags == Spec => []FlagsReachTheBuild
BY Invariance, PTL DEF IInv, Correct

-----------------------------------------------------------------------------
(* The tables of config.toml. *)

InProject(t) == \E i \in DOMAIN project.config : project.config[i].target = t
Two(t) == \E i, j \in DOMAIN config : i # j /\ config[i].target = t /\ config[j].target = t
Cutters(t) == GnullvmTargets \ {t}

\* Every table is at its place; one of a target at most has its header; one
\* without, that is not the project's, lost it to a table that was written
\* before it and again after it; and two of one target are there for a reason.
Placed ==
  /\ written \in Seq(Targets) /\ DOMAIN config \subseteq DOMAIN written
  /\ \A i \in DOMAIN config : /\ config[i] \in [target : Targets, header : BOOLEAN]
                              /\ config[i].target = written[i]
  /\ \A i \in DOMAIN project.config :
       i \in DOMAIN written /\ written[i] = project.config[i].target
Generated == \A i, j \in DOMAIN config : config[i] = config[j] /\ config[i].header => i = j
Shorn ==
  \A b \in DOMAIN config \ DOMAIN project.config :
    ~config[b].header => \E s \in Cutters(config[b].target) : \E a, c \in DOMAIN written :
                           /\ a < b /\ b < c /\ written[a] = s /\ written[c] = s
Justified == \A t : Two(t) => InProject(t) \/ \E s \in Cutters(t) : Alternates(s, t)
Preparing == pc \in {"prepare", "download", "configure"} => Target \in GnullvmTargets

Tabled == Placed /\ Generated /\ Shorn /\ Justified /\ Preparing

\* More than one table are two.
LEMMA TwoTables ==
  ASSUME NEW t, Tables(t) > 1
  PROVE  Two(t)
<1> DEFINE S == {i \in DOMAIN config : config[i].target = t}
<1>1. Cardinality(S) > 1
  BY DEF Tables
<1>2. S # {}
  BY <1>1, FS_EmptySet
<1>3. PICK x \in S : TRUE
  BY <1>2
<1>4. S # {x}
  <2>1. Cardinality({x}) = 1
    BY FS_Singleton
  <2> QED BY <1>1, <2>1
<1> QED BY <1>3, <1>4 DEF Two

\* The project's tables are in their places to begin with.
LEMMA InitTabled == Init => Tabled
<1> SUFFICES ASSUME Init PROVE Tabled
  OBVIOUS
<1> DEFINE c == project.config
<1>1. /\ c \in Seq([target : Targets, header : BOOLEAN]) /\ config = c
      /\ \A h, i \in DOMAIN c : c[h] = c[i] /\ c[h].header => h = i
      /\ written = [i \in DOMAIN c |-> c[i].target] /\ pc = "idle"
  BY ProjectsAssumption DEF Init
<1>2. /\ Len(c) \in Nat /\ DOMAIN c = 1 .. Len(c)
      /\ \A i \in DOMAIN c : c[i] \in [target : Targets, header : BOOLEAN]
  BY <1>1, LenProperties, ElementOfSeq
<1> HIDE DEF c
<1>3. written \in Seq(Targets)
  <2>1. written \in [1 .. Len(c) -> Targets]
    BY <1>1, <1>2
  <2> QED BY <1>2, <2>1, SeqDef
<1>4. Placed /\ Generated /\ Preparing
  BY <1>1, <1>2, <1>3 DEF Placed, Generated, Preparing, c
<1>5. Shorn /\ Justified
  BY <1>1 DEF Shorn, Justified, Two, InProject, c
<1> QED BY <1>4, <1>5 DEF Tabled

\* Configuring a target cuts its table, and the header of the one that follows.
LEMMA ConfigureTabled ==
  ASSUME Tabled, Configure
  PROVE  Tabled'
<1> DEFINE t == Target
           e == Len(written) + 1
           cut == {i \in DOMAIN config : config[i] = Stanza(t)}
           follows(k, i) == k < i /\ \A m \in DOMAIN config : ~(k < m /\ m < i)
           rest == [i \in DOMAIN config \ cut |->
                      IF \E k \in cut : follows(k, i)
                      THEN [config[i] EXCEPT !.header = FALSE] ELSE config[i]]
<1>1. /\ config' = At(rest, e, Stanza(t)) /\ written' = Append(written, t)
      /\ project' = project /\ t \in GnullvmTargets /\ t \in Targets /\ pc' = "main"
  BY TargetsAssumption
     DEF Configure, WriteTargetConfig, End, Tabled, Preparing, WindowsTargets, job
<1>2. /\ written \in Seq(Targets) /\ DOMAIN config \subseteq DOMAIN written
      /\ \A i \in DOMAIN config : /\ config[i] \in [target : Targets, header : BOOLEAN]
                                  /\ config[i].target = written[i]
      /\ \A i \in DOMAIN project.config :
           i \in DOMAIN written /\ written[i] = project.config[i].target
  BY DEF Tabled, Placed
<1>3. /\ Len(written) \in Nat /\ DOMAIN written = 1 .. Len(written)
      /\ written' \in Seq(Targets) /\ DOMAIN written' = 1 .. e /\ written'[e] = t
      /\ \A i \in DOMAIN written : i \in DOMAIN written' /\ i < e /\ written'[i] = written[i]
  <2>1. Len(written) \in Nat /\ DOMAIN written = 1 .. Len(written)
    BY <1>2, LenProperties
  <2>2. /\ Append(written, t) \in Seq(Targets) /\ Len(Append(written, t)) = e
        /\ \A i \in 1 .. Len(written) : Append(written, t)[i] = written[i]
        /\ Append(written, t)[e] = t
    BY <1>1, <1>2, AppendProperties
  <2>3. DOMAIN Append(written, t) = 1 .. e
    BY <2>2, LenProperties
  <2> QED BY <1>1, <2>1, <2>2, <2>3
<1>4. /\ DOMAIN config' = (DOMAIN config \ cut) \cup {e} /\ config'[e] = Stanza(t)
      /\ \A i \in DOMAIN config \ cut : config'[i] = rest[i] /\ i # e
      /\ \A i \in DOMAIN config \ cut : rest[i] = IF \E k \in cut : follows(k, i)
                                          THEN [config[i] EXCEPT !.header = FALSE] ELSE config[i]
  <2>1. e \notin DOMAIN config
    BY <1>2, <1>3
  <2>2. DOMAIN rest = DOMAIN config \ cut
    OBVIOUS
  <2> HIDE DEF rest
  <2>3. /\ DOMAIN config' = (DOMAIN config \ cut) \cup {e} /\ config'[e] = Stanza(t)
        /\ \A i \in DOMAIN config \ cut : config'[i] = rest[i] /\ i # e
    BY <1>1, <2>1, <2>2 DEF At
  <2> QED BY <2>3 DEF rest
<1>5. Stanza(t) = [target |-> t, header |-> TRUE]
  BY DEF Stanza
<1> HIDE DEF rest, t, e, cut, follows
\* What the tables that are left were, and are.
<1>6. ASSUME NEW i \in DOMAIN config \ cut
      PROVE  /\ config[i] # Stanza(t)
             /\ config'[i] \in [target : Targets, header : BOOLEAN]
             /\ config'[i].target = config[i].target
             /\ config'[i].header => config'[i] = config[i]
             /\ ~config'[i].header => ~config[i].header \/ \E k \in cut : follows(k, i)
  <2>1. config[i] \in [target : Targets, header : BOOLEAN] /\ config[i] # Stanza(t)
    BY <1>2, <1>6 DEF cut
  <2>2. CASE \E k \in cut : follows(k, i)
    <3>1. config'[i] = [config[i] EXCEPT !.header = FALSE]
      BY <1>4, <1>6, <2>2
    <3> QED BY <2>1, <2>2, <3>1
  <2>3. CASE ~\E k \in cut : follows(k, i)
    <3>1. config'[i] = config[i]
      BY <1>4, <1>6, <2>3
    <3> QED BY <2>1, <3>1
  <2> QED BY <2>2, <2>3
<1>7. Placed'
  <2>1. /\ config'[e] \in [target : Targets, header : BOOLEAN]
        /\ config'[e].target = written'[e] /\ e \in DOMAIN written'
    <3>1. e \in DOMAIN written'
      BY <1>3 DEF e
    <3>2. config'[e] = [target |-> t, header |-> TRUE]
      BY <1>4, <1>5
    <3> QED BY <1>1, <1>3, <3>1, <3>2
  <2>2. ASSUME NEW i \in DOMAIN config \ cut
        PROVE  /\ config'[i] \in [target : Targets, header : BOOLEAN]
               /\ config'[i].target = written'[i] /\ i \in DOMAIN written'
    <3>1. i \in DOMAIN written /\ config[i].target = written[i]
      BY <1>2
    <3>2. config'[i] \in [target : Targets, header : BOOLEAN] /\ config'[i].target = config[i].target
      BY <1>6
    <3> QED BY <1>3, <3>1, <3>2
  <2>3. \A i \in DOMAIN config' : /\ config'[i] \in [target : Targets, header : BOOLEAN]
                                  /\ config'[i].target = written'[i] /\ i \in DOMAIN written'
    BY <1>4, <2>1, <2>2
  <2> QED BY <1>1, <1>2, <1>3, <2>3 DEF Placed
<1>8. Generated'
  <2>1. ASSUME NEW i \in DOMAIN config', NEW j \in DOMAIN config',
               config'[i] = config'[j], config'[i].header
        PROVE  i = j
    <3>1. CASE i = e \/ j = e
      <4>1. ASSUME NEW k \in DOMAIN config \ cut, config'[k] = Stanza(t)
            PROVE  FALSE
        BY <1>5, <1>6, <4>1
      <4> QED BY <1>4, <2>1, <3>1, <4>1
    <3>2. CASE i # e /\ j # e
      <4>1. config'[i] = config[i] /\ config'[j] = config[j]
        BY <1>4, <1>6, <2>1, <3>2
      <4> QED BY <1>4, <2>1, <3>2, <4>1 DEF Tabled, Generated
    <3> QED BY <3>1, <3>2
  <2> QED BY <2>1 DEF Generated
<1>9. Shorn'
  <2> SUFFICES ASSUME NEW b \in DOMAIN config' \ DOMAIN project'.config, ~config'[b].header
               PROVE  \E s \in Cutters(config'[b].target) : \E a, c \in DOMAIN written' :
                        /\ a < b /\ b < c /\ written'[a] = s /\ written'[c] = s
    BY DEF Shorn, Cutters
  <2>1. b \in DOMAIN config \ cut /\ config'[b].target = config[b].target
        /\ b \notin DOMAIN project.config
    <3>1. b # e
      BY <1>4, <1>5
    <3>2. b \in DOMAIN config \ cut
      BY <1>4, <3>1
    <3> QED BY <1>1, <1>6, <3>2
  <2>2. CASE ~config[b].header
    <3>1. PICK s \in Cutters(config[b].target), a \in DOMAIN written, c \in DOMAIN written :
            /\ a < b /\ b < c /\ written[a] = s /\ written[c] = s
      BY <2>1, <2>2 DEF Tabled, Shorn
    <3> QED BY <1>3, <2>1, <3>1
  <2>3. CASE config[b].header
    <3>1. PICK k \in cut : follows(k, b)
      BY <1>6, <2>1, <2>3
    <3>2. k \in DOMAIN config /\ config[k] = Stanza(t) /\ k < b
      BY <3>1 DEF cut, follows
    <3>3. config[b].target # t
      <4>1. config[b] \in [target : Targets, header : BOOLEAN] /\ config[b] # Stanza(t)
        BY <1>2, <1>6, <2>1
      <4> QED BY <1>5, <2>3, <4>1
    <3>4. k \in DOMAIN written /\ written[k] = t
      BY <1>2, <1>5, <3>2
    <3>5. b < e /\ e \in DOMAIN written'
      BY <1>2, <1>3, <2>1 DEF e
    <3> QED BY <1>1, <1>3, <2>1, <3>2, <3>3, <3>4, <3>5 DEF Cutters
  <2> QED BY <2>2, <2>3
<1>10. Justified'
  <2> SUFFICES ASSUME NEW u, Two(u)', ~InProject(u)
               PROVE  \E s \in Cutters(u) : Alternates(s, u)'
    BY <1>1 DEF Justified, InProject, Cutters
  <2>1. \A s : Alternates(s, u) => Alternates(s, u)'
    BY <1>3 DEF Alternates
  <2>2. CASE \E i \in DOMAIN config \ cut : u = t /\ config[i].target = t
    <3>1. PICK b \in DOMAIN config \ cut : u = t /\ config[b].target = t
      BY <2>2
    <3>2. ~config[b].header
      <4>1. config[b] \in [target : Targets, header : BOOLEAN] /\ config[b] # Stanza(t)
        BY <1>2, <1>6
      <4> QED BY <1>5, <3>1, <4>1
    <3>3. b \notin DOMAIN project.config /\ b \in DOMAIN written /\ written[b] = t
      BY <1>2, <3>1 DEF InProject
    <3>4. PICK s \in Cutters(t), a \in DOMAIN written, c \in DOMAIN written :
            /\ a < b /\ b < c /\ written[a] = s /\ written[c] = s
      BY <3>1, <3>2, <3>3 DEF Tabled, Shorn
    <3>5. e \in DOMAIN written'
      BY <1>3 DEF e
    <3>6. /\ a \in DOMAIN written' /\ b \in DOMAIN written' /\ c \in DOMAIN written'
          /\ written'[a] = s /\ written'[b] = u /\ written'[c] = s /\ written'[e] = u
          /\ a < b /\ b < c /\ c < e
      BY <1>3, <3>1, <3>3, <3>4
    <3>7. Alternates(s, u)'
      BY <3>5, <3>6 DEF Alternates
    <3>8. s \in Cutters(u)
      BY <3>1, <3>4
    <3> QED BY <3>7, <3>8
  <2>3. CASE ~\E i \in DOMAIN config \ cut : u = t /\ config[i].target = t
    <3>1. PICK i \in DOMAIN config', j \in DOMAIN config' :
            i # j /\ config'[i].target = u /\ config'[j].target = u
      BY DEF Two
    <3>2. i # e /\ j # e
      BY <1>4, <1>5, <1>6, <2>3, <3>1
    <3>3. Two(u)
      BY <1>4, <1>6, <3>1, <3>2 DEF Two
    <3> QED BY <2>1, <3>3 DEF Tabled, Justified
  <2> QED BY <2>2, <2>3
<1> QED BY <1>1, <1>7, <1>8, <1>9, <1>10 DEF Tabled, Preparing

\* No other step writes the file.
LEMMA TabledStep == Tabled /\ [Next]_vars => Tabled'
<1> SUFFICES ASSUME Tabled, [Next]_vars, ~Configure PROVE Tabled'
  BY ConfigureTabled
<1>1. UNCHANGED <<project, config, written>>
  BY DEF Next, Main, Invoke, Determine, ExportRustflags, SetupRust, Prepare, Download, Stage,
         Begin, ResolveToolchain, InstallToolchain, AddTarget, ConfigureLinkers, EnsureCross,
         InstallRelease, InstallCross, LookedUp, Probe, Decide, RunBuild,
         HandleCrossContainerError, ToMain, vars, job, disk, history
<1>2. Preparing'
  BY DEF Tabled, Preparing, Target, Next, Main, Invoke, Determine, ExportRustflags, SetupRust,
         Prepare, Download, Stage, Begin, ResolveToolchain, InstallToolchain, AddTarget,
         ConfigureLinkers, EnsureCross, InstallRelease, InstallCross, LookedUp, Probe, Decide,
         RunBuild, HandleCrossContainerError, ToMain, vars
<1> QED
  BY <1>1, <1>2 DEF Tabled, Placed, Generated, Shorn, Justified, Two, InProject, Alternates

\* config.toml has two tables of a target only where the project had one of it,
\* or where the target and another were configured in turn, twice.
THEOREM SingleTables == Spec => []OneTable
<1>1. Spec => []Tabled
  BY InitTabled, TabledStep, PTL DEF Spec
<1>2. Tabled => OneTable
  BY TwoTables DEF Tabled, Justified, InProject, Cutters, OneTable
<1> QED BY <1>1, <1>2, PTL

-----------------------------------------------------------------------------
(* The types. *)

\* What neither invariant says of them: the environment that uses hand on, the
\* attempts at a download, and how many commands a use may come to.
Kept ==
  /\ inherited \in Flags /\ flags \in Flags
  /\ uses \in 0 .. MaxBuilds[platform]
  /\ use \in [target : Targets \cup {"malformed"}, request : Requests \cup {<<>>},
              rustflags : BOOLEAN]
  /\ attempt \in 0 .. Retries - 1
  /\ cross \in {"none", "old", "recent"}
  /\ Len(runs) <= 2
Switches == nodocker \in BOOLEAN /\ mingw \in BOOLEAN /\ supported \in BOOLEAN

LEMMA InitKept == Init => Kept /\ Switches
<1> SUFFICES ASSUME Init PROVE Kept /\ Switches
  OBVIOUS
<1>1. MaxBuilds[platform] \in Nat /\ Retries \in Nat \ {0}
  BY BoundsAssumption DEF Init, Platforms
<1>2. Len(runs) = 0 /\ inherited \in Flags /\ flags = inherited
  BY DEF Init, Flags
<1>3. uses \in 0 .. MaxBuilds[platform] /\ attempt \in 0 .. Retries - 1
  BY <1>1 DEF Init
<1>4. use \in [target : Targets \cup {"malformed"}, request : Requests \cup {<<>>},
              rustflags : BOOLEAN]
  BY DEF Init
<1>5. Switches
  BY DEF Init, Switches
<1>6. cross \in {"none", "old", "recent"}
  BY DEF Init
<1> QED BY <1>2, <1>3, <1>4, <1>5, <1>6 DEF Kept

\* The switches are set, or answered by rustup.
LEMMA SwitchesStep == Switches /\ [Next]_vars => Switches'
BY DEF Switches, Next, Main, Invoke, Determine, ExportRustflags, SetupRust, Prepare, Download,
       Configure, Stage, Begin, ResolveToolchain, InstallToolchain, AddTarget, ConfigureLinkers,
       EnsureCross, InstallRelease, InstallCross, LookedUp, Probe, Decide, RunBuild,
       HandleCrossContainerError, ToMain, Fresh, vars, job, env, disk, local, history

\* Each action changes little of the rest.
LEMMA KeptStep == IInv /\ Kept /\ [Next]_vars => Kept'
<1> SUFFICES ASSUME IInv, Kept, [Next]_vars PROVE Kept'
  OBVIOUS
<1>1. MaxBuilds[platform] \in Nat /\ Retries \in Nat \ {0} /\ platform' = platform
      /\ inherited' = inherited
  BY BoundsAssumption
     DEF IInv, Typed, Platforms, Next, Main, Invoke, Determine, ExportRustflags, SetupRust, Prepare,
         Download, Configure, Stage, Begin, ResolveToolchain, InstallToolchain, AddTarget,
         ConfigureLinkers, EnsureCross, InstallRelease, InstallCross, LookedUp, Probe, Decide,
         RunBuild, HandleCrossContainerError, ToMain, vars, job
<1>2. CASE Invoke
  BY <1>1, <1>2 DEF Kept, Invoke, job, env, disk, local
<1>3. CASE Determine \/ ExportRustflags \/ SetupRust
  BY <1>1, <1>3 DEF Kept, Determine, ExportRustflags, SetupRust, disk, local, Flags
<1>4. CASE Download
  BY <1>1, <1>4 DEF Kept, Download, env, local
<1>5. CASE Prepare \/ Configure \/ UNCHANGED vars
  BY <1>1, <1>5 DEF Kept, Prepare, Configure, vars, env, disk, local
<1>6. CASE Begin \/ ResolveToolchain \/ InstallToolchain \/ AddTarget \/ ConfigureLinkers
           \/ EnsureCross \/ InstallRelease \/ InstallCross \/ Probe \/ Decide
  BY <1>1, <1>6 DEF Kept, Begin, ResolveToolchain, InstallToolchain, AddTarget, ConfigureLinkers,
     EnsureCross, InstallRelease, InstallCross, LookedUp, Probe, Decide, ToMain, env, local
<1>7. CASE RunBuild \/ HandleCrossContainerError
  <2>1. Len(runs') <= 2
    <3>1. CASE RunBuild
      BY <3>1 DEF RunBuild
    <3>2. CASE HandleCrossContainerError
      <4>1. runs = <<CrossCommand>>
        BY <3>2 DEF IInv, Allowed, HandleCrossContainerError
      <4>2. runs' = runs \/ runs' = <<CrossCommand, CargoCommand>>
        BY <3>2, <4>1 DEF HandleCrossContainerError
      <4>3. \A a, b : Len(<<a>>) = 1 /\ Len(<<a, b>>) = 2
        OBVIOUS
      <4>4. CASE runs' = runs
        BY <4>4 DEF Kept
      <4>5. CASE runs' = <<CrossCommand, CargoCommand>>
        <5>1. Len(<<CrossCommand, CargoCommand>>) = 2
          BY <4>3
        <5> QED BY <4>5, <5>1
      <4> QED BY <4>2, <4>4, <4>5
    <3> QED BY <1>7, <3>1, <3>2
  <2> QED BY <1>1, <1>7, <2>1 DEF Kept, RunBuild, HandleCrossContainerError, ToMain, env
<1>8. CASE Stage
  BY <1>1, <1>8 DEF Kept, Stage, ToMain, Fresh, env
<1> QED BY <1>2, <1>3, <1>4, <1>5, <1>6, <1>7, <1>8 DEF Next, Main

\* The variables have their types: no download is tried more often than it may
\* be, no use runs a third command, and every table has a place in the file.
THEOREM Typing == Spec => []TypeOK
<1>1. Spec => [](Kept /\ Switches)
  BY InitKept, Invariance, KeptStep, SwitchesStep, PTL DEF Spec
<1>2. Spec => []Tabled
  BY InitTabled, TabledStep, PTL DEF Spec
<1>3. IInv /\ Kept /\ Switches /\ Tabled => TypeOK
  <2> SUFFICES ASSUME IInv, Kept, Switches, Tabled PROVE TypeOK
    OBVIOUS
  <2>1. DOMAIN config \subseteq DOMAIN written /\ written \in Seq(Targets)
        /\ Range(config) \subseteq [target : Targets, header : BOOLEAN]
    BY DEF Tabled, Placed, Range
  <2>2. pc \in {"idle", "toolchain", "flags", "setup", "prepare", "download",
                "configure", "main", "resolve", "target", "linkers", "cross", "release", "install",
                "probe", "decide", "build", "uncontained", "stage",
                "failed"}
    BY DEF IInv, Typed, Started, Determined, Selected
  <2> QED BY <2>1, <2>2 DEF IInv, Typed, Kept, Switches, TypeOK
<1> QED BY <1>1, <1>2, <1>3, Invariance, PTL
=============================================================================
