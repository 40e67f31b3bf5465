------------------------------ MODULE Release ------------------------------
(***************************************************************************)
(* Jobs of one release workflow.  Each stages the artefacts of one target  *)
(* after another in its own workspace (stage-release-artefacts) and then   *)
(* uploads what is in dist to the release, which all jobs share            *)
(* (upload-release-assets).  A job that fails may be run again, on         *)
(* another build.                                                          *)
(*                                                                         *)
(* A name is the sequence of the tokens it is written with, a path the     *)
(* sequence of its names from the workspace on, a content the sequence of  *)
(* what was done to a build output: equal contents have equal digests.     *)
(***************************************************************************)
EXTENDS Naturals, Sequences, FiniteSets, SequencesExt

CONSTANTS
  Jobs,
  Plans,       \* job -> what it may do: [targets, dry, clobber]
  Builds,      \* job -> the workspaces a build may leave: path -> [content, time]
  Common,      \* the section common of the staging configuration, whose templates
               \* are rendered for each target
  Sections,    \* target -> its section
  ModuleName,  \* target -> the input ps-module-name, as a path
  BinName,     \* the input bin-name
  PathOrder,   \* every path of a workspace, as Python sorts them
  MaxAttempts  \* bound: job -> its runs and repeated uploads

Targets == DOMAIN Sections
Dist == << <<"dist">> >>
Paths == ToSet(PathOrder)

ASSUME PathsAssumption ==
  /\ PathOrder \in Seq(Seq(Seq(STRING)) \ {<<>>})
  /\ \A h, i \in DOMAIN PathOrder : PathOrder[h] = PathOrder[i] => h = i
ASSUME PlansAssumption ==
  \A j \in Jobs : /\ Plans[j] # {}
                  /\ \A w \in Plans[j] : /\ w.targets \in Seq(Targets) \ {<<>>}
                                          /\ {w.dry, w.clobber} \subseteq BOOLEAN
ASSUME BuildsAssumption ==
  \A j \in Jobs : /\ Builds[j] # {}
                  /\ \A b \in Builds[j] : /\ DOMAIN b \subseteq Paths
                                           /\ \A p \in DOMAIN b : b[p].time \in Nat
ASSUME AttemptsAssumption == MaxAttempts \in [Jobs -> Nat \ {0}]

VARIABLES
  plan, built,              \* what a job stages, and what its build left
  disk,                     \* its workspace
  pc, use, todo,            \* where it is, its use of the action, the artefact due
  staged, sums, outs,       \* StagingState: staged_paths, checksums, outputs
  reports,                  \* what the uses wrote to GITHUB_OUTPUT
  queue, count, result,     \* assets to upload; uploaded_count, upload_error
  attempts,
  release,                  \* the assets of the release: name -> content
  open, sent                \* history: uploads without end; what was given to gh

job == <<plan, built, use, attempts>>
staging == <<staged, sums, outs, reports>>
uploading == <<queue, count, result>>
shared == <<release, open, sent>>
vars == <<job, disk, pc, todo, staging, uploading, shared>>

None == <<>>
Empty == [x \in {} |-> x]
Put(d, p, x) == [q \in DOMAIN d \cup {p} |-> IF q = p THEN x ELSE d[q]]
Without(d, S) == [q \in DOMAIN d \ S |-> d[q]]
Under(dir, p) == IsPrefix(dir, p)
Now == 9                    \* later than every build output

Init == /\ plan \in [Jobs -> UNION Range(Plans)] /\ \A j \in Jobs : plan[j] \in Plans[j]
        /\ built \in [Jobs -> UNION Range(Builds)] /\ \A j \in Jobs : built[j] \in Builds[j]
        /\ disk = built
        /\ pc = [j \in Jobs |-> "load"] /\ use = [j \in Jobs |-> 1]
        /\ todo = [j \in Jobs |-> 1] /\ staged = [j \in Jobs |-> {}]
        /\ sums = [j \in Jobs |-> Empty] /\ outs = [j \in Jobs |-> Empty]
        /\ reports = [j \in Jobs |-> <<>>]
        /\ queue = [j \in Jobs |-> {}] /\ count = [j \in Jobs |-> 0]
        /\ result = [j \in Jobs |-> "none"] /\ attempts = [j \in Jobs |-> 1]
        /\ release = Empty /\ open = {} /\ sent = {}

-----------------------------------------------------------------------------
(* config.py: what the configuration says of a target. *)

Target(j) == plan[j].targets[use[j]]

\* The keys of [common] and of the target, the latter first; the defaults last.
BinstallDefaults == [enabled |-> FALSE, manifest |-> TRUE, member |-> TRUE,
                     output |-> "binstall_archive_path"]
Merged(f, g) == [k \in DOMAIN f \cup DOMAIN g |-> IF k \in DOMAIN g THEN g[k] ELSE f[k]]
Binstall == [t \in Targets |->
               Merged(Merged(BinstallDefaults, Common.binstall[t]), Sections[t].binstall)]

Artefacts == [t \in Targets |-> Common.artefacts[t] \o Sections[t].artefacts]

Patterns == [renders : BOOLEAN, paths : SUBSET Seq(Seq(STRING))]
ArtefactConfigs == [patterns : Seq(Patterns), destination : Seq(Seq(STRING)),
                    output : STRING, required : BOOLEAN, valid : BOOLEAN]
ASSUME ArtefactsAssumption == \A t \in Targets : Artefacts[t] \in Seq(ArtefactConfigs)

\* _parse_artefact_entry: a string or a list where one is due, one destination.
WellFormed(a) == a.valid

\* Required keys, a checksum algorithm that hashlib has, artefacts or an archive.
LoadsConfig(t) ==
  /\ Sections[t].complete
  /\ Common.algorithm # "unsupported"
  /\ Artefacts[t] # <<>> \/ Binstall[t].enabled
  /\ \A i \in DOMAIN Artefacts[t] : WellFormed(Artefacts[t][i])

\* Path.resolve; what is not in the workspace begins with Up.
Up == <<"..">>
Resolve(path) ==
  LET step(p, n) == IF n = Up /\ p # <<>> /\ Head(p) # Up THEN Front(p) ELSE Append(p, n)
  IN  FoldLeft(step, <<>>, path)

\* staging_dir: the target's template, else the common one, whose default is
\* the name of the binary, the platform and the architecture.
StagingDir(t) ==
  Dist \o IF Sections[t].dir # None THEN Sections[t].dir
          ELSE << BinName \o Sections[t].platform >>
Root == [t \in Targets |-> Resolve(StagingDir(t))]

ToStep(j, place) == pc' = [pc EXCEPT ![j] = place]
Elsewhere == UNCHANGED <<job, uploading, shared>>

\* stage.py: main, up to stage_artefacts, with its environment.
LoadConfig(j) ==
  /\ pc[j] = "load"
  /\ \/ LoadsConfig(Target(j)) /\ ToStep(j, "initialize")
     \/ ToStep(j, "failed")
  /\ UNCHANGED <<disk, todo, staging>> /\ Elsewhere

-----------------------------------------------------------------------------
(* resolution.py and pipeline.py: one use of stage-release-artefacts. *)

Index == [p \in Paths |-> CHOOSE i \in DOMAIN PathOrder : PathOrder[i] = p]

\* _newest_file: by time, then by name.
Newest(d, S) ==
  CHOOSE p \in S : \A q \in S \ {p} : \/ d[p].time > d[q].time
                                      \/ d[p].time = d[q].time /\ Index[p] > Index[q]

\* match_candidate_path: the files a path or a glob names.
Matches(d, pattern) == pattern.paths \cap DOMAIN d

\* _resolve_artefact_source: the first template that names a file or that does
\* not render, which is an error; 0 for none.
Chosen(d, a) ==
  LET stops == {i \in DOMAIN a.patterns : ~a.patterns[i].renders \/ Matches(d, a.patterns[i]) # {}}
  IN  IF stops = {} THEN 0 ELSE Min(stops)
Missing(d, a) == Chosen(d, a) = 0
Renders(d, a) == ~Missing(d, a) => a.patterns[Chosen(d, a)].renders
Source(d, a) == Newest(d, Matches(d, a.patterns[Chosen(d, a)]))

\* _resolve_destination_path: the file's own name if none is given.
Destination(t, a, source) ==
  Resolve(StagingDir(t) \o IF a.destination = None THEN <<Last(source)>> ELSE a.destination)

\* Where artefact i of t would go, and the archive.
Files(a) == UNION {a.patterns[n].paths : n \in DOMAIN a.patterns}
Places(t, i) == {Destination(t, Artefacts[t][i], s) : s \in Files(Artefacts[t][i])}
ArchivePlaces(t) ==
  IF Binstall[t].enabled THEN {Resolve(StagingDir(t) \o Binstall[t].archive)} ELSE {}

\* _safe_destination_path.
Safe(t, path) == Under(Root[t], path) /\ Up \notin ToSet(path)

\* Once a file is staged its path is taken relative to the directory as it was
\* given, which fails for one that is not resolved.
Relative(t) == Root[t] = StagingDir(t)

\* Nothing outside the workspace is touched, nor a file where the directory or
\* one above it has to be.
Usable(d, dir) == Up \notin ToSet(dir) /\ \A q \in DOMAIN d : ~Under(q, dir)
Wiped(d, dir) == Without(d, {p \in DOMAIN d : Under(dir, p)})

\* As if one StagingState served all uses of a job.
InitializeDirectoryAlone(j) ==
  /\ pc[j] = "initialize"
  /\ \/ /\ Usable(disk[j], Root[Target(j)]) /\ ToStep(j, "stage")
        /\ disk' = [disk EXCEPT ![j] = Wiped(@, Root[Target(j)])]
        /\ todo' = [todo EXCEPT ![j] = 1]
     \/ /\ ~Usable(disk[j], Root[Target(j)]) /\ ToStep(j, "failed")
        /\ UNCHANGED <<disk, todo>>
  /\ UNCHANGED staging /\ Elsewhere
\* _initialize_staging_dir.
InitializeStagingDir(j) ==
  /\ pc[j] = "initialize"
  /\ \/ /\ Usable(disk[j], Root[Target(j)]) /\ ToStep(j, "stage")
        /\ disk' = [disk EXCEPT ![j] = Wiped(@, Root[Target(j)])]
        /\ todo' = [todo EXCEPT ![j] = 1]
     \/ /\ ~Usable(disk[j], Root[Target(j)]) /\ ToStep(j, "failed")
        /\ UNCHANGED <<disk, todo>>
  /\ staged' = [staged EXCEPT ![j] = {}]
  /\ sums' = [sums EXCEPT ![j] = Empty] /\ outs' = [outs EXCEPT ![j] = Empty]
  /\ UNCHANGED reports /\ Elsewhere

Sidecar(path) == Front(path) \o <<Append(Last(path), Common.algorithm)>>
\* Every place that is staged to, and its sidecar's, is a path of the workspace.
ASSUME PlacesAssumption ==
  \A t \in Targets :
    /\ Root[t] \in Seq(Seq(STRING))
    /\ \A path \in ArchivePlaces(t) \cup UNION {Places(t, i) : i \in DOMAIN Artefacts[t]} :
         Safe(t, path) => {path, Sidecar(path)} \subseteq Paths

Digest(content) == <<"sum">> \o content

\* As if a sidecar that is there were kept.
WriteChecksumOnce(d, path) ==
  IF Sidecar(path) \in DOMAIN d THEN d
  ELSE Put(d, Sidecar(path), [content |-> Digest(d[path].content), time |-> Now])
\* _write_checksum.
WriteChecksum(d, path) ==
  Put(d, Sidecar(path), [content |-> Digest(d[path].content), time |-> Now])

\* _copy_resolved_artefact, which unlinks what is there, be it the source.
Copy(d, path, file) == Put(d, path, file)
Copied(d, source, path) == IF source = path THEN {} ELSE {d[source]}

\* Nothing but a file is at the path, and no file where a directory above it
\* has to be.
Free(t, d, path) ==
  /\ path # Root[t]
  /\ \A q \in DOMAIN d : Under(path, q) \/ Under(q, path) => q = path

\* What staging one of the files at a path leaves when it fails: before what is
\* there is unlinked, after that, after the file was written, or, where paths are
\* not relative, after its checksum was.
Remains(t, d, path, files) ==
  {d} \cup IF ~Safe(t, path) \/ ~Free(t, d, path) THEN {}
          ELSE {Without(d, {path})}
                 \cup {Copy(d, path, f) : f \in files}
                 \cup {WriteChecksum(Copy(d, path, f), path) :
                         f \in IF Relative(t) \/ ~Free(t, d, Sidecar(path)) THEN {} ELSE files}

\* All of it succeeds.
Stageable(t, d, path) ==
  /\ Safe(t, path) /\ Relative(t)
  /\ Free(t, d, path) /\ Free(t, d, Sidecar(path))

\* What _collect_artefacts keeps of a file once it is in place.
Keep(j, path, file, output) ==
  /\ disk' = [disk EXCEPT ![j] = WriteChecksum(Copy(@, path, file), path)]
  /\ staged' = [staged EXCEPT ![j] = @ \cup {path}]
  /\ sums' = [sums EXCEPT ![j] = Put(@, path, Digest(file.content))]
  /\ outs' = [outs EXCEPT ![j] = IF output = "" THEN @ ELSE Put(@, output, path)]
  /\ UNCHANGED reports

EndsStaging(j) == ToStep(j, "failed") /\ UNCHANGED staging

\* As if what is missing were always optional.
Tolerates(a) == TRUE
\* _ensure_source_available.
Optional(a) == ~a.required

\* _stage_configured_artefact: shutil.copy2, which keeps the time.
StageArtefact(j) ==
  /\ pc[j] = "stage" /\ todo[j] \in DOMAIN Artefacts[Target(j)]
  /\ LET a == Artefacts[Target(j)][todo[j]]
         d == disk[j]
         path == Destination(Target(j), a, Source(d, a))
     IN  \/ /\ (Missing(d, a) => ~Optional(a)) /\ (~Missing(d, a) => ~Renders(d, a))
            /\ EndsStaging(j) /\ UNCHANGED disk
         \/ /\ Missing(d, a) /\ Optional(a)
            /\ ToStep(j, "stage") /\ UNCHANGED <<disk, staging>>
         \/ /\ Renders(d, a) /\ ~Missing(d, a)
            /\ \/ /\ Stageable(Target(j), d, path) /\ Source(d, a) # path
                  /\ ToStep(j, "stage") /\ Keep(j, path, d[Source(d, a)], a.output)
               \/ /\ EndsStaging(j)
                  /\ \E e \in Remains(Target(j), d, path, Copied(d, Source(d, a), path)) :
                       disk' = [disk EXCEPT ![j] = e]
  /\ todo' = [todo EXCEPT ![j] = @ + 1]
  /\ Elsewhere

\* _resolve_binstall_metadata: name and version, given or of a manifest.
HasMetadata(b) == b.manifest
\* _validate_archive_member_name.
SafeMember(b) == b.member

\* _resolve_binstall_binary_source, and what a tar file of it is.
BinarySource(d, b) == Newest(d, Matches(d, b.source))
Archived(d, source) == [content |-> <<"tar">> \o d[source].content, time |-> Now]

\* _stage_binstall_archive, if it is enabled, after all the artefacts.
StageBinstallArchive(j) ==
  /\ pc[j] = "stage" /\ todo[j] \notin DOMAIN Artefacts[Target(j)]
  /\ LET b == Binstall[Target(j)]
         path == Resolve(StagingDir(Target(j)) \o b.archive)
     IN  \/ ~b.enabled /\ ToStep(j, "finish") /\ UNCHANGED <<disk, staging>>
         \/ /\ b.enabled /\ HasMetadata(b) /\ SafeMember(b)
            /\ Stageable(Target(j), disk[j], path)
            /\ Matches(disk[j], b.source) # {} /\ BinarySource(disk[j], b) # path
            /\ ToStep(j, "finish")
            /\ Keep(j, path, Archived(disk[j], BinarySource(disk[j], b)), b.output)
         \/ b.enabled /\ EndsStaging(j) /\ UNCHANGED disk
         \/ /\ b.enabled /\ HasMetadata(b) /\ SafeMember(b) /\ Matches(disk[j], b.source) # {}
            /\ EndsStaging(j)
            /\ \E e \in Remains(Target(j), disk[j], path, {Archived(disk[j], BinarySource(disk[j], b))}) :
                 disk' = [disk EXCEPT ![j] = e]
  /\ UNCHANGED todo /\ Elsewhere

Reserved == {"artifact_dir", "dist_dir", "staged_files", "artefact_map", "checksum_map",
             "powershell_help_dir"}

\* _resolve_powershell_help_dir: a child of the directory with something staged.
HelpDir(t, paths) ==
  LET dir == Root[t] \o ModuleName[t]
  IN  IF Len(ModuleName[t]) = 1 /\ ModuleName[t] # <<Up>> /\ \E p \in paths : Under(dir, p)
      THEN dir ELSE None

\* prepare_output_data.
Report(j) == [sums |-> sums[j], outs |-> outs[j],
              help |-> HelpDir(Target(j), staged[j])]

\* The rest of stage_artefacts: something is staged, under no reserved key.
Finish(j) ==
  /\ pc[j] = "finish"
  /\ ToStep(j, IF staged[j] # {} /\ DOMAIN outs[j] \cap Reserved = {} THEN "write" ELSE "failed")
  /\ UNCHANGED <<disk, todo, staging>> /\ Elsewhere

\* write_github_output, after all else; then the next use of the action.
WriteOutputs(j) ==
  /\ pc[j] = "write"
  /\ reports' = [reports EXCEPT ![j] = Append(@, Report(j))]
  /\ IF use[j] < Len(plan[j].targets)
     THEN use' = [use EXCEPT ![j] = @ + 1] /\ ToStep(j, "load")
     ELSE ToStep(j, "discover") /\ UNCHANGED use
  /\ UNCHANGED <<plan, built, disk, todo, staged, sums, outs, attempts, uploading, shared>>

-----------------------------------------------------------------------------
(* upload_release_assets.py, and gh, which is external. *)

AssetSuffixes == {".deb", ".rpm", ".pkg", ".msi", ".sha256"}
IsCandidate(path) ==
  LET name == Last(path)
  IN  name \in {BinName, Append(BinName, ".exe"), Append(BinName, ".1")} \/ Last(name) \in AssetSuffixes

\* _iter_candidate_paths.
CandidatePaths == {p \in Paths : Under(Dist, p) /\ IsCandidate(p)}
Candidates(d) == CandidatePaths \cap DOMAIN d
First(S) == CHOOSE p \in S : \A q \in S : Index[p] <= Index[q]

\* _resolve_asset_name: the directories, joined by "__", and "-" before the name.
AssetName(path) ==
  LET names == Tail(path)
      joined(before, n) == IF before = <<>> THEN n ELSE before \o <<"__">> \o n
  IN  IF Len(names) = 1 THEN names[1]
      ELSE FoldLeft(joined, <<>>, Front(names)) \o <<"-">> \o Last(names)

\* _require_non_empty, _register_asset and the last test of discover_assets.
Discovers(d) ==
  /\ Candidates(d) # {}
  /\ \A p \in Candidates(d) : d[p].content # <<>>
  /\ \A p, q \in Candidates(d) : AssetName(p) = AssetName(q) => p = q

InUpload == UNCHANGED <<job, disk, todo, staging>>

\* main up to upload_assets; a dry run counts the assets and is done.
DiscoverAssets(j) ==
  /\ pc[j] = "discover"
  /\ LET assets == Candidates(disk[j]) IN
     IF ~Discovers(disk[j])
     THEN /\ ToStep(j, "failed") /\ result' = [result EXCEPT ![j] = "error"]
          /\ count' = [count EXCEPT ![j] = 0] /\ UNCHANGED <<queue, shared>>
     ELSE IF plan[j].dry
     THEN /\ ToStep(j, "done") /\ result' = [result EXCEPT ![j] = "ok"]
          /\ count' = [count EXCEPT ![j] = Cardinality(assets)] /\ UNCHANGED <<queue, shared>>
     ELSE /\ ToStep(j, "upload") /\ queue' = [queue EXCEPT ![j] = assets]
          /\ open' = open \cup {j}
          /\ UNCHANGED <<count, result, release, sent>>
  /\ InUpload

\* gh names an asset after the file; what follows "#" is a label to display.
Name(path) == Last(path)

\* As if an asset that is there were taken for the one to upload.
GhUploadsNew(j, path) ==
  release' = IF Name(path) \in DOMAIN release THEN release
             ELSE Put(release, Name(path), disk[j][path].content)
\* gh refuses a name that is there, or deletes it first with --clobber.
GhUploads(j, path) ==
  /\ plan[j].clobber \/ Name(path) \notin DOMAIN release
  /\ release' = Put(release, Name(path), disk[j][path].content)
GhFails(j, path) ==
  release' \in {release} \cup IF plan[j].clobber THEN {Without(release, {Name(path)})} ELSE {}

\* As if an asset that gh fails to upload were left out.
UploadNext(j) ==
  /\ pc[j] = "upload" /\ queue[j] # {}
  /\ sent' = sent \cup {<<j, First(queue[j])>>}
  /\ GhUploads(j, First(queue[j])) \/ GhFails(j, First(queue[j]))
  /\ queue' = [queue EXCEPT ![j] = @ \ {First(@)}]
  /\ UNCHANGED <<pc, count, result, open>> /\ InUpload
\* upload_assets: one after another; the first that fails ends it, be it only the
\* answer to gh that was lost.
UploadAsset(j) ==
  /\ pc[j] = "upload" /\ queue[j] # {}
  /\ sent' = sent \cup {<<j, First(queue[j])>>}
  /\ \/ /\ GhUploads(j, First(queue[j]))
        /\ queue' = [queue EXCEPT ![j] = @ \ {First(@)}]
        /\ UNCHANGED <<pc, count, result>>
     \/ /\ GhUploads(j, First(queue[j])) \/ GhFails(j, First(queue[j]))
        /\ ToStep(j, "failed")
        /\ queue' = [queue EXCEPT ![j] = {}]
        /\ count' = [count EXCEPT ![j] = 0] /\ result' = [result EXCEPT ![j] = "error"]
  /\ UNCHANGED open /\ InUpload

\* The end of main.
Uploaded(j) ==
  /\ pc[j] = "upload" /\ queue[j] = {} /\ ToStep(j, "done")
  /\ count' = [count EXCEPT ![j] = Cardinality(Candidates(disk[j]))]
  /\ result' = [result EXCEPT ![j] = "ok"] /\ open' = open \ {j}
  /\ UNCHANGED <<queue, release, sent>> /\ InUpload

\* A workflow may repeat the upload of what is staged, or run the job again, on
\* a new build.
RepeatUpload(j) ==
  /\ pc[j] = "failed" /\ result[j] = "error" /\ attempts[j] < MaxAttempts[j]
  /\ attempts' = [attempts EXCEPT ![j] = @ + 1]
  /\ result' = [result EXCEPT ![j] = "none"] /\ ToStep(j, "discover")
  /\ UNCHANGED <<plan, built, use, disk, todo, staging, queue, count, shared>>

Rerun(j) ==
  /\ pc[j] = "failed" /\ attempts[j] < MaxAttempts[j]
  /\ attempts' = [attempts EXCEPT ![j] = @ + 1]
  /\ \E b \in Builds[j] : built' = [built EXCEPT ![j] = b] /\ disk' = [disk EXCEPT ![j] = b]
  /\ ToStep(j, "load") /\ use' = [use EXCEPT ![j] = 1]
  /\ todo' = [todo EXCEPT ![j] = 1] /\ staged' = [staged EXCEPT ![j] = {}]
  /\ sums' = [sums EXCEPT ![j] = Empty] /\ outs' = [outs EXCEPT ![j] = Empty]
  /\ reports' = [reports EXCEPT ![j] = <<>>]
  /\ result' = [result EXCEPT ![j] = "none"] /\ count' = [count EXCEPT ![j] = 0]
  /\ UNCHANGED <<plan, queue, shared>>

Next == \E j \in Jobs :
          \/ LoadConfig(j) \/ InitializeStagingDir(j) \/ StageArtefact(j)
          \/ StageBinstallArchive(j) \/ Finish(j) \/ WriteOutputs(j)
          \/ DiscoverAssets(j) \/ UploadAsset(j) \/ Uploaded(j)
          \/ RepeatUpload(j) \/ Rerun(j)

Spec == Init /\ [][Next]_vars

-----------------------------------------------------------------------------
(* Properties. *)

\* The values the variables take.  Only files of the workspace's order are in
\* it, and what is staged of the present use is below its directory.
TypeOK ==
  /\ \A j \in Jobs :
       /\ plan[j] \in Plans[j] /\ use[j] \in DOMAIN plan[j].targets
       /\ built[j] \in Builds[j] /\ DOMAIN disk[j] \subseteq Paths
       /\ pc[j] \in {"load", "initialize", "stage", "finish", "write", "discover", "upload", "done", "failed"}
       /\ staged[j] = DOMAIN sums[j] /\ Range(outs[j]) \subseteq staged[j]
       /\ staged[j] # {} => \E t \in ToSet(plan[j].targets) : \A p \in staged[j] : Under(Root[t], p)
       /\ queue[j] \subseteq DOMAIN disk[j]
       /\ count[j] \in Nat /\ result[j] \in {"none", "ok", "error"}
       /\ attempts[j] \in 1 .. MaxAttempts[j]
  /\ \A n \in DOMAIN release : release[n] # <<>>
  /\ open \subseteq Jobs /\ sent \subseteq Jobs \X Paths

Overlap(s, t) == Under(Root[s], Root[t]) \/ Under(Root[t], Root[s])

\* What a use of the action reported stays true in its job: each file has the
\* digest of checksum_map, its sidecar says so, and the help directory has a
\* file; unless a later use wipes the same directory (the default template
\* tells no two triples of a platform and architecture apart), or one file's
\* sidecar is another file's destination.
OutputsHold ==
  \A j \in Jobs : \A k \in DOMAIN reports[j] :
    LET r == reports[j][k]
        d == disk[j]
        wiped == \E m \in k + 1 .. use[j] : Overlap(plan[j].targets[k], plan[j].targets[m])
        clash(p) == \E q \in DOMAIN r.sums : Sidecar(q) = p \/ Sidecar(p) = q
    IN  \/ wiped
        \/ /\ \A p \in DOMAIN r.sums : \/ clash(p)
                                       \/ /\ {p, Sidecar(p)} \subseteq DOMAIN d
                                          /\ Digest(d[p].content) = r.sums[p]
                                          /\ d[Sidecar(p)].content = r.sums[p]
           /\ r.help # None => \E p \in DOMAIN d : Under(r.help, p)

OtherPlaces(t, i) ==
  ArchivePlaces(t) \cup UNION {Places(t, m) : m \in DOMAIN Artefacts[t] \ {i}}
PlacesOf == [t \in Targets |-> [i \in DOMAIN Artefacts[t] |-> Places(t, i)]]
SharedPlaces == [t \in Targets |-> [i \in DOMAIN Artefacts[t] |-> OtherPlaces(t, i)]]

Staging == {s \in Paths : \E t \in Targets : Relative(t) /\ Under(Root[t], s)}

\* A use that reports has staged every required artefact, from a file this
\* job's build left that one of its patterns names; unless another artefact
\* went to the same place, which replaces it without a word, or its patterns name
\* files of a staging directory.
RequiredStaged ==
  \A j \in Jobs : \A k \in DOMAIN reports[j] :
    LET t == plan[j].targets[k]
        sum == reports[j][k].sums
    IN  \A i \in DOMAIN Artefacts[t] :
          Artefacts[t][i].required =>
            \E p \in PlacesOf[t][i] \cap DOMAIN sum :
              \/ p \in SharedPlaces[t][i]
              \/ \E s \in Files(Artefacts[t][i]) :
                   /\ Destination(t, Artefacts[t][i], s) = p
                   /\ \/ s \in Staging
                      \/ s \in DOMAIN built[j] /\ sum[p] = Digest(built[j][s].content)

Namesakes(j, path) == {x \in sent : Name(x[2]) = Name(path)} \ {<<j, path>>}

\* A job that reports its upload a success has each of its candidates on the
\* release as it is in dist, counts them all, and uploaded none in a dry run;
\* unless a file of the same name, of another directory or job, was uploaded
\* too: the unique asset name of _resolve_asset_name is but gh's label.
Published ==
  \A j \in Jobs :
    result[j] = "ok" =>
      /\ count[j] = Cardinality(Candidates(disk[j]))
      /\ IF plan[j].dry THEN \A x \in sent : x[1] # j
         ELSE \A p \in Candidates(disk[j]) :
                \/ Namesakes(j, p) # {}
                \/ /\ Name(p) \in DOMAIN release
                   /\ release[Name(p)] = disk[j][p].content

SidecarName(n) == Append(n, ".sha256")
OneOrigin(n) == \A x, y \in sent : Name(x[2]) = n /\ Name(y[2]) = n => x = y
\* Sent by a run of the job whose successor, on another build, stages it no more.
Dropped(n) == \E x \in sent : Name(x[2]) = n /\ x[2] \notin DOMAIN disk[x[1]]

\* The checksum named n is of the build's making, a staged file of its own, or of
\* a file that is itself the sidecar of another.
Foreign(j, n) ==
  \/ \E p \in DOMAIN built[j] \cap CandidatePaths : Name(p) = SidecarName(n)
  \/ \E k \in DOMAIN reports[j] : \E p \in DOMAIN reports[j][k].sums :
       \/ Name(p) = SidecarName(n)
       \/ Name(p) = n /\ \E q \in DOMAIN reports[j][k].sums : Sidecar(q) = p

\* Once no upload is broken off, a checksum on the release is the one of the
\* file it names, whatever was uploaded, failed and built anew before; unless
\* files of one name were uploaded from two places, a later build has dropped
\* one of the two, or the checksum is not one this action wrote last.
ChecksumsMatch ==
  open = {} =>
    \A n \in DOMAIN release :
      /\ SidecarName(n) \in DOMAIN release
      /\ \A m \in {n, SidecarName(n)} : OneOrigin(m) /\ ~Dropped(m)
      => \/ release[SidecarName(n)] = Digest(release[n])
         \/ \E j \in Jobs : Foreign(j, n)
=============================================================================
