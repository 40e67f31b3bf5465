--------------------------- MODULE ReleaseProofs ---------------------------
(* What holds of every release workflow, for any jobs, targets, staging      *)
(* configuration, builds and number of attempts.                             *)
EXTENDS Release, SequenceTheorems, FiniteSetTheorems, WellFoundedInduction, TLAPS

-----------------------------------------------------------------------------
(* Paths. *)

\* What names and paths are made of; the suffixes of sidecars are words too.
\* (That a literal is in STRING is nothing the provers know.)
Word == STRING \cup {Common.algorithm, ".sha256", "dist"}
Walk == Seq(Seq(Word))

\* The files of a workspace and the staging directories are walks.
LEMMA Walks ==
  /\ Paths \subseteq Walk \ {<<>>}
  /\ \A t \in Targets : Root[t] \in Walk
<1>1. Seq(STRING) \subseteq Seq(Word)
  BY SeqMonotonic DEF Word
<1>2. Seq(Seq(STRING)) \subseteq Walk
  BY <1>1, SeqMonotonic DEF Walk
<1>3. ASSUME NEW p \in Paths
      PROVE  p \in Seq(Seq(STRING)) \ {<<>>}
  <2>1. PICK i \in DOMAIN PathOrder : p = PathOrder[i]
    BY DEF Paths, ToSet
  <2> QED BY <2>1, PathsAssumption, ElementOfSeq, LenProperties
<1> QED BY <1>2, <1>3, PlacesAssumption

\* A path is under a directory when it begins with the same names.
LEMMA Prefix ==
  ASSUME NEW a \in Walk, NEW b \in Walk
  PROVE  Under(a, b) <=> Len(a) <= Len(b) /\ \A i \in 1 .. Len(a) : a[i] = b[i]
<1>1. /\ Len(a) \in Nat /\ Len(b) \in Nat
      /\ \A i \in 1 .. Len(a) : a[i] \in Seq(Word)
      /\ \A i \in 1 .. Len(b) : b[i] \in Seq(Word)
  BY LenProperties, ElementOfSeq DEF Walk
<1>2. CASE Len(a) <= Len(b)
  <2>1. /\ SubSeq(b, 1, Len(a)) \in Walk /\ Len(SubSeq(b, 1, Len(a))) = Len(a)
        /\ \A i \in 1 .. Len(a) : SubSeq(b, 1, Len(a))[i] = b[i]
    <3>1. \A i \in 1 .. Len(a) : b[i] \in Seq(Word)
      BY <1>1, <1>2
    <3> QED BY <1>1, <3>1, SubSeqProperties DEF Walk
  <2>2. SubSeq(a, 1, Len(a)) = a
    BY SubSeqFull DEF Walk
  <2>3. SubSeq(b, 1, Len(a)) = a <=> \A i \in 1 .. Len(a) : a[i] = b[i]
    BY <1>1, <2>1, SeqEqual DEF Walk
  <2> QED BY <1>2, <2>2, <2>3 DEF Under, IsPrefix
<1>3. CASE ~(Len(a) <= Len(b))
  BY <1>3 DEF Under, IsPrefix
<1> QED BY <1>2, <1>3

\* Of two directories above one path, one is above the other.
LEMMA Comparable ==
  ASSUME NEW a \in Walk, NEW b \in Walk, NEW p \in Walk, Under(a, p), Under(b, p)
  PROVE  Under(a, b) \/ Under(b, a)
<1>1. Len(a) \in Nat /\ Len(b) \in Nat /\ Len(p) \in Nat
  BY LenProperties DEF Walk
<1>2. /\ \A i \in 1 .. Len(a) : a[i] = p[i]
      /\ \A i \in 1 .. Len(b) : b[i] = p[i]
  BY Prefix
<1>3. CASE Len(a) <= Len(b)
  BY <1>1, <1>2, <1>3, Prefix
<1>4. CASE Len(b) <= Len(a)
  BY <1>1, <1>2, <1>4, Prefix
<1> QED BY <1>1, <1>3, <1>4

\* What is under a directory is under those above it.
LEMMA Nested ==
  ASSUME NEW a \in Walk, NEW b \in Walk, NEW p \in Walk, Under(a, b), Under(b, p)
  PROVE  Under(a, p)
<1>1. Len(a) \in Nat /\ Len(b) \in Nat /\ Len(p) \in Nat
  BY LenProperties DEF Walk
<1> QED BY <1>1, Prefix

\* A sidecar lies beside its file, under another name.
LEMMA Beside ==
  ASSUME NEW p \in Walk \ {<<>>}
  PROVE  /\ Sidecar(p) \in Walk /\ Len(Sidecar(p)) = Len(p)
         /\ \A i \in 1 .. Len(p) - 1 : Sidecar(p)[i] = p[i]
         /\ Last(Sidecar(p)) = Append(Last(p), Common.algorithm)
         /\ Len(p) \in Nat \ {0} /\ Last(p) \in Seq(Word)
<1>1. /\ Len(p) \in Nat \ {0} /\ Last(p) \in Seq(Word)
      /\ \A i \in 1 .. Len(p) : p[i] \in Seq(Word)
  BY EmptySeq, ElementOfSeq DEF Walk, Last
<1>2. Append(Last(p), Common.algorithm) \in Seq(Word)
  BY <1>1, AppendProperties DEF Word
<1>3. /\ Front(p) \in Walk /\ Len(Front(p)) = Len(p) - 1
      /\ \A i \in 1 .. Len(p) - 1 : Front(p)[i] = p[i]
  <2>1. Len(p) - 1 \in Nat /\ \A i \in 1 .. Len(p) - 1 : p[i] \in Seq(Word)
    BY <1>1
  <2> DEFINE n == Len(p) - 1
  <2> HIDE DEF n
  <2>2. n \in Nat /\ \A i \in 1 .. n : p[i] \in Seq(Word)
    BY <2>1 DEF n
  <2>3. /\ SubSeq(p, 1, n) \in Seq(Seq(Word))
        /\ Len(SubSeq(p, 1, n)) = IF 1 <= n THEN n - 1 + 1 ELSE 0
        /\ \A i \in 1 .. n - 1 + 1 : SubSeq(p, 1, n)[i] = p[1 + i - 1]
    BY <2>2, SubSeqProperties
  <2>4. /\ Len(SubSeq(p, 1, n)) = n
        /\ \A i \in 1 .. n : SubSeq(p, 1, n)[i] = p[i]
    BY <2>2, <2>3
  <2> QED BY <2>3, <2>4 DEF Front, Walk, n
<1> DEFINE x == Append(Last(p), Common.algorithm)
<1>4. <<x>> \in Walk /\ Len(<<x>>) = 1 /\ <<x>>[1] = x
  BY <1>2 DEF Walk
<1> HIDE DEF x
<1>5. /\ Front(p) \o <<x>> \in Walk
      /\ Len(Front(p) \o <<x>>) = Len(p)
      /\ \A i \in 1 .. Len(p) : (Front(p) \o <<x>>)[i] =
            IF i <= Len(p) - 1 THEN Front(p)[i] ELSE <<x>>[i - (Len(p) - 1)]
  BY <1>1, <1>3, <1>4, ConcatProperties DEF Walk
<1>6. (Front(p) \o <<x>>)[Len(p)] = x
  BY <1>1, <1>4, <1>5
<1>7. \A i \in 1 .. Len(p) - 1 : (Front(p) \o <<x>>)[i] = p[i]
  BY <1>1, <1>3, <1>5
<1>8. Sidecar(p) = Front(p) \o <<x>>
  BY DEF Sidecar, x
<1>9. Last(Sidecar(p)) = x
  BY <1>5, <1>6, <1>8 DEF Last
<1> QED BY <1>1, <1>5, <1>7, <1>8, <1>9 DEF x

\* A path is one file's sidecar.
LEMMA OneOwner ==
  ASSUME NEW p \in Walk \ {<<>>}, NEW q \in Walk \ {<<>>}, Sidecar(p) = Sidecar(q)
  PROVE  p = q
<1>1. Len(p) = Len(q) /\ Len(p) \in Nat \ {0}
      /\ \A i \in 1 .. Len(p) - 1 : p[i] = q[i]
  BY Beside
<1>2. Last(p) = Last(q)
  <2>1. /\ Append(Last(p), Common.algorithm) = Append(Last(q), Common.algorithm)
        /\ Last(p) \in Seq(Word) /\ Last(q) \in Seq(Word)
    BY Beside
  <2>2. Common.algorithm \in Word
    BY DEF Word
  <2> QED BY <2>1, <2>2, AppendInjective
<1>3. p[Len(p)] = q[Len(p)]
  BY <1>1, <1>2 DEF Last
<1>4. \A i \in 1 .. Len(p) : p[i] = q[i]
  BY <1>1, <1>3
<1> QED BY <1>1, <1>4, SeqEqual DEF Walk

\* No file is its own sidecar.
LEMMA NotItself ==
  ASSUME NEW p \in Walk \ {<<>>}
  PROVE  Sidecar(p) # p
<1>1. Len(Last(Sidecar(p))) = Len(Last(p)) + 1 /\ Len(Last(p)) \in Nat
  BY Beside, AppendProperties, LenProperties DEF Word
<1> QED BY <1>1

\* A file's sidecar is under the directories the file is under, and no others
\* but itself.
LEMMA SidecarUnder ==
  ASSUME NEW a \in Walk, NEW p \in Walk \ {<<>>}
  PROVE  /\ Under(a, p) /\ p # a => Under(a, Sidecar(p))
         /\ Under(a, Sidecar(p)) /\ Sidecar(p) # a => Under(a, p)
<1>1. /\ Len(a) \in Nat /\ Len(p) \in Nat \ {0} /\ Len(Sidecar(p)) = Len(p)
      /\ Sidecar(p) \in Walk /\ \A i \in 1 .. Len(p) - 1 : Sidecar(p)[i] = p[i]
  BY Beside, LenProperties DEF Walk
<1>2. ASSUME NEW q \in Walk, Under(a, q), q # a
      PROVE  Len(a) < Len(q) /\ \A i \in 1 .. Len(a) : a[i] = q[i]
  <2>1. Len(a) <= Len(q) /\ \A i \in 1 .. Len(a) : a[i] = q[i]
    BY <1>2, Prefix
  <2>2. Len(a) # Len(q)
    BY <1>2, <2>1, SeqEqual DEF Walk
  <2>3. Len(q) \in Nat
    BY LenProperties DEF Walk
  <2> QED BY <1>1, <2>1, <2>2, <2>3
<1>3. ASSUME Under(a, p), p # a
      PROVE  Under(a, Sidecar(p))
  <2>1. Len(a) < Len(p) /\ \A i \in 1 .. Len(a) : a[i] = p[i]
    BY <1>2, <1>3
  <2> QED BY <1>1, <2>1, Prefix
<1>4. ASSUME Under(a, Sidecar(p)), Sidecar(p) # a
      PROVE  Under(a, p)
  <2>1. Len(a) < Len(Sidecar(p)) /\ \A i \in 1 .. Len(a) : a[i] = Sidecar(p)[i]
    BY <1>1, <1>2, <1>4
  <2> QED BY <1>1, <2>1, Prefix, SMTT(20)
<1> QED BY <1>3, <1>4

-----------------------------------------------------------------------------
(* Choices among files. *)

\* A workspace has finitely many files, each with a place in their order.
LEMMA Ordered ==
  /\ IsFiniteSet(Paths)
  /\ \A p \in Paths : Index[p] \in Nat /\ PathOrder[Index[p]] = p
<1>1. Len(PathOrder) \in Nat /\ DOMAIN PathOrder = 1 .. Len(PathOrder)
  BY PathsAssumption, LenProperties
<1>2. PathOrder \in [DOMAIN PathOrder -> Paths]
  BY <1>1, PathsAssumption, LenProperties DEF Paths, ToSet
<1>3. PathOrder \in Surjection(DOMAIN PathOrder, Paths)
  BY <1>2 DEF Surjection, Paths, ToSet
<1>4. IsFiniteSet(DOMAIN PathOrder)
  BY <1>1, FS_Interval
<1>5. ASSUME NEW p \in Paths
      PROVE  Index[p] \in DOMAIN PathOrder /\ PathOrder[Index[p]] = p
  <2>1. \E i \in DOMAIN PathOrder : PathOrder[i] = p
    BY DEF Paths, ToSet
  <2> QED BY <2>1 DEF Index
<1> QED BY <1>1, <1>3, <1>4, <1>5, FS_Surjection

\* A non-empty set of numbers has a least one.
LEMMA Least ==
  ASSUME NEW S, S \subseteq Nat, S # {}
  PROVE  Min(S) \in S /\ \A n \in S : Min(S) <= n
<1>1. PICK m \in S : \A n \in S : <<n, m>> \notin OpToRel(<, Nat)
  BY WFMin, NatLessThanWellFounded
<1>2. \A n \in S : ~(n < m)
  BY <1>1 DEF OpToRel
<1>3. \A n \in S : m <= n
  BY <1>2
<1> QED BY <1>3 DEF Min

\* The first of some files is one of them.
LEMMA FirstIsOne ==
  ASSUME NEW S, S \subseteq Paths, S # {}
  PROVE  First(S) \in S
<1> DEFINE places == {Index[p] : p \in S}
<1>1. places \subseteq Nat /\ places # {}
  BY Ordered
<1>2. Min(places) \in places /\ \A n \in places : Min(places) <= n
  BY <1>1, Least
<1>3. \E p \in S : \A q \in S : Index[p] <= Index[q]
  BY <1>2
<1> QED BY <1>3 DEF First

\* _newest_file picks one of the files it is given: of finitely many, ordered by
\* time and then by name, one comes last.
LEMMA NewestIsOne ==
  ASSUME NEW d, NEW S, S \subseteq Paths, S # {}, \A p \in S : d[p].time \in Nat
  PROVE  Newest(d, S) \in S
<1> DEFINE After(p, q) == \/ d[p].time > d[q].time
                          \/ d[p].time = d[q].time /\ Index[p] > Index[q]
           Lacks(U) == U # {} /\ \A p \in U : \E q \in U \ {p} : ~After(p, q)
           Bad == {U \in SUBSET S : Lacks(U)}
<1>1. \A p \in S : Index[p] \in Nat /\ PathOrder[Index[p]] = p
  BY Ordered
<1>2. \A p, q \in S : p # q => After(p, q) \/ After(q, p)
  BY <1>1
<1>3. \A p, q, r \in S : After(p, q) /\ After(q, r) => After(p, r)
  BY <1>1
<1> HIDE DEF After
<1>4. Bad = {}
  <2> SUFFICES ASSUME Bad # {} PROVE FALSE
    OBVIOUS
  <2>1. IsFiniteSet(S)
    BY Ordered, FS_Subset
  <2>2. Bad \subseteq FiniteSubsetsOf(S)
    BY <2>1, FS_FiniteSubsetsOfFinite
  <2>3. PICK U \in Bad : \A V \in Bad : <<V, U>> \notin StrictSubsetOrdering(S)
    BY <2>2, WFMin, FS_StrictSubsetOrderingWellFounded
  <2>4. PICK x \in U : TRUE
    BY <2>3
  <2>5. U \ {x} \notin Bad
    BY <2>3, <2>4 DEF StrictSubsetOrdering
  <2>6. CASE U \ {x} = {}
    BY <2>3, <2>4, <2>6
  <2>7. CASE U \ {x} # {}
    <3>1. PICK m \in U \ {x} : \A q \in (U \ {x}) \ {m} : After(m, q)
      BY <2>3, <2>5, <2>7
    <3>2. CASE After(m, x)
      BY <2>3, <3>1, <3>2
    <3>3. CASE After(x, m)
      <4>1. \A q \in U \ {x} : After(x, q)
        BY <1>3, <2>3, <2>4, <3>1, <3>3
      <4> QED BY <2>3, <2>4, <4>1
    <3> QED BY <1>2, <2>3, <2>4, <3>1, <3>2, <3>3
  <2> QED BY <2>6, <2>7
<1>5. \E p \in S : \A q \in S \ {p} : After(p, q)
  BY <1>4
<1> QED BY <1>5 DEF Newest, After

\* A source that was found is a file a pattern of the artefact names.
LEMMA SourceIsOne ==
  ASSUME NEW t \in Targets, NEW i \in DOMAIN Artefacts[t], NEW d,
         DOMAIN d \subseteq Paths, \A p \in DOMAIN d : d[p].time \in Nat,
         ~Missing(d, Artefacts[t][i]), Renders(d, Artefacts[t][i])
  PROVE  Source(d, Artefacts[t][i]) \in DOMAIN d \cap Files(Artefacts[t][i])
<1> DEFINE a == Artefacts[t][i]
<1>1. a.patterns \in Seq(Patterns)
  <2>1. a \in ArtefactConfigs
    BY ArtefactsAssumption, LenProperties, ElementOfSeq
  <2> QED BY <2>1 DEF ArtefactConfigs
<1> HIDE DEF a
<1> DEFINE stops == {n \in DOMAIN a.patterns :
                       ~a.patterns[n].renders \/ Matches(d, a.patterns[n]) # {}}
<1>2. stops \subseteq Nat
  BY <1>1, LenProperties
<1>3. Chosen(d, a) = IF stops = {} THEN 0 ELSE Min(stops)
  BY Zenon DEF Chosen
<1>4. stops # {} /\ Chosen(d, a) \in stops
  BY <1>2, <1>3, Least, Zenon DEF Missing, a
<1>5. a.patterns[Chosen(d, a)].renders
  BY DEF Renders, a
<1> DEFINE S == Matches(d, a.patterns[Chosen(d, a)])
<1>6. S # {} /\ S \subseteq DOMAIN d
  BY <1>4, <1>5 DEF Matches
<1>7. Newest(d, S) \in S
  BY <1>6, NewestIsOne
<1>8. S \subseteq Files(a)
  BY <1>4 DEF Matches, Files
<1> QED BY <1>6, <1>7, <1>8 DEF Source, a

-----------------------------------------------------------------------------
(* What staging a file does to the workspace. *)

Sound(d) == DOMAIN d \subseteq Paths /\ \A p \in DOMAIN d : d[p].time \in Nat

\* The workspace e is d, but for files under the staging directory of t.
Writes(t, d, e) ==
  /\ Sound(e)
  /\ \A p \in Paths : ~Under(Root[t], p) =>
       /\ p \in DOMAIN e <=> p \in DOMAIN d
       /\ p \in DOMAIN d => e[p] = d[p]

\* Writing another file under the directory is no more than that.
LEMMA PutWrites ==
  ASSUME NEW t, NEW d, NEW e, Writes(t, d, e),
         NEW p \in Paths, Under(Root[t], p), NEW x, x.time \in Nat
  PROVE  Writes(t, d, Put(e, p, x))
  BY DEF Writes, Sound, Put

\* Nor is what staging a file leaves, whether it succeeds or fails on the way.
LEMMA FileWrites ==
  ASSUME NEW t \in Targets, NEW d, Sound(d), NEW path \in Paths,
         Sidecar(path) \in Paths, Safe(t, path), path # Root[t],
         NEW f, f.time \in Nat
  PROVE  /\ Writes(t, d, d) /\ Writes(t, d, Without(d, {path}))
         /\ Writes(t, d, Copy(d, path, f))
         /\ Writes(t, d, WriteChecksum(Copy(d, path, f), path))
<1>1. Writes(t, d, d)
  BY DEF Writes
<1>2. Under(Root[t], path) /\ Under(Root[t], Sidecar(path))
  BY Walks, SidecarUnder DEF Safe
<1>3. Writes(t, d, Without(d, {path}))
  BY <1>1, <1>2 DEF Writes, Sound, Without
<1>4. Writes(t, d, Copy(d, path, f))
  BY <1>1, <1>2, PutWrites DEF Copy
<1> DEFINE x == [content |-> Digest(Copy(d, path, f)[path].content), time |-> Now]
<1>5. x.time \in Nat
  BY DEF Now
<1> HIDE DEF x
<1>6. Writes(t, d, Put(Copy(d, path, f), Sidecar(path), x))
  BY <1>2, <1>4, <1>5, PutWrites
<1> QED BY <1>1, <1>3, <1>4, <1>6 DEF WriteChecksum, x

\* What remains of a failed staging is under the directory, too.
LEMMA RemainsWrites ==
  ASSUME NEW t \in Targets, NEW d, Sound(d), NEW path,
         Safe(t, path) => {path, Sidecar(path)} \subseteq Paths,
         NEW files, \A f \in files : f.time \in Nat, NEW e \in Remains(t, d, path, files)
  PROVE  Writes(t, d, e)
<1>1. Writes(t, d, d)
  BY DEF Writes
<1>2. ASSUME Safe(t, path), Free(t, d, path)
      PROVE  /\ Writes(t, d, Without(d, {path}))
             /\ \A f \in files : /\ Writes(t, d, Copy(d, path, f))
                                 /\ Writes(t, d, WriteChecksum(Copy(d, path, f), path))
  <2>1. /\ path \in Paths /\ Sidecar(path) \in Paths /\ path # Root[t]
    BY <1>2 DEF Free
  <2>2. Writes(t, d, Without(d, {path}))
    BY <1>2, <2>1, Walks, SidecarUnder DEF Safe, Writes, Sound, Without
  <2> QED BY <1>2, <2>1, <2>2, FileWrites
<1> QED BY <1>1, <1>2 DEF Remains

\* The three ways a step of staging may go: it passes something over, stages
\* a file at one of the target's places, or fails.
PassesOver(j) == UNCHANGED <<disk, staged, sums, outs, reports>> /\ pc'[j] \in {"stage", "finish"}

Stages(j, path, file, output) ==
  /\ Keep(j, path, file, output) /\ pc'[j] \in {"stage", "finish"}
  /\ Stageable(Target(j), disk[j], path)
  /\ path \in Paths /\ Sidecar(path) \in Paths /\ file.time \in Nat

Breaks(j) ==
  /\ UNCHANGED <<staged, sums, outs, reports>> /\ pc'[j] = "failed"
  /\ Writes(Target(j), disk[j], disk'[j])

\* A configured artefact is passed over, staged from the file that was
\* found, or fails to be.
LEMMA StagesArtefact ==
  ASSUME NEW j \in Jobs, j \in DOMAIN disk, j \in DOMAIN pc, Sound(disk[j]), Target(j) \in Targets,
         StageArtefact(j)
  PROVE  LET a == Artefacts[Target(j)][todo[j]]
         IN  \/ PassesOver(j) /\ Missing(disk[j], a) /\ Optional(a)
             \/ /\ Source(disk[j], a) \in DOMAIN disk[j] \cap Files(a)
                /\ Stages(j, Destination(Target(j), a, Source(disk[j], a)),
                          disk[j][Source(disk[j], a)], a.output)
             \/ Breaks(j)
<1> DEFINE t == Target(j)
           a == Artefacts[t][todo[j]]
           d == disk[j]
           source == Source(d, a)
           path == Destination(t, a, source)
<1>1. todo[j] \in DOMAIN Artefacts[t]
  BY DEF StageArtefact
<1>2. CASE UNCHANGED disk /\ EndsStaging(j)
  BY <1>2 DEF EndsStaging, ToStep, staging, Breaks, Writes
<1>3. CASE Missing(d, a) /\ Optional(a) /\ ToStep(j, "stage") /\ UNCHANGED <<disk, staging>>
  BY <1>3 DEF ToStep, staging, PassesOver
<1>4. CASE Renders(d, a) /\ ~Missing(d, a)
  <2>1. source \in DOMAIN d \cap Files(a)
    BY <1>1, <1>4, SourceIsOne DEF Sound
  <2>2. path \in Places(t, todo[j])
    BY <2>1 DEF Places
  <2>3. Safe(t, path) => {path, Sidecar(path)} \subseteq Paths
    BY <1>1, <2>2, PlacesAssumption
  <2>4. d[source].time \in Nat
    BY <2>1 DEF Sound
  <2>5. CASE /\ Stageable(t, d, path) /\ source # path
             /\ ToStep(j, "stage") /\ Keep(j, path, d[source], a.output)
    BY <2>1, <2>3, <2>4, <2>5 DEF Stages, Stageable, ToStep
  <2>6. CASE /\ EndsStaging(j)
             /\ \E e \in Remains(t, d, path, Copied(d, source, path)) :
                  disk' = [disk EXCEPT ![j] = e]
    <3>1. PICK e \in Remains(t, d, path, Copied(d, source, path)) :
            disk' = [disk EXCEPT ![j] = e]
      BY <2>6
    <3>2. \A f \in Copied(d, source, path) : f.time \in Nat
      BY <2>4 DEF Copied
    <3>3. Writes(t, d, e)
      BY <2>3, <3>1, <3>2, RemainsWrites
    <3> QED BY <2>6, <3>1, <3>3 DEF EndsStaging, ToStep, staging, Breaks
  <2> QED BY <1>4, <2>5, <2>6 DEF StageArtefact
<1> QED BY <1>2, <1>3, <1>4 DEF StageArtefact

\* So is the archive, if one is asked for.
LEMMA StagesArchive ==
  ASSUME NEW j \in Jobs, j \in DOMAIN disk, j \in DOMAIN pc, Sound(disk[j]), Target(j) \in Targets,
         StageBinstallArchive(j)
  PROVE  \/ PassesOver(j)
         \/ \E path \in ArchivePlaces(Target(j)) : \E file, output :
              Stages(j, path, file, output)
         \/ Breaks(j)
<1> DEFINE t == Target(j)
           b == Binstall[t]
           d == disk[j]
           path == Resolve(StagingDir(t) \o b.archive)
           file == Archived(d, BinarySource(d, b))
<1>1. CASE ToStep(j, "finish") /\ UNCHANGED <<disk, staging>>
  BY <1>1 DEF ToStep, staging, PassesOver
<1>2. CASE EndsStaging(j) /\ UNCHANGED disk
  BY <1>2 DEF EndsStaging, ToStep, staging, Breaks, Writes
<1>3. ASSUME b.enabled
      PROVE  path \in ArchivePlaces(t) /\ (Safe(t, path) => {path, Sidecar(path)} \subseteq Paths)
  <2>1. path \in ArchivePlaces(t)
    BY <1>3 DEF ArchivePlaces
  <2> QED BY <2>1, PlacesAssumption
<1>4. file.time \in Nat
  BY DEF Archived, Now
<1> HIDE DEF file, path
<1>5. CASE /\ b.enabled /\ Stageable(t, d, path)
           /\ ToStep(j, "finish") /\ Keep(j, path, file, b.output)
  BY <1>3, <1>4, <1>5 DEF Stages, Stageable, ToStep
<1>6. CASE /\ b.enabled /\ EndsStaging(j)
           /\ \E e \in Remains(t, d, path, {file}) : disk' = [disk EXCEPT ![j] = e]
  <2>1. PICK e \in Remains(t, d, path, {file}) : disk' = [disk EXCEPT ![j] = e]
    BY <1>6
  <2>2. \A f \in {file} : f.time \in Nat
    BY <1>4
  <2>3. Writes(t, d, e)
    BY <1>3, <1>6, <2>1, <2>2, RemainsWrites
  <2> QED BY <1>6, <2>1, <2>3 DEF EndsStaging, ToStep, staging, Breaks
<1> QED BY <1>1, <1>2, <1>5, <1>6 DEF StageBinstallArchive, path, file

-----------------------------------------------------------------------------
(* Types. *)

Within == {"stage", "finish", "write"}
Preparing == {"load", "initialize"} \cup Within
Uploading == {"discover", "upload", "done"}

\* Every job has a value of every variable.
Shape ==
  /\ DOMAIN plan = Jobs /\ DOMAIN built = Jobs /\ DOMAIN disk = Jobs
  /\ DOMAIN pc = Jobs /\ DOMAIN use = Jobs /\ DOMAIN todo = Jobs
  /\ DOMAIN staged = Jobs /\ DOMAIN sums = Jobs /\ DOMAIN outs = Jobs
  /\ DOMAIN reports = Jobs /\ DOMAIN queue = Jobs /\ DOMAIN count = Jobs
  /\ DOMAIN result = Jobs /\ DOMAIN attempts = Jobs

StagedBelow(j) ==
  staged[j] # {} => \E t \in ToSet(plan[j].targets) : \A p \in staged[j] : Under(Root[t], p)

\* TypeOK of one job, with the times of its files, what it is staging and what
\* it has found fit to upload.
JobTyped(j) ==
  /\ plan[j] \in Plans[j] /\ use[j] \in DOMAIN plan[j].targets
  /\ built[j] \in Builds[j] /\ Sound(disk[j])
  /\ pc[j] \in {"failed"} \cup Preparing \cup Uploading
  /\ todo[j] \in Nat \ {0}
  /\ staged[j] = DOMAIN sums[j] /\ Range(outs[j]) \subseteq staged[j]
  /\ StagedBelow(j)
  /\ pc[j] \in Within => \A p \in staged[j] : Under(Root[Target(j)], p)
  /\ queue[j] \subseteq Candidates(disk[j])
  /\ queue[j] # {} => pc[j] = "upload"
  /\ \A p \in queue[j] : disk[j][p].content # <<>>
  /\ count[j] \in Nat /\ result[j] \in {"none", "ok", "error"}
  /\ attempts[j] \in 1 .. MaxAttempts[j]

SharedTyped ==
  /\ \A n \in DOMAIN release : release[n] # <<>>
  /\ open \subseteq Jobs /\ sent \subseteq Jobs \X Paths

TypeInv == Shape /\ (\A j \in Jobs : JobTyped(j)) /\ SharedTyped

\* The type invariant is part of it.
LEMMA TypeInvTypes == TypeInv => TypeOK
  BY DEF TypeInv, JobTyped, StagedBelow, SharedTyped, TypeOK, Sound, Within,
         Preparing, Uploading, Candidates

\* A job whose values a step leaves alone.
Same(i) ==
  /\ plan'[i] = plan[i] /\ built'[i] = built[i] /\ disk'[i] = disk[i]
  /\ pc'[i] = pc[i] /\ use'[i] = use[i] /\ todo'[i] = todo[i]
  /\ staged'[i] = staged[i] /\ sums'[i] = sums[i] /\ outs'[i] = outs[i]
  /\ reports'[i] = reports[i] /\ queue'[i] = queue[i] /\ count'[i] = count[i]
  /\ result'[i] = result[i] /\ attempts'[i] = attempts[i]

\* A target of the plan is one of the targets, and a directory known to be a walk.
LEMMA PlannedTarget ==
  ASSUME NEW j \in Jobs, plan[j] \in Plans[j]
  PROVE  /\ Len(plan[j].targets) \in Nat \ {0}
         /\ DOMAIN plan[j].targets = 1 .. Len(plan[j].targets)
         /\ \A k \in DOMAIN plan[j].targets : plan[j].targets[k] \in Targets
  BY PlansAssumption, LenProperties, EmptySeq, ElementOfSeq

\* The steps of one job.
Step(j) ==
  \/ LoadConfig(j) \/ InitializeStagingDir(j) \/ StageArtefact(j)
  \/ StageBinstallArchive(j) \/ Finish(j) \/ WriteOutputs(j)
  \/ DiscoverAssets(j) \/ UploadAsset(j) \/ Uploaded(j)
  \/ RepeatUpload(j) \/ Rerun(j)

\* A job's step leaves the other jobs alone, and every job its variables.
LEMMA OtherJobs ==
  ASSUME Shape, NEW j \in Jobs, Step(j)
  PROVE  Shape' /\ \A i \in Jobs \ {j} : Same(i)
<1> USE DEF Shape, Same, ToStep, Elsewhere, EndsStaging, Keep, InUpload, job, staging,
        uploading, shared
<1>1. CASE LoadConfig(j)  BY <1>1 DEF LoadConfig
<1>2. CASE InitializeStagingDir(j)  BY <1>2 DEF InitializeStagingDir
<1>3. CASE StageArtefact(j)  BY <1>3, ZenonT(30) DEF StageArtefact
<1>4. CASE StageBinstallArchive(j)  BY <1>4 DEF StageBinstallArchive
<1>5. CASE Finish(j)  BY <1>5 DEF Finish
<1>6. CASE WriteOutputs(j)  BY <1>6 DEF WriteOutputs
<1>7. CASE DiscoverAssets(j)  BY <1>7 DEF DiscoverAssets
<1>8. CASE UploadAsset(j)  BY <1>8 DEF UploadAsset
<1>9. CASE Uploaded(j)  BY <1>9 DEF Uploaded
<1>10. CASE RepeatUpload(j)  BY <1>10 DEF RepeatUpload
<1>11. CASE Rerun(j)  BY <1>11 DEF Rerun
<1> QED
  BY <1>1, <1>2, <1>3, <1>4, <1>5, <1>6, <1>7, <1>8, <1>9, <1>10, <1>11 DEF Step

\* What is staged is kept under the directory of the target.
LEMMA StagedTyped ==
  ASSUME Shape, NEW j \in Jobs, JobTyped(j), pc[j] \in Within, UNCHANGED <<job, uploading>>,
         todo'[j] \in Nat \ {0}, NEW path, NEW file, NEW output, Stages(j, path, file, output)
  PROVE  JobTyped(j)'
<1>1. /\ Target(j) \in Targets /\ Target(j) \in ToSet(plan[j].targets)
  BY PlannedTarget DEF JobTyped, Target, ToSet
<1>2. /\ disk'[j] = WriteChecksum(Copy(disk[j], path, file), path)
      /\ staged'[j] = staged[j] \cup {path}
      /\ sums'[j] = Put(sums[j], path, Digest(file.content))
      /\ outs'[j] = IF output = "" THEN outs[j] ELSE Put(outs[j], output, path)
  BY DEF Stages, Keep, Shape
<1>3. /\ Under(Root[Target(j)], path)
      /\ Sound(disk'[j])
  <2>1. /\ Sound(disk[j]) /\ path \in Paths /\ Sidecar(path) \in Paths
        /\ Safe(Target(j), path) /\ path # Root[Target(j)] /\ file.time \in Nat
    BY DEF JobTyped, Stages, Stageable, Free
  <2>2. Writes(Target(j), disk[j], WriteChecksum(Copy(disk[j], path, file), path))
    BY <1>1, <2>1, FileWrites
  <2> QED BY <1>2, <2>1, <2>2 DEF Safe, Writes
<1>4. /\ staged'[j] = DOMAIN (sums'[j])
      /\ Range(outs'[j]) \subseteq staged'[j]
  <2>1. staged[j] = DOMAIN sums[j] /\ Range(outs[j]) \subseteq staged[j]
    BY DEF JobTyped
  <2>2. DOMAIN Put(sums[j], path, Digest(file.content)) = DOMAIN sums[j] \cup {path}
    BY DEF Put
  <2>3. Range(Put(outs[j], output, path)) \subseteq Range(outs[j]) \cup {path}
    BY DEF Put, Range
  <2> QED BY <1>2, <2>1, <2>2, <2>3
<1>5. \A p \in staged'[j] : Under(Root[Target(j)], p)
  BY <1>2, <1>3 DEF JobTyped
<1>6. Target(j)' = Target(j) /\ queue[j] = {}
  BY DEF Target, job, JobTyped, Within
<1> QED
  BY <1>1, <1>3, <1>4, <1>5, <1>6 DEF JobTyped, StagedBelow, job, uploading,
     Within, Preparing, Uploading, Stages

\* Each step of staging and reporting keeps the types of its job.
LEMMA TypeStaging ==
  ASSUME Shape, NEW j \in Jobs, JobTyped(j),
         \/ LoadConfig(j) \/ InitializeStagingDir(j) \/ StageArtefact(j)
         \/ StageBinstallArchive(j) \/ Finish(j) \/ WriteOutputs(j)
  PROVE  JobTyped(j)' /\ UNCHANGED shared
<1>1. /\ Target(j) \in Targets /\ DOMAIN plan[j].targets = 1 .. Len(plan[j].targets)
      /\ Len(plan[j].targets) \in Nat \ {0}
  BY PlannedTarget DEF JobTyped, Target
<1>2. pc[j] \in Preparing /\ queue[j] = {}
  BY DEF LoadConfig, InitializeStagingDir, StageArtefact, StageBinstallArchive,
         Finish, WriteOutputs, Preparing, Within, JobTyped
<1> USE DEF Shape, Within, Preparing, Uploading
<1>3. CASE LoadConfig(j)
  BY <1>2, <1>3 DEF LoadConfig, JobTyped, StagedBelow, ToStep, Elsewhere, job, staging, uploading
<1>4. CASE InitializeStagingDir(j)
  <2>1. UNCHANGED <<job, uploading, shared>> /\ pc'[j] \in {"stage", "failed"}
    BY <1>4 DEF InitializeStagingDir, ToStep, Elsewhere
  <2>2. staged'[j] = {} /\ sums'[j] = Empty /\ outs'[j] = Empty
    BY <1>4 DEF InitializeStagingDir
  <2>3. disk'[j] \in {disk[j], Wiped(disk[j], Root[Target(j)])} /\ todo'[j] \in Nat \ {0}
    BY <1>4 DEF InitializeStagingDir, JobTyped
  <2>4. Sound(disk'[j])
    BY <2>3 DEF JobTyped, Sound, Wiped, Without
  <2>5. Range(Empty) = {} /\ DOMAIN Empty = {}
    BY DEF Range, Empty
  <2> QED BY <1>2, <2>1, <2>2, <2>3, <2>4, <2>5 DEF JobTyped, StagedBelow, job, uploading
<1>5. CASE StageArtefact(j) \/ StageBinstallArchive(j)
  <2>1. UNCHANGED <<job, uploading, shared>> /\ pc[j] \in Within
    BY <1>5, SMTT(20) DEF StageArtefact, StageBinstallArchive, Elsewhere
  <2>2. todo'[j] \in Nat \ {0}
    BY <1>5 DEF StageArtefact, StageBinstallArchive, JobTyped
  <2>3. \/ PassesOver(j) \/ Breaks(j)
        \/ \E path, file, output : Stages(j, path, file, output)
    BY <1>1, <1>5, StagesArtefact, StagesArchive DEF JobTyped
  <2>4. CASE PassesOver(j)
    BY <1>2, <2>1, <2>2, <2>4 DEF PassesOver, JobTyped, StagedBelow, Target, job, uploading
  <2>5. CASE Breaks(j)
    <3>1. Sound(disk'[j])
      BY <2>5 DEF Breaks, Writes
    <3> QED BY <1>2, <2>1, <2>2, <2>5, <3>1
            DEF Breaks, JobTyped, StagedBelow, Target, job, uploading
  <2> QED BY <2>1, <2>2, <2>3, <2>4, <2>5, StagedTyped
<1>6. CASE Finish(j)
  BY <1>2, <1>6 DEF Finish, JobTyped, StagedBelow, Target, ToStep, Elsewhere, job, staging, uploading
<1>7. CASE WriteOutputs(j)
  <2>1. /\ use'[j] \in DOMAIN plan[j].targets /\ pc'[j] \in {"load", "discover"}
    BY <1>1, <1>7 DEF WriteOutputs, ToStep, JobTyped
  <2> QED BY <1>2, <1>7, <2>1 DEF WriteOutputs, JobTyped, StagedBelow, uploading
<1>8. UNCHANGED shared
  BY DEF LoadConfig, InitializeStagingDir, StageArtefact, StageBinstallArchive,
         Finish, WriteOutputs, Elsewhere
<1> QED BY <1>3, <1>4, <1>5, <1>6, <1>7, <1>8

\* Files with contents are found, so there are finitely many to count.
LEMMA Countable ==
  ASSUME NEW d, Sound(d)
  PROVE  Cardinality(Candidates(d)) \in Nat
<1>1. IsFiniteSet(Candidates(d))
  BY Ordered, FS_Subset DEF Candidates, CandidatePaths
<1> QED BY <1>1, FS_CardinalityType

\* Each step of the upload keeps the types of its job and of the release.
LEMMA TypeUploading ==
  ASSUME Shape, NEW j \in Jobs, JobTyped(j), SharedTyped,
         DiscoverAssets(j) \/ UploadAsset(j) \/ Uploaded(j)
  PROVE  JobTyped(j)' /\ SharedTyped'
<1> USE DEF Shape, Within, Preparing, Uploading
<1>1. /\ UNCHANGED <<job, disk, todo, staging>>
  BY DEF DiscoverAssets, UploadAsset, Uploaded, InUpload
<1>2. /\ pc[j] \in {"discover", "upload"} /\ Cardinality(Candidates(disk[j])) \in Nat
  BY Countable DEF DiscoverAssets, UploadAsset, Uploaded, JobTyped
<1>3. ASSUME pc'[j] \in {"failed"} \cup Uploading, queue'[j] \subseteq Candidates(disk[j]),
             queue'[j] # {} => pc'[j] = "upload",
             \A p \in queue'[j] : disk[j][p].content # <<>>,
             count'[j] \in Nat, result'[j] \in {"none", "ok", "error"}
      PROVE  JobTyped(j)'
  BY <1>1, <1>2, <1>3 DEF JobTyped, StagedBelow, job, staging
<1>4. CASE DiscoverAssets(j)
  <2>1. Discovers(disk[j]) => \A p \in Candidates(disk[j]) : disk[j][p].content # <<>>
    BY DEF Discovers
  <2>2. JobTyped(j)'
    BY <1>2, <1>3, <1>4, <2>1 DEF DiscoverAssets, ToStep, JobTyped
  <2> QED BY <1>4, <2>2 DEF DiscoverAssets, SharedTyped, shared
<1>5. CASE UploadAsset(j)
  <2> DEFINE p == First(queue[j])
  <2>1. p \in queue[j] /\ p \in Paths
    BY <1>5, FirstIsOne DEF UploadAsset, JobTyped, Candidates, CandidatePaths
  <2>2. disk[j][p].content # <<>>
    BY <2>1 DEF JobTyped
  <2> HIDE DEF p
  <2>3. JobTyped(j)'
    <3>1. CASE GhUploads(j, p) /\ queue' = [queue EXCEPT ![j] = @ \ {p}]
               /\ UNCHANGED <<pc, count, result>>
      BY <1>2, <1>3, <1>5, <3>1 DEF UploadAsset, JobTyped
    <3>2. CASE /\ ToStep(j, "failed") /\ queue' = [queue EXCEPT ![j] = {}]
               /\ count' = [count EXCEPT ![j] = 0] /\ result' = [result EXCEPT ![j] = "error"]
      BY <1>3, <3>2 DEF ToStep
    <3> QED BY <1>5, <3>1, <3>2 DEF UploadAsset, p
  <2>4. \A n \in DOMAIN release' : release'[n] # <<>>
    <3>1. GhUploads(j, p) \/ GhFails(j, p)
      BY <1>5 DEF UploadAsset, p
    <3> QED BY <2>2, <3>1 DEF GhUploads, GhFails, Put, Without, SharedTyped
  <2> QED BY <1>5, <2>1, <2>3, <2>4 DEF UploadAsset, SharedTyped, p
<1>6. CASE Uploaded(j)
  <2>1. JobTyped(j)'
    BY <1>2, <1>3, <1>6 DEF Uploaded, ToStep, JobTyped
  <2> QED BY <1>6, <2>1 DEF Uploaded, SharedTyped
<1> QED BY <1>4, <1>5, <1>6

\* Another attempt keeps them, too.
LEMMA TypeRetrying ==
  ASSUME Shape, NEW j \in Jobs, JobTyped(j), RepeatUpload(j) \/ Rerun(j)
  PROVE  JobTyped(j)' /\ UNCHANGED shared
<1> USE DEF Shape, Within, Preparing, Uploading
<1>1. pc[j] = "failed" /\ queue[j] = {} /\ attempts'[j] \in 1 .. MaxAttempts[j]
  BY AttemptsAssumption DEF RepeatUpload, Rerun, JobTyped
<1>2. CASE RepeatUpload(j)
  BY <1>1, <1>2 DEF RepeatUpload, JobTyped, StagedBelow, ToStep, staging
<1>3. CASE Rerun(j)
  <2>1. PICK b \in Builds[j] : built' = [built EXCEPT ![j] = b] /\ disk' = [disk EXCEPT ![j] = b]
    BY <1>3 DEF Rerun
  <2>2. Sound(b)
    BY <2>1, BuildsAssumption DEF Sound
  <2>3. 1 \in DOMAIN plan[j].targets
    BY PlannedTarget DEF JobTyped
  <2>4. Range(Empty) = {} /\ DOMAIN Empty = {}
    BY DEF Range, Empty
  <2> QED BY <1>1, <1>3, <2>1, <2>2, <2>3, <2>4 DEF Rerun, JobTyped, StagedBelow, ToStep
<1> QED BY <1>2, <1>3 DEF RepeatUpload, Rerun

\* The builds are done and nothing is staged: that is well typed.
LEMMA TypeInit == Init => TypeInv
<1> SUFFICES ASSUME Init PROVE TypeInv
  OBVIOUS
<1>1. Shape
  BY DEF Init, Shape
<1>2. ASSUME NEW j \in Jobs
      PROVE  JobTyped(j)
  <2>1. plan[j] \in Plans[j] /\ built[j] \in Builds[j] /\ disk[j] = built[j]
    BY DEF Init
  <2>2. Sound(built[j])
    BY <2>1, BuildsAssumption DEF Sound
  <2>3. 1 \in DOMAIN plan[j].targets
    BY <2>1, PlannedTarget
  <2>4. Range(Empty) = {} /\ DOMAIN Empty = {}
    BY DEF Range, Empty
  <2>5. 1 \in 1 .. MaxAttempts[j]
    BY AttemptsAssumption
  <2> QED BY <2>1, <2>2, <2>3, <2>4, <2>5
          DEF Init, JobTyped, StagedBelow, Within, Preparing, Uploading
<1>3. SharedTyped
  BY DEF Init, SharedTyped, Empty
<1> QED BY <1>1, <1>2, <1>3 DEF TypeInv

\* A job left alone stays well typed.
LEMMA SameTyped ==
  ASSUME NEW i \in Jobs, JobTyped(i), Same(i)
  PROVE  JobTyped(i)'
  BY DEF JobTyped, StagedBelow, Same, Target

\* Every step keeps the types.
LEMMA TypeStep == TypeInv /\ [Next]_vars => TypeInv'
<1> SUFFICES ASSUME TypeInv, [Next]_vars PROVE TypeInv'
  OBVIOUS
<1>1. ASSUME NEW j \in Jobs, Step(j)
      PROVE  TypeInv'
  <2>1. Shape' /\ \A i \in Jobs \ {j} : Same(i)
    BY <1>1, OtherJobs DEF TypeInv
  <2>2. JobTyped(j)' /\ SharedTyped'
    <3>1. UNCHANGED shared => SharedTyped'
      BY DEF TypeInv, SharedTyped, shared
    <3> QED BY <1>1, <3>1, TypeStaging, TypeUploading, TypeRetrying DEF TypeInv, Step
  <2> QED BY <2>1, <2>2, SameTyped DEF TypeInv
<1>2. CASE UNCHANGED vars
  <2>1. \A i \in Jobs : Same(i)
    BY <1>2 DEF vars, job, staging, uploading, Same
  <2> QED BY <1>2, <2>1, SameTyped
          DEF TypeInv, Shape, SharedTyped, vars, job, staging, uploading, shared
<1> QED BY <1>1, <1>2 DEF Next, Step

\* Every state of a workflow is well typed, with the parts of it that
\* TypeOK does not tell.
LEMMA Typed == Spec => []TypeInv
  BY TypeInit, TypeStep, PTL DEF Spec

\* Every workspace holds only files the paths name, every use's files lie
\* under one staging directory of the job's plan, and what is queued for upload
\* is there.
THEOREM Typing == Spec => []TypeOK
  BY Typed, TypeInvTypes, PTL

-----------------------------------------------------------------------------
(* What a job that reports a success has on the release. *)

\* A candidate was uploaded and is on the release as it is in dist, or another
\* file of its name was uploaded too.
Delivered(j, p) ==
  /\ <<j, p>> \in sent
  /\ \/ Namesakes(j, p) # {}
     \/ /\ Name(p) \in DOMAIN release
        /\ release[Name(p)] = disk[j][p].content

\* Published of one job, and of what it has uploaded when it is on its way.
JobPublished(j) ==
  /\ result[j] = "ok" => pc[j] = "done"
  /\ plan[j].dry => \A x \in sent : x[1] # j
  /\ pc[j] = "upload" =>
       ~plan[j].dry /\ \A p \in Candidates(disk[j]) \ queue[j] : Delivered(j, p)
  /\ pc[j] = "done" =>
       /\ count[j] = Cardinality(Candidates(disk[j]))
       /\ ~plan[j].dry => \A p \in Candidates(disk[j]) : Delivered(j, p)

\* The uploads of every job so far.
Publishing == \A j \in Jobs : JobPublished(j)

\* An upload, and one that fails, leaves what other files delivered, or is a namesake.
LEMMA StillDelivered ==
  ASSUME NEW j, NEW q, NEW i, NEW p, <<i, p>> # <<j, q>>,
         sent' = sent \cup {<<j, q>>}, GhUploads(j, q) \/ GhFails(j, q),
         disk'[i] = disk[i], Delivered(i, p)
  PROVE  Delivered(i, p)'
<1>1. CASE Name(p) = Name(q)
  BY <1>1 DEF Delivered, Namesakes
<1>2. CASE Name(p) # Name(q)
  <2>1. Namesakes(i, p) \subseteq Namesakes(i, p)'
    BY DEF Namesakes
  <2>2. Name(p) \in DOMAIN release =>
          Name(p) \in DOMAIN release' /\ release'[Name(p)] = release[Name(p)]
    BY <1>2 DEF GhUploads, GhFails, Put, Without
  <2> QED BY <2>1, <2>2 DEF Delivered
<1> QED BY <1>1, <1>2

\* The steps that leave the release alone keep what it is for a job.
LEMMA PublishedAlone ==
  ASSUME NEW i \in Jobs, JobPublished(i), Same(i), UNCHANGED shared
  PROVE  JobPublished(i)'
<1>1. \A p : Delivered(i, p) => Delivered(i, p)'
  BY DEF Delivered, Namesakes, Same, shared
<1> QED BY <1>1 DEF JobPublished, Same, shared

\* Each step of a job keeps what it has published.
LEMMA PublishedOwn ==
  ASSUME Shape, NEW j \in Jobs, JobTyped(j), JobPublished(j), Step(j)
  PROVE  JobPublished(j)'
<1> USE DEF Shape
<1>1. CASE \/ LoadConfig(j) \/ InitializeStagingDir(j) \/ StageArtefact(j)
           \/ StageBinstallArchive(j) \/ Finish(j) \/ WriteOutputs(j)
  <2>1. UNCHANGED <<plan, sent, result>> /\ pc[j] \in Preparing
    BY <1>1 DEF LoadConfig, InitializeStagingDir, StageArtefact, StageBinstallArchive,
                Finish, WriteOutputs, Elsewhere, job, uploading, shared, Preparing, Within
  <2>2. pc'[j] \in {"failed", "discover"} \cup Preparing
    BY <1>1 DEF LoadConfig, InitializeStagingDir, StageArtefact, StageBinstallArchive,
                Finish, WriteOutputs, ToStep, EndsStaging, Preparing, Within
  <2> QED BY <2>1, <2>2 DEF JobPublished, Preparing, Within
<1>2. CASE DiscoverAssets(j)
  <2>1. UNCHANGED <<plan, disk, sent>> /\ pc[j] = "discover" /\ result[j] # "ok"
    BY <1>2 DEF DiscoverAssets, InUpload, job, shared, JobPublished
  <2>2. CASE ~Discovers(disk[j])
    BY <1>2, <2>1, <2>2 DEF DiscoverAssets, ToStep, JobPublished
  <2>3. CASE Discovers(disk[j]) /\ plan[j].dry
    BY <1>2, <2>1, <2>3 DEF DiscoverAssets, ToStep, JobPublished
  <2>4. CASE Discovers(disk[j]) /\ ~plan[j].dry
    BY <1>2, <2>1, <2>4 DEF DiscoverAssets, ToStep, JobPublished
  <2> QED BY <2>2, <2>3, <2>4
<1>3. CASE UploadAsset(j)
  <2> DEFINE q == First(queue[j])
  <2>1. /\ UNCHANGED <<plan, disk>> /\ pc[j] = "upload" /\ ~plan[j].dry
        /\ sent' = sent \cup {<<j, q>>} /\ result[j] # "ok"
    BY <1>3 DEF UploadAsset, InUpload, job, JobPublished
  <2>2. CASE /\ GhUploads(j, q) /\ queue' = [queue EXCEPT ![j] = @ \ {q}]
             /\ UNCHANGED <<pc, count, result>>
    <3> HIDE DEF q
    <3>1. ASSUME NEW p \in Candidates(disk[j]) \ (queue[j] \ {q})
          PROVE  Delivered(j, p)'
      <4>1. CASE p = q
        <5>1. release'[Name(p)] = disk'[j][p].content /\ Name(p) \in DOMAIN release'
          BY <2>1, <2>2, <4>1 DEF GhUploads, Put
        <5> QED BY <2>1, <4>1, <5>1 DEF Delivered
      <4>2. CASE p # q
        BY <2>1, <2>2, <4>2, StillDelivered DEF JobPublished
      <4> QED BY <4>1, <4>2
    <3> QED BY <2>1, <2>2, <3>1 DEF JobPublished
  <2>3. CASE ToStep(j, "failed") /\ result' = [result EXCEPT ![j] = "error"]
    BY <2>1, <2>3 DEF ToStep, JobPublished
  <2> QED BY <1>3, <2>2, <2>3 DEF UploadAsset
<1>4. CASE Uploaded(j)
  <2>1. /\ UNCHANGED <<plan, disk, sent, release>> /\ ~plan[j].dry
        /\ \A p \in Candidates(disk[j]) : Delivered(j, p)
    BY <1>4 DEF Uploaded, InUpload, job, JobPublished
  <2>2. \A p : Delivered(j, p)' <=> Delivered(j, p)
    BY <2>1 DEF Delivered, Namesakes
  <2> QED BY <1>4, <2>1, <2>2 DEF Uploaded, ToStep, JobPublished
<1>5. CASE RepeatUpload(j)
  BY <1>5 DEF RepeatUpload, ToStep, JobPublished, shared
<1>6. CASE Rerun(j)
  BY <1>6 DEF Rerun, ToStep, JobPublished, shared
<1> QED BY <1>1, <1>2, <1>3, <1>4, <1>5, <1>6 DEF Step

\* And what the other jobs have.
LEMMA PublishedOthers ==
  ASSUME NEW j \in Jobs, JobTyped(j), Step(j), NEW i \in Jobs \ {j}, Same(i), JobPublished(i)
  PROVE  JobPublished(i)'
<1>1. CASE UploadAsset(j)
  <2> DEFINE q == First(queue[j])
  <2>1. sent' = sent \cup {<<j, q>>} /\ (GhUploads(j, q) \/ GhFails(j, q))
    BY <1>1 DEF UploadAsset
  <2> HIDE DEF q
  <2>2. \A p : Delivered(i, p) => Delivered(i, p)'
    BY <2>1, StillDelivered DEF Same
  <2> QED BY <2>1, <2>2 DEF JobPublished, Same
<1>2. CASE ~UploadAsset(j)
  <2>1. UNCHANGED <<sent, release>>
    BY <1>2 DEF Step, LoadConfig, InitializeStagingDir, StageArtefact, StageBinstallArchive,
         Finish, WriteOutputs, DiscoverAssets, Uploaded, RepeatUpload, Rerun, Elsewhere, shared
  <2>2. \A p : Delivered(i, p) => Delivered(i, p)'
    BY <2>1 DEF Delivered, Namesakes, Same
  <2> QED BY <2>1, <2>2 DEF JobPublished, Same
<1> QED BY <1>1, <1>2

\* Every step keeps what the jobs have published.
LEMMA PublishingStep == TypeInv /\ Publishing /\ [Next]_vars => Publishing'
<1> SUFFICES ASSUME TypeInv, Publishing, [Next]_vars PROVE Publishing'
  OBVIOUS
<1>1. ASSUME NEW j \in Jobs, Step(j)
      PROVE  Publishing'
  BY <1>1, OtherJobs, PublishedOwn, PublishedOthers DEF TypeInv, Publishing
<1>2. CASE UNCHANGED vars
  <2>1. (\A i \in Jobs : Same(i)) /\ UNCHANGED shared
    BY <1>2 DEF vars, job, staging, uploading, Same
  <2> QED BY <2>1, PublishedAlone DEF Publishing
<1> QED BY <1>1, <1>2 DEF Next, Step

\* A job that reports a success has each candidate on the release as it is in
\* dist, has counted them all and has uploaded nothing in a dry run, however the
\* jobs' uploads interleave, fail and are repeated; but for names used twice.
THEOREM Publication == Spec => []Published
<1>1. Init => Publishing
  BY DEF Init, Publishing, JobPublished
<1>2. Spec => []Publishing
  BY <1>1, Typed, PublishingStep, PTL DEF Spec
<1>3. Publishing => Published
  BY DEF Publishing, JobPublished, Delivered, Published
<1> QED BY <1>2, <1>3, PTL

-----------------------------------------------------------------------------
(* What a use of the action reported stays true. *)

\* Every place is under the directory of its target and a path of the workspace.
Placed(t, S) ==
  \A p \in S : {p, Sidecar(p)} \subseteq Paths /\ Under(Root[t], p) /\ p # Root[t]

Clashes(S, p) == \E q \in S : Sidecar(q) = p \/ Sidecar(p) = q

\* The files of sum and their sidecars are in the workspace with what was
\* recorded of them.
Intact(d, sum) ==
  \A p \in DOMAIN sum :
    /\ p \in DOMAIN d
    /\ \/ Clashes(DOMAIN sum, p)
       \/ /\ Sidecar(p) \in DOMAIN d
          /\ Digest(d[p].content) = sum[p] /\ d[Sidecar(p)].content = sum[p]

Overlapped(j, k) == \E m \in k + 1 .. use[j] : Overlap(plan[j].targets[k], plan[j].targets[m])

\* OutputsHold of report k: its help directory has a file it staged.
ReportHolds(j, k) ==
  LET r == reports[j][k]
  IN  /\ Placed(plan[j].targets[k], DOMAIN r.sums)
      /\ Overlapped(j, k) \/ Intact(disk[j], r.sums)
      /\ r.help # None => \E p \in DOMAIN r.sums : Under(r.help, p)

\* One report of each use that is over, and what the present one has staged.
JobHolds(j) ==
  /\ reports[j] \in Seq(Range(reports[j])) /\ Len(reports[j]) <= use[j]
  /\ pc[j] \in Preparing => Len(reports[j]) = use[j] - 1 /\ result[j] = "none"
  /\ pc[j] \in Uploading \/ result[j] = "error" => Len(reports[j]) = use[j]
  /\ pc[j] \in Within => Placed(Target(j), DOMAIN sums[j]) /\ Intact(disk[j], sums[j])
  /\ \A k \in DOMAIN reports[j] : ReportHolds(j, k)

Holding == \A j \in Jobs : JobHolds(j)

\* A list that one more thing is added to.
LEMMA Appended ==
  ASSUME NEW s, s \in Seq(Range(s)), NEW x
  PROVE  /\ Len(s) \in Nat /\ DOMAIN s = 1 .. Len(s)
         /\ Append(s, x) \in Seq(Range(Append(s, x)))
         /\ Len(Append(s, x)) = Len(s) + 1
         /\ DOMAIN Append(s, x) = 1 .. Len(s) + 1
         /\ \A k \in 1 .. Len(s) : Append(s, x)[k] = s[k]
         /\ Append(s, x)[Len(s) + 1] = x
<1> DEFINE S == Range(s) \cup {x}
<1>1. s \in Seq(S) /\ x \in S
  BY SeqMonotonic
<1>2. /\ Append(s, x) \in Seq(S) /\ Len(Append(s, x)) = Len(s) + 1
      /\ \A k \in 1 .. Len(s) : Append(s, x)[k] = s[k]
      /\ Append(s, x)[Len(s) + 1] = x
  BY <1>1, AppendProperties
<1>3. Len(s) \in Nat /\ DOMAIN s = 1 .. Len(s) /\ DOMAIN Append(s, x) = 1 .. Len(s) + 1
  BY <1>1, <1>2, LenProperties
<1>4. Append(s, x) \in Seq(Range(Append(s, x)))
  BY <1>2, SeqOfRange
<1> QED BY <1>2, <1>3, <1>4

\* Staging a file leaves what was staged before, or is in the way of it.
LEMMA StillIntact ==
  ASSUME NEW d, NEW sum, NEW path \in Paths, NEW file,
         \A p \in DOMAIN sum : p \in Paths, Intact(d, sum)
  PROVE  Intact(WriteChecksum(Copy(d, path, file), path), Put(sum, path, Digest(file.content)))
<1> DEFINE c == Copy(d, path, file)
           e == WriteChecksum(c, path)
           s == Put(sum, path, Digest(file.content))
<1>1. Sidecar(path) # path
  BY Walks, NotItself
<1>2. /\ path \in DOMAIN e /\ e[path] = file
      /\ Sidecar(path) \in DOMAIN e /\ e[Sidecar(path)].content = Digest(file.content)
  BY <1>1 DEF WriteChecksum, Copy, Put
<1>3. /\ DOMAIN s = DOMAIN sum \cup {path} /\ s[path] = Digest(file.content)
      /\ \A p \in DOMAIN sum : p # path => s[p] = sum[p]
  BY DEF Put
<1>4. /\ DOMAIN d \subseteq DOMAIN e
      /\ \A p \in DOMAIN d : p \notin {path, Sidecar(path)} => e[p] = d[p]
  BY DEF WriteChecksum, Copy, Put
<1> HIDE DEF c, e, s
<1>5. ASSUME NEW p \in DOMAIN sum, p # path, ~Clashes(DOMAIN s, p)
      PROVE  /\ Sidecar(p) \in DOMAIN e
             /\ Digest(e[p].content) = s[p] /\ e[Sidecar(p)].content = s[p]
  <2>1. ~Clashes(DOMAIN sum, p) /\ p # Sidecar(path) /\ Sidecar(p) # path
    BY <1>3, <1>5 DEF Clashes
  <2>2. Sidecar(p) # Sidecar(path)
    BY <1>5, Walks, OneOwner
  <2> QED BY <1>3, <1>4, <1>5, <2>1, <2>2 DEF Intact
<1>6. Intact(e, s)
  BY <1>2, <1>3, <1>4, <1>5 DEF Intact
<1> QED BY <1>6 DEF e, s, c

\* Staging for one target leaves what is reported of another alone, unless the
\* directory of one is in the other's.
LEMMA ApartIntact ==
  ASSUME NEW t \in Targets, NEW u \in Targets, ~Overlap(t, u), NEW d, NEW e, NEW sum,
         Writes(u, d, e), Placed(t, DOMAIN sum), Intact(d, sum)
  PROVE  Intact(e, sum)
<1>1. ASSUME NEW p \in Paths, Under(Root[t], p)
      PROVE  /\ p \in DOMAIN d <=> p \in DOMAIN e
             /\ p \in DOMAIN d => e[p] = d[p]
  <2>1. ~Under(Root[u], p)
    BY <1>1, Walks, Comparable DEF Overlap
  <2> QED BY <1>1, <2>1 DEF Writes
<1>2. ASSUME NEW p \in DOMAIN sum
      PROVE  /\ p \in Paths /\ Sidecar(p) \in Paths
             /\ Under(Root[t], p) /\ Under(Root[t], Sidecar(p))
  BY <1>2, Walks, SidecarUnder DEF Placed
<1> QED BY <1>1, <1>2 DEF Intact

\* A reported help directory has something that was staged in it.
LEMMA HelpIsThere ==
  ASSUME NEW t, NEW paths, HelpDir(t, paths) # None
  PROVE  \E p \in paths : Under(HelpDir(t, paths), p)
  BY DEF HelpDir

\* While the workspace changes for the present target only, earlier reports
\* hold on.
LEMMA ReportsKept ==
  ASSUME NEW j \in Jobs, JobTyped(j), JobHolds(j), Len(reports[j]) = use[j] - 1,
         plan'[j] = plan[j], reports'[j] = reports[j], use'[j] = use[j],
         Writes(Target(j), disk[j], disk'[j])
  PROVE  \A k \in DOMAIN reports'[j] : ReportHolds(j, k)'
<1>1. /\ DOMAIN reports[j] = 1 .. use[j] - 1
      /\ DOMAIN plan[j].targets = 1 .. Len(plan[j].targets) /\ Len(plan[j].targets) \in Nat
      /\ use[j] \in DOMAIN plan[j].targets
      /\ \A m \in DOMAIN plan[j].targets : plan[j].targets[m] \in Targets
  <2>1. DOMAIN reports[j] = 1 .. Len(reports[j])
    BY LenProperties DEF JobHolds
  <2> QED BY <2>1, PlannedTarget DEF JobTyped
<1> TAKE k \in DOMAIN reports'[j]
<1>2. k \in DOMAIN reports[j] /\ k \in DOMAIN plan[j].targets /\ use[j] \in k + 1 .. use[j]
  BY <1>1
<1>3. ReportHolds(j, k)
  BY <1>2 DEF JobHolds
<1>4. Overlapped(j, k)' <=> Overlapped(j, k)
  BY DEF Overlapped
<1>5. CASE Overlapped(j, k)
  BY <1>3, <1>4, <1>5 DEF ReportHolds
<1>6. CASE ~Overlapped(j, k)
  <2> DEFINE t == plan[j].targets[k]
             u == plan[j].targets[use[j]]
             sum == reports[j][k].sums
  <2>1. ~Overlap(t, u) /\ t \in Targets /\ u \in Targets
    BY <1>1, <1>2, <1>6 DEF Overlapped
  <2>2. Placed(t, DOMAIN sum) /\ Intact(disk[j], sum)
    BY <1>3, <1>6 DEF ReportHolds
  <2>3. Writes(u, disk[j], disk'[j])
    BY DEF Target
  <2> HIDE DEF t, u, sum
  <2>4. Intact(disk'[j], sum)
    BY <2>1, <2>2, <2>3, ApartIntact
  <2> QED BY <1>3, <2>2, <2>4 DEF ReportHolds, t, sum
<1> QED BY <1>5, <1>6

\* Each step of staging and reporting keeps what its job reported.
LEMMA HoldsStaging ==
  ASSUME Shape, NEW j \in Jobs, JobTyped(j), JobHolds(j),
         \/ LoadConfig(j) \/ InitializeStagingDir(j) \/ StageArtefact(j)
         \/ StageBinstallArchive(j) \/ Finish(j)
  PROVE  JobHolds(j)'
<1> USE DEF Shape, Within, Preparing, Uploading
<1>1. /\ UNCHANGED <<plan, use, reports, result>> /\ pc[j] \in Preparing
      /\ pc'[j] \in {"failed", "initialize"} \cup Within
      /\ Len(reports[j]) = use[j] - 1 /\ result[j] = "none"
  <2> USE DEF Elsewhere, EndsStaging, Keep, ToStep, staging, job, uploading, JobHolds
  <2>1. CASE LoadConfig(j)  BY <2>1 DEF LoadConfig
  <2>2. CASE InitializeStagingDir(j)  BY <2>2, SMTT(20) DEF InitializeStagingDir
  <2>3. CASE StageArtefact(j)  BY <2>3 DEF StageArtefact
  <2>4. CASE StageBinstallArchive(j)  BY <2>4 DEF StageBinstallArchive
  <2>5. CASE Finish(j)  BY <2>5 DEF Finish
  <2> QED BY <2>1, <2>2, <2>3, <2>4, <2>5
<1>2. Target(j) \in Targets /\ Target(j)' = Target(j)
  BY <1>1, PlannedTarget DEF JobTyped, Target
<1>3. Sound(disk[j]) /\ Writes(Target(j), disk[j], disk[j])
  BY DEF JobTyped, Writes
<1>4. ASSUME Writes(Target(j), disk[j], disk'[j]),
             pc'[j] \in Within => Placed(Target(j), DOMAIN sums'[j]) /\ Intact(disk'[j], sums'[j])
      PROVE  JobHolds(j)'
  <2>1. \A k \in DOMAIN reports'[j] : ReportHolds(j, k)'
    BY <1>1, <1>4, ReportsKept
  <2>2. use[j] \in Nat
    BY PlannedTarget DEF JobTyped
  <2> QED BY <1>1, <1>2, <1>4, <2>1, <2>2 DEF JobHolds
<1>5. CASE LoadConfig(j) \/ Finish(j)
  <2>1. UNCHANGED <<disk, sums>> /\ (pc'[j] \in Within => pc[j] \in Within)
    BY <1>5 DEF LoadConfig, Finish, ToStep, staging
  <2> QED BY <1>3, <1>4, <2>1 DEF JobHolds
<1>6. CASE InitializeStagingDir(j)
  <2>1. /\ disk'[j] \in {disk[j], Wiped(disk[j], Root[Target(j)])} /\ sums'[j] = Empty
    BY <1>6 DEF InitializeStagingDir
  <2>2. Writes(Target(j), disk[j], Wiped(disk[j], Root[Target(j)]))
    BY <1>3 DEF Writes, Wiped, Without, Sound
  <2>3. Placed(Target(j), DOMAIN Empty) /\ Intact(disk'[j], Empty)
    BY DEF Placed, Intact, Empty
  <2> QED BY <1>3, <1>4, <2>1, <2>2, <2>3
<1>7. CASE StageArtefact(j) \/ StageBinstallArchive(j)
  <2>1. \/ PassesOver(j) \/ Breaks(j)
        \/ \E path, file, output : Stages(j, path, file, output)
    BY <1>2, <1>3, <1>7, StagesArtefact, StagesArchive
  <2>2. /\ pc[j] \in Within /\ Placed(Target(j), DOMAIN sums[j]) /\ Intact(disk[j], sums[j])
    BY <1>7 DEF StageArtefact, StageBinstallArchive, JobHolds
  <2>3. CASE PassesOver(j)
    BY <1>3, <1>4, <2>2, <2>3 DEF PassesOver
  <2>4. CASE Breaks(j)
    BY <1>4, <2>4 DEF Breaks
  <2>5. ASSUME NEW path, NEW file, NEW output, Stages(j, path, file, output)
        PROVE  JobHolds(j)'
    <3>1. /\ disk'[j] = WriteChecksum(Copy(disk[j], path, file), path)
          /\ sums'[j] = Put(sums[j], path, Digest(file.content))
          /\ path \in Paths /\ Sidecar(path) \in Paths /\ file.time \in Nat
          /\ Safe(Target(j), path) /\ path # Root[Target(j)]
      BY <2>5 DEF Stages, Keep, Stageable, Free
    <3>2. Writes(Target(j), disk[j], disk'[j])
      BY <1>2, <1>3, <3>1, FileWrites
    <3>3. Intact(disk'[j], sums'[j])
      BY <2>2, <3>1, StillIntact DEF Placed
    <3>4. DOMAIN sums'[j] = DOMAIN sums[j] \cup {path}
      BY <3>1 DEF Put
    <3>5. Placed(Target(j), DOMAIN sums'[j])
      BY <2>2, <3>1, <3>4 DEF Placed, Safe
    <3> QED BY <1>4, <3>2, <3>3, <3>5
  <2> QED BY <2>1, <2>3, <2>4, <2>5
<1> QED BY <1>5, <1>6, <1>7

\* The report that is written holds when it is.
LEMMA HoldsReporting ==
  ASSUME Shape, NEW j \in Jobs, JobTyped(j), JobHolds(j), WriteOutputs(j)
  PROVE  JobHolds(j)'
<1> USE DEF Shape, Within, Preparing, Uploading
<1> DEFINE t == plan[j].targets[use[j]]
<1>1. /\ UNCHANGED <<plan, disk, result, staged, sums>> /\ pc[j] = "write"
      /\ Len(reports[j]) = use[j] - 1 /\ result[j] = "none"
      /\ use[j] \in Nat \ {0} /\ DOMAIN plan[j].targets = 1 .. Len(plan[j].targets)
      /\ Len(plan[j].targets) \in Nat
  BY PlannedTarget, SMTT(20) DEF WriteOutputs, uploading, JobHolds, JobTyped
<1>2. \/ use'[j] = use[j] + 1 /\ pc'[j] = "load"
      \/ use'[j] = use[j] /\ pc'[j] = "discover"
  BY DEF WriteOutputs, ToStep
<1>3. reports'[j] = Append(reports[j], Report(j))
  BY DEF WriteOutputs
<1>4. /\ reports'[j] \in Seq(Range(reports'[j])) /\ Len(reports'[j]) = use[j]
      /\ DOMAIN reports'[j] = 1 .. use[j]
      /\ \A k \in 1 .. use[j] - 1 : k \in DOMAIN reports[j] /\ reports'[j][k] = reports[j][k]
      /\ reports'[j][use[j]] = Report(j)
  BY <1>1, <1>3, Appended DEF JobHolds
<1>5. ASSUME NEW k \in 1 .. use[j] - 1
      PROVE  ReportHolds(j, k)'
  <2>1. ReportHolds(j, k)
    BY <1>4 DEF JobHolds
  <2>2. Overlapped(j, k) => Overlapped(j, k)'
    BY <1>1, <1>2 DEF Overlapped
  <2> QED BY <1>1, <1>4, <2>1, <2>2 DEF ReportHolds
<1>6. ASSUME NEW k, k = use[j]
      PROVE  ReportHolds(j, k)'
  <2>1. Placed(t, DOMAIN sums[j]) /\ Intact(disk[j], sums[j])
    BY <1>1 DEF JobHolds, Target
  <2>2. /\ Report(j).sums = sums[j]
        /\ Report(j).help # None => \E p \in DOMAIN sums[j] : Under(Report(j).help, p)
    BY HelpIsThere DEF Report, JobTyped
  <2>3. plan'[j].targets[k] = t /\ reports'[j][k] = Report(j) /\ disk'[j] = disk[j]
    BY <1>1, <1>4, <1>6
  <2> HIDE DEF t
  <2> QED BY <2>1, <2>2, <2>3 DEF ReportHolds
<1>7. \A k \in DOMAIN reports'[j] : ReportHolds(j, k)'
  <2>1. \A k \in DOMAIN reports'[j] : k \in 1 .. use[j] - 1 \/ k = use[j]
    BY <1>1, <1>4
  <2> QED BY <1>5, <1>6, <2>1
<1> QED BY <1>1, <1>2, <1>4, <1>7 DEF JobHolds

\* A job that has reported leaves its workspace as it is until it is run again.
LEMMA HoldsLater ==
  ASSUME Shape, NEW j \in Jobs, JobTyped(j), JobHolds(j),
         \/ DiscoverAssets(j) \/ UploadAsset(j) \/ Uploaded(j)
         \/ RepeatUpload(j) \/ Rerun(j)
  PROVE  JobHolds(j)'
<1> USE DEF Shape, Within, Preparing, Uploading
<1>1. CASE Rerun(j)
  <2>1. reports'[j] = <<>> /\ use'[j] = 1 /\ pc'[j] = "load" /\ result'[j] = "none"
    BY <1>1 DEF Rerun, ToStep
  <2>2. <<>> \in Seq(Range(<<>>)) /\ Len(<<>>) = 0 /\ DOMAIN <<>> = {}
    BY DEF Range
  <2> QED BY <2>1, <2>2 DEF JobHolds
<1>2. CASE ~Rerun(j)
  <2>1. /\ UNCHANGED <<plan, use, disk, reports>>
        /\ pc[j] \in Uploading \/ result[j] = "error"
        /\ pc'[j] \in {"failed"} \cup Uploading
    BY <1>2 DEF DiscoverAssets, UploadAsset, Uploaded, RepeatUpload, InUpload, ToStep, job, staging
  <2>2. \A k : ReportHolds(j, k) => ReportHolds(j, k)'
    BY <2>1 DEF ReportHolds, Overlapped
  <2> QED BY <2>1, <2>2 DEF JobHolds
<1> QED BY <1>1, <1>2

\* So do the steps of other jobs.
LEMMA HoldsAlone ==
  ASSUME NEW i \in Jobs, JobHolds(i), Same(i)
  PROVE  JobHolds(i)'
<1>1. \A k : ReportHolds(i, k) => ReportHolds(i, k)'
  BY DEF ReportHolds, Overlapped, Same
<1> QED BY <1>1 DEF JobHolds, Same, Target

\* Every step keeps what was reported.
LEMMA HoldingStep == TypeInv /\ Holding /\ [Next]_vars => Holding'
<1> SUFFICES ASSUME TypeInv, Holding, [Next]_vars PROVE Holding'
  OBVIOUS
<1>1. ASSUME NEW j \in Jobs, Step(j)
      PROVE  Holding'
  <2>1. JobHolds(j)'
    BY <1>1, HoldsStaging, HoldsReporting, HoldsLater DEF TypeInv, Holding, Step
  <2> QED BY <1>1, <2>1, OtherJobs, HoldsAlone DEF TypeInv, Holding
<1>2. CASE UNCHANGED vars
  <2>1. \A i \in Jobs : Same(i)
    BY <1>2 DEF vars, job, staging, uploading, Same
  <2> QED BY <2>1, HoldsAlone DEF Holding
<1> QED BY <1>1, <1>2 DEF Next, Step

\* Nothing is reported to begin with.
LEMMA HoldingInit == Init => Holding
<1>1. <<>> \in Seq(Range(<<>>)) /\ Len(<<>>) = 0 /\ DOMAIN <<>> = {}
  BY DEF Range
<1> QED BY <1>1 DEF Init, Holding, JobHolds, Preparing, Within, Uploading

\* What was reported and what is being staged hold in every state.
LEMMA Held == Spec => []Holding
  BY Typed, HoldingInit, HoldingStep, PTL DEF Spec

\* What a use of the action reported stays true until the job ends or is run
\* again: later uses, failures and uploads leave each file and its checksum as
\* they were reported, and the help directory with a file in it, but for the
\* directories that overlap and the files that get in each other's way.
THEOREM Keeping == Spec => []OutputsHold
<1>1. Holding => OutputsHold
  <2> SUFFICES ASSUME Holding, NEW j \in Jobs, NEW k \in DOMAIN reports[j],
                      ~Overlapped(j, k)
               PROVE  LET r == reports[j][k]
                          d == disk[j]
                          clash(p) == \E q \in DOMAIN r.sums : Sidecar(q) = p \/ Sidecar(p) = q
                      IN  /\ \A p \in DOMAIN r.sums :
                               \/ clash(p)
                               \/ /\ {p, Sidecar(p)} \subseteq DOMAIN d
                                  /\ Digest(d[p].content) = r.sums[p]
                                  /\ d[Sidecar(p)].content = r.sums[p]
                          /\ r.help # None => \E p \in DOMAIN d : Under(r.help, p)
    BY DEF OutputsHold, Overlapped
  <2>1. ReportHolds(j, k)
    BY DEF Holding, JobHolds
  <2> QED BY <2>1 DEF ReportHolds, Intact, Clashes
<1> QED BY <1>1, Held, PTL

-----------------------------------------------------------------------------
(* Required artefacts are staged. *)

\* RequiredStaged of artefact i of t, for what was staged from the build b.
Claimed(b, t, sum, i) ==
  Artefacts[t][i].required =>
    \E p \in PlacesOf[t][i] \cap DOMAIN sum :
      \/ p \in SharedPlaces[t][i]
      \/ \E s \in Files(Artefacts[t][i]) :
           /\ Destination(t, Artefacts[t][i], s) = p
           /\ \/ s \in Staging
              \/ s \in DOMAIN b /\ sum[p] = Digest(b[s].content)

\* A file outside every staging directory is as the build left it.
Untouched(d, b) == \A p \in DOMAIN d : p \in Staging \/ (p \in DOMAIN b /\ d[p] = b[p])

\* Of the artefacts a use has gone through, and those of the uses that reported,
\* every required one is staged.
JobClaims(j) ==
  /\ pc[j] \in Preparing => Untouched(disk[j], built[j])
  /\ pc[j] \in Within =>
       \A i \in DOMAIN Artefacts[Target(j)] :
         i < todo[j] => Claimed(built[j], Target(j), sums[j], i)
  /\ pc[j] \in {"finish", "write"} => todo[j] \notin DOMAIN Artefacts[Target(j)]
  /\ \A k \in DOMAIN reports[j] : \A i \in DOMAIN Artefacts[plan[j].targets[k]] :
       Claimed(built[j], plan[j].targets[k], reports[j][k].sums, i)

Claims == \A j \in Jobs : JobClaims(j)

\* What is staged later at the same place is another's.
LEMMA StillClaimed ==
  ASSUME NEW b, NEW t \in Targets, NEW sum, NEW i \in DOMAIN Artefacts[t],
         NEW path, NEW x, path \in OtherPlaces(t, i), Claimed(b, t, sum, i)
  PROVE  Claimed(b, t, Put(sum, path, x), i)
<1>1. CASE ~Artefacts[t][i].required
  BY <1>1 DEF Claimed
<1>2. CASE Artefacts[t][i].required
  <2>1. PICK p \in PlacesOf[t][i] \cap DOMAIN sum :
          \/ p \in SharedPlaces[t][i]
          \/ \E s \in Files(Artefacts[t][i]) :
               /\ Destination(t, Artefacts[t][i], s) = p
               /\ \/ s \in Staging
                  \/ s \in DOMAIN b /\ sum[p] = Digest(b[s].content)
    BY <1>2 DEF Claimed
  <2>2. DOMAIN Put(sum, path, x) = DOMAIN sum \cup {path}
        /\ (p # path => Put(sum, path, x)[p] = sum[p])
    BY <2>1 DEF Put
  <2>3. CASE p = path
    <3>1. p \in SharedPlaces[t][i]
      BY <2>3 DEF SharedPlaces
    <3> QED BY <2>1, <2>2, <3>1 DEF Claimed
  <2>4. CASE p # path
    BY <2>1, <2>2, <2>4 DEF Claimed
  <2> QED BY <2>3, <2>4
<1> QED BY <1>1, <1>2

\* What was found for an artefact and staged is what is asked of it.
LEMMA NowClaimed ==
  ASSUME NEW b, NEW d, Untouched(d, b), NEW t \in Targets, NEW sum,
         NEW i \in DOMAIN Artefacts[t], NEW s \in DOMAIN d \cap Files(Artefacts[t][i])
  PROVE  LET path == Destination(t, Artefacts[t][i], s)
         IN  Claimed(b, t, Put(sum, path, Digest(d[s].content)), i)
<1> DEFINE path == Destination(t, Artefacts[t][i], s)
           new == Put(sum, path, Digest(d[s].content))
<1>1. path \in PlacesOf[t][i]
  BY DEF PlacesOf, Places
<1>2. path \in DOMAIN new /\ new[path] = Digest(d[s].content)
  BY DEF Put
<1>3. s \in Staging \/ (s \in DOMAIN b /\ new[path] = Digest(b[s].content))
  BY <1>2 DEF Untouched
<1>4. Destination(t, Artefacts[t][i], s) = path
  OBVIOUS
<1> HIDE DEF path, new
<1>5. Claimed(b, t, new, i)
  BY <1>1, <1>2, <1>3, <1>4 DEF Claimed
<1> QED BY <1>5 DEF path, new

\* Staging writes to the staging directory only.
LEMMA StillUntouched ==
  ASSUME NEW b, NEW d, Untouched(d, b), NEW t \in Targets, Relative(t),
         NEW path \in Paths, Sidecar(path) \in Paths, Safe(t, path), path # Root[t], NEW file
  PROVE  Untouched(WriteChecksum(Copy(d, path, file), path), b)
<1>1. path \in Staging /\ Sidecar(path) \in Staging
  BY Walks, SidecarUnder DEF Safe, Staging
<1>2. ASSUME NEW e, Untouched(e, b), NEW p \in Staging, NEW x
      PROVE  Untouched(Put(e, p, x), b)
  BY <1>2 DEF Untouched, Put
<1> QED BY <1>1, <1>2 DEF WriteChecksum, Copy

\* An artefact that was gone through is staged if it is required.
LEMMA ClaimsArtefact ==
  ASSUME Shape, NEW j \in Jobs, JobTyped(j), JobClaims(j), StageArtefact(j)
  PROVE  JobClaims(j)'
<1> USE DEF Shape, Within, Preparing
<1> DEFINE t == Target(j)
           n == todo[j]
           a == Artefacts[t][n]
           source == Source(disk[j], a)
<1>1. /\ UNCHANGED <<plan, built, use, reports>> /\ pc[j] = "stage"
      /\ pc'[j] \in {"stage", "failed"} /\ todo'[j] = n + 1
      /\ n \in DOMAIN Artefacts[t] /\ n \in Nat
  BY DEF StageArtefact, Elsewhere, EndsStaging, Keep, ToStep, staging, job, JobTyped
<1>2. Target(j)' = t /\ t \in Targets /\ DOMAIN Artefacts[t] \subseteq Nat
  <2>1. t \in Targets
    BY PlannedTarget DEF JobTyped, Target
  <2> QED BY <1>1, <2>1, ArtefactsAssumption, LenProperties DEF Target
<1>3. ASSUME pc'[j] = "stage" => /\ Untouched(disk'[j], built[j])
                                 /\ \A i \in DOMAIN Artefacts[t] :
                                      i < n + 1 => Claimed(built[j], t, sums'[j], i)
      PROVE  JobClaims(j)'
  BY <1>1, <1>2, <1>3 DEF JobClaims
<1>4. /\ Untouched(disk[j], built[j])
      /\ \A i \in DOMAIN Artefacts[t] : i < n => Claimed(built[j], t, sums[j], i)
  BY <1>1 DEF JobClaims
<1>5. \/ PassesOver(j) /\ Optional(a)
      \/ /\ source \in DOMAIN disk[j] \cap Files(a)
         /\ Stages(j, Destination(t, a, source), disk[j][source], a.output)
      \/ Breaks(j)
  BY <1>2, StagesArtefact DEF JobTyped
<1>6. CASE PassesOver(j) /\ Optional(a)
  <2>1. Claimed(built[j], t, sums[j], n)
    BY <1>6 DEF Claimed, Optional
  <2>2. \A i \in DOMAIN Artefacts[t] : i < n + 1 => i < n \/ i = n
    BY <1>1, <1>2
  <2> HIDE DEF t, n
  <2> QED BY <1>3, <1>4, <1>6, <2>1, <2>2 DEF PassesOver
<1>7. CASE /\ source \in DOMAIN disk[j] \cap Files(a)
           /\ Stages(j, Destination(t, a, source), disk[j][source], a.output)
  <2> DEFINE path == Destination(t, a, source)
             file == disk[j][source]
  <2>1. /\ disk'[j] = WriteChecksum(Copy(disk[j], path, file), path)
        /\ sums'[j] = Put(sums[j], path, Digest(file.content))
        /\ path \in Paths /\ Sidecar(path) \in Paths
        /\ Safe(t, path) /\ path # Root[t] /\ Relative(t)
    BY <1>7 DEF Stages, Keep, Stageable, Free
  <2>2. Untouched(disk'[j], built[j])
    BY <1>2, <1>4, <2>1, StillUntouched
  <2>3. Claimed(built[j], t, sums'[j], n)
    BY <1>1, <1>2, <1>4, <1>7, <2>1, NowClaimed
  <2>4. ASSUME NEW i \in DOMAIN Artefacts[t], i < n
        PROVE  Claimed(built[j], t, sums'[j], i)
    <3>1. path \in Places(t, n) /\ n # i
      BY <1>1, <1>2, <1>7, <2>4 DEF Places
    <3>2. path \in OtherPlaces(t, i)
      BY <1>1, <3>1 DEF OtherPlaces
    <3> QED BY <1>2, <1>4, <2>1, <2>4, <3>2, StillClaimed
  <2>5. \A i \in DOMAIN Artefacts[t] : i < n + 1 => i < n \/ i = n
    BY <1>1, <1>2
  <2> HIDE DEF t, n
  <2> QED BY <1>3, <2>2, <2>3, <2>4, <2>5, SMTT(20)
<1>8. CASE Breaks(j)
  BY <1>3, <1>8 DEF Breaks
<1> QED BY <1>5, <1>6, <1>7, <1>8

\* The archive goes to a place that is none of theirs, or shared.
LEMMA ClaimsArchive ==
  ASSUME Shape, NEW j \in Jobs, JobTyped(j), JobClaims(j), StageBinstallArchive(j)
  PROVE  JobClaims(j)'
<1> USE DEF Shape, Within, Preparing
<1> DEFINE t == Target(j)
<1>1. /\ UNCHANGED <<plan, built, use, todo, reports>> /\ pc[j] = "stage"
      /\ todo[j] \notin DOMAIN Artefacts[t]
  BY DEF StageBinstallArchive, Elsewhere, EndsStaging, Keep, staging, job
<1>2. Target(j)' = t /\ t \in Targets
  <2>1. t \in Targets
    BY PlannedTarget DEF JobTyped, Target
  <2> QED BY <1>1, <2>1 DEF Target
<1>3. ASSUME pc'[j] \in Preparing =>
               /\ Untouched(disk'[j], built[j])
               /\ \A i \in DOMAIN Artefacts[t] :
                    i < todo[j] => Claimed(built[j], t, sums'[j], i)
      PROVE  JobClaims(j)'
  BY <1>1, <1>2, <1>3 DEF JobClaims
<1>4. /\ Untouched(disk[j], built[j])
      /\ \A i \in DOMAIN Artefacts[t] : i < todo[j] => Claimed(built[j], t, sums[j], i)
  BY <1>1 DEF JobClaims
<1>5. \/ PassesOver(j) \/ Breaks(j)
      \/ \E path \in ArchivePlaces(t) : \E file, output : Stages(j, path, file, output)
  BY <1>2, StagesArchive DEF JobTyped
<1>6. CASE PassesOver(j)
  BY <1>3, <1>4, <1>6 DEF PassesOver
<1>7. CASE Breaks(j)
  BY <1>3, <1>7 DEF Breaks
<1>8. ASSUME NEW path \in ArchivePlaces(t), NEW file, NEW output, Stages(j, path, file, output)
      PROVE  JobClaims(j)'
  <2>1. /\ disk'[j] = WriteChecksum(Copy(disk[j], path, file), path)
        /\ sums'[j] = Put(sums[j], path, Digest(file.content))
        /\ path \in Paths /\ Sidecar(path) \in Paths
        /\ Safe(t, path) /\ path # Root[t] /\ Relative(t)
    BY <1>8 DEF Stages, Keep, Stageable, Free
  <2>2. Untouched(disk'[j], built[j])
    BY <1>2, <1>4, <2>1, StillUntouched
  <2>3. ASSUME NEW i \in DOMAIN Artefacts[t]
        PROVE  path \in OtherPlaces(t, i)
    <3> HIDE DEF t
    <3> QED BY <1>8 DEF OtherPlaces
  <2>4. \A i \in DOMAIN Artefacts[t] : i < todo[j] => Claimed(built[j], t, sums'[j], i)
    BY <1>2, <1>4, <2>1, <2>3, StillClaimed
  <2> QED BY <1>3, <2>2, <2>4
<1> QED BY <1>5, <1>6, <1>7, <1>8

\* The report is of what was staged when all artefacts were gone through.
LEMMA ClaimsReporting ==
  ASSUME Shape, NEW j \in Jobs, JobTyped(j), JobHolds(j), JobClaims(j), WriteOutputs(j)
  PROVE  JobClaims(j)'
<1> USE DEF Shape, Within, Preparing
<1> DEFINE t == plan[j].targets[use[j]]
<1>1. /\ UNCHANGED <<plan, built, disk, sums>> /\ pc[j] = "write"
      /\ pc'[j] \in {"load", "discover"} /\ Len(reports[j]) = use[j] - 1
      /\ use[j] \in Nat \ {0} /\ t \in Targets
  BY PlannedTarget, SMTT(20) DEF WriteOutputs, ToStep, JobHolds, JobTyped
<1>2. /\ DOMAIN reports'[j] = 1 .. use[j]
      /\ \A k \in 1 .. use[j] - 1 : k \in DOMAIN reports[j] /\ reports'[j][k] = reports[j][k]
      /\ reports'[j][use[j]].sums = sums[j]
  BY <1>1, Appended DEF WriteOutputs, Report, JobHolds
<1>3. \A i \in DOMAIN Artefacts[t] : Claimed(built[j], t, sums[j], i)
  <2>1. /\ \A i \in DOMAIN Artefacts[t] : i < todo[j] => Claimed(built[j], t, sums[j], i)
        /\ todo[j] \notin DOMAIN Artefacts[t] /\ todo[j] \in Nat \ {0}
    BY <1>1 DEF JobClaims, Target, JobTyped
  <2>2. DOMAIN Artefacts[t] = 1 .. Len(Artefacts[t]) /\ Len(Artefacts[t]) \in Nat
    BY <1>1, ArtefactsAssumption, LenProperties
  <2>3. \A i \in DOMAIN Artefacts[t] : i < todo[j]
    BY <2>1, <2>2
  <2> QED BY <2>1, <2>3
<1>4. ASSUME NEW k \in DOMAIN reports'[j], NEW i \in DOMAIN Artefacts[plan[j].targets[k]]
      PROVE  Claimed(built[j], plan[j].targets[k], reports'[j][k].sums, i)
  <2>1. CASE k \in 1 .. use[j] - 1
    BY <1>2, <1>4, <2>1 DEF JobClaims
  <2>2. CASE k = use[j]
    BY <1>2, <1>3, <1>4, <2>2
  <2> QED BY <1>1, <1>2, <2>1, <2>2
<1>5. Untouched(disk[j], built[j])
  BY <1>1 DEF JobClaims
<1> QED BY <1>1, <1>4, <1>5 DEF JobClaims

\* The other steps stage nothing.
LEMMA ClaimsOwn ==
  ASSUME Shape, NEW j \in Jobs, JobTyped(j), JobHolds(j), JobClaims(j), Step(j)
  PROVE  JobClaims(j)'
<1> USE DEF Shape, Within, Preparing
<1>1. CASE LoadConfig(j) \/ Finish(j)
  <2>1. /\ UNCHANGED <<plan, built, use, disk, todo, sums, reports>>
        /\ \/ pc[j] = "load" /\ pc'[j] \in {"initialize", "failed"}
           \/ pc[j] = "finish" /\ pc'[j] \in {"write", "failed"}
    BY <1>1 DEF LoadConfig, Finish, ToStep, Elsewhere, staging, job
  <2> QED BY <2>1 DEF JobClaims, Target
<1>2. CASE InitializeStagingDir(j)
  <2>1. /\ UNCHANGED <<plan, built, use, reports>> /\ pc[j] = "initialize"
        /\ \/ pc'[j] = "failed"
           \/ /\ pc'[j] = "stage" /\ todo'[j] = 1
              /\ disk'[j] = Wiped(disk[j], Root[Target(j)])
    BY <1>2 DEF InitializeStagingDir, ToStep, Elsewhere, job
  <2>2. Untouched(Wiped(disk[j], Root[Target(j)]), built[j])
    BY <2>1 DEF JobClaims, Untouched, Wiped, Without
  <2>3. Target(j)' = Target(j) /\ \A i \in DOMAIN Artefacts[Target(j)] : ~(i < 1)
    <3>1. Target(j) \in Targets
      BY PlannedTarget DEF JobTyped, Target
    <3>2. DOMAIN Artefacts[Target(j)] = 1 .. Len(Artefacts[Target(j)])
      BY <3>1, ArtefactsAssumption, LenProperties
    <3> QED BY <2>1, <3>2 DEF Target
  <2> QED BY <2>1, <2>2, <2>3 DEF JobClaims
<1>3. CASE DiscoverAssets(j) \/ UploadAsset(j) \/ Uploaded(j) \/ RepeatUpload(j)
  <2>1. /\ UNCHANGED <<plan, built, reports>>
        /\ pc'[j] \in {"upload", "done", "failed", "discover"}
    BY <1>3 DEF DiscoverAssets, UploadAsset, Uploaded, RepeatUpload, InUpload, ToStep,
                job, staging, JobClaims
  <2> QED BY <2>1 DEF JobClaims
<1>4. CASE Rerun(j)
  <2>1. /\ pc'[j] = "load" /\ reports'[j] = <<>> /\ disk'[j] = built'[j]
    BY <1>4 DEF Rerun, ToStep
  <2> QED BY <2>1 DEF JobClaims, Untouched
<1> QED BY <1>1, <1>2, <1>3, <1>4, ClaimsArtefact, ClaimsArchive, ClaimsReporting DEF Step

\* Every step keeps what is staged of the required artefacts.
LEMMA ClaimsStep == TypeInv /\ Holding /\ Claims /\ [Next]_vars => Claims'
<1> SUFFICES ASSUME TypeInv, Holding, Claims, [Next]_vars PROVE Claims'
  OBVIOUS
<1>1. ASSUME NEW i \in Jobs, Same(i)
      PROVE  JobClaims(i)'
  BY <1>1 DEF Claims, JobClaims, Same, Target
<1>2. ASSUME NEW j \in Jobs, Step(j)
      PROVE  Claims'
  BY <1>1, <1>2, OtherJobs, ClaimsOwn DEF TypeInv, Holding, Claims
<1>3. CASE UNCHANGED vars
  <2>1. \A i \in Jobs : Same(i)
    BY <1>3 DEF vars, job, staging, uploading, Same
  <2> QED BY <1>1, <2>1 DEF Claims
<1> QED BY <1>2, <1>3 DEF Next, Step

\* A use that reports has staged every required artefact, from a file that the
\* job's own build left, whatever earlier uses, attempts and other jobs did; but
\* for artefacts that share a place and patterns that reach a staging directory.
THEOREM Requirement == Spec => []RequiredStaged
<1>1. Init => Claims
  BY DEF Init, Claims, JobClaims, Untouched, Within, Preparing
<1>2. Spec => []Claims
  BY <1>1, Typed, Held, ClaimsStep, PTL DEF Spec
<1>3. Claims => RequiredStaged
  BY DEF Claims, JobClaims, Claimed, RequiredStaged
<1> QED BY <1>2, <1>3, PTL

-----------------------------------------------------------------------------
(* The checksums on the release. *)

\* The names of sums kept of the uses that reported, and of the present one.
Records(j) ==
  {DOMAIN reports[j][k].sums : k \in DOMAIN reports[j]}
    \cup IF pc[j] \in Within THEN {DOMAIN sums[j]} ELSE {}

\* The file q is one that was staged, or the sidecar of one, whose digest it
\* has; but for a file that is a sidecar itself.
Explains(S, d, q) ==
  \/ q \in S
  \/ \E p \in S : /\ Sidecar(p) = q
                  /\ \/ \E r \in S : Sidecar(r) = p
                     \/ p \in DOMAIN d /\ d[q].content = Digest(d[p].content)

\* Everything in a workspace was built or staged, and everything under the
\* present target's directory staged by the present use; a staging that failed
\* is not used any more.
JobExplained(j) ==
  /\ pc[j] \in Preparing \cup Uploading \/ result[j] = "error" =>
       \A q \in DOMAIN disk[j] :
         q \in DOMAIN built[j] \/ \E S \in Records(j) : Explains(S, disk[j], q)
  /\ pc[j] \in Within =>
       \A q \in DOMAIN disk[j] : Under(Root[Target(j)], q) =>
         q \in DOMAIN sums[j] \/ \E r \in DOMAIN sums[j] : Sidecar(r) = q

Explaining == \A j \in Jobs : JobExplained(j)

\* What is recorded was staged at a path of the workspace.
LEMMA RecordsArePaths ==
  ASSUME NEW j \in Jobs, JobHolds(j), NEW S \in Records(j)
  PROVE  \A p \in S : p \in Paths /\ Sidecar(p) \in Paths
<1>1. ASSUME NEW k \in DOMAIN reports[j], S = DOMAIN reports[j][k].sums
      PROVE  \A p \in S : p \in Paths /\ Sidecar(p) \in Paths
  BY <1>1 DEF JobHolds, ReportHolds, Placed
<1>2. CASE pc[j] \in Within /\ S = DOMAIN sums[j]
  BY <1>2 DEF JobHolds, Placed
<1> QED BY <1>1, <1>2 DEF Records

\* Wiping a directory takes a file and its sidecar together.
LEMMA StillExplained ==
  ASSUME NEW t \in Targets, NEW d, DOMAIN d \subseteq Paths, Usable(d, Root[t]),
         NEW S, \A p \in S : p \in Paths, NEW q \in DOMAIN Wiped(d, Root[t]),
         Explains(S, d, q)
  PROVE  Explains(S, Wiped(d, Root[t]), q)
<1> DEFINE e == Wiped(d, Root[t])
<1>1. /\ q \in DOMAIN d /\ ~Under(Root[t], q) /\ e[q] = d[q]
      /\ \A p \in DOMAIN d : ~Under(Root[t], p) => p \in DOMAIN e /\ e[p] = d[p]
  BY DEF Wiped, Without
<1> HIDE DEF e
<1>2. ASSUME NEW p \in S, Sidecar(p) = q, p \in DOMAIN d, d[q].content = Digest(d[p].content)
      PROVE  p \in DOMAIN e /\ e[q].content = Digest(e[p].content)
  <2>1. p \in Walk \ {<<>>} /\ Root[t] \in Walk
    BY Walks
  <2>2. p # Root[t]
    <3>1. Len(p) \in Nat /\ ~Under(p, Root[t])
      BY <1>2, <2>1, LenProperties DEF Usable, Walk
    <3> QED BY <2>1, <3>1, Prefix
  <2>3. ~Under(Root[t], p)
    BY <1>1, <1>2, <2>1, <2>2, SidecarUnder
  <2> QED BY <1>1, <1>2, <2>3
<1>3. Explains(S, e, q)
  BY <1>2 DEF Explains
<1> QED BY <1>3 DEF e

\* Staging a file overwrites another's sidecar only with its own, if what is in
\* the directory was staged by the same use.
LEMMA ExplainedByStaging ==
  ASSUME NEW t \in Targets, NEW d, DOMAIN d \subseteq Paths, NEW U, \A r \in U : r \in Paths,
         \A q \in DOMAIN d : Under(Root[t], q) => q \in U \/ \E r \in U : Sidecar(r) = q,
         NEW path \in Paths, Sidecar(path) \in Paths, Safe(t, path), path # Root[t], NEW file,
         NEW S, \A p \in S : p \in Paths, NEW q \in DOMAIN d \ {path, Sidecar(path)},
         Explains(S, d, q)
  PROVE  LET e == WriteChecksum(Copy(d, path, file), path)
         IN  Explains(S, e, q) \/ Explains(U \cup {path}, e, q)
<1> DEFINE e == WriteChecksum(Copy(d, path, file), path)
<1>1. \A p \in DOMAIN d : p \in DOMAIN e /\ (p \notin {path, Sidecar(path)} => e[p] = d[p])
  BY DEF WriteChecksum, Copy, Put
<1> HIDE DEF e
<1>2. CASE q \in S
  BY <1>2 DEF Explains
<1>3. ASSUME NEW p \in S, Sidecar(p) = q
      PROVE  p # path
  BY <1>3
<1>4. CASE \E p \in S : Sidecar(p) = q /\ \E r \in S : Sidecar(r) = p
  BY <1>4 DEF Explains
<1>5. ASSUME NEW p \in S, Sidecar(p) = q, p \in DOMAIN d, d[q].content = Digest(d[p].content)
      PROVE  Explains(S, e, q) \/ Explains(U \cup {path}, e, q)
  <2>1. CASE p # Sidecar(path)
    <3>1. e[p] = d[p] /\ e[q] = d[q] /\ p \in DOMAIN e
      BY <1>1, <1>3, <1>5, <2>1
    <3> QED BY <1>5, <3>1 DEF Explains
  <2>2. CASE p = Sidecar(path)
    <3>1. Under(Root[t], p) /\ p # Root[t] /\ Under(Root[t], q)
      <4>1. Under(Root[t], path) /\ Root[t] \in Walk /\ path \in Walk \ {<<>>} /\ p \in Walk \ {<<>>}
        BY <1>5, Walks DEF Safe
      <4>2. Under(Root[t], p)
        BY <2>2, <4>1, SidecarUnder
      <4>3. p # Root[t]
        <5>1. Len(p) = Len(path) /\ Len(path) \in Nat
          BY <2>2, <4>1, Beside
        <5>2. p = Root[t] => p = path
          <6> SUFFICES ASSUME p = Root[t] PROVE p = path
            OBVIOUS
          <6>1. \A i \in 1 .. Len(p) : p[i] = path[i]
            BY <4>1, Prefix
          <6> QED BY <4>1, <5>1, <6>1, SeqEqual DEF Walk
        <5> QED BY <5>2
      <4> QED BY <1>5, <4>1, <4>2, <4>3, SidecarUnder
    <3>2. q \in U \/ p \in U
      <4>1. \A r \in U : Sidecar(r) = q => r = p
        BY <1>5, Walks, OneOwner
      <4> QED BY <3>1, <4>1
    <3> QED BY <1>5, <2>2, <3>2 DEF Explains
  <2> QED BY <2>1, <2>2
<1>6. Explains(S, e, q) \/ Explains(U \cup {path}, e, q)
  BY <1>2, <1>4, <1>5 DEF Explains
<1> QED BY <1>6 DEF e

\* A larger record explains no less.
LEMMA MoreExplained ==
  ASSUME NEW S, NEW T, S \subseteq T, NEW d, NEW q, Explains(S, d, q)
  PROVE  Explains(T, d, q)
  BY DEF Explains

\* Staging a file leaves everything in the workspace explained.
LEMMA ExplainedStaged ==
  ASSUME Shape, NEW j \in Jobs, JobTyped(j), JobHolds(j), JobExplained(j),
         pc[j] \in Within, Target(j)' = Target(j), built'[j] = built[j],
         NEW path, NEW file, NEW output, Stages(j, path, file, output)
  PROVE  JobExplained(j)'
<1> USE DEF Within, Preparing, Uploading
<1> DEFINE t == Target(j)
           d == disk[j]
           e == WriteChecksum(Copy(d, path, file), path)
           U == DOMAIN sums[j]
<1>1. /\ disk'[j] = e /\ sums'[j] = Put(sums[j], path, Digest(file.content))
      /\ reports'[j] = reports[j] /\ pc'[j] \in Within
      /\ path \in Paths /\ Sidecar(path) \in Paths
      /\ Safe(t, path) /\ path # Root[t]
  BY DEF Stages, Keep, Stageable, Free, Shape
<1>2. DOMAIN sums'[j] = U \cup {path}
  BY <1>1 DEF Put
<1>3. /\ t \in Targets /\ DOMAIN d \subseteq Paths /\ \A r \in U : r \in Paths
      /\ \A q \in DOMAIN d : Under(Root[t], q) => q \in U \/ \E r \in U : Sidecar(r) = q
      /\ \A q \in DOMAIN d : q \in DOMAIN built[j] \/ \E S \in Records(j) : Explains(S, d, q)
  BY PlannedTarget DEF JobTyped, Sound, Target, JobHolds, Placed, JobExplained
<1>4. /\ DOMAIN e = DOMAIN d \cup {path, Sidecar(path)}
      /\ e[Sidecar(path)].content = Digest(e[path].content) /\ path # Sidecar(path)
  <2>1. path # Sidecar(path)
    BY <1>1, Walks, NotItself
  <2> QED BY <2>1 DEF WriteChecksum, Copy, Put
<1>5. /\ U \cup {path} \in Records(j)'
      /\ \A S \in Records(j) : S \in Records(j)' \/ S = U
  BY <1>1, <1>2 DEF Records
<1>6. ASSUME NEW q \in DOMAIN d \ {path, Sidecar(path)}, NEW S \in Records(j), Explains(S, d, q)
      PROVE  \E T \in Records(j)' : Explains(T, e, q)
  <2>1. \A p \in S : p \in Paths
    BY RecordsArePaths
  <2>2. Explains(S, e, q) \/ Explains(U \cup {path}, e, q)
    BY <1>1, <1>3, <1>6, <2>1, ExplainedByStaging
  <2> HIDE DEF e, U
  <2>3. S = U => (Explains(S, e, q) => Explains(U \cup {path}, e, q))
    BY MoreExplained
  <2> QED BY <1>5, <2>2, <2>3
<1>7. Explains(U \cup {path}, e, path) /\ Explains(U \cup {path}, e, Sidecar(path))
  BY <1>4 DEF Explains
<1>8. \A q \in DOMAIN e : q \in DOMAIN built[j] \/ \E T \in Records(j)' : Explains(T, e, q)
  <2> HIDE DEF e, U
  <2> QED BY <1>3, <1>4, <1>5, <1>6, <1>7
<1>9. \A q \in DOMAIN e : Under(Root[t], q) =>
         q \in U \cup {path} \/ \E r \in U \cup {path} : Sidecar(r) = q
  <2> HIDE DEF e, U
  <2> QED BY <1>3, <1>4
<1> HIDE DEF e, U, t, d
<1>10. Root[Target(j)'] = Root[t]
  BY DEF t
<1> QED BY <1>1, <1>2, <1>8, <1>9, <1>10 DEF JobExplained

\* Each step keeps what explains the files of its job.
LEMMA ExplainedOwn ==
  ASSUME Shape, NEW j \in Jobs, JobTyped(j), JobHolds(j), JobExplained(j), Step(j)
  PROVE  JobExplained(j)'
<1> USE DEF Shape, Within, Preparing, Uploading
<1>1. CASE LoadConfig(j) \/ Finish(j)
  <2>1. /\ UNCHANGED <<plan, built, use, disk, sums, reports, result>> /\ result[j] = "none"
        /\ \/ pc[j] = "load" /\ pc'[j] \in {"initialize", "failed"}
           \/ pc[j] = "finish" /\ pc'[j] \in {"write", "failed"}
    BY <1>1 DEF LoadConfig, Finish, ToStep, Elsewhere, staging, job, uploading, JobHolds
  <2> QED BY <2>1 DEF JobExplained, Records, Target
<1>2. CASE InitializeStagingDir(j)
  <2> DEFINE e == Wiped(disk[j], Root[Target(j)])
  <2>1. /\ UNCHANGED <<plan, built, use, reports, result>> /\ pc[j] = "initialize"
        /\ result[j] = "none" /\ sums'[j] = Empty
        /\ \/ pc'[j] = "failed"
           \/ /\ pc'[j] = "stage" /\ disk'[j] = e /\ Usable(disk[j], Root[Target(j)])
    BY <1>2 DEF InitializeStagingDir, ToStep, Elsewhere, job, uploading, JobHolds
  <2>2. CASE pc'[j] = "failed"
    BY <2>1, <2>2 DEF JobExplained
  <2>3. CASE pc'[j] = "stage" /\ disk'[j] = e /\ Usable(disk[j], Root[Target(j)])
    <3>1. /\ Target(j)' = Target(j) /\ Target(j) \in Targets /\ DOMAIN disk[j] \subseteq Paths
          /\ Records(j) \subseteq Records(j)'
      BY <2>1, <2>3, PlannedTarget DEF Target, JobTyped, Sound, Records
    <3>2. ASSUME NEW q \in DOMAIN e
          PROVE  /\ q \in DOMAIN built[j] \/ \E S \in Records(j)' : Explains(S, e, q)
                 /\ ~Under(Root[Target(j)], q)
      <4>1. q \in DOMAIN disk[j] /\ ~Under(Root[Target(j)], q)
        BY <3>2 DEF Wiped, Without
      <4>2. q \in DOMAIN built[j] \/ \E S \in Records(j) : Explains(S, disk[j], q)
        BY <2>1, <4>1 DEF JobExplained
      <4>3. ASSUME NEW S \in Records(j), Explains(S, disk[j], q)
            PROVE  Explains(S, e, q)
        BY <2>3, <3>1, <3>2, <4>3, RecordsArePaths, StillExplained
      <4> QED BY <3>1, <4>1, <4>2, <4>3
    <3> HIDE DEF e
    <3> QED BY <2>1, <2>3, <3>1, <3>2 DEF JobExplained
  <2> QED BY <2>1, <2>2, <2>3
<1>3. CASE StageArtefact(j) \/ StageBinstallArchive(j)
  <2>1. /\ UNCHANGED <<plan, built, use, result>> /\ pc[j] \in Within
        /\ result[j] = "none" /\ Target(j)' = Target(j)
    BY <1>3, Zenon DEF StageArtefact, StageBinstallArchive, Elsewhere, job, uploading, JobHolds, Target
  <2>2. \/ PassesOver(j) \/ Breaks(j)
        \/ \E path, file, output : Stages(j, path, file, output)
    <3>1. Target(j) \in Targets
      BY PlannedTarget DEF JobTyped, Target
    <3> QED BY <1>3, <3>1, StagesArtefact, StagesArchive DEF JobTyped
  <2>3. CASE PassesOver(j)
    BY <2>1, <2>3 DEF PassesOver, JobExplained, Records
  <2>4. CASE Breaks(j)
    BY <2>1, <2>4 DEF Breaks, JobExplained
  <2>5. ASSUME NEW path, NEW file, NEW output, Stages(j, path, file, output)
        PROVE  JobExplained(j)'
    BY <2>1, <2>5, ExplainedStaged
  <2> QED BY <2>2, <2>3, <2>4, <2>5
<1>4. CASE WriteOutputs(j)
  <2>1. /\ UNCHANGED <<built, disk, sums, result>> /\ pc[j] = "write" /\ result[j] = "none"
        /\ pc'[j] \in {"load", "discover"}
        /\ reports'[j] = Append(reports[j], Report(j)) /\ Report(j).sums = sums[j]
    BY <1>4 DEF WriteOutputs, ToStep, uploading, JobHolds, Report
  <2>2. /\ \A k \in DOMAIN reports[j] : k \in DOMAIN reports'[j] /\ reports'[j][k] = reports[j][k]
        /\ \E k \in DOMAIN reports'[j] : reports'[j][k].sums = sums[j]
    <3>1. /\ Len(reports[j]) \in Nat /\ DOMAIN reports[j] = 1 .. Len(reports[j])
          /\ DOMAIN reports'[j] = 1 .. Len(reports[j]) + 1
          /\ \A k \in 1 .. Len(reports[j]) : reports'[j][k] = reports[j][k]
          /\ reports'[j][Len(reports[j]) + 1] = Report(j)
      BY <2>1, Appended DEF JobHolds
    <3> QED BY <2>1, <3>1
  <2>3. Records(j) \subseteq Records(j)'
    BY <2>1, <2>2 DEF Records
  <2> QED BY <2>1, <2>3 DEF JobExplained
<1>5. CASE DiscoverAssets(j) \/ UploadAsset(j) \/ Uploaded(j) \/ RepeatUpload(j)
  <2>1. /\ UNCHANGED <<built, disk, reports>>
        /\ pc[j] \in Uploading \/ result[j] = "error"
        /\ pc[j] \in {"failed"} \cup Uploading /\ pc'[j] \in {"failed"} \cup Uploading
    BY <1>5 DEF DiscoverAssets, UploadAsset, Uploaded, RepeatUpload, InUpload, ToStep, job, staging
  <2> QED BY <2>1 DEF JobExplained, Records
<1>6. CASE Rerun(j)
  <2>1. pc'[j] = "load" /\ disk'[j] = built'[j]
    BY <1>6 DEF Rerun, ToStep
  <2> QED BY <2>1 DEF JobExplained
<1> QED BY <1>1, <1>2, <1>3, <1>4, <1>5, <1>6 DEF Step

\* Every step keeps what explains the files.
LEMMA ExplainingStep == TypeInv /\ Holding /\ Explaining /\ [Next]_vars => Explaining'
<1> SUFFICES ASSUME TypeInv, Holding, Explaining, [Next]_vars PROVE Explaining'
  OBVIOUS
<1>1. ASSUME NEW i \in Jobs, Same(i)
      PROVE  JobExplained(i)'
  BY <1>1 DEF Explaining, JobExplained, Same, Records, Target
<1>2. ASSUME NEW j \in Jobs, Step(j)
      PROVE  Explaining'
  BY <1>1, <1>2, OtherJobs, ExplainedOwn DEF TypeInv, Holding, Explaining
<1>3. CASE UNCHANGED vars
  <2>1. \A i \in Jobs : Same(i)
    BY <1>3 DEF vars, job, staging, uploading, Same
  <2> QED BY <1>1, <2>1 DEF Explaining
<1> QED BY <1>2, <1>3 DEF Next, Step

\* Everything on the release was sent by a job, which has finished its upload if
\* no upload is open.
Sending ==
  /\ DOMAIN release \subseteq {Name(x[2]) : x \in sent}
  /\ \A x \in sent : x \in Jobs \X CandidatePaths /\ (x[1] \in open \/ pc[x[1]] = "done")
  /\ \A j \in Jobs : pc[j] = "upload" => j \in open

\* Every step keeps who sent what is on the release.
LEMMA SendingStep == TypeInv /\ Sending /\ [Next]_vars => Sending'
<1> SUFFICES ASSUME TypeInv, Sending, [Next]_vars PROVE Sending'
  OBVIOUS
<1>1. ASSUME NEW j \in Jobs, Step(j)
      PROVE  Sending'
  <2>1. Shape' /\ (\A i \in Jobs \ {j} : pc'[i] = pc[i]) /\ Shape
    BY <1>1, OtherJobs DEF TypeInv, Same
  <2> USE DEF Shape
  <2>2. CASE UploadAsset(j)
    <3> DEFINE q == First(queue[j])
    <3>1. /\ pc[j] = "upload" /\ sent' = sent \cup {<<j, q>>} /\ open' = open
          /\ pc'[j] \in {"upload", "failed"} /\ (GhUploads(j, q) \/ GhFails(j, q))
      BY <2>1, <2>2 DEF UploadAsset, ToStep
    <3>2. q \in CandidatePaths
      <4>1. queue[j] \subseteq CandidatePaths /\ queue[j] # {}
        BY <2>2 DEF UploadAsset, TypeInv, JobTyped, Candidates
      <4> QED BY <4>1, FirstIsOne DEF CandidatePaths
    <3> HIDE DEF q
    <3>3. DOMAIN release' \subseteq DOMAIN release \cup {Name(q)}
      BY <3>1 DEF GhUploads, GhFails, Put, Without
    <3>4. DOMAIN release' \subseteq {Name(x[2]) : x \in sent'}
      BY <3>1, <3>3 DEF Sending
    <3>5. j \in open
      BY <3>1 DEF Sending
    <3>6. ASSUME NEW x \in sent'
          PROVE  x \in Jobs \X CandidatePaths /\ (x[1] \in open' \/ pc'[x[1]] = "done")
      <4>1. CASE x = <<j, q>>
        BY <3>1, <3>2, <3>5, <4>1
      <4>2. CASE x \in sent
        BY <2>1, <3>1, <3>5, <4>2 DEF Sending
      <4> QED BY <3>1, <4>1, <4>2
    <3> QED BY <2>1, <3>1, <3>4, <3>5, <3>6 DEF Sending
  <2>3. CASE ~UploadAsset(j)
    <3>1. /\ UNCHANGED <<sent, release>> /\ pc[j] # "done"
          /\ pc'[j] = "upload" => j \in open'
          /\ open \ {j} \subseteq open' /\ (j \in open => j \in open' \/ pc'[j] = "done")
      <4> USE <2>1 DEF Elsewhere, shared, ToStep, Keep, EndsStaging, Sending
      <4>1. CASE LoadConfig(j)  BY <4>1 DEF LoadConfig
      <4>2. CASE InitializeStagingDir(j)  BY <4>2 DEF InitializeStagingDir
      <4>3. CASE StageArtefact(j)  BY <4>3 DEF StageArtefact
      <4>4. CASE StageBinstallArchive(j)  BY <4>4 DEF StageBinstallArchive
      <4>5. CASE Finish(j)  BY <4>5 DEF Finish
      <4>6. CASE WriteOutputs(j)  BY <4>6 DEF WriteOutputs
      <4>7. CASE DiscoverAssets(j)  BY <4>7 DEF DiscoverAssets
      <4>8. CASE Uploaded(j)  BY <4>8 DEF Uploaded
      <4>9. CASE RepeatUpload(j)  BY <4>9 DEF RepeatUpload
      <4>10. CASE Rerun(j)  BY <4>10 DEF Rerun
      <4> QED
        BY <1>1, <2>3, <4>1, <4>2, <4>3, <4>4, <4>5, <4>6, <4>7, <4>8, <4>9, <4>10 DEF Step
    <3>2. ASSUME NEW x \in sent
          PROVE  x \in Jobs \X CandidatePaths /\ (x[1] \in open' \/ pc'[x[1]] = "done")
      <4>1. x \in Jobs \X CandidatePaths /\ (x[1] \in open \/ pc[x[1]] = "done")
        BY DEF Sending
      <4> QED BY <2>1, <3>1, <4>1
    <3>3. \A i \in Jobs : pc'[i] = "upload" => i \in open'
      BY <2>1, <3>1 DEF Sending
    <3> QED BY <3>1, <3>2, <3>3 DEF Sending
  <2> QED BY <2>2, <2>3
<1>2. CASE UNCHANGED vars
  BY <1>2 DEF vars, shared, Sending
<1> QED BY <1>1, <1>2 DEF Next, Step

\* A file is a candidate when a sidecar of it, named after a candidate, is one.
LEMMA OwnerIsCandidate ==
  ASSUME NEW p \in Paths, Sidecar(p) \in CandidatePaths, NEW x \in CandidatePaths,
         Name(Sidecar(p)) = SidecarName(Name(x))
  PROVE  Name(p) = Name(x) /\ p \in CandidatePaths
<1>1. /\ p \in Walk \ {<<>>} /\ x \in Walk \ {<<>>}
      /\ Sidecar(p) \in Walk /\ Dist \in Walk
  <2>1. <<"dist">> \in Seq(Word)
    BY DEF Word
  <2>2. Dist \in Walk
    BY <2>1 DEF Dist, Walk
  <2> QED BY <2>2, Walks DEF CandidatePaths
<1>2. /\ Last(Sidecar(p)) = Append(Last(p), Common.algorithm)
      /\ Last(p) \in Seq(Word) /\ Last(x) \in Seq(Word)
  BY <1>1, Beside
<1>3. Last(p) = Last(x)
  <2>1. Common.algorithm \in Word /\ ".sha256" \in Word
    BY DEF Word
  <2>2. Append(Last(p), Common.algorithm) = Append(Last(x), ".sha256")
    BY <1>2 DEF Name, SidecarName
  <2> QED BY <1>2, <2>1, <2>2, AppendInjective
<1>4. Sidecar(p) # Dist
  <2>1. Last(Dist) = <<"dist">>
    BY DEF Last, Dist
  <2>2. Last(Sidecar(p)) = Append(Last(x), ".sha256")
    BY DEF Name, SidecarName
  <2>3. Append(Last(x), ".sha256") # <<"dist">>
    <3>1. ASSUME NEW s \in Seq(Word), NEW e \in Word, NEW f, e # f
          PROVE  Append(s, e) # <<f>>
      <4>1. Len(Append(s, e)) = Len(s) + 1 /\ Append(s, e)[Len(s) + 1] = e /\ Len(s) \in Nat
        BY AppendProperties, LenProperties
      <4>2. Len(<<f>>) = 1 /\ <<f>>[1] = f
        OBVIOUS
      <4>3. ASSUME Append(s, e) = <<f>>
            PROVE  FALSE
        <5>1. Len(s) = 0
          BY <4>1, <4>2, <4>3
        <5> QED BY <3>1, <4>1, <4>2, <4>3, <5>1
      <4> QED BY <4>3
    <3>2. ".sha256" \in Word /\ ".sha256" # "dist"
      BY DEF Word
    <3> QED BY <1>2, <3>1, <3>2
  <2> QED BY <2>1, <2>2, <2>3
<1>5. Under(Dist, p)
  BY <1>1, <1>4, SidecarUnder DEF CandidatePaths
<1>6. IsCandidate(p)
  BY <1>3 DEF CandidatePaths, IsCandidate
<1> QED BY <1>3, <1>5, <1>6 DEF Name, CandidatePaths

\* When no upload is open, what was sent last of all jobs is told by the
\* workspaces: a checksum there is of the file it names.
LEMMA ChecksumsAreOf ==
  ASSUME TypeInv, Publishing, Holding, Explaining, Sending, open = {},
         NEW n \in DOMAIN release, SidecarName(n) \in DOMAIN release,
         \A m \in {n, SidecarName(n)} : OneOrigin(m) /\ ~Dropped(m),
         \A j \in Jobs : ~Foreign(j, n)
  PROVE  release[SidecarName(n)] = Digest(release[n])
<1>1. ASSUME NEW m \in {n, SidecarName(n)}
      PROVE  \E x \in sent : /\ Name(x[2]) = m /\ x[1] \in Jobs /\ pc[x[1]] = "done"
                             /\ x = <<x[1], x[2]>> /\ ~plan[x[1]].dry
                             /\ x[2] \in Candidates(disk[x[1]])
  <2>1. PICK x \in sent : Name(x[2]) = m
    BY DEF Sending
  <2>2. x \in Jobs \X CandidatePaths /\ pc[x[1]] = "done"
    BY DEF Sending
  <2>3. x[2] \in DOMAIN disk[x[1]]
    BY <2>1 DEF Dropped
  <2>4. ~plan[x[1]].dry
    BY <2>2 DEF Publishing, JobPublished
  <2> QED BY <2>1, <2>2, <2>3, <2>4 DEF Candidates
<1>2. PICK x \in sent : /\ Name(x[2]) = n /\ x[1] \in Jobs /\ pc[x[1]] = "done"
                        /\ x = <<x[1], x[2]>> /\ ~plan[x[1]].dry
                        /\ x[2] \in Candidates(disk[x[1]])
  BY <1>1
<1>3. PICK y \in sent : /\ Name(y[2]) = SidecarName(n) /\ y[1] \in Jobs /\ pc[y[1]] = "done"
                        /\ y = <<y[1], y[2]>> /\ ~plan[y[1]].dry
                        /\ y[2] \in Candidates(disk[y[1]])
  BY <1>1
<1> DEFINE i == y[1]
           q == y[2]
           d == disk[i]
<1>4. ASSUME NEW z \in sent, NEW k \in Jobs, NEW p, z = <<k, p>>,
             Name(p) \in {n, SidecarName(n)}, pc[k] = "done", ~plan[k].dry,
             p \in Candidates(disk[k])
      PROVE  release[Name(p)] = disk[k][p].content
  <2>1. Delivered(k, p)
    BY <1>4 DEF Publishing, JobPublished
  <2>2. Namesakes(k, p) = {}
    <3>1. \A w \in sent : Name(w[2]) = Name(p) => w = z
      BY <1>4 DEF OneOrigin
    <3> QED BY <1>4, <3>1 DEF Namesakes
  <2> QED BY <2>1, <2>2 DEF Delivered
<1>5. release[SidecarName(n)] = d[q].content
  BY <1>3, <1>4
<1>6. q \notin DOMAIN built[i] /\ q \in DOMAIN d /\ q \in CandidatePaths
  BY <1>3 DEF Foreign, Candidates
<1>7. PICK S \in Records(i) : Explains(S, d, q)
  BY <1>3, <1>6 DEF Explaining, JobExplained, Uploading
<1>8. PICK k \in DOMAIN reports[i] : S = DOMAIN reports[i][k].sums
  BY <1>3, <1>7 DEF Records, Within
<1>9. q \notin S
  BY <1>3, <1>8 DEF Foreign
<1>10. PICK p \in S : /\ Sidecar(p) = q
                      /\ \/ \E r \in S : Sidecar(r) = p
                         \/ p \in DOMAIN d /\ d[q].content = Digest(d[p].content)
  BY <1>7, <1>9 DEF Explains
<1>11. Name(p) = n /\ p \in CandidatePaths
  <2>1. p \in Paths
    BY <1>3, <1>7, <1>10, RecordsArePaths DEF Holding
  <2>2. x[2] \in CandidatePaths
    BY <1>2 DEF Candidates
  <2> QED BY <1>2, <1>3, <1>6, <1>10, <2>1, <2>2, OwnerIsCandidate
<1>12. ~\E r \in S : Sidecar(r) = p
  BY <1>3, <1>8, <1>10, <1>11 DEF Foreign
<1>13. p \in DOMAIN d /\ d[q].content = Digest(d[p].content)
  BY <1>10, <1>12
<1>14. release[n] = d[p].content
  <2>1. p \in Candidates(d)
    BY <1>11, <1>13 DEF Candidates
  <2>2. <<i, p>> \in sent
    BY <1>3, <2>1 DEF Publishing, JobPublished, Delivered
  <2> QED BY <1>3, <1>4, <1>11, <2>1, <2>2
<1> QED BY <1>5, <1>13, <1>14

\* Once no upload is broken off, a checksum on the release is of the file it
\* names, whatever was uploaded, failed and built anew before, with the
\* exceptions that ChecksumsMatch lists.
THEOREM Matching == Spec => []ChecksumsMatch
<1>1. Init => Publishing /\ Explaining /\ Sending
  BY DEF Init, Publishing, JobPublished, Explaining, JobExplained, Sending, Empty, Within
<1>2. Spec => [](Publishing /\ Explaining /\ Sending)
  BY <1>1, Typed, Held, PublishingStep, ExplainingStep, SendingStep, PTL DEF Spec
<1>3. TypeInv /\ Publishing /\ Holding /\ Explaining /\ Sending => ChecksumsMatch
  BY ChecksumsAreOf DEF ChecksumsMatch
<1> QED BY <1>2, <1>3, Typed, Held, PTL
=============================================================================
