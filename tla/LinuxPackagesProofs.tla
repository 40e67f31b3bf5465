----------------------- MODULE LinuxPackagesProofs -----------------------
(* What holds of every job that packages and validates, for any targets,    *)
(* formats, inputs and number of uses.                                      *)
EXTENDS LinuxPackages, SequenceTheorems, FiniteSetTheorems, TLAPS

-----------------------------------------------------------------------------
(* The inductive invariant. *)

Packaging == {"manifest", "pack", "packed"}
InSession == {"install", "describe", "exist", "executable", "verify", "remove"}
Sandboxed == {"pull", "start"} \cup InSession
Validated == {"store", "format", "inspect", "validated"} \cup Sandboxed
Current == Head(todo)

\* A use has an input of its kind, for an architecture from its first step on.
Input ==
  /\ pc \in Packaging => use \in PackageInputs
  /\ pc \in {"config"} \cup Validated => use \in ValidateInputs
  /\ pc \in {"pack", "packed"} \cup Validated => ArchOf(use) # Unsupported

\* The formats to come are of those that were asked for, each once.
Ahead ==
  /\ pc \in {"pack", "packed"} \cup Validated =>
       todo \in Seq(Formats) /\ IsInjective(todo) /\ ToSet(todo) \subseteq ToSet(use.formats)
  /\ pc \in {"inspect"} \cup Sandboxed => todo # <<>>
  /\ pc \in {"packed", "validated"} => todo = <<>>

\* What is behind was packed by this use, but for the failures.
Built ==
  /\ pc = "manifest" => failures = {}
  /\ pc \in {"pack", "packed"} =>
       \A f \in ToSet(use.formats) \ (ToSet(todo) \cup failures) : Packed(use, f) \in dist
  /\ pc = "packed" => failures = {}

\* A package says of its architecture what its format calls it.
Labelled == \A p \in dist : p.format \in Formats /\ p.arch \in Range(LabelOf[p.format])

\* The package at hand is the only one located.
Only(p) == package = {p} /\ p \in Located(Current) /\ Located(Current) = {p}
AtHand ==
  /\ pc \in {"inspect"} \cup Sandboxed => Handled(Current) /\ \E p \in dist : Only(p)
  /\ pc \in Sandboxed =>
       /\ \A p \in package : MetadataHolds(p) /\ ~Foreign(p) /\ ArchitectureHolds(p)
       /\ \A x \in ToSet(Expected(use)) : Established(Current, "payload", x)

\* A session has one mode, which the runner permits.
Mode == IF support = "no" THEN "none" ELSE isolation
Steady ==
  /\ pc = "start" => support = "unknown"
  /\ pc \in InSession => IF knows THEN support = "yes" /\ isolation \notin denied ELSE support = "no"
OfSession(f) == {x \in facts : x.format = f /\ x.what # "payload"}
OneMode ==
  /\ pc = "config" => facts = {}
  /\ pc \in Validated =>
       \A f \in ToSet(todo) : f # Current \/ pc \notin InSession \ {"install"} => OfSession(f) = {}
  /\ pc \in InSession => \A x \in OfSession(Current) : x.mode = Mode

\* What a session has established, place by place.
Seen(what, S) == \A x \in S : Established(Current, what, x)
Progress ==
  /\ pc \in {"describe", "exist", "executable", "verify"} => Established(Current, "installed", Bin)
  /\ pc \in {"exist", "executable"} => paths \in Seq(STRING)
  /\ pc = "exist" => Seen("exists", ToSet(Expected(use)) \ ToSet(paths))
  /\ pc \in {"executable", "verify"} => Seen("exists", ToSet(Expected(use)))
  /\ pc = "executable" => Seen("executable", ToSet(Executables(use)) \ ToSet(paths))
  /\ pc = "verify" => Seen("executable", ToSet(Executables(use)))
  /\ pc = "remove" /\ ~broken => Earned(Current)

\* The formats behind are settled.
Settled ==
  pc \in Validated => \A f \in ToSet(use.formats) \ ToSet(todo) : Earned(f) /\ Right(f)

\* The parts of TypeOK.
DistOK == dist \subseteq Packages /\ \A p, q \in dist : File(p) = File(q) => p = q
UsesOK == uses \in 0 .. MaxUses /\ use \in PackageInputs \cup ValidateInputs \cup {[kind |-> "none"]}
PlaceOK ==
  pc \in Ended \cup {"manifest", "pack", "config", "store", "format", "inspect", "pull", "start",
                     "install", "describe", "exist", "executable", "verify", "remove", "failed"}
PackageOK == failures \subseteq Formats /\ package \subseteq Packages /\ Cardinality(package) <= 1
SessionOK == /\ knows \in BOOLEAN /\ denied \subseteq Isolations /\ broken \in BOOLEAN
             /\ isolation \in Isolations /\ support \in {"unknown", "yes", "no"}
StoreOK == rootfs \in Nat /\ excused \in Nat

\* The user's store holds what was given up, and the root file system in use.
Held == IF pc \in Rooted THEN Own ELSE 0
Kept == rootfs = excused + Held

IInv == /\ TypeOK /\ Input /\ Ahead /\ Built /\ EveryFormatTried
        /\ Labelled /\ AtHand /\ Steady /\ OneMode /\ Progress /\ Settled /\ Kept

-----------------------------------------------------------------------------
(* Lists and facts. *)

\* The first of a list and the rest of it.
LEMMA HeadAndTail ==
  ASSUME NEW S, NEW s \in Seq(S), s # <<>>
  PROVE  /\ Head(s) \in S /\ Tail(s) \in Seq(S)
         /\ ToSet(s) = {Head(s)} \cup ToSet(Tail(s))
         /\ IsInjective(s) => IsInjective(Tail(s)) /\ Head(s) \notin ToSet(Tail(s))
<1>1. /\ Head(s) \in S /\ Tail(s) \in Seq(S) /\ Len(s) \in Nat \ {0} /\ Len(Tail(s)) = Len(s) - 1
      /\ Head(s) = s[1] /\ \A i \in 1..Len(Tail(s)) : Tail(s)[i] = s[i + 1]
  BY HeadTailProperties, EmptySeq, LenProperties
<1>2. DOMAIN s = 1..Len(s) /\ DOMAIN Tail(s) = 1..Len(s) - 1
  BY <1>1, LenProperties
<1>3. ToSet(s) \subseteq {Head(s)} \cup ToSet(Tail(s))
  <2>1. ASSUME NEW i \in DOMAIN s, i # 1 PROVE s[i] \in ToSet(Tail(s))
    <3>1. i - 1 \in DOMAIN Tail(s) /\ Tail(s)[i - 1] = s[i]
      BY <1>1, <1>2, <2>1
    <3> QED BY <3>1 DEF ToSet
  <2> QED BY <1>1, <2>1 DEF ToSet
<1>4. {Head(s)} \cup ToSet(Tail(s)) \subseteq ToSet(s)
  <2>1. ASSUME NEW i \in DOMAIN Tail(s) PROVE Tail(s)[i] \in ToSet(s)
    BY <1>1, <1>2 DEF ToSet
  <2> QED BY <1>1, <1>2, <2>1 DEF ToSet
<1>5. IsInjective(s) => IsInjective(Tail(s)) /\ Head(s) \notin ToSet(Tail(s))
  <2> SUFFICES ASSUME IsInjective(s)
               PROVE  IsInjective(Tail(s)) /\ Head(s) \notin ToSet(Tail(s))
    OBVIOUS
  <2>1. ASSUME NEW i \in DOMAIN Tail(s), NEW j \in DOMAIN Tail(s), Tail(s)[i] = Tail(s)[j]
        PROVE  i = j
    <3>1. i + 1 \in DOMAIN s /\ j + 1 \in DOMAIN s /\ s[i + 1] = s[j + 1]
      BY <1>1, <1>2, <2>1
    <3>2. i + 1 = j + 1
      BY <3>1 DEF IsInjective
    <3> QED BY <1>2, <3>2
  <2>2. ASSUME NEW i \in DOMAIN Tail(s), Tail(s)[i] = Head(s) PROVE FALSE
    <3>1. i + 1 \in DOMAIN s /\ 1 \in DOMAIN s /\ s[i + 1] = s[1]
      BY <1>1, <1>2, <2>2
    <3>2. i + 1 = 1
      BY <3>1 DEF IsInjective
    <3> QED BY <1>2, <3>2
  <2> QED BY <2>1, <2>2 DEF IsInjective, ToSet
<1> QED BY <1>1, <1>3, <1>4, <1>5

LEMMA Parts ==
  /\ TypeOK <=> DistOK /\ UsesOK /\ PlaceOK /\ PackageOK /\ SessionOK /\ StoreOK
  /\ TypeOK' <=> DistOK' /\ UsesOK' /\ PlaceOK' /\ PackageOK' /\ SessionOK' /\ StoreOK'
BY DEF TypeOK, DistOK, UsesOK, PlaceOK, PackageOK, SessionOK, StoreOK

\* What the user's store holds is a matter of whose store it is and of the place.
LEMMA KeptOn ==
  ASSUME StoreOK, Kept, UNCHANGED <<store, use>>, pc \in Rooted <=> pc' \in Rooted
  PROVE  StoreOK' /\ Kept'
<1>1. rootfs' = rootfs /\ excused' = excused
  BY DEF store
<1>2. Held' = Held
  BY DEF Held, Own
<1> QED BY <1>1, <1>2 DEF StoreOK, Kept

LEMMA OwnIsNumber == Own \in {0, 1}
BY DEF Own

LEMMA NothingIn == ToSet(<<>>) = {}
BY DEF ToSet

\* A use of either action, and what normalising makes of its lists.
LEMMA Lists ==
  ASSUME NEW u \in PackageInputs \cup ValidateInputs
  PROVE  /\ Requested(u) \in Seq(Formats) /\ IsInjective(Requested(u))
         /\ ToSet(Requested(u)) = ToSet(u.formats)
BY ListsAssumption

LEMMA PathLists ==
  ASSUME NEW u \in ValidateInputs
  PROVE  /\ Expected(u) \in Seq(STRING) /\ Executables(u) \in Seq(STRING)
         /\ ToSet(Executables(u)) \cup ToSet(u.executables) \subseteq ToSet(Expected(u))
BY ListsAssumption

\* What has been established for a format is not lost while others' facts are
\* added, nor is the package it was established of.
LEMMA FactsKept ==
  ASSUME NEW f, NEW what, NEW x, facts \subseteq facts', Established(f, what, x)
  PROVE  Established(f, what, x)'
BY DEF Established

LEMMA EarnedKept ==
  ASSUME NEW f, Earned(f), UNCHANGED <<dist, use, runner>>, facts \subseteq facts',
         OfSession(f)' = OfSession(f)
  PROVE  Earned(f)'
<1>1. Located(f)' = Located(f) /\ Modes' = Modes
  BY DEF Located, Modes, runner
<1>2. \A what, x : Established(f, what, x) => Established(f, what, x)'
  BY FactsKept
<1>3. \A x \in facts' : x.format = f /\ x.what # "payload" => x \in OfSession(f)
  BY DEF OfSession
<1>4. ASSUME NEW m \in Modes,
             \A x \in facts : x.format = f /\ x.what # "payload" => x.mode = m
      PROVE  \A x \in facts' : x.format = f /\ x.what # "payload" => x.mode = m
  BY <1>3, <1>4 DEF OfSession
<1> QED BY <1>1, <1>2, <1>4 DEF Earned

LEMMA RightKept ==
  ASSUME NEW f, Right(f), UNCHANGED <<dist, use>>
  PROVE  Right(f)'
BY DEF Right, SameLabel

-----------------------------------------------------------------------------
(* It holds initially, and between uses. *)

LEMMA InitIInv == Init => IInv
<1> SUFFICES ASSUME Init PROVE IInv
  OBVIOUS
<1>1. TypeOK
  <2>1. Cardinality({}) = 0
    BY FS_EmptySet
  <2>2. uses \in 0 .. MaxUses
    BY UsesAssumption DEF Init
  <2>5. DistOK /\ use = [kind |-> "none"]
    BY Zenon DEF Init, DistOK
  <2>3. PlaceOK /\ PackageOK
    BY <2>1 DEF Init, PlaceOK, PackageOK, Ended
  <2>4. SessionOK /\ StoreOK
    BY IsolationAssumption DEF Init, SessionOK, StoreOK
  <2> QED BY <2>2, <2>3, <2>4, <2>5, Parts DEF UsesOK
<1>2. Input /\ Ahead /\ Built /\ EveryFormatTried /\ AtHand /\ Steady /\ OneMode /\ Progress
  BY DEF Init, Input, Ahead, Built, EveryFormatTried, AtHand, Steady, OneMode, Progress,
         Packaging, Validated, Sandboxed, InSession
<1>3. Settled /\ Kept /\ Labelled
  BY DEF Init, Settled, Kept, Held, Rooted, Validated, Sandboxed, InSession, Labelled
<1> QED BY <1>1, <1>2, <1>3 DEF IInv

LEMMA UseStep ==
  ASSUME IInv, Use
  PROVE  IInv'
<1>1. /\ use' \in PackageInputs \cup ValidateInputs /\ facts' = {} /\ failures' = {}
      /\ use' \in PackageInputs => pc' = "manifest"
      /\ use' \in ValidateInputs => pc' = "config"
      /\ pc' \in {"manifest", "config"}
  BY InputsAssumption DEF Use
<1>2. TypeOK'
  <2>1. Cardinality({}) = 0
    BY FS_EmptySet
  <2>2. uses' \in 0 .. MaxUses
    BY UsesAssumption DEF Use, IInv, TypeOK
  <2>3. DistOK /\ UsesOK /\ PlaceOK /\ PackageOK /\ SessionOK /\ StoreOK
    BY Parts DEF IInv
  <2>4. DistOK' /\ StoreOK'
    BY <2>3 DEF Use, DistOK, StoreOK, store
  <2>5. UsesOK'
    BY <1>1, <2>2, Zenon DEF UsesOK
  <2>7. SessionOK'
    BY IsolationAssumption DEF Use, SessionOK
  <2>6. PlaceOK' /\ PackageOK'
    BY <1>1, <2>1 DEF Use, PlaceOK, PackageOK
  <2> QED BY <2>4, <2>5, <2>6, <2>7, Parts
<1>3. /\ Input' /\ Ahead' /\ Built' /\ EveryFormatTried' /\ AtHand' /\ Steady' /\ OneMode'
      /\ Progress' /\ Settled'
  BY <1>1, InputsAssumption DEF Input, Ahead, Built, EveryFormatTried, AtHand, Steady, OneMode,
     Progress, Settled, Packaging, Validated, Sandboxed, InSession
<1>4. Kept' /\ Labelled'
  <2>1. pc \notin Rooted /\ pc' \notin Rooted
    BY <1>1 DEF Use, Ended, Rooted
  <2>2. Held = 0 /\ Held' = 0
    BY <2>1, Zenon DEF Held
  <2> QED BY <2>2 DEF Use, IInv, Kept, store, Labelled
<1> QED BY <1>2, <1>3, <1>4 DEF IInv

-----------------------------------------------------------------------------
(* Packaging. *)

\* A step of package.py keeps what is not its own.
LEMMA Packing ==
  ASSUME IInv, pc \in {"manifest", "pack"}, NEW place \in {"pack", "packed", "failed"},
         ToPackage(place), failures' \subseteq Formats, DistOK', Labelled',
         Input', Ahead', Built', EveryFormatTried'
  PROVE  IInv'
<1>1. DistOK /\ UsesOK /\ PlaceOK /\ PackageOK /\ SessionOK /\ StoreOK
  BY Parts DEF IInv
<1>2. pc' = place /\ UNCHANGED <<runner, uses, use, package, paths, session, store, facts>>
  BY DEF ToPackage
<1>3. UsesOK' /\ PlaceOK' /\ PackageOK' /\ StoreOK'
  BY <1>1, <1>2 DEF UsesOK, PlaceOK, PackageOK, StoreOK, store, Ended
<1>4. SessionOK'
  BY <1>1, <1>2 DEF SessionOK, runner, session
<1>5. Kept'
  <2>1. pc \notin Rooted /\ pc' \notin Rooted
    BY <1>2 DEF Rooted
  <2>2. Held = 0 /\ Held' = 0
    BY <2>1, Zenon DEF Held
  <2> QED BY <1>2, <2>2 DEF IInv, Kept, store
<1>6. AtHand' /\ Steady' /\ OneMode' /\ Progress' /\ Settled'
  BY <1>2 DEF AtHand, Steady, OneMode, Progress, Settled, Validated, Sandboxed, InSession
<1> QED BY <1>3, <1>4, <1>5, <1>6, Parts DEF IInv

LEMMA ManifestStep ==
  ASSUME IInv, Manifest
  PROVE  IInv'
<1>1. /\ pc = "manifest" /\ use \in PackageInputs /\ failures = {}
      /\ UNCHANGED <<dist, failures, use>>
  BY DEF Manifest, IInv, Input, Packaging, Built, ToPackage
<1>2. DistOK' /\ Labelled' /\ failures' \subseteq Formats
  BY <1>1, Parts DEF IInv, DistOK, Labelled
<1>3. CASE ArchOf(use) # Unsupported /\ ToPackage("pack") /\ todo' = Requested(use)
  <2>1. Input'
    BY <1>1, <1>3 DEF ToPackage, Input, Packaging, Validated, Sandboxed, InSession
  <2>2. todo' \in Seq(Formats) /\ IsInjective(todo') /\ ToSet(todo') = ToSet(use'.formats)
    BY <1>1, <1>3, Lists
  <2>3. Ahead' /\ Built' /\ EveryFormatTried'
    BY <1>1, <1>3, <2>2 DEF ToPackage, Ahead, Built, EveryFormatTried, Sandboxed, InSession
  <2> QED BY <1>1, <1>2, <1>3, <2>1, <2>3, Packing
<1>4. CASE ToPackage("failed")
  <2>1. Input' /\ Ahead' /\ Built' /\ EveryFormatTried'
    BY <1>1, <1>4 DEF ToPackage, Input, Ahead, Built, EveryFormatTried, Packaging, Validated,
       Sandboxed, InSession
  <2> QED BY <1>1, <1>2, <1>4, <2>1, Packing
<1> QED BY <1>3, <1>4 DEF Manifest

\* What a use packs is a package, under a label of its format.
LEMMA PackedIsPackage ==
  ASSUME NEW u \in PackageInputs, ArchOf(u) # Unsupported, NEW f \in Formats
  PROVE  /\ Packed(u, f) \in Packages
         /\ Packed(u, f).format = f /\ Packed(u, f).arch \in Range(LabelOf[f])
<1>1. LabelOf[f][ArchOf(u)] \in Range(LabelOf[f])
  BY LabelsAssumption DEF Range
<1>2. LabelOf[f][ArchOf(u)] \in UNION {Range(LabelOf[g]) : g \in Formats}
  BY <1>1
<1>3. u.release \in {v.release : v \in PackageInputs} /\ u.target \in Targets /\ u.man \in BOOLEAN
  BY InputsAssumption
<1> QED BY <1>1, <1>2, <1>3 DEF Packed, Packages

LEMMA PackStep ==
  ASSUME IInv, Pack
  PROVE  IInv'
<1> DEFINE built == Packed(use, Current)
           kept == {p \in dist : File(p) # File(built)} \cup {built}
<1>1. /\ pc = "pack" /\ todo # <<>> /\ use \in PackageInputs /\ ArchOf(use) # Unsupported
      /\ todo \in Seq(Formats) /\ IsInjective(todo) /\ ToSet(todo) \subseteq ToSet(use.formats)
      /\ failures \subseteq Formats
  BY DEF Pack, IInv, TypeOK, Input, Ahead, Packaging, Validated
<1>2. /\ Current \in Formats /\ Tail(todo) \in Seq(Formats) /\ IsInjective(Tail(todo))
      /\ ToSet(todo) = {Current} \cup ToSet(Tail(todo))
  BY <1>1, HeadAndTail DEF Current
<1>3. todo' = Tail(todo) /\ use' = use
  BY DEF Pack, ToPackage
<1>4. built \in Packages /\ built.format \in Formats /\ built.arch \in Range(LabelOf[built.format])
  BY <1>1, <1>2, PackedIsPackage
<1>5. DistOK /\ Labelled
  BY Parts DEF IInv
<1>6. \A f \in ToSet(use.formats) \ (ToSet(todo) \cup failures) : Packed(use, f) \in dist
  BY <1>1 DEF IInv, Built
<1>7. \A f : Packed(use, f) \in dist => Packed(use, f) \in kept
  <2>1. ASSUME NEW f, Packed(use, f) \in dist, File(Packed(use, f)) = File(built)
        PROVE  Packed(use, f) = built
    BY <2>1 DEF File, Packed
  <2> QED BY <2>1
<1>8. Input' /\ Ahead'
  BY <1>1, <1>2, <1>3 DEF Pack, ToPackage, Input, Ahead, Packaging, Validated, Sandboxed, InSession
<1>9. CASE dist' = kept /\ ToPackage("pack") /\ UNCHANGED failures
  <2>1. DistOK'
    <3>1. \A p, q \in kept : File(p) = File(q) => p = q
      BY <1>5 DEF DistOK
    <3>2. kept \subseteq Packages
      BY <1>4, <1>5 DEF DistOK
    <3> HIDE DEF kept
    <3> QED BY <1>9, <3>1, <3>2 DEF DistOK
  <2>2. Labelled'
    BY <1>4, <1>5, <1>9 DEF Labelled
  <2>3. \A f \in ToSet(use.formats) \ (ToSet(Tail(todo)) \cup failures) : Packed(use, f) \in kept
    BY <1>2, <1>6, <1>7
  <2>4. Built' /\ EveryFormatTried'
    <3> HIDE DEF kept
    <3> QED BY <1>3, <1>9, <2>3 DEF ToPackage, Built, EveryFormatTried
  <2> QED BY <1>1, <1>8, <1>9, <2>1, <2>2, <2>4, Packing
<1>10. CASE /\ failures' = failures \cup {Current}
            /\ ToPackage(IF Len(Requested(use)) = 1 THEN "failed" ELSE "pack")
            /\ UNCHANGED dist
  <2>1. DistOK' /\ Labelled' /\ failures' \subseteq Formats
    BY <1>1, <1>2, <1>5, <1>10 DEF DistOK, Labelled
  <2>2. \A f \in ToSet(use.formats) \ (ToSet(Tail(todo)) \cup failures') : Packed(use, f) \in dist
    BY <1>2, <1>6, <1>10
  <2>3. CASE Len(Requested(use)) # 1
    <3>1. ToPackage("pack")
      BY <1>10, <2>3
    <3>2. Built' /\ EveryFormatTried'
      BY <1>3, <1>10, <2>2, <3>1 DEF ToPackage, Built, EveryFormatTried
    <3> QED BY <1>1, <1>8, <2>1, <3>1, <3>2, Packing
  <2>4. CASE Len(Requested(use)) = 1
    <3>1. ToPackage("failed")
      BY <1>10, <2>4
    <3>2. Built'
      BY <3>1 DEF ToPackage, Built
    <3>3. ToSet(use.formats) = {Requested(use)[1]}
      <4>1. DOMAIN Requested(use) = {1}
        BY <1>1, <2>4, Lists, LenProperties
      <4>2. ToSet(Requested(use)) = ToSet(use.formats)
        BY <1>1, Lists
      <4> QED BY <4>1, <4>2 DEF ToSet
    <3>4. Current \in ToSet(use.formats)
      BY <1>1, <1>2
    <3>5. ToSet(use.formats) \ failures' = {}
      BY <1>10, <3>3, <3>4
    <3>6. EveryFormatTried'
      BY <1>3, <3>5 DEF EveryFormatTried
    <3> QED BY <1>1, <1>8, <2>1, <3>1, <3>2, <3>6, Packing
  <2> QED BY <2>3, <2>4
<1> QED BY <1>9, <1>10 DEF Pack, Current

LEMMA PackagesDoneStep ==
  ASSUME IInv, PackagesDone
  PROVE  IInv'
<1>1. /\ pc = "pack" /\ todo = <<>> /\ use \in PackageInputs /\ ArchOf(use) # Unsupported
      /\ failures \subseteq Formats /\ UNCHANGED <<dist, todo, failures, use>>
      /\ todo \in Seq(Formats) /\ IsInjective(todo) /\ ToSet(todo) \subseteq ToSet(use.formats)
  BY DEF PackagesDone, ToPackage, IInv, TypeOK, Input, Ahead, Packaging, Validated
<1>2. DistOK' /\ Labelled' /\ failures' \subseteq Formats
  BY <1>1, Parts DEF IInv, DistOK, Labelled
<1>3. \A f \in ToSet(use.formats) \ failures : Packed(use, f) \in dist
  BY <1>1, NothingIn DEF IInv, Built
<1>4. PICK place \in {"packed", "failed"} : ToPackage(place) /\ (place = "packed" => failures = {})
  BY DEF PackagesDone
<1>5. pc' = place
  BY <1>4 DEF ToPackage
<1>6. Input' /\ Ahead'
  BY <1>1, <1>5 DEF Input, Ahead, Packaging, Validated, Sandboxed, InSession
<1>7. Built' /\ EveryFormatTried'
  BY <1>1, <1>3, <1>4, <1>5 DEF Built, EveryFormatTried
<1> QED BY <1>1, <1>2, <1>4, <1>6, <1>7, Packing

-----------------------------------------------------------------------------
(* Validation outside a session. *)

Validating == {"config"} \cup Validated
Same == UNCHANGED <<dist, uses, use, failures>>

\* A validation leaves alone what packaging answers for.
LEMMA NotPacking ==
  ASSUME IInv, pc \in Validating, pc' \in Validated \cup {"failed"}, Same
  PROVE  /\ DistOK' /\ UsesOK' /\ Labelled' /\ Built' /\ EveryFormatTried'
         /\ PlaceOK' /\ use \in ValidateInputs
<1>1. use \in ValidateInputs /\ use.kind = "validate"
  BY InputsAssumption DEF IInv, Input, Validating
<1>2. DistOK /\ UsesOK /\ Labelled
  BY Parts DEF IInv
<1>3. pc' \notin {"manifest", "pack", "packed"}
  BY DEF Validated, Sandboxed, InSession
<1>4. DistOK' /\ UsesOK' /\ Labelled'
  BY <1>2 DEF Same, DistOK, UsesOK, Labelled
<1>5. Built' /\ EveryFormatTried'
  BY <1>1, <1>3 DEF Same, Built, EveryFormatTried
<1>6. PlaceOK'
  BY DEF Validated, Sandboxed, InSession, PlaceOK, Ended
<1> QED BY <1>1, <1>4, <1>5, <1>6

\* A validation that fails has nothing more to answer for than the store.
LEMMA Failing ==
  ASSUME IInv, pc \in Validating, ToValidate("failed"), UNCHANGED <<runner, package, broken>>,
         isolation' \in Isolations, support' \in {"unknown", "yes", "no"}, StoreOK', Kept'
  PROVE  IInv'
<1>1. pc' = "failed" /\ Same
  BY DEF ToValidate, Same
<1>2. DistOK' /\ UsesOK' /\ Labelled' /\ Built' /\ EveryFormatTried' /\ PlaceOK'
  BY <1>1, NotPacking
<1>3. PackageOK' /\ SessionOK'
  BY <1>1, Parts DEF IInv, PackageOK, SessionOK, runner, Same
<1>6. /\ Input' /\ Ahead' /\ AtHand' /\ Steady' /\ OneMode' /\ Progress' /\ Settled'
  BY <1>1 DEF Input, Ahead, AtHand, Steady, OneMode, Progress, Settled, Packaging, Validated,
     Sandboxed, InSession
<1> QED BY <1>2, <1>3, <1>6, Parts DEF IInv

\* Outside the session it has nothing to lose.
LEMMA FailingOutside ==
  ASSUME IInv, pc \in Validating \ ({"start"} \cup InSession), ToValidate("failed"),
         UNCHANGED <<runner, package, session, store>>
  PROVE  IInv'
<1>1. SessionOK /\ StoreOK /\ Kept
  BY Parts DEF IInv
<1>2. pc \notin Rooted /\ pc' \notin Rooted /\ use' = use
  BY DEF Rooted, InSession, ToValidate
<1>3. broken' = broken /\ isolation' = isolation /\ support' = support
  BY DEF session
<1>5. isolation' \in Isolations /\ support' \in {"unknown", "yes", "no"}
  BY <1>1, <1>3 DEF SessionOK
<1>6. StoreOK' /\ Kept'
  BY <1>1, <1>2, KeptOn
<1> QED BY <1>3, <1>5, <1>6, Failing

\* Settled formats stay settled while facts about others are added.
LEMMA SettledKept ==
  ASSUME IInv, pc \in Validated, UNCHANGED <<dist, use, runner>>, facts \subseteq facts',
         NEW S \in SUBSET (ToSet(use.formats) \ ToSet(todo)),
         \A f \in S : OfSession(f)' = OfSession(f)
  PROVE  \A f \in S : Earned(f)' /\ Right(f)'
<1> SUFFICES ASSUME NEW f \in S PROVE Earned(f)' /\ Right(f)'
  OBVIOUS
<1>1. Earned(f) /\ Right(f)
  BY DEF IInv, Settled
<1> QED BY <1>1, EarnedKept, RightKept

\* The package that was located and checked is the one that was asked for.
LEMMA OnlyIsRight ==
  ASSUME IInv, pc \in {"inspect"} \cup Sandboxed, NEW p, Only(p), MetadataHolds(p),
         Foreign(p) \/ ArchitectureHolds(p)
  PROVE  Right(Current)
<1>1. /\ use \in ValidateInputs /\ Handled(Current) /\ ArchOf(use) # Unsupported
      /\ use.release \in Seq(STRING)
  BY ListsAssumption DEF IInv, Input, AtHand, Validated
<1>2. /\ p \in dist /\ p.format = Current /\ p.arch \in Range(LabelOf[p.format])
      /\ Located(Current) = {p}
  BY DEF Only, Located, IInv, Labelled
<1>3. IsPrefix(use.release, use.release)
  BY <1>1, LenProperties DEF IsPrefix
<1>4. {q \in dist : q.format = Current /\ q.release = use.release} \subseteq {p}
  BY <1>2, <1>3 DEF Located
<1>5. p.release = use.release \/ (Current = "rpm" /\ IsPrefix(use.release, p.release))
  BY <1>1, <1>2 DEF Handled, MetadataHolds, DebHolds, RpmHolds
<1>6. ArchitectureHolds(p) => SameLabel(p)
  <2>1. Current = "deb" \/ Current = "rpm"
    BY <1>1 DEF Handled
  <2>2. CASE Current = "deb"
    BY <1>2, <2>2 DEF ArchitectureHolds, SameLabel, DebArchOf
  <2>3. CASE Current = "rpm"
    <3>1. RpmAliases[ArchOf(use)] \cap Range(LabelOf["rpm"]) \subseteq {LabelOf["rpm"][ArchOf(use)]}
      BY <1>1, LabelsAssumption
    <3> QED BY <1>2, <2>3, <3>1 DEF ArchitectureHolds, SameLabel
  <2> QED BY <2>1, <2>2, <2>3
<1>7. p.target = use.target \/ SameLabel(p) \/ Foreign(p)
  BY <1>6
<1> QED BY <1>2, <1>4, <1>5, <1>7 DEF Right

\* A step that goes on outside the session.
LEMMA Going ==
  ASSUME IInv, pc \in Validating, pc' \in {"store", "format", "inspect", "validated", "pull"}, Same,
         UNCHANGED <<isolation, support, broken>>, StoreOK', Kept',
         knows' \in BOOLEAN, denied' \subseteq Isolations, package' \subseteq Packages,
         Cardinality(package') <= 1, ArchOf(use) # Unsupported,
         Ahead', AtHand', OneMode', Settled'
  PROVE  IInv'
<1>1. DistOK' /\ UsesOK' /\ Labelled' /\ Built' /\ EveryFormatTried' /\ PlaceOK' /\ use \in ValidateInputs
  BY NotPacking DEF Validated, Sandboxed
<1>2. SessionOK /\ PackageOK
  BY Parts DEF IInv
<1>3. PackageOK' /\ SessionOK'
  BY <1>2 DEF PackageOK, SessionOK, Same
<1>6. Input'
  BY <1>1 DEF Same, Input, Packaging
<1>7. Steady' /\ Progress'
  BY DEF Steady, Progress, InSession
<1> QED BY <1>1, <1>3, <1>6, <1>7, Parts DEF IInv

\* The same from a place outside it.
LEMMA GoingOn ==
  ASSUME IInv, pc \in Validating \ ({"start"} \cup InSession),
         pc' \in {"store", "format", "inspect", "validated", "pull"}, Same, UNCHANGED <<session, store>>,
         knows' \in BOOLEAN, denied' \subseteq Isolations, package' \subseteq Packages,
         Cardinality(package') <= 1, ArchOf(use) # Unsupported,
         Ahead', AtHand', OneMode', Settled'
  PROVE  IInv'
<1>1. StoreOK /\ Kept
  BY Parts DEF IInv
<1>2. pc \notin Rooted /\ pc' \notin Rooted /\ use' = use
  BY DEF Rooted, InSession, Same
<1>3. isolation' = isolation /\ support' = support /\ broken' = broken
  BY DEF session
<1>5. StoreOK' /\ Kept'
  BY <1>1, <1>2, KeptOn
<1> QED BY <1>3, <1>5, Going

LEMMA RejectInputsStep ==
  ASSUME IInv, RejectInputs
  PROVE  IInv'
<1>1. pc \in Validating \ ({"start"} \cup InSession)
  BY DEF RejectInputs, Validating, InSession
<1> QED BY <1>1, FailingOutside DEF RejectInputs

LEMMA ConfigStep ==
  ASSUME IInv, Config
  PROVE  IInv'
<1>1. /\ pc = "config" /\ pc' = "store" /\ ArchOf(use) # Unsupported /\ Same
      /\ UNCHANGED <<package, session, store, facts>> /\ facts = {}
      /\ knows' \in BOOLEAN /\ denied' \subseteq Isolations /\ todo' = Requested(use)
  BY DEF Config, ToValidate, Same, IInv, OneMode
<1>2. use \in ValidateInputs /\ use' = use
  BY <1>1 DEF IInv, Input, Same
<1>3. todo' \in Seq(Formats) /\ IsInjective(todo') /\ ToSet(todo') = ToSet(use'.formats)
  BY <1>1, <1>2, Lists
<1>4. Ahead' /\ AtHand' /\ OneMode' /\ Settled'
  BY <1>1, <1>3 DEF Ahead, AtHand, OneMode, OfSession, Settled, Sandboxed, InSession
<1>5. package' \subseteq Packages /\ Cardinality(package') <= 1
  BY <1>1, Parts DEF IInv, PackageOK
<1> QED BY <1>1, <1>4, <1>5, GoingOn DEF Validating, InSession

\* The parts about formats, when nothing of what they speak of changes.
LEMMA Unmoved ==
  ASSUME IInv, pc \in {"store", "format", "inspect"}, pc' \in {"format", "validated"},
         pc' = "validated" => todo = <<>>, Same, UNCHANGED <<runner, todo, facts>>
  PROVE  Ahead' /\ AtHand' /\ OneMode' /\ Settled'
<1>1. Ahead'
  BY DEF IInv, Ahead, Same, Validated, Sandboxed, InSession
<1>2. AtHand'
  BY DEF AtHand, Sandboxed, InSession
<1>3. \A f : OfSession(f)' = OfSession(f)
  BY DEF OfSession
<1>4. OneMode'
  BY <1>3 DEF IInv, OneMode, Validated, Current, InSession
<1>5. \A f \in ToSet(use.formats) \ ToSet(todo) : Earned(f)' /\ Right(f)'
  BY <1>3, SettledKept DEF Same, Validated
<1>6. Settled'
  BY <1>5 DEF Same, Settled
<1> QED BY <1>1, <1>2, <1>4, <1>6

LEMMA OpenStoreStep ==
  ASSUME IInv, OpenStore
  PROVE  IInv'
<1>1. /\ pc = "store" /\ UNCHANGED <<runner, todo, package, session, store, facts>> /\ Same
      /\ ArchOf(use) # Unsupported
  BY DEF OpenStore, ToValidate, Same, IInv, Input, Validated
<1>2. pc \in Validating \ ({"start"} \cup InSession)
  BY <1>1 DEF Validating, Validated, InSession
<1>3. CASE ToValidate("failed")
  BY <1>1, <1>2, <1>3, FailingOutside
<1>4. CASE ToValidate("format")
  <2>1. pc' = "format"
    BY <1>4 DEF ToValidate
  <2>2. Ahead' /\ AtHand' /\ OneMode' /\ Settled'
    BY <1>1, <2>1, Unmoved
  <2>3. knows' \in BOOLEAN /\ denied' \subseteq Isolations /\ package' \subseteq Packages
        /\ Cardinality(package') <= 1
    BY <1>1, Parts DEF IInv, PackageOK, SessionOK, runner
  <2> QED BY <1>1, <1>2, <2>1, <2>2, <2>3, GoingOn
<1> QED BY <1>3, <1>4 DEF OpenStore

LEMMA AllValidatedStep ==
  ASSUME IInv, AllValidated
  PROVE  IInv'
<1>1. /\ pc = "format" /\ pc' = "validated" /\ todo = <<>> /\ Same /\ ArchOf(use) # Unsupported
      /\ UNCHANGED <<runner, todo, package, session, store, facts>>
  BY DEF AllValidated, ToValidate, Same, IInv, Input, Validated
<1>2. Ahead' /\ AtHand' /\ OneMode' /\ Settled'
  BY <1>1, Unmoved
<1>3. knows' \in BOOLEAN /\ denied' \subseteq Isolations /\ package' \subseteq Packages
      /\ Cardinality(package') <= 1
  BY <1>1, Parts DEF IInv, PackageOK, SessionOK, runner
<1> QED BY <1>1, <1>2, <1>3, GoingOn DEF Validating, Validated, InSession

LEMMA ValidateFormatStep ==
  ASSUME IInv, ValidateFormat
  PROVE  IInv'
<1>1. /\ pc = "format" /\ todo # <<>> /\ UNCHANGED <<runner, todo, paths, session, store, facts>>
      /\ Same /\ ArchOf(use) # Unsupported
  BY DEF ValidateFormat, ToValidate, Same, IInv, Input, Validated
<1>2. pc \in Validating \ ({"start"} \cup InSession)
  BY <1>1 DEF Validating, Validated, InSession
<1>3. CASE ToValidate("failed") /\ UNCHANGED package
  BY <1>1, <1>2, <1>3, FailingOutside
<1>4. ASSUME Handled(Current), NEW p \in Located(Current), Located(Current) = {p}, package' = {p},
             ToValidate("inspect")
      PROVE  IInv'
  <2>1. pc' = "inspect" /\ p \in dist
    BY <1>4 DEF ToValidate, Located
  <2>2. Ahead'
    BY <1>1, <2>1 DEF IInv, Ahead, Same, Validated, Sandboxed, InSession
  <2>3. AtHand'
    <3>1. Current' = Current /\ Located(Current)' = Located(Current)
      BY <1>1 DEF Current, Located, Same
    <3>2. Only(p)'
      BY <1>4, <3>1 DEF Only
    <3>3. p \in dist' /\ Handled(Current)'
      BY <1>1, <1>4, <2>1, <3>1 DEF Handled, Same
    <3> QED BY <2>1, <3>2, <3>3 DEF AtHand, Sandboxed, InSession
  <2>4. \A f : OfSession(f)' = OfSession(f)
    BY <1>1 DEF OfSession
  <2>5. OneMode'
    BY <1>1, <2>1, <2>4 DEF IInv, OneMode, Validated, InSession
  <2>6. \A f \in ToSet(use.formats) \ ToSet(todo) : Earned(f)' /\ Right(f)'
    BY <1>1, <2>4, SettledKept DEF Same, Validated
  <2>7. Settled'
    BY <1>1, <2>6 DEF Same, Settled
  <2>8. package' \subseteq Packages /\ Cardinality(package') <= 1
    <3>1. Cardinality({p}) = 1
      BY FS_Singleton
    <3> QED BY <1>4, <2>1, <3>1, Parts DEF IInv, DistOK
  <2>9. knows' \in BOOLEAN /\ denied' \subseteq Isolations
    BY <1>1, Parts DEF IInv, SessionOK, runner
  <2> QED BY <1>1, <1>2, <2>1, <2>2, <2>3, <2>5, <2>7, <2>8, <2>9, GoingOn
<1> QED BY <1>3, <1>4 DEF ValidateFormat, Current

\* What a package's metadata establishes is no fact of a session.
LEMMA PayloadFacts ==
  ASSUME NEW p, facts' = facts \cup Payload(p)
  PROVE  /\ \A f : OfSession(f)' = OfSession(f)
         /\ \A x \in Listing(p) : Established(p.format, "payload", x)'
<1>1. \A y \in Payload(p) : y.what = "payload"
  BY DEF Payload
<1>2. \A f : OfSession(f)' = OfSession(f)
  BY <1>1 DEF OfSession
<1>3. ASSUME NEW x \in Listing(p)
      PROVE  Established(p.format, "payload", x)'
  <2> DEFINE y == [format |-> p.format, what |-> "payload", path |-> x, mode |-> "host"]
  <2>1. y \in facts' /\ y.format = p.format /\ y.what = "payload" /\ y.path = x
    BY DEF Payload
  <2> HIDE DEF y
  <2> QED BY <2>1 DEF Established
<1> QED BY <1>2, <1>3

LEMMA InspectStep ==
  ASSUME IInv, Inspect
  PROVE  IInv'
<1>1. /\ pc = "inspect" /\ UNCHANGED <<runner, package, paths, session, store>>
      /\ Same /\ ArchOf(use) # Unsupported /\ todo # <<>> /\ use \in ValidateInputs
      /\ todo \in Seq(Formats) /\ IsInjective(todo) /\ ToSet(todo) \subseteq ToSet(use.formats)
  BY DEF Inspect, ToValidate, Same, IInv, Input, Ahead, Validated
<1>2. pc \in Validating \ ({"start"} \cup InSession)
  BY <1>1 DEF Validating, Validated, InSession
<1>3. /\ Current \in Formats /\ Tail(todo) \in Seq(Formats) /\ IsInjective(Tail(todo))
      /\ ToSet(todo) = {Current} \cup ToSet(Tail(todo)) /\ Current \notin ToSet(Tail(todo))
  BY <1>1, HeadAndTail DEF Current
<1>4. PICK p \in dist : Only(p)
  BY <1>1 DEF IInv, AtHand
<1>5. package = {p} /\ Located(Current) = {p} /\ p.format = Current
  BY <1>4 DEF Only, Located
<1>6. CASE ToValidate("failed") /\ UNCHANGED <<todo, facts>>
  BY <1>1, <1>2, <1>6, FailingOutside
<1>7. ASSUME MetadataHolds(p), facts' = facts \cup Payload(p)
      PROVE  /\ \A f : OfSession(f)' = OfSession(f)
             /\ \A x \in ToSet(Expected(use)) : Established(p.format, "payload", x)'
             /\ \A f \in ToSet(use.formats) \ ToSet(todo) : Earned(f)' /\ Right(f)'
  <2>1. ToSet(Expected(use)) \subseteq Listing(p)
    BY <1>7 DEF MetadataHolds
  <2>2. \A f : OfSession(f)' = OfSession(f)
    BY <1>7, PayloadFacts
  <2>3. \A x \in ToSet(Expected(use)) : Established(p.format, "payload", x)'
    BY <1>7, <2>1, PayloadFacts
  <2>4. \A f \in ToSet(use.formats) \ ToSet(todo) : Earned(f)' /\ Right(f)'
    BY <1>1, <1>7, <2>2, SettledKept DEF Same, Validated
  <2> QED BY <2>2, <2>3, <2>4
<1>8. knows' \in BOOLEAN /\ denied' \subseteq Isolations /\ package' \subseteq Packages
      /\ Cardinality(package') <= 1
  BY <1>1, Parts DEF IInv, PackageOK, SessionOK, runner
<1>9. ASSUME MetadataHolds(p), facts' = facts \cup Payload(p), Foreign(p), ToValidate("format"),
             todo' = Tail(todo)
      PROVE  IInv'
  <2>1. pc' = "format" /\ use' = use
    BY <1>1, <1>9 DEF ToValidate, Same
  <2>2. Ahead'
    BY <1>1, <1>3, <1>9, <2>1 DEF Ahead, Sandboxed, InSession
  <2>3. AtHand'
    BY <2>1 DEF AtHand, Sandboxed, InSession
  <2>4. \A f \in ToSet(todo) : OfSession(f)' = {}
    BY <1>1, <1>7, <1>9 DEF IInv, OneMode, Validated, InSession
  <2>5. OneMode'
    BY <1>3, <1>9, <2>1, <2>4 DEF OneMode, InSession
  <2>7. ASSUME NEW c, c = Current
        PROVE  Earned(c)' /\ Right(c)'
    <3>1. p \in Located(c)' /\ Foreign(p)
      BY <1>1, <1>4, <1>9, <2>7 DEF Only, Located, Same
    <3>2. \A x \in ToSet(Expected(use')) : Established(c, "payload", x)'
      BY <1>5, <1>7, <1>9, <2>1, <2>7
    <3>3. Earned(c)'
      BY <3>1, <3>2 DEF Earned
    <3>4. Right(c)
      BY <1>1, <1>4, <1>9, <2>7, OnlyIsRight
    <3>5. Right(c)'
      BY <1>1, <3>4, RightKept DEF Same
    <3> QED BY <3>3, <3>5
  <2>8. Settled'
    <3> SUFFICES ASSUME NEW f \in ToSet(use'.formats) \ ToSet(todo')
                 PROVE  Earned(f)' /\ Right(f)'
      BY DEF Settled
    <3>1. f = Current \/ f \in ToSet(use.formats) \ ToSet(todo)
      BY <1>3, <1>9, <2>1
    <3> QED BY <1>7, <1>9, <2>7, <3>1
  <2> QED BY <1>1, <1>2, <1>8, <2>1, <2>2, <2>3, <2>5, <2>8, GoingOn
<1>10. ASSUME MetadataHolds(p), facts' = facts \cup Payload(p), ~Foreign(p), ArchitectureHolds(p),
              ToValidate("pull"), UNCHANGED todo
       PROVE  IInv'
  <2>1. pc' = "pull" /\ use' = use
    BY <1>1, <1>10 DEF ToValidate, Same
  <2>2. Ahead'
    BY <1>1, <1>10, <2>1 DEF Ahead
  <2>3. AtHand'
    <3>1. Current' = Current /\ package' = package
      BY <1>1, <1>10 DEF Current
    <3>2. Only(p)' /\ p \in dist'
      BY <1>1, <1>4, <3>1 DEF Only, Located, Same
    <3>3. Handled(Current)'
      BY <1>1, <3>1 DEF IInv, AtHand, Handled
    <3>4. MetadataHolds(p)' /\ ~Foreign(p)' /\ ArchitectureHolds(p)'
      BY <1>10, <2>1 DEF MetadataHolds, DebHolds, RpmHolds, Foreign, ArchitectureHolds, DebArchOf
    <3>5. package' = {p}
      BY <1>5, <3>1
    <3>6. \A x \in ToSet(Expected(use')) : Established(Current, "payload", x)'
      BY <1>5, <1>7, <1>10, <2>1, <3>1
    <3> QED BY <3>1, <3>2, <3>3, <3>4, <3>5, <3>6 DEF AtHand
  <2>4. OneMode'
    BY <1>1, <1>7, <1>10, <2>1 DEF IInv, OneMode, Validated, Sandboxed, InSession
  <2>5. Settled'
    BY <1>7, <1>10, <2>1 DEF Settled
  <2> QED BY <1>1, <1>2, <1>8, <2>1, <2>2, <2>3, <2>4, <2>5, GoingOn
<1> QED BY <1>5, <1>6, <1>9, <1>10 DEF Inspect

-----------------------------------------------------------------------------
(* The session. *)

\* A step in the sandbox changes nothing but the session and its facts.
LEMMA Moving ==
  ASSUME IInv, pc \in Sandboxed, pc' \in Sandboxed, Same, UNCHANGED <<runner, todo, package>>,
         facts \subseteq facts',
         \A x \in facts' \ facts : x.format = Current /\ x.what # "payload"
  PROVE  /\ DistOK' /\ UsesOK' /\ PlaceOK' /\ PackageOK' /\ knows' \in BOOLEAN /\ denied' \subseteq Isolations
         /\ Input' /\ Ahead' /\ Built' /\ EveryFormatTried' /\ Labelled' /\ AtHand' /\ Settled'
         /\ Current' = Current
         /\ \A f : f # Current => OfSession(f)' = OfSession(f)
<1>1. pc \in Validating /\ pc' \in Validated
  BY DEF Validating, Validated
<1>2. DistOK' /\ UsesOK' /\ Labelled' /\ Built' /\ EveryFormatTried' /\ PlaceOK' /\ use \in ValidateInputs
  BY <1>1, NotPacking
<1>3. PackageOK' /\ knows' \in BOOLEAN /\ denied' \subseteq Isolations
  BY Parts DEF IInv, PackageOK, SessionOK, runner, Same
<1>4. pc' \notin {"manifest", "pack", "packed", "config", "validated"} /\ pc' # "inspect"
  BY DEF Sandboxed, InSession
<1>5. Input'
  BY <1>1, <1>2, <1>4 DEF Same, IInv, Input, Packaging, Validated
<1>6. Ahead'
  BY <1>1, <1>4 DEF Same, IInv, Ahead, Validated
<1>7. Current' = Current
  BY DEF Current
<1>8. AtHand'
  <2>1. PICK p \in dist : Only(p)
    BY DEF IInv, AtHand
  <2>2. Handled(Current)' /\ p \in dist' /\ Only(p)'
    BY <1>7, <2>1 DEF IInv, AtHand, Handled, Only, Located, Same
  <2>3. package = {p} /\ package' = {p}
    BY <2>1 DEF Only
  <2>4. MetadataHolds(p) /\ ~Foreign(p) /\ ArchitectureHolds(p)
    BY <2>3 DEF IInv, AtHand
  <2>5. MetadataHolds(p)' /\ ~Foreign(p)' /\ ArchitectureHolds(p)'
    BY <2>4 DEF MetadataHolds, DebHolds, RpmHolds, Foreign, ArchitectureHolds, DebArchOf, Same
  <2>6. \A x \in ToSet(Expected(use')) : Established(Current, "payload", x)'
    BY <1>7 DEF IInv, AtHand, Established, Same
  <2> QED BY <2>2, <2>3, <2>5, <2>6 DEF AtHand
<1>9. \A f : f # Current => OfSession(f)' = OfSession(f)
  BY DEF OfSession
<1>10. Settled'
  <2>1. Current \in ToSet(todo)
    <3>1. todo \in Seq(Formats) /\ todo # <<>>
      BY DEF IInv, Ahead, Validated
    <3> QED BY <3>1, HeadAndTail DEF Current
  <2>2. \A f \in ToSet(use.formats) \ ToSet(todo) : OfSession(f)' = OfSession(f)
    BY <1>9, <2>1
  <2>3. \A f \in ToSet(use.formats) \ ToSet(todo) : Earned(f)' /\ Right(f)'
    BY <1>1, <2>2, SettledKept DEF Same, Validated
  <2> QED BY <2>3 DEF Same, Settled
<1> QED BY <1>2, <1>3, <1>5, <1>6, <1>7, <1>8, <1>9, <1>10

LEMMA PullStep ==
  ASSUME IInv, Pull
  PROVE  IInv'
<1>1. /\ pc = "pull" /\ Same /\ UNCHANGED <<runner, todo, package, paths, broken, facts>>
      /\ isolation' = Isolation /\ support' = "unknown"
  BY DEF Pull, ToValidate, Same
<1>2. SessionOK /\ StoreOK /\ rootfs = excused /\ Own \in {0, 1} /\ Own' = Own
  <2>1. Held = 0
    BY <1>1 DEF Held, Rooted
  <2>2. Own' = Own
    BY <1>1 DEF Own, Same
  <2> QED BY <2>1, <2>2, Parts, OwnIsNumber DEF IInv, Kept, StoreOK
<1>4. CASE /\ ToValidate("failed")
           /\ UNCHANGED store \/ (rootfs' = rootfs + Own /\ Abandoned)
  <2>1. pc' \notin Rooted
    BY <1>4 DEF ToValidate, Rooted
  <2>2. Held' = 0
    BY <2>1, Zenon DEF Held
  <2>3. StoreOK' /\ Kept'
    BY <1>2, <1>4, <2>2 DEF Kept, StoreOK, store, Abandoned
  <2>4. pc \in Validating
    BY <1>1 DEF Validating, Validated, Sandboxed
  <2> QED BY <1>1, <1>4, <2>3, <2>4, IsolationAssumption, Failing
<1>5. CASE rootfs' = rootfs + Own /\ UNCHANGED excused /\ ToValidate("start")
  <2>1. pc' = "start"
    BY <1>5 DEF ToValidate
  <2>2. pc \in Sandboxed /\ pc' \in Sandboxed
    BY <1>1, <2>1 DEF Sandboxed
  <2>3. /\ DistOK' /\ UsesOK' /\ PlaceOK' /\ PackageOK' /\ knows' \in BOOLEAN /\ denied' \subseteq Isolations
        /\ Input' /\ Ahead' /\ Built' /\ EveryFormatTried' /\ Labelled' /\ AtHand' /\ Settled'
        /\ Current' = Current
    BY <1>1, <2>2, Moving
  <2>4. SessionOK'
    BY <1>1, <1>2, <2>3, IsolationAssumption DEF SessionOK
  <2>6. Held' = Own
    BY <1>2, <2>1 DEF Held, Rooted
  <2>5. StoreOK' /\ Kept'
    BY <1>2, <1>5, <2>6 DEF StoreOK, Kept
  <2>7. Steady' /\ Progress'
    BY <1>1, <2>1 DEF Steady, Progress, InSession
  <2>8. OneMode'
    BY <1>1, <2>1 DEF IInv, OneMode, OfSession, Validated, Sandboxed, InSession
  <2> QED BY <2>3, <2>4, <2>5, <2>7, <2>8, Parts DEF IInv
<1> QED BY <1>4, <1>5 DEF Pull

LEMMA StartStep ==
  ASSUME IInv, Start
  PROVE  IInv'
<1>1. /\ pc = "start" /\ Same /\ UNCHANGED <<runner, todo, package, paths, broken, facts>>
      /\ support = "unknown"
  BY DEF Start, ToValidate, Same, IInv, Steady
<1>2. SessionOK /\ StoreOK /\ Kept /\ rootfs' = rootfs /\ pc \in Rooted
  BY <1>1, Parts DEF IInv, Start, Rooted
<1>3. pc \in Validating /\ pc \in Sandboxed
  BY <1>1 DEF Validating, Validated, Sandboxed
<1>4. ASSUME NEW i \in Isolations, isolation' = i, Permits(i), Exec, ToValidate("install"),
             UNCHANGED excused
      PROVE  IInv'
  <2>1. pc' = "install" /\ pc' \in Sandboxed
    BY <1>4 DEF ToValidate, Sandboxed, InSession
  <2>2. /\ DistOK' /\ UsesOK' /\ PlaceOK' /\ PackageOK' /\ knows' \in BOOLEAN /\ denied' \subseteq Isolations
        /\ Input' /\ Ahead' /\ Built' /\ EveryFormatTried' /\ Labelled' /\ AtHand' /\ Settled'
        /\ Current' = Current
    BY <1>1, <1>3, <2>1, Moving
  <2>3. IF knows THEN support' = "yes" /\ i \notin denied ELSE support' = "no"
    BY <1>1, <1>4 DEF Permits, Exec, Refused, Option
  <2>4. SessionOK'
    BY <1>1, <1>2, <1>4, <2>2, <2>3 DEF SessionOK
  <2>7. StoreOK' /\ Kept'
    BY <1>1, <1>2, <1>4, <2>1, KeptOn DEF Rooted, store, Same
  <2>8. Steady'
    <3>1. knows' = knows /\ denied' = denied
      BY <1>1 DEF runner
    <3> QED BY <1>4, <2>1, <2>3, <3>1 DEF Steady
  <2>9. Progress'
    BY <2>1 DEF Progress
  <2>10. \A f \in ToSet(todo) : OfSession(f) = {}
    BY <1>1 DEF IInv, OneMode, Validated, Sandboxed, InSession
  <2>11. Current \in ToSet(todo)
    <3>1. todo \in Seq(Formats) /\ todo # <<>>
      BY <1>3 DEF IInv, Ahead, Validated
    <3> QED BY <3>1, HeadAndTail DEF Current
  <2>12. OneMode'
    BY <1>1, <2>1, <2>2, <2>10, <2>11 DEF OneMode, OfSession
  <2> QED BY <2>2, <2>4, <2>7, <2>8, <2>9, <2>12, Parts DEF IInv
<1>5. CASE isolation' \in {isolation, "proot"} /\ ExecFails /\ Abandoned /\ ToValidate("failed")
  <2>3. Held = Own /\ Held' = 0
    BY <1>2, <1>5 DEF Held, ToValidate, Rooted
  <2>1. StoreOK' /\ Kept'
    BY <1>2, <1>5, <2>3, OwnIsNumber DEF StoreOK, Kept, Abandoned
  <2>2. isolation' \in Isolations /\ support' \in {"unknown", "yes", "no"}
    BY <1>1, <1>2, <1>5 DEF SessionOK, Isolations, ExecFails
  <2> QED BY <1>1, <1>3, <1>5, <2>1, <2>2, Failing
<1>6. isolation \in Isolations /\ "proot" \in Isolations
  BY <1>2 DEF SessionOK, Isolations
<1> QED BY <1>4, <1>5, <1>6 DEF Start

\* A command of the session keeps its mode, and gives its facts that mode.
Moded(x) == x.format = Current /\ x.what # "payload" /\ x.mode = IF support' = "no" THEN "none" ELSE isolation

LEMMA SessionStep ==
  ASSUME IInv, pc \in InSession \ {"remove"}, Command, pc' \in InSession \ {"install"},
         Exec \/ ExecFails \/ UNCHANGED support, broken' \in BOOLEAN, facts \subseteq facts',
         \A x \in facts' \ facts : Moded(x), Progress'
  PROVE  IInv'
<1>1. Same /\ UNCHANGED <<runner, todo, package, isolation, store>>
  BY DEF Command, Same
<1>2. SessionOK /\ StoreOK /\ Kept
  BY Parts DEF IInv
<1>3. pc \in Sandboxed /\ pc' \in Sandboxed
  BY DEF Sandboxed
<1>4. /\ DistOK' /\ UsesOK' /\ PlaceOK' /\ PackageOK' /\ knows' \in BOOLEAN /\ denied' \subseteq Isolations
      /\ Input' /\ Ahead' /\ Built' /\ EveryFormatTried' /\ Labelled' /\ AtHand' /\ Settled'
      /\ Current' = Current
      /\ \A f : f # Current => OfSession(f)' = OfSession(f)
  BY <1>1, <1>3, Moving DEF Moded
<1>5. IF knows THEN support = "yes" /\ isolation \notin denied ELSE support = "no"
  BY DEF IInv, Steady
<1>6. support' = support
  BY <1>5 DEF Exec, ExecFails, Refused, Option
<1>7. SessionOK'
  BY <1>1, <1>2, <1>4, <1>6 DEF SessionOK
<1>8. pc \in Rooted /\ pc' \in Rooted
  BY DEF Rooted, InSession
<1>11. StoreOK' /\ Kept'
  BY <1>1, <1>2, <1>8, KeptOn DEF Same
<1>12. Steady'
  <2>1. knows' = knows /\ denied' = denied
    BY <1>1 DEF runner
  <2> QED BY <1>1, <1>5, <1>6, <2>1 DEF Steady, InSession
<1>13. OneMode'
  <2>1. \A f \in ToSet(todo) : f # Current => OfSession(f) = {}
    BY <1>3 DEF IInv, OneMode, Validated
  <2>2. \A x \in OfSession(Current) : x.mode = Mode
    BY DEF IInv, OneMode
  <2>3. Mode' = Mode /\ todo' = todo
    BY <1>1, <1>6 DEF Mode
  <2>4. \A x \in facts' : x.format = Current /\ x.what # "payload" => x.mode = Mode
    BY <1>6, <2>2 DEF OfSession, Moded, Mode
  <2>5. \A x \in OfSession(Current)' : x.mode = Mode
    BY <1>4, <2>4 DEF OfSession
  <2> QED BY <1>4, <2>1, <2>3, <2>5 DEF OneMode, InSession
<1> QED BY <1>4, <1>7, <1>11, <1>12, <1>13, Parts DEF IInv

\* A command that fails, and an error before any.
LEMMA ErrorStep ==
  ASSUME IInv, pc \in InSession \ {"remove"}, Command, Leave(TRUE), ExecFails \/ UNCHANGED support,
         UNCHANGED facts
  PROVE  IInv'
<1>1. pc' = "remove" /\ broken' = TRUE
  BY DEF Leave
<1>2. Progress'
  BY <1>1 DEF Progress
<1>3. pc' \in InSession \ {"install"}
  BY <1>1 DEF InSession
<1> QED BY <1>1, <1>2, <1>3, SessionStep

\* What a command adds.
LEMMA Adding ==
  ASSUME NEW what, what # "payload", NEW x, facts' = facts \cup {Fact(what, x)},
         NEW c, c = Current
  PROVE  /\ \E y \in facts' : y.format = c /\ y.what = what /\ y.path = x
         /\ \A y \in facts' \ facts : Moded(y)
<1> DEFINE new == Fact(what, x)
<1>1. /\ new.format = Current /\ new.what = what /\ new.path = x
      /\ new.mode = IF support' = "no" THEN "none" ELSE isolation
  BY DEF Fact, Current
<1>2. new \in facts' /\ \A y \in facts' \ facts : y = new
  OBVIOUS
<1> HIDE DEF new
<1>3. \E y \in facts' : y.format = c /\ y.what = what /\ y.path = x
  BY <1>1, <1>2
<1>4. \A y \in facts' \ facts : Moded(y)
  BY <1>1, <1>2 DEF Moded
<1> QED BY <1>3, <1>4

LEMMA InstallStep ==
  ASSUME IInv, Install
  PROVE  IInv'
<1>1. pc \in InSession \ {"remove"} /\ Command
  BY DEF Install, InSession
<1>2. Current' = Current
  BY <1>1 DEF Command, Current
<1>3. CASE Exec /\ Inside("describe") /\ facts' = facts \cup {Fact("installed", Bin)} /\ UNCHANGED paths
  <2>1. /\ \E y \in facts' : y.format = Current /\ y.what = "installed" /\ y.path = Bin
        /\ \A y \in facts' \ facts : Moded(y)
    BY <1>3, Adding
  <2>2. pc' = "describe" /\ broken' = broken /\ broken \in BOOLEAN
    BY <1>3, Parts DEF Inside, IInv, SessionOK
  <2>3. Progress'
    BY <1>2, <2>1, <2>2 DEF Progress, Established
  <2>4. pc' \in InSession \ {"install"}
    BY <2>2 DEF InSession
  <2> QED BY <1>1, <1>3, <2>1, <2>2, <2>3, <2>4, SessionStep
<1>4. CASE Fails
  BY <1>1, <1>4, ErrorStep DEF Fails
<1> QED BY <1>3, <1>4 DEF Install

LEMMA DescribeStep ==
  ASSUME IInv, Describe
  PROVE  IInv'
<1>1. /\ pc = "describe" /\ pc \in InSession \ {"remove"} /\ Command /\ UNCHANGED <<support, facts>>
  BY DEF Describe, InSession
<1>2. CASE Inside("exist") /\ paths' = Expected(use)
  <2>1. pc' = "exist" /\ broken' = broken /\ broken \in BOOLEAN
    BY <1>2, Parts DEF Inside, IInv, SessionOK
  <2>2. use \in ValidateInputs /\ use' = use
    BY <1>1 DEF IInv, Input, Validated, Sandboxed, Command
  <2>3. paths' \in Seq(STRING)
    BY <1>2, <2>2, PathLists
  <2>4. Established(Current, "installed", Bin)'
    BY <1>1 DEF IInv, Progress, Established, Current, Command
  <2>5. Seen("exists", ToSet(Expected(use)) \ ToSet(paths))'
    BY <1>2, <2>2 DEF Seen
  <2>6. Progress'
    BY <2>1, <2>3, <2>4, <2>5 DEF Progress
  <2>7. pc' \in InSession \ {"install"}
    BY <2>1 DEF InSession
  <2> QED BY <1>1, <2>1, <2>6, <2>7, SessionStep
<1>3. CASE Leave(TRUE) /\ UNCHANGED paths
  BY <1>1, <1>3, ErrorStep
<1> QED BY <1>2, <1>3 DEF Describe

LEMMA ExistStep ==
  ASSUME IInv, Exist
  PROVE  IInv'
<1>1. pc = "exist" /\ pc \in InSession \ {"remove"} /\ Command
  BY DEF Exist, InSession
<1>2. /\ Current' = Current /\ use' = use /\ use \in ValidateInputs /\ paths \in Seq(STRING)
      /\ Established(Current, "installed", Bin)
      /\ \A x \in ToSet(Expected(use)) \ ToSet(paths) : Established(Current, "exists", x)
  BY <1>1 DEF Command, Current, IInv, Input, Progress, Seen, Validated, Sandboxed
<1>3. broken \in BOOLEAN
  BY Parts DEF IInv, SessionOK
<1>4. CASE /\ paths = <<>> /\ Inside("executable") /\ paths' = Executables(use)
           /\ UNCHANGED <<support, facts>>
  <2>1. pc' = "executable" /\ broken' = broken
    BY <1>4 DEF Inside
  <2>2. paths' \in Seq(STRING)
    BY <1>2, <1>4, PathLists
  <2>3. Established(Current, "installed", Bin)' /\ \A x \in ToSet(Expected(use)) : Established(Current, "exists", x)'
    BY <1>2, <1>4, NothingIn DEF Established
  <2>4. Seen("executable", ToSet(Executables(use)) \ ToSet(paths))'
    BY <1>2, <1>4 DEF Seen
  <2>5. Progress'
    BY <1>2, <2>1, <2>2, <2>3, <2>4 DEF Progress, Seen
  <2>6. pc' \in InSession \ {"install"}
    BY <2>1 DEF InSession
  <2> QED BY <1>1, <1>3, <1>4, <2>1, <2>5, <2>6, SessionStep
<1>5. CASE /\ paths # <<>> /\ Exec /\ Inside("exist") /\ paths' = Tail(paths)
           /\ facts' = facts \cup {Fact("exists", Head(paths))}
  <2>1. pc' = "exist" /\ broken' = broken
    BY <1>5 DEF Inside
  <2>2. paths' \in Seq(STRING) /\ ToSet(paths) = {Head(paths)} \cup ToSet(paths')
    BY <1>2, <1>5, HeadAndTail
  <2>3. /\ \E y \in facts' : y.format = Current /\ y.what = "exists" /\ y.path = Head(paths)
        /\ \A y \in facts' \ facts : Moded(y)
    BY <1>5, Adding
  <2>8. facts \subseteq facts'
    BY <1>5
  <2>4. Established(Current, "installed", Bin)'
    BY <1>2, <2>8 DEF Established
  <2>5. \A x \in ToSet(Expected(use)) \ ToSet(paths') : Established(Current, "exists", x)'
    BY <1>2, <2>2, <2>3, <2>8 DEF Established
  <2>6. Progress'
    BY <1>2, <2>1, <2>2, <2>4, <2>5 DEF Progress, Seen
  <2>7. pc' \in InSession \ {"install"}
    BY <2>1 DEF InSession
  <2> QED BY <1>1, <1>3, <1>5, <2>1, <2>3, <2>6, <2>7, SessionStep
<1>6. CASE FailsDiagnosed
  BY <1>1, <1>6, ErrorStep DEF FailsDiagnosed, Fails
<1> QED BY <1>4, <1>5, <1>6 DEF Exist

LEMMA ExecutableStep ==
  ASSUME IInv, Executable
  PROVE  IInv'
<1>1. pc = "executable" /\ pc \in InSession \ {"remove"} /\ Command
  BY DEF Executable, InSession
<1>2. /\ Current' = Current /\ use' = use /\ paths \in Seq(STRING)
      /\ Established(Current, "installed", Bin)
      /\ \A x \in ToSet(Expected(use)) : Established(Current, "exists", x)
      /\ \A x \in ToSet(Executables(use)) \ ToSet(paths) : Established(Current, "executable", x)
  BY <1>1 DEF Command, Current, IInv, Progress, Seen
<1>3. broken \in BOOLEAN
  BY Parts DEF IInv, SessionOK
<1>4. CASE paths = <<>> /\ Inside("verify") /\ UNCHANGED <<support, paths, facts>>
  <2>1. pc' = "verify" /\ broken' = broken
    BY <1>4 DEF Inside
  <2>2. /\ Established(Current, "installed", Bin)'
        /\ \A x \in ToSet(Expected(use)) : Established(Current, "exists", x)'
        /\ \A x \in ToSet(Executables(use)) : Established(Current, "executable", x)'
    BY <1>2, <1>4, NothingIn DEF Established
  <2>3. Progress'
    BY <1>2, <2>1, <2>2 DEF Progress, Seen
  <2>4. pc' \in InSession \ {"install"}
    BY <2>1 DEF InSession
  <2> QED BY <1>1, <1>3, <1>4, <2>1, <2>3, <2>4, SessionStep
<1>5. CASE /\ paths # <<>> /\ Exec /\ Inside("executable") /\ paths' = Tail(paths)
           /\ facts' = facts \cup {Fact("executable", Head(paths))}
  <2>1. pc' = "executable" /\ broken' = broken
    BY <1>5 DEF Inside
  <2>2. paths' \in Seq(STRING) /\ ToSet(paths) = {Head(paths)} \cup ToSet(paths')
    BY <1>2, <1>5, HeadAndTail
  <2>3. /\ \E y \in facts' : y.format = Current /\ y.what = "executable" /\ y.path = Head(paths)
        /\ \A y \in facts' \ facts : Moded(y)
    BY <1>5, Adding
  <2>8. facts \subseteq facts'
    BY <1>5
  <2>4. /\ Established(Current, "installed", Bin)'
        /\ \A x \in ToSet(Expected(use)) : Established(Current, "exists", x)'
    BY <1>2, <2>8 DEF Established
  <2>5. \A x \in ToSet(Executables(use)) \ ToSet(paths') : Established(Current, "executable", x)'
    BY <1>2, <2>2, <2>3, <2>8 DEF Established
  <2>6. Progress'
    BY <1>2, <2>1, <2>2, <2>4, <2>5 DEF Progress, Seen
  <2>7. pc' \in InSession \ {"install"}
    BY <2>1 DEF InSession
  <2> QED BY <1>1, <1>3, <1>5, <2>1, <2>3, <2>6, <2>7, SessionStep
<1>6. CASE FailsDiagnosed
  BY <1>1, <1>6, ErrorStep DEF FailsDiagnosed, Fails
<1> QED BY <1>4, <1>5, <1>6 DEF Executable

\* The last command of the session: all it was for has been established.
LEMMA VerifyStep ==
  ASSUME IInv, Verify
  PROVE  IInv'
<1>1. pc = "verify" /\ pc \in InSession \ {"remove"} /\ Command
  BY DEF Verify, InSession
<1>2. /\ Current' = Current /\ use' = use /\ use \in ValidateInputs /\ UNCHANGED <<dist, runner>>
      /\ Established(Current, "installed", Bin)
      /\ \A x \in ToSet(Expected(use)) : Established(Current, "exists", x)
      /\ \A x \in ToSet(Executables(use)) : Established(Current, "executable", x)
      /\ \A x \in ToSet(Expected(use)) : Established(Current, "payload", x)
  BY <1>1 DEF Command, Current, IInv, Input, Progress, Seen, AtHand, Validated, Sandboxed
<1>3. CASE /\ Exec /\ Leave(FALSE) /\ UNCHANGED paths
           /\ facts' = facts \cup IF use.verify THEN {Fact("verified", Bin)} ELSE {}
  <2>1. pc' = "remove" /\ broken' = FALSE /\ facts \subseteq facts'
    BY <1>3 DEF Leave
  <2>2. /\ use.verify => \E y \in facts' : y.format = Current /\ y.what = "verified" /\ y.path = Bin
        /\ \A y \in facts' \ facts : Moded(y)
    <3>1. CASE use.verify
      <4>1. facts' = facts \cup {Fact("verified", Bin)}
        BY <1>3, <3>1
      <4> QED BY <4>1, Adding
    <3>2. CASE ~use.verify
      BY <1>3, <3>2
    <3> QED BY <3>1, <3>2
  <2>3. IF knows THEN support = "yes" /\ isolation \notin denied ELSE support = "no"
    BY <1>1 DEF IInv, Steady, InSession
  <2>4. support' = support
    BY <1>3, <2>3 DEF Exec, Refused, Option
  <2>5. Mode \in Modes
    BY <2>3, Parts DEF IInv, SessionOK, Mode, Modes
  <2>6. \A x \in OfSession(Current) : x.mode = Mode
    BY <1>1 DEF IInv, OneMode, InSession
  <2>7. \A x \in facts' : x.format = Current /\ x.what # "payload" => x.mode = Mode
    BY <2>2, <2>4, <2>6 DEF Moded, OfSession, Mode
  <2>8. Modes' = Modes
    BY <1>2 DEF Modes, runner
  <2>9. Earned(Current)'
    <3>1. ToSet(use.executables) \subseteq ToSet(Expected(use))
      BY <1>2, PathLists
    <3> SUFFICES /\ \A x \in ToSet(Expected(use)) : Established(Current, "payload", x)'
                 /\ Established(Current, "installed", Bin)'
                 /\ \A x \in ToSet(Expected(use)) \cup ToSet(use.executables) :
                      Established(Current, "exists", x)'
                 /\ \A x \in ToSet(Executables(use)) : Established(Current, "executable", x)'
                 /\ use.verify => Established(Current, "verified", Bin)'
                 /\ \E m \in Modes : \A x \in facts' : x.format = Current /\ x.what # "payload" => x.mode = m
      BY <1>2, <2>8 DEF Earned
    <3>2. \A x \in ToSet(Expected(use)) : Established(Current, "payload", x)'
      BY <1>2, <2>1 DEF Established
    <3>3. Established(Current, "installed", Bin)'
      BY <1>2, <2>1 DEF Established
    <3>4. \A x \in ToSet(Expected(use)) \cup ToSet(use.executables) : Established(Current, "exists", x)'
      BY <1>2, <2>1, <3>1 DEF Established
    <3>5. \A x \in ToSet(Executables(use)) : Established(Current, "executable", x)'
      BY <1>2, <2>1 DEF Established
    <3>6. use.verify => Established(Current, "verified", Bin)'
      BY <1>2, <2>2 DEF Established
    <3> QED BY <2>5, <2>7, <3>2, <3>3, <3>4, <3>5, <3>6
  <2>10. Progress'
    BY <2>1, <2>9 DEF Progress
  <2>11. pc' \in InSession \ {"install"}
    BY <2>1 DEF InSession
  <2> QED BY <1>1, <1>3, <2>1, <2>2, <2>10, <2>11, SessionStep
<1>4. CASE use.verify /\ Fails
  BY <1>1, <1>4, ErrorStep DEF Fails
<1> QED BY <1>3, <1>4 DEF Verify

LEMMA RemoveRootfsStep ==
  ASSUME IInv, RemoveRootfs
  PROVE  IInv'
<1>1. /\ pc = "remove" /\ Same /\ UNCHANGED <<runner, package, paths, isolation, support, broken, facts>>
      /\ ArchOf(use) # Unsupported
  BY DEF RemoveRootfs, ToValidate, Same, IInv, Input, Validated, Sandboxed, InSession
<1>2. pc \in Sandboxed /\ pc \in Validated /\ pc \in Validating
  BY <1>1 DEF Validating, Validated, Sandboxed, InSession
<1>3. SessionOK /\ StoreOK /\ Kept /\ PackageOK
  BY Parts DEF IInv
<1>5. StoreOK' /\ Kept'
  <2>1. Held = Own /\ Held' = 0
    BY <1>1 DEF Held, Rooted, RemoveRootfs, ToValidate
  <2> QED BY <1>3, <2>1, OwnIsNumber DEF Kept, StoreOK, RemoveRootfs, Abandoned
<1>6. isolation' \in Isolations /\ support' \in {"unknown", "yes", "no"}
  BY <1>1, <1>3 DEF SessionOK
<1>7. CASE broken
  <2>1. ToValidate("failed")
    BY <1>7 DEF RemoveRootfs
  <2> QED BY <1>1, <1>2, <1>5, <1>6, <2>1, Failing
<1>8. CASE ~broken
  <2>1. pc' = "format" /\ todo' = Tail(todo) /\ use' = use
    BY <1>1, <1>8 DEF RemoveRootfs, ToValidate, Same
  <2>2. /\ todo \in Seq(Formats) /\ IsInjective(todo) /\ todo # <<>>
        /\ ToSet(todo) \subseteq ToSet(use.formats)
    BY <1>2 DEF IInv, Ahead
  <2>3. /\ Tail(todo) \in Seq(Formats) /\ IsInjective(Tail(todo))
        /\ ToSet(todo) = {Current} \cup ToSet(Tail(todo)) /\ Current \notin ToSet(Tail(todo))
    BY <2>2, HeadAndTail DEF Current
  <2>4. \A f : OfSession(f)' = OfSession(f)
    BY <1>1 DEF OfSession
  <2>5. Ahead'
    BY <2>1, <2>2, <2>3 DEF Ahead, Sandboxed, InSession
  <2>6. AtHand'
    BY <2>1 DEF AtHand, Sandboxed, InSession
  <2>7. \A f \in ToSet(Tail(todo)) : OfSession(f) = {}
    BY <1>2, <2>3 DEF IInv, OneMode
  <2>8. OneMode'
    BY <2>1, <2>4, <2>7 DEF OneMode, InSession
  <2>9. ASSUME NEW c, c = Current
        PROVE  Earned(c)' /\ Right(c)'
    <3>1. Earned(c)
      BY <1>1, <1>8, <2>9 DEF IInv, Progress
    <3>2. PICK p \in dist : Only(p)
      BY <1>2 DEF IInv, AtHand
    <3>3. package = {p}
      BY <3>2 DEF Only
    <3>4. MetadataHolds(p) /\ ArchitectureHolds(p)
      BY <1>2, <3>3 DEF IInv, AtHand
    <3>5. Right(c)
      BY <1>2, <2>9, <3>2, <3>4, OnlyIsRight
    <3>6. Earned(c)'
      BY <1>1, <2>4, <3>1, EarnedKept DEF Same
    <3>7. Right(c)'
      BY <1>1, <3>5, RightKept DEF Same
    <3> QED BY <3>6, <3>7
  <2>10. \A f \in ToSet(use.formats) \ ToSet(todo) : Earned(f)' /\ Right(f)'
    BY <1>1, <1>2, <2>4, SettledKept DEF Same
  <2>11. Settled'
    <3> SUFFICES ASSUME NEW f \in ToSet(use'.formats) \ ToSet(todo')
                 PROVE  Earned(f)' /\ Right(f)'
      BY DEF Settled
    <3>1. f = Current \/ f \in ToSet(use.formats) \ ToSet(todo)
      BY <2>1, <2>3
    <3> QED BY <2>9, <2>10, <3>1
  <2>12. knows' \in BOOLEAN /\ denied' \subseteq Isolations /\ package' \subseteq Packages
         /\ Cardinality(package') <= 1
    BY <1>1, <1>3 DEF SessionOK, PackageOK, runner
  <2> QED BY <1>1, <1>2, <1>5, <2>1, <2>5, <2>6, <2>8, <2>11, <2>12, Going
<1> QED BY <1>7, <1>8

-----------------------------------------------------------------------------
(* The theorems. *)

LEMMA StutterStep ==
  ASSUME IInv, UNCHANGED vars
  PROVE  IInv'
<1>1. /\ UNCHANGED <<dist, knows, denied, uses, use, pc, todo, failures, package, paths>>
      /\ UNCHANGED <<isolation, support, broken, rootfs, excused, facts>>
  BY DEF vars, runner, session, store
<1>2. TypeOK'
  <2>1. DistOK' /\ UsesOK' /\ PlaceOK' /\ PackageOK' /\ SessionOK' /\ StoreOK'
    BY <1>1, Parts DEF IInv, DistOK, UsesOK, PlaceOK, PackageOK, SessionOK, StoreOK
  <2> QED BY <2>1, Parts
<1>3. Input' /\ Ahead' /\ Built' /\ EveryFormatTried' /\ Labelled'
  BY <1>1 DEF IInv, Input, Ahead, Built, EveryFormatTried, Labelled
<1>4. AtHand' /\ Steady' /\ OneMode' /\ Kept'
  BY <1>1 DEF IInv, AtHand, Only, Located, Current, MetadataHolds, DebHolds, RpmHolds, Foreign,
     ArchitectureHolds, DebArchOf, Established, Steady, OneMode, OfSession, Mode, Kept, Held, Own
<1>5. Progress' /\ Settled'
  BY <1>1 DEF IInv, Progress, Settled, Seen, Current, Established, Earned, Modes, Located, Right, SameLabel
<1> QED BY <1>2, <1>3, <1>4, <1>5 DEF IInv

\* Whatever the targets, the formats and the inputs, a job keeps the invariant.
THEOREM Invariance == Spec => []IInv
<1>1. IInv /\ [Next]_vars => IInv'
  <2> SUFFICES ASSUME IInv, [Next]_vars PROVE IInv'
    OBVIOUS
  <2>1. CASE Use \/ Manifest \/ Pack \/ PackagesDone
    BY <2>1, UseStep, ManifestStep, PackStep, PackagesDoneStep
  <2>2. CASE RejectInputs \/ Config \/ OpenStore
    BY <2>2, RejectInputsStep, ConfigStep, OpenStoreStep
  <2>3. CASE ValidateFormat \/ Inspect \/ AllValidated
    BY <2>3, ValidateFormatStep, InspectStep, AllValidatedStep
  <2>4. CASE Pull \/ Start \/ RemoveRootfs
    BY <2>4, PullStep, StartStep, RemoveRootfsStep
  <2>5. CASE Install \/ Describe \/ Exist \/ Executable \/ Verify
    BY <2>5, InstallStep, DescribeStep, ExistStep, ExecutableStep, VerifyStep
  <2>6. CASE UNCHANGED vars
    BY <2>6, StutterStep
  <2> QED BY <2>1, <2>2, <2>3, <2>4, <2>5, <2>6 DEF Next
<1> QED BY <1>1, InitIInv, PTL DEF Spec

\* The types, and that no two packages of dist have one file name.
THEOREM Typing == Spec => []TypeOK
<1>1. IInv => TypeOK
  BY DEF IInv
<1> QED BY <1>1, Invariance, PTL

\* A format that fails does not keep the others from being packed by the use.
THEOREM Tried == Spec => []EveryFormatTried
<1>1. IInv => EveryFormatTried
  BY DEF IInv
<1> QED BY <1>1, Invariance, PTL

\* Where no session is open, the user's store holds nothing but root file systems
\* that polythene failed to name, to start or to remove.
THEOREM Removed == Spec => []NothingLeftBehind
<1>1. IInv => NothingLeftBehind
  BY Parts DEF IInv, Kept, Held, StoreOK, NothingLeftBehind
<1> QED BY <1>1, Invariance, PTL

\* At the end of a validation every format is behind.
LEMMA AtTheEnd ==
  ASSUME IInv, pc = "validated", NEW f \in ToSet(use.formats)
  PROVE  Earned(f) /\ Right(f)
<1>1. ToSet(todo) = {}
  BY NothingIn DEF IInv, Ahead
<1>2. pc \in Validated
  BY DEF Validated
<1> QED BY <1>1, <1>2 DEF IInv, Settled

\* A green validation has looked at a package that may be taken for the one asked for.
THEOREM Looked == Spec => []RightPackage
<1>1. IInv => RightPackage
  BY AtTheEnd DEF RightPackage
<1> QED BY <1>1, Invariance, PTL

\* It has established all it says, in sessions that the runner permits.
THEOREM Deserved == Spec => []SuccessIsEarned
<1>1. IInv => SuccessIsEarned
  BY AtTheEnd DEF SuccessIsEarned
<1> QED BY <1>1, Invariance, PTL
=============================================================================
