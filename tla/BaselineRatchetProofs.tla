----------------------- MODULE BaselineRatchetProofs -----------------------
(* What holds of the ratchet for every number of runs, re-runs and levels. *)
EXTENDS BaselineRatchet, TLAPS

-----------------------------------------------------------------------------
(* The inductive invariant. *)

Holding == {"ratchet", "save", "post"}

\* Of the runs of a branch at most one is running.
Alone == \A r, s \in Runs :
           Scope(r) = Scope(s) /\ pc[r] \in Active /\ pc[s] \in Active => r = s

\* A running job whose key is not taken holds files no lower than its branch's.
AboveBranch(r) ==
  pc[r] \in Holding /\ Exact(r) = {} =>
    \A i \in InScope(Scope(r)) : \A l \in Languages :
      store[i].base[l] <= files[r][l]

\* Its files let it pass.
Passing(r) ==
  pc[r] \in {"save", "post"} /\ Exact(r) = {} =>
    \A l \in Measured : Passes(files[r][l], covered[r][l])

IInv == /\ TypeOK /\ OnlyRises /\ SavedByPassing /\ Alone
        /\ \A r \in Runs : AboveBranch(r) /\ Passing(r)

-----------------------------------------------------------------------------
(* Types. *)

\* The ratchet starts well typed.
LEMMA TypeInit == Init => TypeOK
  BY NumbersAssumption DEF Init, TypeOK, Percents, Zero

\* An entry of the store is a pair of files and of measurements by some run.
LEMMA EntryTyped ==
  ASSUME TypeOK, NEW i \in DOMAIN store
  PROVE  /\ i \in Nat /\ store[i].run \in Runs
         /\ store[i].base \in Percents /\ store[i].cov \in Percents
<1>1. store[i] \in Entry /\ i \in Nat
  BY DEF TypeOK
<1> QED BY <1>1 DEF Entry

\* What is restored is an entry, of the branch where it has any, and then the newest.
LEMMA RestoredIsThere ==
  ASSUME NEW r \in Runs
  PROVE  /\ Restored(r) \subseteq DOMAIN store
         /\ InScope(Scope(r)) # {} => Restored(r) \subseteq InScope(Scope(r))
         /\ InScope(Scope(r)) # {} /\ Exact(r) = {} =>
              \A i \in Restored(r) : \A j \in InScope(Scope(r)) : j <= i
         /\ Exact(r) # {} => Restored(r) \subseteq Exact(r)
  BY DEF Restored, Newest, Exact, InScope

\* What is discarded is back where it began, and the others' stays.
LEMMA DiscardTyped ==
  ASSUME TypeOK, NEW R, Discard(R)
  PROVE  /\ files' \in [Runs -> Percents] /\ covered' \in [Runs -> Percents]
         /\ hit' \in [Runs -> BOOLEAN] /\ since' \in [Runs -> Nat]
         /\ \A s \in R \cap Runs : hit'[s] = FALSE /\ since'[s] = 0
         /\ \A s \in Runs \ R : /\ files'[s] = files[s] /\ covered'[s] = covered[s]
                               /\ hit'[s] = hit[s] /\ since'[s] = since[s]
<1>1. files' \in [Runs -> Percents] /\ covered' \in [Runs -> Percents]
  <2>1. Zero \in Percents
    BY NumbersAssumption DEF Zero, Percents
  <2> QED BY <2>1 DEF TypeOK, Discard
<1>2. hit' \in [Runs -> BOOLEAN]
  BY Zenon DEF TypeOK, Discard
<1>3. since' \in [Runs -> Nat]
  BY DEF TypeOK, Discard
<1>4. \A s \in R \cap Runs : hit'[s] = FALSE /\ since'[s] = 0
  BY DEF Discard
<1>5. ASSUME NEW s \in Runs \ R
      PROVE  /\ files'[s] = files[s] /\ covered'[s] = covered[s]
             /\ hit'[s] = hit[s] /\ since'[s] = since[s]
  BY <1>5 DEF TypeOK, Discard
<1> QED BY <1>1, <1>2, <1>3, <1>4, <1>5

\* Every step keeps the types.
LEMMA TypeStep == TypeOK /\ [Next]_vars => TypeOK'
<1> SUFFICES ASSUME TypeOK, [Next]_vars PROVE TypeOK'
  OBVIOUS
<1>1. ASSUME NEW r \in Runs, Start(r) PROVE TypeOK'
  <2>1. /\ files' \in [Runs -> Percents] /\ covered' \in [Runs -> Percents]
        /\ hit' \in [Runs -> BOOLEAN] /\ since' \in [Runs -> Nat]
    BY <1>1, DiscardTyped DEF Start
  <2>3. pc' \in [Runs -> {"idle"} \cup Active \cup Over]
    BY <1>1 DEF Start, TypeOK, Active, Over
  <2>4. attempt' \in [Runs -> Nat] /\ \A s \in Runs : attempt'[s] <= MaxAttempts[s]
    <3>1. attempt' = [attempt EXCEPT ![r] = @ + 1] /\ attempt[r] < MaxAttempts[r]
      BY <1>1 DEF Start
    <3>2. ASSUME NEW s \in Runs
          PROVE  attempt'[s] \in Nat /\ attempt'[s] <= MaxAttempts[s]
      <4>1. attempt[s] \in Nat /\ MaxAttempts[s] \in Nat /\ attempt[s] <= MaxAttempts[s]
        BY NumbersAssumption DEF TypeOK
      <4>2. CASE s = r
        BY <3>1, <4>1, <4>2 DEF TypeOK
      <4>3. CASE s # r
        BY <3>1, <4>1, <4>3 DEF TypeOK
      <4> QED BY <4>2, <4>3
    <3> QED BY <3>1, <3>2 DEF TypeOK
  <2> QED BY <1>1, <2>1, <2>3, <2>4 DEF Start, TypeOK
<1>2. ASSUME NEW r \in Runs, Restore(r) PROVE TypeOK'
  <2>1. files' \in [Runs -> Percents]
    <3>1. Zero \in Percents
      BY NumbersAssumption DEF Zero, Percents
    <3>2. ASSUME NEW i \in Restored(r) PROVE store[i].base \in Percents
      BY <3>2, EntryTyped, RestoredIsThere
    <3> QED BY <1>2, <3>1, <3>2 DEF Restore, TypeOK
  <2> QED BY <1>2, <2>1 DEF Restore, TypeOK, Goto, Active
<1>3. ASSUME NEW r \in Runs, Ratchet(r) PROVE TypeOK'
  <2>1. PICK c \in Percents :
          /\ covered' = [covered EXCEPT ![r] = c]
          /\ files' = [files EXCEPT ![r] =
                         [l \in Languages |-> IF l \in Measured
                                              THEN Advance(@[l], c[l]) ELSE @[l]]]
    BY <1>3 DEF Ratchet
  <2>2. [l \in Languages |-> IF l \in Measured
                             THEN Advance(files[r][l], c[l]) ELSE files[r][l]] \in Percents
    BY DEF TypeOK, Percents, Advance
  <2>3. files' \in [Runs -> Percents] /\ covered' \in [Runs -> Percents]
    BY <2>1, <2>2 DEF TypeOK
  <2> QED BY <1>3, <2>3 DEF Ratchet, TypeOK, Goto, Active
<1>4. ASSUME NEW r \in Runs, RatchetFails(r) \/ Fail(r) PROVE TypeOK'
  BY <1>4, DiscardTyped DEF RatchetFails, Fail, TypeOK, Goto, Over
<1>5. ASSUME NEW r \in Runs, Save(r) PROVE TypeOK'
  <2>1. files' \in [Runs -> Percents] /\ hit' \in [Runs -> BOOLEAN]
    BY <1>5, EntryTyped DEF Save, Exact, InScope, TypeOK
  <2> QED BY <1>5, <2>1 DEF Save, TypeOK, Goto, Active
<1>6. ASSUME NEW r \in Runs, Post(r) PROVE TypeOK'
  <2>1. /\ files' \in [Runs -> Percents] /\ covered' \in [Runs -> Percents]
        /\ hit' \in [Runs -> BOOLEAN] /\ since' \in [Runs -> Nat]
    BY <1>6, DiscardTyped DEF Post
  <2>2. store' \in Seq(Entry)
    <3>1. [run |-> r, base |-> files[r], cov |-> covered[r]] \in Entry
      BY DEF TypeOK, Entry
    <3>2. \A e \in Entry : Append(store, e) \in Seq(Entry)
      BY DEF TypeOK
    <3>3. CASE UNCHANGED store
      BY <3>3 DEF TypeOK
    <3>4. CASE store' = Append(store, [run |-> r, base |-> files[r], cov |-> covered[r]])
      BY <3>1, <3>2, <3>4
    <3> QED BY <1>6, <3>3, <3>4 DEF Post
  <2> QED BY <1>6, <2>1, <2>2 DEF Post, TypeOK, Goto, Over
<1>7. ASSUME UNCHANGED vars PROVE TypeOK'
  BY <1>7 DEF vars, TypeOK
<1> QED BY <1>1, <1>2, <1>3, <1>4, <1>5, <1>6, <1>7 DEF Next, Stopped

\* Keys, files and counters stay well formed; no file leaves the range of a
\* coverage.
THEOREM Typing == Spec => []TypeOK
  BY TypeInit, TypeStep, PTL DEF Spec

-----------------------------------------------------------------------------
(* The invariant is one. *)

\* The inductive invariant holds with an empty store.
LEMMA InvInit == Init => IInv
  BY TypeInit DEF Init, IInv, OnlyRises, SavedByPassing, Alone, AboveBranch,
     Passing, Holding, Active

\* Outside Post the store stays, and with it every set of entries.
LEMMA StoreStays ==
  ASSUME UNCHANGED store
  PROVE  /\ \A c : InScope(c)' = InScope(c)
         /\ \A r \in Runs : Exact(r)' = Exact(r)
         /\ OnlyRises' = OnlyRises /\ SavedByPassing' = SavedByPassing
  BY DEF InScope, Exact, OnlyRises, SavedByPassing

\* A run that stays where it is, with its files, keeps what it may assume.
LEMMA OthersKeep ==
  ASSUME UNCHANGED store, NEW s \in Runs, AboveBranch(s), Passing(s),
         \/ pc'[s] \notin Holding
         \/ pc'[s] = pc[s] /\ files'[s] = files[s] /\ covered'[s] = covered[s]
  PROVE  AboveBranch(s)' /\ Passing(s)'
  BY StoreStays DEF AboveBranch, Passing, Holding

\* Starting a run, and cancelling its group, keeps the inductive invariant.
LEMMA StartStep ==
  ASSUME IInv, NEW r \in Runs, Start(r)
  PROVE  IInv'
<1>1. TypeOK /\ TypeOK'
  BY TypeStep DEF IInv, Next
<1>2. Alone'
  BY <1>1 DEF IInv, TypeOK, Start, Alone, Running, Group, Active
<1>3. ASSUME NEW s \in Runs PROVE AboveBranch(s)' /\ Passing(s)'
  <2>1. \/ pc'[s] \notin Holding
        \/ pc'[s] = pc[s] /\ files'[s] = files[s] /\ covered'[s] = covered[s]
    BY <1>1, DiscardTyped DEF Start, TypeOK, Running, Holding
  <2> QED BY <2>1, OthersKeep DEF IInv, Start
<1> QED BY <1>1, <1>2, <1>3, StoreStays DEF IInv, Start

\* A step of one run that neither starts nor saves.
LEMMA OneRun ==
  ASSUME IInv, TypeOK', UNCHANGED store, NEW r \in Runs,
         pc[r] \in Active, \A s \in Runs \ {r} :
           pc'[s] = pc[s] /\ files'[s] = files[s] /\ covered'[s] = covered[s],
         AboveBranch(r)', Passing(r)'
  PROVE  IInv'
<1>1. Alone'
  BY DEF IInv, Alone
<1>2. ASSUME NEW s \in Runs \ {r} PROVE AboveBranch(s)' /\ Passing(s)'
  BY <1>2, OthersKeep DEF IInv
<1> QED BY <1>1, <1>2, StoreStays DEF IInv

\* The newest entry of a branch is its highest, so restoring it keeps the invariant.
LEMMA RestoreStep ==
  ASSUME IInv, NEW r \in Runs, Restore(r)
  PROVE  IInv'
<1>1. TypeOK /\ TypeOK' /\ OnlyRises
  BY TypeStep DEF IInv, Next
<1>2. AboveBranch(r)'
  <2> SUFFICES ASSUME Exact(r) = {}, NEW i \in InScope(Scope(r)), NEW l \in Languages
               PROVE  store[i].base[l] <= files'[r][l]
    BY StoreStays DEF Restore, AboveBranch
  <2>1. PICK n \in Restored(r) : files'[r] = store[n].base
    BY <1>1 DEF Restore, TypeOK
  <2>2. n \in InScope(Scope(r)) /\ i <= n
    BY RestoredIsThere
  <2>3. i \in DOMAIN store /\ n \in DOMAIN store
        /\ Scope(store[i].run) = Scope(store[n].run)
    BY <2>2 DEF InScope
  <2>4. CASE i = n
    BY <1>1, <2>1, <2>3, <2>4, EntryTyped DEF Percents
  <2>5. CASE i < n
    BY <1>1, <2>1, <2>3, <2>5 DEF OnlyRises
  <2> QED BY <1>1, <2>2, <2>3, <2>4, <2>5, EntryTyped
<1> QED BY <1>1, <1>2, OneRun DEF Restore, Goto, TypeOK, Passing, Active

\* Ratcheting lowers no file and lets the job pass.
LEMMA RatchetStep ==
  ASSUME IInv, NEW r \in Runs, Ratchet(r)
  PROVE  IInv'
<1>1. TypeOK /\ TypeOK'
  BY TypeStep DEF IInv, Next
<1>2. PICK c \in Percents :
        /\ \A l \in Measured : Passes(files[r][l], c[l])
        /\ covered' = [covered EXCEPT ![r] = c]
        /\ files' = [files EXCEPT ![r] =
                       [l \in Languages |-> IF l \in Measured
                                            THEN Advance(@[l], c[l]) ELSE @[l]]]
  BY DEF Ratchet
<1>3. covered'[r] = c /\ \A l \in Languages :
        files'[r][l] = IF l \in Measured THEN Advance(files[r][l], c[l]) ELSE files[r][l]
  BY <1>1, <1>2 DEF TypeOK
<1>4. ASSUME NEW l \in Languages
      PROVE  /\ files[r][l] <= files'[r][l]
             /\ l \in Measured => Passes(files'[r][l], c[l])
  <2>1. files[r][l] \in Nat /\ c[l] \in Nat
    BY <1>1 DEF TypeOK, Percents
  <2> QED BY <1>2, <1>3, <2>1, NumbersAssumption DEF Passes, Advance
<1>5. AboveBranch(r)'
  <2> SUFFICES ASSUME Exact(r) = {}, NEW i \in InScope(Scope(r)), NEW l \in Languages
               PROVE  store[i].base[l] <= files'[r][l]
    BY StoreStays DEF Ratchet, AboveBranch
  <2>1. store[i].base[l] <= files[r][l]
    BY DEF IInv, AboveBranch, Ratchet, Holding
  <2>2. i \in DOMAIN store
    BY DEF InScope
  <2>3. /\ store[i].base[l] \in Nat /\ files[r][l] \in Nat /\ files'[r][l] \in Nat
    <3>1. store[i].base \in Percents /\ files[r] \in Percents /\ files'[r] \in Percents
      BY <1>1, <2>2, EntryTyped DEF TypeOK
    <3> QED BY <3>1, NumbersAssumption DEF Percents
  <2> QED BY <1>4, <2>1, <2>3
<1>6. Passing(r)'
  BY <1>3, <1>4, MeasuredAssumption DEF Passing
<1> QED BY <1>1, <1>2, <1>5, <1>6, OneRun DEF Ratchet, Goto, TypeOK, Active

\* A key that is taken replaces the files of a job that will save nothing.
LEMMA SaveStep ==
  ASSUME IInv, NEW r \in Runs, Save(r)
  PROVE  IInv'
<1>1. TypeOK /\ TypeOK'
  BY TypeStep DEF IInv, Next
<1>2. AboveBranch(r)' /\ Passing(r)'
  BY StoreStays DEF Save, IInv, AboveBranch, Passing, Holding
<1> QED BY <1>1, <1>2, OneRun DEF Save, Goto, TypeOK, Active

\* A failed job has no say.
LEMMA FailStep ==
  ASSUME IInv, NEW r \in Runs, RatchetFails(r) \/ Fail(r)
  PROVE  IInv'
<1>1. TypeOK /\ TypeOK'
  BY TypeStep DEF IInv, Next
<1>2. /\ pc[r] \in Active /\ pc'[r] = "failed" /\ UNCHANGED store
      /\ \A s \in Runs \ {r} :
           pc'[s] = pc[s] /\ files'[s] = files[s] /\ covered'[s] = covered[s]
  BY <1>1, DiscardTyped DEF RatchetFails, Fail, Goto, TypeOK, Active
<1>3. AboveBranch(r)' /\ Passing(r)'
  BY <1>2 DEF AboveBranch, Passing, Holding
<1> QED BY <1>1, <1>2, <1>3, OneRun

\* What saving adds to the store.
LEMMA PostStep ==
  ASSUME IInv, NEW r \in Runs, Post(r)
  PROVE  IInv'
<1>1. TypeOK /\ TypeOK'
  BY TypeStep DEF IInv, Next
<1>2. /\ pc[r] = "post" /\ pc'[r] = "passed"
      /\ \A s \in Runs \ {r} :
           pc'[s] = pc[s] /\ files'[s] = files[s] /\ covered'[s] = covered[s]
  BY <1>1, DiscardTyped DEF Post, Goto, TypeOK
<1>3. CASE UNCHANGED store
  <2>1. AboveBranch(r)' /\ Passing(r)'
    BY <1>2 DEF AboveBranch, Passing, Holding
  <2> QED BY <1>1, <1>2, <1>3, <2>1, OneRun DEF Active
<1>4. CASE /\ Exact(r) = {}
           /\ store' = Append(store, [run |-> r, base |-> files[r],
                                      cov |-> covered[r]])
  <2> DEFINE n == Len(store) + 1
  <2>1. /\ DOMAIN store = 1 .. Len(store) /\ Len(store) \in Nat
        /\ DOMAIN store' = 1 .. n
        /\ \A i \in 1 .. Len(store) : store'[i] = store[i]
        /\ store'[n] = [run |-> r, base |-> files[r], cov |-> covered[r]]
    BY <1>1, <1>4 DEF TypeOK
  <2>2. \A i \in InScope(Scope(r)) : \A l \in Languages :
          store[i].base[l] <= files[r][l]
    BY <1>2, <1>4 DEF IInv, AboveBranch, Holding
  <2>3. OnlyRises'
    <3> SUFFICES ASSUME NEW i \in DOMAIN store', NEW k \in DOMAIN store',
                        i < k, Scope(store'[i].run) = Scope(store'[k].run),
                        NEW l \in Languages
                 PROVE  store'[i].base[l] <= store'[k].base[l]
      BY DEF OnlyRises, Scope
    <3>1. CASE k \in DOMAIN store
      BY <2>1, <3>1 DEF IInv, OnlyRises
    <3>2. CASE k = n
      <4>1. i \in InScope(Scope(r))
        BY <2>1, <3>2 DEF InScope
      <4> QED BY <2>1, <2>2, <3>2, <4>1
    <3> QED BY <2>1, <3>1, <3>2
  <2>4. SavedByPassing'
    <3>1. \A l \in Measured : Passes(files[r][l], covered[r][l])
      BY <1>2, <1>4 DEF IInv, Passing
    <3> QED BY <2>1, <3>1 DEF IInv, SavedByPassing, Passes
  <2>5. Alone'
    BY <1>2 DEF IInv, Alone, Active
  <2>6. ASSUME NEW s \in Runs PROVE AboveBranch(s)' /\ Passing(s)'
    <3>1. CASE s = r
      BY <1>2, <3>1 DEF AboveBranch, Passing, Holding
    <3>2. CASE s # r /\ Scope(s) = Scope(r)
      <4>1. pc[s] \notin Active
        BY <1>2, <3>2 DEF IInv, Alone, Active
      <4> QED BY <1>2, <3>2, <4>1 DEF AboveBranch, Passing, Holding, Active
    <3>3. CASE s # r /\ Scope(s) # Scope(r)
      <4>1. InScope(Scope(s))' = InScope(Scope(s)) /\ Exact(s)' = Exact(s)
        BY <2>1, <3>3 DEF InScope, Exact, Scope, Key
      <4>2. \A i \in InScope(Scope(s)) : store'[i] = store[i]
        BY <2>1 DEF InScope
      <4> QED
        BY <1>2, <3>3, <4>1, <4>2 DEF IInv, AboveBranch, Passing, Passes
    <3> QED BY <3>1, <3>2, <3>3
  <2> QED BY <1>1, <2>3, <2>4, <2>5, <2>6 DEF IInv
<1> QED BY <1>3, <1>4 DEF Post

\* Every step keeps the inductive invariant.
LEMMA InvStep == IInv /\ [Next]_vars => IInv'
<1>1. ASSUME IInv, UNCHANGED vars PROVE IInv'
  BY <1>1 DEF vars, IInv, TypeOK, OnlyRises, SavedByPassing, Alone, AboveBranch,
     Passing, InScope, Exact
<1> QED
  BY <1>1, StartStep, RestoreStep, RatchetStep, SaveStep, FailStep, PostStep
  DEF Next, Stopped

\* The ratchet's invariant holds in every behaviour.
THEOREM Invariance == Spec => []IInv
  BY InvInit, InvStep, PTL DEF Spec

\* Cancelled, failed and repeated runs notwithstanding, the baseline of a
\* branch never goes down.
THEOREM Rising == Spec => []OnlyRises
<1>1. IInv => OnlyRises
  BY DEF IInv
<1> QED BY <1>1, Invariance, PTL

\* What is stored was stored by a job that passed in every language.
THEOREM Earned == Spec => []SavedByPassing
<1>1. IInv => SavedByPassing
  BY DEF IInv
<1> QED BY <1>1, Invariance, PTL

-----------------------------------------------------------------------------
(* What a run remembers of the store, and the attempts it makes.           *)

\* Before entry i there is one of r's own, which an earlier attempt has saved.
Own(r, i) == \E n \in 1 .. i - 1 : store[n].run = r

\* From the restore on a run's files, and then what it measured, answer for
\* every entry its branch had then.
Remembers(r) ==
  /\ since[r] <= Len(store)
  /\ pc[r] = "ratchet" =>
       \A i \in 1 .. since[r] :
         \/ Scope(store[i].run) # Scope(r) \/ Own(r, i)
         \/ \A l \in Languages : store[i].base[l] <= files[r][l]
  /\ pc[r] \in {"save", "post"} =>
       \A i \in 1 .. since[r] :
         \/ Scope(store[i].run) # Scope(r) \/ Own(r, i)
         \/ \A l \in Measured : Passes(store[i].base[l], covered[r][l])

\* No improvement beyond the band is left out of the files or of the entry.
Near(r, base) == \A l \in Measured : covered[r][l] <= base[l] + Band

\* A run saves at the end of its first attempt, and not before.
FirstAttempt(r) ==
  /\ attempt[r] = 0 => pc[r] = "idle"
  /\ \/ attempt[r] = 0
     \/ attempt[r] = 1 /\ pc[r] \in Active
     => Exact(r) = {} /\ ~hit[r]
  /\ attempt[r] = 1 /\ pc[r] \in {"save", "post"} => Near(r, files[r])
  /\ attempt[r] = 1 /\ pc[r] = "passed" =>
       \E i \in DOMAIN store :
         store[i].run = r /\ \A l \in Measured : store[i].cov[l] <= store[i].base[l] + Band

History == \A r \in Runs : Remembers(r) /\ FirstAttempt(r)

\* No run has started and there is nothing to remember.
LEMMA HistoryInit == Init => History
  BY DEF Init, History, Remembers, FirstAttempt, Exact, InScope, Active

\* Entries stay where they are when the store grows.
Grows == /\ Len(store) <= Len(store')
         /\ \A i \in DOMAIN store : i \in DOMAIN store' /\ store'[i] = store[i]

\* Every step leaves the store or appends to it.
LEMMA StoreGrows ==
  ASSUME TypeOK, [Next]_vars
  PROVE  Grows /\ Len(store) \in Nat /\ DOMAIN store = 1 .. Len(store)
<1>1. Len(store) \in Nat /\ DOMAIN store = 1 .. Len(store)
  BY DEF TypeOK
<1>2. CASE UNCHANGED store
  BY <1>1, <1>2 DEF Grows
<1>3. CASE \E r \in Runs : store' = Append(store, [run |-> r, base |-> files[r],
                                                   cov |-> covered[r]])
  BY <1>1, <1>3 DEF Grows, TypeOK
<1> QED
  BY <1>1, <1>2, <1>3 DEF Next, Stopped, vars, Start, Restore, Ratchet, RatchetFails,
     Save, Post, Fail

\* A step of one run that does not start it and is not its last.
LEMMA OneRunHistory ==
  ASSUME IInv, History, NEW r \in Runs, UNCHANGED <<store, attempt>>,
         \A s \in Runs \ {r} :
           /\ pc'[s] = pc[s] /\ files'[s] = files[s] /\ covered'[s] = covered[s]
           /\ hit'[s] = hit[s] /\ since'[s] = since[s],
         Remembers(r)', FirstAttempt(r)'
  PROVE  History'
<1>1. ASSUME NEW s \in Runs \ {r} PROVE Remembers(s)' /\ FirstAttempt(s)'
  BY <1>1, StoreStays DEF History, Remembers, FirstAttempt, Own, Near, Passes
<1> QED BY <1>1 DEF History

\* A run that is started has nothing to remember, and at its first attempt no entry.
LEMMA StartHistory ==
  ASSUME IInv, History, NEW r \in Runs, Start(r)
  PROVE  History'
<1>1. TypeOK /\ Grows
  BY StoreGrows DEF IInv, Next
<1>2. UNCHANGED store
  BY DEF Start
<1>3. ASSUME NEW s \in Runs \ {r} PROVE Remembers(s)' /\ FirstAttempt(s)'
  <2>1. attempt'[s] = attempt[s]
    BY <1>1, <1>3 DEF Start, TypeOK
  <2>2. CASE s \in Running(Group(r))
    <3>1. /\ pc'[s] = "cancelled" /\ pc[s] \in Active /\ hit'[s] = FALSE /\ since'[s] = 0
      BY <1>1, <1>3, <2>2, DiscardTyped DEF Start, Running, TypeOK
    <3> QED BY <1>2, <2>1, <3>1, StoreStays DEF History, Remembers, FirstAttempt, Active
  <2>3. CASE s \notin Running(Group(r))
    <3>1. /\ pc'[s] = pc[s] /\ files'[s] = files[s] /\ covered'[s] = covered[s]
          /\ hit'[s] = hit[s] /\ since'[s] = since[s]
      BY <1>1, <1>3, <2>3, DiscardTyped DEF Start, TypeOK
    <3>2. Remembers(s)'
      BY <1>2, <3>1, StoreStays DEF History, Remembers, Own, Passes
    <3>3. FirstAttempt(s)'
      BY <1>2, <2>1, <3>1, StoreStays DEF History, FirstAttempt, Near, Active
    <3> QED BY <3>2, <3>3
  <2> QED BY <2>2, <2>3
<1>4. /\ pc'[r] = "restore" /\ attempt'[r] = attempt[r] + 1 /\ attempt[r] \in Nat
      /\ hit'[r] = hit[r] /\ since'[r] = since[r]
  <2>1. r \notin Running(Group(r))
    BY DEF Start, Running, Active, Over
  <2>2. hit'[r] = hit[r] /\ since'[r] = since[r]
    BY <1>1, <2>1, DiscardTyped DEF Start
  <2> QED BY <1>1, <2>2 DEF Start, TypeOK
<1>5. Remembers(r)'
  BY <1>2, <1>4 DEF History, Remembers
<1>6. FirstAttempt(r)'
  BY <1>2, <1>4, StoreStays DEF History, FirstAttempt
<1> QED BY <1>3, <1>5, <1>6 DEF History

\* What is restored is as high as every entry of the branch, but for those that
\* are newer than an entry of the run itself.
LEMMA RestoreHistory ==
  ASSUME IInv, History, NEW r \in Runs, Restore(r)
  PROVE  History'
<1>1. TypeOK /\ TypeOK' /\ OnlyRises
  BY TypeStep DEF IInv, Next
<1>2. /\ pc[r] = "restore" /\ pc'[r] = "ratchet" /\ UNCHANGED <<store, attempt, covered, hit>>
      /\ since'[r] = Len(store)
      /\ \A s \in Runs \ {r} : /\ pc'[s] = pc[s] /\ files'[s] = files[s]
                               /\ since'[s] = since[s]
  BY <1>1 DEF Restore, Goto, TypeOK
<1>3. ASSUME NEW i \in 1 .. Len(store), Scope(store[i].run) = Scope(r), ~Own(r, i),
             NEW l \in Languages
      PROVE  store[i].base[l] <= files'[r][l]
  <2>1. i \in InScope(Scope(r)) /\ i \in DOMAIN store
    BY <1>1, <1>3 DEF InScope, TypeOK
  <2>2. PICK n \in Restored(r) : files'[r] = store[n].base
    BY <1>1, <2>1 DEF Restore, TypeOK
  <2>3. n \in DOMAIN store /\ Scope(store[n].run) = Scope(r) /\ n \in Nat
    BY <2>1, <2>2, RestoredIsThere, EntryTyped, <1>1 DEF InScope
  <2>4. i <= n
    <3>1. CASE Exact(r) = {}
      BY <2>1, <2>2, <3>1, RestoredIsThere
    <3>2. CASE Exact(r) # {}
      <4>1. n \in Exact(r)
        BY <2>2, <3>2, RestoredIsThere
      <4>2. store[n].run = r
        BY <4>1 DEF Exact, Key
      <4> QED BY <1>1, <1>3, <2>3, <4>2 DEF Own, TypeOK
    <3> QED BY <3>1, <3>2
  <2>5. CASE i = n
    BY <1>1, <2>1, <2>2, <2>5, EntryTyped DEF Percents
  <2>6. CASE i < n
    BY <1>1, <1>3, <2>1, <2>2, <2>3, <2>6 DEF OnlyRises
  <2> QED BY <2>1, <2>3, <2>4, <2>5, <2>6, <1>1, EntryTyped
<1>4. Remembers(r)'
  BY <1>1, <1>2, <1>3 DEF Remembers, Own, TypeOK
<1>5. FirstAttempt(r)'
  BY <1>2, StoreStays DEF History, FirstAttempt, Active
<1> QED BY <1>2, <1>4, <1>5, OneRunHistory

\* What passes against the files passes against the entries, and advancing leaves
\* no more than the band between the two.
LEMMA RatchetHistory ==
  ASSUME IInv, History, NEW r \in Runs, Ratchet(r)
  PROVE  History'
<1>1. TypeOK /\ TypeOK'
  BY TypeStep DEF IInv, Next
<1>2. PICK c \in Percents :
        /\ \A l \in Measured : Passes(files[r][l], c[l])
        /\ covered' = [covered EXCEPT ![r] = c]
        /\ files' = [files EXCEPT ![r] =
                       [l \in Languages |-> IF l \in Measured
                                            THEN Advance(@[l], c[l]) ELSE @[l]]]
  BY DEF Ratchet
<1>3. covered'[r] = c /\ \A l \in Languages :
        files'[r][l] = IF l \in Measured THEN Advance(files[r][l], c[l]) ELSE files[r][l]
  BY <1>1, <1>2 DEF TypeOK
<1>4. /\ pc[r] = "ratchet" /\ pc'[r] = "save" /\ UNCHANGED <<store, attempt, hit, since>>
      /\ \A s \in Runs \ {r} : /\ pc'[s] = pc[s] /\ files'[s] = files[s]
                               /\ covered'[s] = covered[s]
  BY <1>1, <1>2 DEF Ratchet, Goto, TypeOK
<1>5. ASSUME NEW i \in 1 .. since[r], Scope(store[i].run) = Scope(r), ~Own(r, i),
             NEW l \in Measured
      PROVE  Passes(store[i].base[l], covered'[r][l])
  <2>1. i \in DOMAIN store /\ l \in Languages
    BY <1>1, <1>4, <1>5, MeasuredAssumption DEF TypeOK, History, Remembers
  <2>2. store[i].base[l] <= files[r][l]
    BY <1>4, <1>5, <2>1 DEF History, Remembers
  <2>3. store[i].base \in Percents /\ files[r] \in Percents
    BY <1>1, <2>1, EntryTyped DEF TypeOK
  <2>4. store[i].base[l] \in Nat /\ files[r][l] \in Nat /\ c[l] \in Nat
    BY <2>1, <2>3, NumbersAssumption DEF Percents
  <2> QED BY <1>2, <1>3, <2>2, <2>4, NumbersAssumption DEF Passes
<1>6. Remembers(r)'
  BY <1>4, <1>5 DEF History, Remembers, Own
<1>7. Near(r, files[r])'
  <2> SUFFICES ASSUME NEW l \in Measured PROVE covered'[r][l] <= files'[r][l] + Band
    BY DEF Near
  <2>1. l \in Languages
    BY MeasuredAssumption
  <2>2. files[r][l] \in Nat /\ c[l] \in Nat
    BY <1>1, <2>1 DEF TypeOK, Percents
  <2> QED BY <1>3, <2>1, <2>2, NumbersAssumption DEF Advance
<1>8. FirstAttempt(r)'
  BY <1>4, <1>7, StoreStays DEF History, FirstAttempt, Active
<1> QED BY <1>4, <1>6, <1>8, OneRunHistory

\* At a first attempt the key is not found, and nothing replaces the files.
LEMMA SaveHistory ==
  ASSUME IInv, History, NEW r \in Runs, Save(r)
  PROVE  History'
<1>1. TypeOK
  BY DEF IInv
<1>2. /\ pc[r] = "save" /\ pc'[r] = "post" /\ UNCHANGED <<store, attempt, covered, since>>
      /\ \A s \in Runs \ {r} : /\ pc'[s] = pc[s] /\ files'[s] = files[s] /\ hit'[s] = hit[s]
      /\ Exact(r) = {} => UNCHANGED <<files, hit>>
  BY <1>1 DEF Save, Goto, TypeOK
<1>3. Remembers(r)'
  BY <1>2 DEF History, Remembers, Own, Passes
<1>4. FirstAttempt(r)'
  BY <1>2, StoreStays DEF History, FirstAttempt, Active, Near
<1> QED BY <1>2, <1>3, <1>4, OneRunHistory

\* A failed job remembers nothing.
LEMMA FailHistory ==
  ASSUME IInv, History, NEW r \in Runs, RatchetFails(r) \/ Fail(r)
  PROVE  History'
<1>1. TypeOK
  BY DEF IInv
<1>2. /\ pc[r] \in Active /\ pc'[r] = "failed"
      /\ UNCHANGED <<store, attempt>> /\ hit'[r] = FALSE /\ since'[r] = 0
      /\ \A s \in Runs \ {r} : /\ pc'[s] = pc[s] /\ files'[s] = files[s]
                               /\ covered'[s] = covered[s] /\ hit'[s] = hit[s]
                               /\ since'[s] = since[s]
  BY <1>1, DiscardTyped DEF RatchetFails, Fail, Goto, TypeOK, Active
<1>3. Remembers(r)'
  BY <1>1, <1>2 DEF TypeOK, Remembers
<1>4. FirstAttempt(r)'
  BY <1>2, StoreStays DEF History, FirstAttempt, Active
<1> QED BY <1>2, <1>3, <1>4, OneRunHistory

\* The first attempt leaves an entry of what the files were.
LEMMA PostHistory ==
  ASSUME IInv, History, NEW r \in Runs, Post(r)
  PROVE  History'
<1>1. TypeOK /\ Grows /\ Len(store) \in Nat /\ DOMAIN store = 1 .. Len(store)
  BY StoreGrows DEF IInv, Next
<1>2. /\ pc[r] = "post" /\ pc'[r] = "passed" /\ UNCHANGED attempt
      /\ hit'[r] = FALSE /\ since'[r] = 0
      /\ \A s \in Runs \ {r} : /\ pc'[s] = pc[s] /\ files'[s] = files[s]
                               /\ covered'[s] = covered[s] /\ hit'[s] = hit[s]
                               /\ since'[s] = since[s]
  BY <1>1, DiscardTyped DEF Post, Goto, TypeOK
<1>3. ASSUME NEW s \in Runs, NEW i \in 1 .. since[s]
      PROVE  i \in DOMAIN store /\ store'[i] = store[i] /\ (Own(s, i) => Own(s, i)')
  <2>1. since[s] <= Len(store) /\ since[s] \in Nat
    BY <1>1 DEF History, Remembers, TypeOK
  <2>2. i \in DOMAIN store /\ \A n \in 1 .. i - 1 : n \in DOMAIN store
    BY <1>1, <1>3, <2>1
  <2> QED BY <1>1, <2>2 DEF Own, Grows
<1>4. ASSUME NEW s \in Runs PROVE Remembers(s)'
  <2>1. since[s] <= Len(store) /\ since[s] \in Nat /\ Len(store') \in Nat
    BY <1>1, TypeStep DEF History, Remembers, TypeOK, IInv, Next
  <2>2. since'[s] <= Len(store')
    BY <1>1, <1>2, <2>1 DEF Grows
  <2>3. CASE s = r
    BY <1>2, <1>3, <2>2, <2>3 DEF History, Remembers, Passes
  <2>4. CASE s # r
    BY <1>2, <1>3, <2>2, <2>4 DEF History, Remembers, Passes
  <2> QED BY <2>3, <2>4
<1>5. ASSUME NEW s \in Runs \ {r} PROVE FirstAttempt(s)'
  <2>1. Exact(s) = {} => Exact(s)' = {}
    <3>1. ASSUME NEW i \in DOMAIN store', store'[i].run = s
          PROVE  i \in DOMAIN store /\ store'[i] = store[i]
      BY <1>1, <1>5, <3>1 DEF Post, TypeOK
    <3> QED BY <3>1 DEF Exact, InScope, Key
  <2> QED BY <1>1, <1>2, <1>5, <2>1 DEF History, FirstAttempt, Near, Grows
<1>6. FirstAttempt(r)'
  <2>1. CASE attempt[r] = 1
    <3>1. Exact(r) = {} /\ ~hit[r] /\ Near(r, files[r])
      BY <1>2, <2>1 DEF History, FirstAttempt, Active
    <3>2. store' = Append(store, [run |-> r, base |-> files[r], cov |-> covered[r]])
      BY <3>1 DEF Post
    <3>3. Len(store) + 1 \in DOMAIN store'
          /\ store'[Len(store) + 1] = [run |-> r, base |-> files[r], cov |-> covered[r]]
      BY <1>1, <3>2 DEF TypeOK
    <3> QED BY <1>2, <2>1, <3>1, <3>3 DEF FirstAttempt, Near, Active
  <2>2. CASE attempt[r] # 1
    BY <1>2, <2>2 DEF History, FirstAttempt, Active
  <2> QED BY <2>1, <2>2
<1> QED BY <1>4, <1>5, <1>6 DEF History

\* Every step keeps what is remembered true.
LEMMA HistoryStep == IInv /\ History /\ [Next]_vars => History'
<1>1. ASSUME History, UNCHANGED vars PROVE History'
  BY <1>1 DEF vars, History, Remembers, FirstAttempt, Own, Near, Exact, InScope
<1> QED
  BY <1>1, StartHistory, RestoreHistory, RatchetHistory, SaveHistory, FailHistory,
     PostHistory DEF Next, Stopped

\* The history holds in every behaviour.
THEOREM Remembering == Spec => []History
  BY HistoryInit, HistoryStep, Invariance, PTL DEF Spec

\* Dips inside the band do not add up to a slow drift below what the branch had.
THEOREM Driftless == Spec => []NoSlowDrift
<1>1. History => NoSlowDrift
  BY DEF History, Remembers, NoSlowDrift, Own
<1> QED BY <1>1, Remembering, PTL

\* A run that passes at its first attempt leaves an entry within the band of
\* what it measured.
THEOREM Keeping == Spec => []ImprovementKept
<1>1. History => ImprovementKept
  BY DEF History, FirstAttempt, ImprovementKept, Near
<1> QED BY <1>1, Remembering, PTL
=============================================================================
