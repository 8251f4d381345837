------------------------- MODULE SecretsRotationProofs -------------------------
(***************************************************************************)
(* Proofs about SecretsRotation, for any sets of items, keys, values and   *)
(* processes: the types, the exclusion of the locked section, and that a   *)
(* swap starts from a complete staged store over no older backup.          *)
(***************************************************************************)
EXTENDS SecretsRotation, TLAPS

Locked == Pcs \ {"idle", "set", "rotate"}

DiskOK ==
    /\ {store, stage, bak} \subseteq Dir \cup {NoDir}
    /\ {key, keyNew, keyOld} \subseteq Keys \cup {NoKey}

Clean == bak = NoDir /\ keyOld = NoKey

\* The staged store holds what the live one does.
Faithful ==
    /\ store \in Dir /\ stage \in Dir
    /\ Has(stage) = Has(store)
    /\ \A i \in Has(store) : stage[i].val = store[i].val

\* What the step a process is at relies on.
PhaseOK(p) ==
    /\ At(p, "set") => proc[p].item \in Items /\ proc[p].val \in Vals
    /\ At(p, "read") => Clean \/ Staged = {}
    /\ At(p, "stage") => Clean /\ store \in Dir /\ proc[p].new \in Keys
    /\ proc[p].pc \in {"stagekey", "aside"} => Clean /\ Faithful

\* The inductive invariant.
RotationInv == TypeOK /\ \A p \in Procs : PhaseOK(p)

-----------------------------------------------------------------------------
(* Operators. *)
LEMMA DirFacts == NoDir \notin Dir /\ Empty \in Dir /\ Has(Empty) = {} /\ NoFile \notin File
BY ValueAssumption DEF Dir, File, Empty, Has

LEMMA IdleType ==
  ASSUME NEW k \in Keys \cup {NoKey}
  PROVE  Idle(k) \in Proc /\ Idle(k).pc = "idle"
BY DEF Idle, Proc, Pcs

LEMMA DoneType ==
  ASSUME NEW p, NEW k \in Keys \cup {NoKey}
  PROVE  Done(p, k) \in Proc /\ Done(p, k).pc = "idle"
BY IdleType DEF Done

LEMMA PassphraseType ==
  ASSUME TypeOK, NEW p \in Procs, NEW k \in Passphrase(p)
  PROVE  k \in Keys /\ Provisioned(p, k) \in Keys \cup {NoKey}
BY DEF TypeOK, Passphrase, Provisioned, FreshKeys, Proc

LEMMA TornType ==
  ASSUME NEW d \in Dir \cup {NoDir}, NEW t \in Torn(d)
  PROVE  t \in Dir \cup {NoDir}
<1>1. CASE d = NoDir
  BY <1>1 DEF Torn
<1>2. CASE d # NoDir
  <2>1. PICK kept \in SUBSET Items : t = [i \in Items |-> IF i \in kept THEN d[i] ELSE NoFile]
    BY <1>2 DEF Torn
  <2> QED BY <1>2, <2>1 DEF Dir
<1> QED BY <1>1, <1>2

\* The replacement store has the same items with the same values.
LEMMA RekeyedOK ==
  ASSUME TypeOK, NEW p \in Procs, store \in Dir, proc[p].new \in Keys
  PROVE  /\ Rekeyed(p) \in Dir
         /\ Has(Rekeyed(p)) = Has(store)
         /\ \A i \in Has(store) : Rekeyed(p)[i].val = store[i].val
<1>1. store # NoDir
  BY DirFacts
<1>2. \A i \in Has(store) : store[i] \in File
  BY <1>1 DEF Has, Dir
<1>3. Staged \subseteq Has(store)
  BY DEF Staged
<1>4. \A i \in Staged : [store[i] EXCEPT !.key = proc[p].new] \in File
                        /\ [store[i] EXCEPT !.key = proc[p].new].val = store[i].val
  BY <1>2, <1>3 DEF File
<1>5. \A i \in Items : Rekeyed(p)[i] = IF i \in Staged THEN [store[i] EXCEPT !.key = proc[p].new]
                                       ELSE store[i]
  BY DEF Rekeyed
<1>6. Rekeyed(p) \in Dir
  BY <1>4 DEF Rekeyed, Dir
<1>7. Has(Rekeyed(p)) = Has(store)
  <2>1. Has(Rekeyed(p)) = {i \in Items : Rekeyed(p)[i] # NoFile}
    BY <1>6, DirFacts DEF Has
  <2>2. Has(store) = {i \in Items : store[i] # NoFile}
    BY <1>1 DEF Has
  <2>3. \A i \in Staged : store[i] # NoFile /\ Rekeyed(p)[i] # NoFile
    BY <1>3, <1>4, <1>5, <2>2, DirFacts
  <2>4. \A i \in Items : Rekeyed(p)[i] # NoFile <=> store[i] # NoFile
    BY <1>5, <2>3
  <2> QED BY <2>1, <2>2, <2>4
<1>8. ASSUME NEW i \in Has(store) PROVE Rekeyed(p)[i].val = store[i].val
  BY <1>1, <1>4, <1>5 DEF Has
<1> QED BY <1>6, <1>7, <1>8

-----------------------------------------------------------------------------
(* Steps in the locked section. *)
LEMMA LockedIsHeld ==
  ASSUME TypeOK, NEW p \in Procs
  PROVE  lock = p <=> proc[p].pc \in Locked
BY DEF TypeOK, Locked, Proc

LEMMA OthersWait ==
  ASSUME RotationInv, NEW p \in Procs, lock = p, NEW q \in Procs \ {p}
  PROVE  proc[q].pc \in {"idle", "set", "rotate"}
BY DEF RotationInv, TypeOK

\* A locked step keeps the invariant if it types the disk, keeps or gives up
\* the lock with its pc, and establishes what its own next step relies on.
LEMMA LockedStep ==
  ASSUME RotationInv, NEW p \in Procs, lock = p, NEW r \in Proc, Goto(p, r), DiskOK',
         UNCHANGED <<truth, crashes>>,
         \/ lock' = p /\ r.pc \in Locked
         \/ lock' = NoProc /\ r.pc = "idle",
         PhaseOK(p)'
  PROVE  RotationInv'
<1>1. proc' \in [Procs -> Proc] /\ proc'[p] = r
      /\ \A q \in Procs \ {p} : proc'[q] = proc[q]
  BY DEF Goto, RotationInv, TypeOK
<1>2. NoProc \notin Procs
  BY ValueAssumption
<1>3. TypeOK'
  BY <1>1, <1>2, OthersWait DEF RotationInv, TypeOK, DiskOK, Locked
<1>4. ASSUME NEW q \in Procs PROVE PhaseOK(q)'
  <2>1. CASE q = p
    BY <2>1
  <2>2. CASE q # p
    BY <1>1, <2>2, OthersWait DEF RotationInv, PhaseOK, At
  <2> QED BY <2>1, <2>2
<1> QED BY <1>3, <1>4 DEF RotationInv

\* The same for a step that needs nothing in its next pc.
LEMMA PlainLockedStep ==
  ASSUME RotationInv, NEW p \in Procs, lock = p, NEW r \in Proc, Goto(p, r), DiskOK',
         UNCHANGED <<truth, crashes>>,
         \/ lock' = p /\ r.pc \in Locked \ {"read", "stage", "stagekey", "aside"}
         \/ lock' = NoProc /\ r.pc = "idle"
  PROVE  RotationInv'
<1>1. proc'[p] = r
  BY DEF Goto, RotationInv, TypeOK
<1>2. PhaseOK(p)'
  BY <1>1 DEF PhaseOK, At, Locked
<1> QED BY <1>2, LockedStep
LEMMA ReleaseStep ==
  ASSUME RotationInv, NEW p \in Procs, lock = p, NEW k \in Keys \cup {NoKey}, Release(p, k),
         DiskOK', UNCHANGED <<truth, crashes>>
  PROVE  RotationInv'
BY DoneType, PlainLockedStep DEF Release

LEMMA AdvanceStep ==
  ASSUME RotationInv, NEW p \in Procs, lock = p,
         NEW pc \in Locked \ {"read", "stage", "stagekey", "aside"}, Next1(p, pc),
         DiskOK', UNCHANGED <<lock, truth, crashes>>
  PROVE  RotationInv'
<1>1. [proc[p] EXCEPT !.pc = pc] \in Proc /\ [proc[p] EXCEPT !.pc = pc].pc = pc
  BY DEF RotationInv, TypeOK, Proc, Locked
<1> QED BY <1>1, PlainLockedStep DEF Next1

LEMMA CachedType ==
  ASSUME TypeOK, NEW p \in Procs
  PROVE  proc[p] \in Proc /\ proc[p].cached \in Keys \cup {NoKey}
BY DEF TypeOK, Proc

\* A step to "read": either nothing is left to recover or nothing opens.
LEMMA ToRead ==
  ASSUME RotationInv, NEW p \in Procs, lock = p, Next1(p, "read"), DiskOK',
         UNCHANGED <<lock, truth, crashes>>, Clean' \/ Staged' = {}
  PROVE  RotationInv'
<1> DEFINE r == [proc[p] EXCEPT !.pc = "read"]
<1>1. r \in Proc /\ r.pc = "read" /\ "read" \in Locked
  BY DEF RotationInv, TypeOK, Proc, Locked, Pcs
<1>2. proc'[p] = r
  BY DEF Next1, Goto, RotationInv, TypeOK
<1>3. PhaseOK(p)'
  BY <1>1, <1>2 DEF PhaseOK, At
<1> QED BY <1>1, <1>3, LockedStep DEF Next1

-----------------------------------------------------------------------------
(* The recovery. *)
LEMMA RecoverOK ==
  ASSUME RotationInv, NEW p \in Procs, Recover(p)
  PROVE  RotationInv'
<1>1. lock = p
  BY LockedIsHeld DEF Recover, At, RotationInv, Locked, Pcs
<1>2. DiskOK'
  BY DEF Recover, RotationInv, TypeOK, DiskOK
<1>3. CASE Artifacts
  <2>1. "probe" \in Locked \ {"read", "stage", "stagekey", "aside"}
    BY DEF Locked, Pcs
  <2> QED BY <1>1, <1>2, <1>3, <2>1, AdvanceStep DEF Recover
<1>4. CASE ~Artifacts
  BY <1>1, <1>2, <1>4, ToRead DEF Recover, Artifacts, Clean
<1> QED BY <1>3, <1>4

LEMMA RefuseOK ==
  ASSUME RotationInv, NEW p \in Procs, Refuse(p)
  PROVE  RotationInv'
<1>1. lock = p
  BY LockedIsHeld DEF Refuse, At, RotationInv, Locked, Pcs
<1>2. DiskOK'
  BY DEF Refuse, RotationInv, TypeOK, DiskOK
<1> QED BY <1>1, <1>2, ReleaseStep, CachedType DEF Refuse, RotationInv

\* When recovery leaves everything in place, the live key opens nothing.
LEMMA ReadOpensNothing ==
  ASSUME TypeOK, ~Refuses, Decide = "read"
  PROVE  Staged = {}
<1>1. CASE Has(store) = {}
  BY <1>1 DEF Staged
<1>2. CASE Has(store) # {}
  <2>1. Classify(store, key) # "all" /\ Classify(store, key) # "some"
    BY <1>2 DEF Refuses, Decide
  <2>2. {i \in {j \in Has(store) : store[j].key \in Candidates} : Opens(store, i, key)} = {}
    BY <2>1 DEF Classify
  <2> QED BY <2>2 DEF Staged, Opens, Candidates
<1> QED BY <1>1, <1>2

LEMMA ProbeOK ==
  ASSUME RotationInv, NEW p \in Procs, Probe(p)
  PROVE  RotationInv'
<1> DEFINE plain == Locked \ {"read", "stage", "stagekey", "aside"}
<1>1. lock = p
  BY LockedIsHeld DEF Probe, At, RotationInv, Locked, Pcs
<1>2. "sweep" \in plain /\ "dropkey" \in plain
  BY DEF Locked, Pcs
<1>3. UNCHANGED <<stage, key, keyNew, keyOld, lock, truth, crashes>> /\ ~Refuses
  BY DEF Probe
<1>4. Decide \in {"sweep", "read", "forward", "rollback", "rollbackstore"}
  BY DEF Decide
<1>5. CASE Decide = "sweep"
  <2>1. Next1(p, "sweep") /\ DiskOK'
    BY <1>3, <1>5 DEF Probe, RotationInv, TypeOK, DiskOK
  <2> QED BY <1>1, <1>2, <1>3, <2>1, AdvanceStep
<1>6. CASE Decide = "rollbackstore"
  <2>1. Next1(p, "sweep") /\ DiskOK'
    BY <1>3, <1>6 DEF Probe, RotationInv, TypeOK, DiskOK
  <2> QED BY <1>1, <1>2, <1>3, <2>1, AdvanceStep
<1>7. CASE Decide = "read"
  <2>1. Next1(p, "read") /\ UNCHANGED <<store, bak>>
    BY <1>7 DEF Probe
  <2>2. DiskOK' /\ Staged' = Staged
    BY <1>3, <2>1 DEF RotationInv, TypeOK, DiskOK, Staged, Has, Opens
  <2> QED BY <1>1, <1>3, <1>7, <2>1, <2>2, ToRead, ReadOpensNothing DEF RotationInv
<1>8. CASE Decide \in {"forward", "rollback"}
  <2>1. PICK src \in {"new", "old"} :
          Goto(p, [proc[p] EXCEPT !.pc = "dropkey", !.source = src])
    BY <1>8 DEF Probe
  <2>2. DiskOK'
    BY <1>3, <1>8 DEF Probe, RotationInv, TypeOK, DiskOK
  <2>3. [proc[p] EXCEPT !.pc = "dropkey", !.source = src] \in Proc
        /\ [proc[p] EXCEPT !.pc = "dropkey", !.source = src].pc = "dropkey"
    BY CachedType DEF RotationInv, Proc, Pcs
  <2> QED BY <1>1, <1>2, <1>3, <2>1, <2>2, <2>3, PlainLockedStep
<1> QED BY <1>4, <1>5, <1>6, <1>7, <1>8

LEMMA InstallOK ==
  ASSUME RotationInv, NEW p \in Procs, DropKey(p) \/ InstallKey(p)
  PROVE  RotationInv'
<1>1. lock = p
  BY LockedIsHeld DEF DropKey, InstallKey, At, RotationInv, Locked, Pcs
<1>2. DiskOK'
  BY DEF DropKey, InstallKey, RotationInv, TypeOK, DiskOK
<1>3. CASE DropKey(p)
  <2>1. "installkey" \in Locked \ {"read", "stage", "stagekey", "aside"}
    BY DEF Locked, Pcs
  <2> QED BY <1>1, <1>2, <1>3, <2>1, AdvanceStep DEF DropKey
<1>4. CASE InstallKey(p) /\ proc[p].undo
  BY <1>1, <1>2, <1>4, ReleaseStep, CachedType DEF InstallKey, RotationInv
<1>5. CASE InstallKey(p) /\ ~proc[p].undo
  <2> DEFINE r == [proc[p] EXCEPT !.pc = "sweep", !.source = "none"]
  <2>1. r \in Proc /\ r.pc = "sweep" /\ "sweep" \in Locked \ {"read", "stage", "stagekey", "aside"}
    BY CachedType DEF RotationInv, Proc, Pcs, Locked
  <2> QED BY <1>1, <1>2, <1>5, <2>1, PlainLockedStep DEF InstallKey
<1> QED BY <1>3, <1>4, <1>5

LEMMA SweepOK ==
  ASSUME RotationInv, NEW p \in Procs, Sweep(p)
  PROVE  RotationInv'
<1>1. lock = p
  BY LockedIsHeld DEF Sweep, At, RotationInv, Locked, Pcs
<1>2. DiskOK'
  BY DEF Sweep, RotationInv, TypeOK, DiskOK
<1>3. CASE UNCHANGED proc
  <2> DEFINE r == proc[p]
  <2>1. r \in Proc /\ Goto(p, r) /\ r.pc = "sweep"
    BY <1>3, CachedType DEF RotationInv, TypeOK, Goto, Sweep, At
  <2>2. "sweep" \in Locked \ {"read", "stage", "stagekey", "aside"}
    BY DEF Locked, Pcs
  <2>3. UNCHANGED <<truth, crashes, lock>>
    BY DEF Sweep
  <2> QED BY <1>1, <1>2, <2>1, <2>2, <2>3, PlainLockedStep
<1>4. CASE Next1(p, "read") /\ Clean'
  BY <1>1, <1>2, <1>4, ToRead DEF Sweep
<1> QED BY <1>3, <1>4 DEF Sweep, Clean

-----------------------------------------------------------------------------
(* Re-keying and the swap. *)
LEMMA ReadOK ==
  ASSUME RotationInv, NEW p \in Procs, Read(p)
  PROVE  RotationInv'
<1>1. lock = p
  BY LockedIsHeld DEF Read, At, RotationInv, Locked, Pcs
<1>2. DiskOK' /\ UNCHANGED <<truth, crashes>>
  BY DEF Read, RotationInv, TypeOK, DiskOK
<1>3. CASE Release(p, proc[p].cached)
  BY <1>1, <1>2, <1>3, ReleaseStep, CachedType DEF RotationInv
<1>4. CASE Staged # {} /\ ~Release(p, proc[p].cached)
  <2>1. PICK k \in FreshKeys : Goto(p, [proc[p] EXCEPT !.pc = "stage", !.new = k])
    BY <1>4 DEF Read
  <2> DEFINE r == [proc[p] EXCEPT !.pc = "stage", !.new = k]
  <2>2. r \in Proc /\ r.pc = "stage" /\ r.new \in Keys /\ "stage" \in Locked
    BY CachedType DEF RotationInv, Proc, Pcs, Locked, FreshKeys
  <2>3. proc'[p] = r
    BY <2>1 DEF Goto, RotationInv, TypeOK
  <2>4. Clean /\ store \in Dir
    BY <1>4 DEF Read, RotationInv, PhaseOK, At, TypeOK, Staged, Has
  <2>5. PhaseOK(p)' /\ lock' = lock
    BY <1>4, <2>2, <2>3, <2>4 DEF Read, PhaseOK, At, Clean
  <2> HIDE DEF r
  <2> QED BY <1>1, <1>2, <2>1, <2>2, <2>5, LockedStep DEF r
<1> QED BY <1>3, <1>4 DEF Read

LEMMA StageStoreOK ==
  ASSUME RotationInv, NEW p \in Procs, StageStore(p)
  PROVE  RotationInv'
<1> DEFINE r == [proc[p] EXCEPT !.pc = "stagekey"]
<1>1. lock = p /\ Clean /\ store \in Dir /\ proc[p].new \in Keys
  BY LockedIsHeld DEF StageStore, At, RotationInv, Locked, Pcs, PhaseOK
<1>2. /\ Rekeyed(p) \in Dir /\ Has(Rekeyed(p)) = Has(store)
      /\ \A i \in Has(store) : Rekeyed(p)[i].val = store[i].val
  BY <1>1, RekeyedOK DEF RotationInv
<1>3. DiskOK' /\ Clean' /\ Faithful'
  BY <1>1, <1>2 DEF StageStore, RotationInv, TypeOK, DiskOK, Clean, Faithful, Has
<1>4. r \in Proc /\ r.pc = "stagekey" /\ "stagekey" \in Locked
  BY CachedType DEF RotationInv, Proc, Pcs, Locked
<1>5. proc'[p] = r
  BY DEF StageStore, Next1, Goto, RotationInv, TypeOK
<1>6. PhaseOK(p)'
  BY <1>3, <1>4, <1>5 DEF PhaseOK, At
<1> QED BY <1>1, <1>3, <1>4, <1>6, LockedStep DEF StageStore, Next1

LEMMA StageKeyOK ==
  ASSUME RotationInv, NEW p \in Procs, StageKey(p)
  PROVE  RotationInv'
<1> DEFINE r == [proc[p] EXCEPT !.pc = "aside"]
<1>1. lock = p /\ Clean /\ Faithful
  BY LockedIsHeld DEF StageKey, At, RotationInv, Locked, Pcs, PhaseOK
<1>2. DiskOK' /\ Clean' /\ Faithful'
  BY <1>1 DEF StageKey, RotationInv, TypeOK, DiskOK, Clean, Faithful, Has, Proc
<1>3. r \in Proc /\ r.pc = "aside" /\ "aside" \in Locked
  BY CachedType DEF RotationInv, Proc, Pcs, Locked
<1>4. proc'[p] = r
  BY DEF StageKey, Next1, Goto, RotationInv, TypeOK
<1>5. PhaseOK(p)'
  BY <1>2, <1>3, <1>4 DEF PhaseOK, At
<1> QED BY <1>1, <1>2, <1>3, <1>5, LockedStep DEF StageKey, Next1

\* The renames of the swap, the read-back and the commit.
LEMMA SwapOK ==
  ASSUME RotationInv, NEW p \in Procs,
         \/ MoveAside(p) \/ SwapStore(p) \/ SetOldKeyAside(p) \/ SwapKey(p)
         \/ Verify(p) \/ Undo(p) \/ Commit(p)
  PROVE  RotationInv'
<1> DEFINE plain == Locked \ {"read", "stage", "stagekey", "aside"}
<1>1. lock = p
  BY LockedIsHeld DEF MoveAside, SwapStore, SetOldKeyAside, SwapKey, Verify, Undo, Commit,
                      At, RotationInv, Locked, Pcs
<1>2. DiskOK'
  BY DEF MoveAside, SwapStore, SetOldKeyAside, SwapKey, Verify, Undo, Commit,
         RotationInv, TypeOK, DiskOK
<1>3. {"swap", "oldkey", "newkey", "verify", "commit", "undo", "dropkey"} \subseteq plain
  BY DEF Locked, Pcs
<1>4. CASE MoveAside(p) \/ SwapStore(p) \/ SetOldKeyAside(p) \/ SwapKey(p) \/ Verify(p)
  BY <1>1, <1>2, <1>3, <1>4, AdvanceStep
  DEF MoveAside, SwapStore, SetOldKeyAside, SwapKey, Verify
<1>5. CASE Undo(p)
  <2> DEFINE r == [proc[p] EXCEPT !.pc = "dropkey", !.source = "old", !.undo = TRUE]
  <2>1. r \in Proc /\ r.pc = "dropkey"
    BY CachedType DEF RotationInv, Proc, Pcs
  <2> QED BY <1>1, <1>2, <1>3, <1>5, <2>1, PlainLockedStep DEF Undo
<1>6. CASE Commit(p) /\ bak # NoDir
  <2>1. proc[p] \in Proc /\ Goto(p, proc[p]) /\ proc[p].pc = "commit"
    BY <1>6, CachedType DEF RotationInv, TypeOK, Goto, Commit, At
  <2> QED BY <1>1, <1>2, <1>3, <1>6, <2>1, PlainLockedStep DEF Commit
<1>7. CASE Commit(p) /\ bak = NoDir
  <2>1. proc[p].new \in Keys \cup {NoKey}
    BY CachedType DEF RotationInv, Proc
  <2> QED BY <1>1, <1>2, <1>7, <2>1, ReleaseStep DEF Commit
<1> QED BY <1>4, <1>5, <1>6, <1>7

-----------------------------------------------------------------------------
(* Steps outside the locked section. *)
Data == /\ truth \in [Items -> Vals \cup {NoVal}]
        /\ crashes \in 0 .. MaxCrashes

\* A step of a process that has no lock keeps the invariant if it types what
\* it changes and leaves the holder what it relies on.
LEMMA OpenStep ==
  ASSUME RotationInv, NEW p \in Procs, lock # p, NEW r \in Proc, Goto(p, r),
         r.pc \in {"idle", "set", "rotate"}, r.pc = "set" => r.item \in Items /\ r.val \in Vals,
         DiskOK', Data', lock' = lock,
         \A q \in Procs : lock = q => PhaseOK(q)'
  PROVE  RotationInv'
<1>1. proc' \in [Procs -> Proc] /\ proc'[p] = r
      /\ \A q \in Procs \ {p} : proc'[q] = proc[q]
  BY DEF Goto, RotationInv, TypeOK
<1>2. TypeOK'
  BY <1>1 DEF RotationInv, TypeOK, DiskOK, Data
<1>3. ASSUME NEW q \in Procs PROVE PhaseOK(q)'
  <2>1. CASE q = p
    BY <1>1, <2>1 DEF PhaseOK, At
  <2>2. CASE q # p /\ lock # q
    <3>1. proc[q].pc \in {"idle", "set", "rotate"}
      BY <2>2 DEF RotationInv, TypeOK
    <3> QED BY <1>1, <2>2, <3>1 DEF RotationInv, PhaseOK, At
  <2>3. CASE lock = q
    BY <2>3
  <2> QED BY <2>1, <2>2, <2>3
<1> QED BY <1>2, <1>3 DEF RotationInv

\* The holder keeps what it relies on when another process leaves the
\* directories alone or creates the missing one.
LEMMA HolderKeeps ==
  ASSUME RotationInv, NEW p \in Procs, NEW q \in Procs, p # q, NEW r, Goto(p, r),
         store' = IF store = NoDir THEN Empty ELSE store,
         UNCHANGED <<stage, bak, keyOld, key>>
  PROVE  PhaseOK(q)'
<1>1. proc'[q] = proc[q] /\ PhaseOK(q)
  BY DEF Goto, RotationInv, TypeOK
<1>2. Has(store') = Has(store) /\ Staged' = Staged
  BY DirFacts DEF Has, Staged, Opens
<1>3. store \in Dir => store' = store
  BY DirFacts
<1> QED BY <1>1, <1>2, <1>3, DirFacts DEF PhaseOK, At, Clean, Faithful, Has

\* A passphrase that is provisioned opens nothing.
LEMMA HolderKeepsKey ==
  ASSUME RotationInv, NEW p \in Procs, NEW q \in Procs, p # q, NEW r, Goto(p, r),
         NEW k \in Passphrase(p), key' = Provisioned(p, k),
         UNCHANGED <<store, stage, bak, keyOld>>
  PROVE  PhaseOK(q)'
<1>1. proc'[q] = proc[q] /\ PhaseOK(q)
  BY DEF Goto, RotationInv, TypeOK
<1>2. Staged = {} => Staged' = {}
  <2>1. CASE key' = key
    BY <2>1 DEF Staged, Has, Opens
  <2>2. CASE key' # key
    <3>1. key' \in FreshKeys
      BY <2>2 DEF Provisioned, Passphrase
    <3>2. \A i \in Has(store) : store[i].key # key'
      BY <3>1 DEF FreshKeys, UsedKeys, KeysOf
    <3> QED BY <3>2 DEF Staged, Has, Opens
  <2> QED BY <2>1, <2>2
<1> QED BY <1>1, <1>2 DEF PhaseOK, At, Clean, Faithful, Has

LEMMA OpenPcs ==
  ASSUME RotationInv, NEW p \in Procs, proc[p].pc \in {"idle", "set", "rotate"}
  PROVE  lock # p
BY DEF RotationInv, TypeOK

LEMMA GetOK ==
  ASSUME RotationInv, NEW p \in Procs, NEW i \in Items, Get(p, i)
  PROVE  RotationInv'
<1>1. lock # p
  BY OpenPcs DEF Get, At
<1>2. PICK k \in Passphrase(p) : key' = Provisioned(p, k) /\ Goto(p, Done(p, k))
  BY DEF Get
<1>3. k \in Keys /\ Provisioned(p, k) \in Keys \cup {NoKey}
  BY PassphraseType DEF RotationInv
<1>4. DiskOK' /\ Data' /\ lock' = lock /\ UNCHANGED <<store, stage, bak, keyOld>>
  BY <1>2, <1>3 DEF Get, RotationInv, TypeOK, DiskOK, Data
<1>5. Done(p, k) \in Proc /\ Done(p, k).pc = "idle"
  BY <1>3, DoneType
<1>6. \A q \in Procs : lock = q => PhaseOK(q)'
  BY <1>1, <1>2, <1>4, HolderKeepsKey
<1> QED BY <1>1, <1>2, <1>4, <1>5, <1>6, OpenStep

LEMMA SetBeginOK ==
  ASSUME RotationInv, NEW p \in Procs, NEW i \in Items, NEW v \in Vals, SetBegin(p, i, v)
  PROVE  RotationInv'
<1> DEFINE r == [proc[p] EXCEPT !.pc = "set", !.item = i, !.val = v]
<1>1. lock # p
  BY OpenPcs DEF SetBegin, At
<1>2. r \in Proc /\ r.pc = "set" /\ r.item = i /\ r.val = v
  BY CachedType DEF RotationInv, Proc, Pcs
<1>3. DiskOK' /\ Data' /\ lock' = lock /\ Goto(p, r)
      /\ UNCHANGED <<stage, bak, keyOld, key>>
  BY DirFacts DEF SetBegin, RotationInv, TypeOK, DiskOK, Data
<1>4. \A q \in Procs : lock = q => PhaseOK(q)'
  BY <1>1, <1>3, HolderKeeps DEF SetBegin
<1> QED BY <1>1, <1>2, <1>3, <1>4, OpenStep

\* The writers hold the lock for their only step, so nobody else does.
LEMMA WriteOK ==
  ASSUME RotationInv, NEW p \in Procs, SetWrite(p) \/ \E i \in Items : Delete(p, i)
  PROVE  RotationInv'
<1>1. lock = NoProc /\ lock # p /\ NoProc \notin Procs
  BY ValueAssumption DEF SetWrite, Delete
<1>2. CASE SetWrite(p)
  <2>1. PICK k \in Passphrase(p) :
          LET i == proc[p].item IN
          /\ key' = Provisioned(p, k) /\ Goto(p, Done(p, k))
          /\ IF store = NoDir THEN UNCHANGED <<store, truth>>
             ELSE /\ store' = [store EXCEPT ![i] = [key |-> k, val |-> proc[p].val]]
                  /\ truth' = [truth EXCEPT ![i] = proc[p].val]
    BY <1>2 DEF SetWrite
  <2>2. k \in Keys /\ Provisioned(p, k) \in Keys \cup {NoKey}
    BY PassphraseType DEF RotationInv
  <2>3. proc[p].item \in Items /\ proc[p].val \in Vals
    BY <1>2 DEF SetWrite, RotationInv, PhaseOK
  <2>4. [key |-> k, val |-> proc[p].val] \in File
    BY <2>2, <2>3 DEF File
  <2>5. store' \in Dir \cup {NoDir} /\ Data'
    BY <1>2, <2>1, <2>3, <2>4 DEF SetWrite, RotationInv, TypeOK, Dir, Data
  <2>6. DiskOK' /\ lock' = lock
    BY <1>2, <2>1, <2>2, <2>5 DEF SetWrite, RotationInv, TypeOK, DiskOK
  <2>7. Done(p, k) \in Proc /\ Done(p, k).pc = "idle"
    BY <2>2, DoneType
  <2> QED BY <1>1, <2>1, <2>5, <2>6, <2>7, OpenStep
<1>3. CASE \E i \in Items : Delete(p, i)
  <2>1. PICK i \in Items : Delete(p, i)
    BY <1>3
  <2>2. proc[p] \in Proc /\ Goto(p, proc[p]) /\ proc[p].pc = "idle"
    BY <2>1, CachedType DEF RotationInv, TypeOK, Goto, Delete, At
  <2>3. DiskOK' /\ Data' /\ lock' = lock
    BY <2>1 DEF Delete, RotationInv, TypeOK, DiskOK, Data, Dir, Has
  <2> QED BY <1>1, <2>2, <2>3, OpenStep
<1> QED BY <1>2, <1>3

LEMMA LeaveOK ==
  ASSUME RotationInv, NEW p \in Procs, Leave(p) \/ \E dry \in BOOLEAN : RotateBegin(p, dry)
  PROVE  RotationInv'
<1>1. lock # p
  BY OpenPcs DEF Leave, RotateBegin, At
<1>2. DiskOK' /\ Data' /\ lock' = lock /\ UNCHANGED <<store, stage, bak, key, keyOld>>
  BY DEF Leave, RotateBegin, RotationInv, TypeOK, DiskOK, Data
<1>3. PICK r \in Proc : Goto(p, r) /\ r.pc \in {"idle", "rotate"}
  <2>1. CASE Leave(p)
    BY <2>1, IdleType DEF Leave
  <2>2. CASE \E dry \in BOOLEAN : RotateBegin(p, dry)
    <3>1. PICK dry \in BOOLEAN : RotateBegin(p, dry)
      BY <2>2
    <3> DEFINE r == [proc[p] EXCEPT !.pc = "rotate", !.dry = dry]
    <3>2. r \in Proc /\ r.pc = "rotate"
      BY CachedType DEF RotationInv, Proc, Pcs
    <3> QED BY <3>1, <3>2 DEF RotateBegin
  <2> QED BY <2>1, <2>2
<1>4. ASSUME NEW q \in Procs, lock = q PROVE PhaseOK(q)'
  <2>1. proc'[q] = proc[q] /\ PhaseOK(q)
    BY <1>1, <1>3, <1>4 DEF Goto, RotationInv, TypeOK
  <2> QED BY <1>2, <2>1 DEF PhaseOK, At, Clean, Faithful, Has, Staged, Opens
<1> QED BY <1>1, <1>2, <1>3, <1>4, OpenStep

LEMMA RotateLockedOK ==
  ASSUME RotationInv, NEW p \in Procs, RotateLocked(p)
  PROVE  RotationInv'
<1>1. lock = NoProc /\ lock # p /\ NoProc \notin Procs
  BY ValueAssumption DEF RotateLocked
<1>2. DiskOK' /\ Data' /\ UNCHANGED <<truth, crashes>>
  BY DEF RotateLocked, RotationInv, TypeOK, DiskOK, Data
<1>3. CASE lock' = p /\ Next1(p, "recover")
  <2> DEFINE r == [proc[p] EXCEPT !.pc = "recover"]
  <2>1. r \in Proc /\ r.pc = "recover"
    BY CachedType DEF RotationInv, Proc, Pcs
  <2>2. proc' \in [Procs -> Proc] /\ proc'[p] = r
        /\ \A q \in Procs \ {p} : proc'[q] = proc[q]
    BY <1>3, <2>1 DEF Next1, Goto, RotationInv, TypeOK
  <2>3. \A q \in Procs : proc[q].pc \in {"idle", "set", "rotate"}
    BY <1>1 DEF RotationInv, TypeOK
  <2>4. TypeOK'
    BY <1>1, <1>2, <1>3, <2>1, <2>2, <2>3 DEF RotationInv, TypeOK, DiskOK, Data
  <2>5. ASSUME NEW q \in Procs PROVE PhaseOK(q)'
    BY <2>1, <2>2, <2>3 DEF RotationInv, PhaseOK, At
  <2> QED BY <2>4, <2>5 DEF RotationInv
<1>4. CASE Release(p, proc[p].cached)
  <2>1. Done(p, proc[p].cached) \in Proc /\ Done(p, proc[p].cached).pc = "idle"
    BY CachedType, DoneType DEF RotationInv
  <2> QED BY <1>1, <1>2, <1>4, <2>1, OpenStep DEF Release
<1> QED BY <1>3, <1>4 DEF RotateLocked

-----------------------------------------------------------------------------
(* A crash. *)
LEMMA CrashDiskType ==
  ASSUME RotationInv, NEW p \in Procs, CrashDisk(p), UNCHANGED <<key, keyNew, keyOld>>
  PROVE  DiskOK' /\ (lock # p => UNCHANGED <<store, stage, bak>>)
<1>1. TypeOK /\ (lock = p <=> proc[p].pc \in Locked)
  BY LockedIsHeld DEF RotationInv
<1>2. CASE At(p, "stage")
  <2>1. Rekeyed(p) \in Dir /\ lock = p
    BY <1>1, <1>2, RekeyedOK DEF RotationInv, PhaseOK, At, Locked, Pcs
  <2>2. stage' \in Torn(Rekeyed(p)) /\ UNCHANGED <<store, bak>>
    BY <1>2 DEF CrashDisk, At
  <2> QED BY <1>1, <2>1, <2>2, TornType DEF TypeOK, DiskOK
<1>3. CASE At(p, "sweep")
  <2>1. UNCHANGED store /\ lock = p
        /\ \/ stage' \in Torn(stage) /\ UNCHANGED bak
           \/ bak' \in Torn(bak) /\ UNCHANGED stage
    BY <1>1, <1>3 DEF CrashDisk, At, Locked, Pcs
  <2> QED BY <1>1, <2>1, TornType DEF TypeOK, DiskOK
<1>4. CASE At(p, "commit")
  <2>1. bak' \in Torn(bak) /\ UNCHANGED <<store, stage>> /\ lock = p
    BY <1>1, <1>4 DEF CrashDisk, At, Locked, Pcs
  <2> QED BY <1>1, <2>1, TornType DEF TypeOK, DiskOK
<1>5. CASE At(p, "undo") \/ (At(p, "probe") /\ ~Refuses
                              /\ Decide \in {"rollback", "rollbackstore"})
  <2>1. store' \in Torn(store) \cup {NoDir} /\ UNCHANGED <<stage, bak>> /\ lock = p
    BY <1>1, <1>5 DEF CrashDisk, At, Locked, Pcs
  <2> QED BY <1>1, <2>1, TornType DEF TypeOK, DiskOK
<1>6. CASE ~At(p, "stage") /\ ~At(p, "sweep") /\ ~At(p, "commit")
           /\ ~(At(p, "undo") \/ (At(p, "probe") /\ ~Refuses
                                   /\ Decide \in {"rollback", "rollbackstore"}))
  BY <1>1, <1>6 DEF CrashDisk, TypeOK, DiskOK
<1> QED BY <1>2, <1>3, <1>4, <1>5, <1>6

LEMMA CrashOK ==
  ASSUME RotationInv, NEW p \in Procs, Crash(p)
  PROVE  RotationInv'
<1> DEFINE r == Idle(NoKey)
<1>1. r \in Proc /\ r.pc = "idle"
  BY IdleType
<1>2. DiskOK' /\ Data' /\ (lock # p => UNCHANGED <<store, stage, bak>>)
  <2>1. CrashDisk(p) /\ UNCHANGED <<key, keyNew, keyOld, truth>>
        /\ crashes < MaxCrashes /\ crashes' = crashes + 1
    BY DEF Crash
  <2>2. Data'
    BY <2>1, RoleAssumption DEF Data, RotationInv, TypeOK
  <2> QED BY <2>1, <2>2, CrashDiskType
<1>3. CASE lock # p
  <2>1. lock' = lock /\ Goto(p, r) /\ UNCHANGED <<store, stage, bak, key, keyOld>>
    BY <1>2, <1>3 DEF Crash
  <2>2. ASSUME NEW q \in Procs, lock = q PROVE PhaseOK(q)'
    <3>1. proc'[q] = proc[q] /\ PhaseOK(q)
      BY <1>3, <2>1, <2>2 DEF Goto, RotationInv, TypeOK
    <3> QED BY <2>1, <3>1 DEF PhaseOK, At, Clean, Faithful, Has, Staged, Opens
  <2> HIDE DEF r
  <2> QED BY <1>1, <1>2, <1>3, <2>1, <2>2, OpenStep
<1>4. CASE lock = p
  <2>1. lock' = NoProc /\ NoProc \notin Procs /\ Goto(p, r)
    BY <1>4, ValueAssumption DEF Crash
  <2>2. \A q \in Procs \ {p} : proc[q].pc \in {"idle", "set", "rotate"}
    BY <1>4, OthersWait
  <2>3. proc' \in [Procs -> Proc] /\ proc'[p] = r
        /\ \A q \in Procs \ {p} : proc'[q] = proc[q]
    BY <1>1, <2>1 DEF Goto, RotationInv, TypeOK
  <2>4. TypeOK'
    BY <1>1, <1>2, <2>1, <2>2, <2>3 DEF TypeOK, DiskOK, Data
  <2>5. ASSUME NEW q \in Procs PROVE PhaseOK(q)'
    BY <1>1, <2>2, <2>3 DEF RotationInv, PhaseOK, At
  <2> QED BY <2>4, <2>5 DEF RotationInv
<1> QED BY <1>3, <1>4

-----------------------------------------------------------------------------
(* The theorems. *)
LEMMA InitOK == Init => RotationInv
<1> SUFFICES ASSUME Init PROVE RotationInv
  OBVIOUS
<1>1. PICK k \in Keys, lost \in Keys, v \in Vals, live \in SUBSET Items, orphans \in SUBSET Items :
        /\ k # lost /\ live # {} /\ live \cap orphans = {}
        /\ store = [i \in Items |-> IF i \in live THEN [key |-> k, val |-> v]
                                    ELSE IF i \in orphans THEN [key |-> lost, val |-> v]
                                    ELSE NoFile]
        /\ truth = [i \in Items |-> IF i \in live THEN v ELSE NoVal]
        /\ key = k
  BY DEF Init
<1>2. store \in Dir
  BY <1>1 DEF Dir, File
<1>3. proc \in [Procs -> Proc] /\ \A p \in Procs : proc[p].pc = "idle"
  BY IdleType DEF Init
<1>4. lock = NoProc /\ crashes = 0 /\ NoProc \notin Procs /\ MaxCrashes \in Nat
  BY ValueAssumption, RoleAssumption DEF Init
<1>5. TypeOK
  BY <1>1, <1>2, <1>3, <1>4 DEF Init, TypeOK
<1>6. \A p \in Procs : PhaseOK(p)
  BY <1>3 DEF PhaseOK, At
<1> QED BY <1>5, <1>6 DEF RotationInv

LEMMA NextOK == RotationInv /\ [Next]_vars => RotationInv'
<1> SUFFICES ASSUME RotationInv, [Next]_vars PROVE RotationInv'
  OBVIOUS
<1>1. ASSUME NEW p \in Procs, Recovery(p) PROVE RotationInv'
  BY <1>1, RotateLockedOK, RecoverOK, RefuseOK, ProbeOK, InstallOK, SweepOK DEF Recovery
<1>2. ASSUME NEW p \in Procs, Rekey(p) PROVE RotationInv'
  BY <1>2, ReadOK, StageStoreOK, StageKeyOK, SwapOK DEF Rekey
<1>3. ASSUME NEW p \in Procs, NEW i \in Items,
             Get(p, i) \/ Delete(p, i) \/ \E v \in Vals : SetBegin(p, i, v)
      PROVE RotationInv'
  BY <1>3, GetOK, WriteOK, SetBeginOK
<1>4. ASSUME NEW p \in Procs,
             SetWrite(p) \/ Leave(p) \/ (\E dry \in BOOLEAN : RotateBegin(p, dry)) \/ Crash(p)
      PROVE RotationInv'
  BY <1>4, WriteOK, LeaveOK, CrashOK
<1>5. CASE UNCHANGED vars
  BY <1>5 DEF vars, RotationInv, TypeOK, PhaseOK, At, Clean, Faithful, Has, Staged, Opens
<1> QED BY <1>1, <1>2, <1>3, <1>4, <1>5 DEF Next, Rotation

LEMMA InvariantHolds == Spec => []RotationInv
BY InitOK, NextOK, PTL DEF Spec

\* Every variable keeps its type, and a process is in the locked section
\* exactly when it holds the store lock: whatever sets, deletes, rotations and
\* crashes are going on, one process at a time touches the artifacts.
THEOREM TypeCorrect == Spec => []TypeOK
<1>1. RotationInv => TypeOK
  BY DEF RotationInv
<1> QED BY <1>1, InvariantHolds, PTL

\* rotatePassphraseLocked() moves the live store aside only with a staged store
\* that holds every item of it with its value, and with no backup directory or
\* old key of an earlier rotation left, the copies a recovery would need.
THEOREM SwapSafe == Spec => []SwapStartsClean
<1>1. RotationInv => SwapStartsClean
  BY DEF RotationInv, PhaseOK, SwapStartsClean, At, Clean, Faithful
<1> QED BY <1>1, InvariantHolds, PTL

=============================================================================
