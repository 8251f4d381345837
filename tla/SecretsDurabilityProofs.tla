------------------------ MODULE SecretsDurabilityProofs ------------------------
(***************************************************************************)
(* What the encrypted store keeps, for any sets of items, keys, values and *)
(* processes: no write is lost without a crash, a secret is lost in one    *)
(* step only whatever crashes, and recovery refuses only what it should.   *)
(* Four inductive invariants, each beside RotationInv.                     *)
(***************************************************************************)
EXTENDS SecretsRotationProofs

\* Directory d holds every live item of t, sealed under k.
Holds(d, k, t) ==
    /\ d # NoDir /\ k # NoKey
    /\ \A i \in Items : t[i] # NoVal => i \in Has(d) /\ d[i].key = k /\ d[i].val = t[i]

-----------------------------------------------------------------------------
(* Operators. *)

\* A held item is a secret NothingLost finds.
LEMMA HeldIsRecoverable ==
  ASSUME NEW d \in {store, bak}, NEW k \in Candidates, Holds(d, k, truth)
  PROVE  NothingLost
BY DEF NothingLost, Recoverable, Holds

LEMMA RekeyedHolds ==
  ASSUME TypeOK, NEW p \in Procs, proc[p].new \in Keys, Holds(store, key, truth)
  PROVE  Holds(Rekeyed(p), proc[p].new, truth)
<1>1. store \in Dir /\ proc[p].new # NoKey
  BY ValueAssumption DEF TypeOK, Holds
<1>2. /\ Rekeyed(p) \in Dir /\ Has(Rekeyed(p)) = Has(store)
      /\ \A i \in Has(store) : Rekeyed(p)[i].val = store[i].val
  BY <1>1, RekeyedOK
<1>3. ASSUME NEW i \in Items, truth[i] # NoVal
      PROVE  i \in Has(store) /\ store[i].val = truth[i] /\ Rekeyed(p)[i].key = proc[p].new
  <2>1. i \in Has(store) /\ store[i].val = truth[i] /\ i \in Staged
    BY <1>3 DEF Holds, Staged, Opens
  <2>2. store[i] \in File
    BY <1>1, <2>1 DEF Has, Dir, Holds
  <2>3. Rekeyed(p)[i] = [store[i] EXCEPT !.key = proc[p].new]
    BY <2>1 DEF Rekeyed
  <2> QED BY <2>1, <2>2, <2>3 DEF File
<1> QED BY <1>1, <1>2, <1>3, DirFacts DEF Holds

\* Creating the missing directory disturbs no directory that holds anything.
LEMMA EnsuredHolds ==
  ASSUME NEW k, NEW t, Holds(store, k, t),
         store' = IF store = NoDir THEN Empty ELSE store
  PROVE  store' = store
BY DEF Holds

\* A passphrase is provisioned only where the key file is missing.
LEMMA KeyKept ==
  ASSUME NEW p \in Procs, NEW k \in Passphrase(p), key # NoKey
  PROVE  Provisioned(p, k) = key
BY DEF Provisioned

-----------------------------------------------------------------------------
(* Without a crash.  At rest the store holds every live item under the key *)
(* file and nothing is left over; inside a rotation, each step knows which *)
(* directory holds them under which key file.                              *)

Rest == /\ Holds(store, key, truth)
        /\ stage = NoDir /\ bak = NoDir /\ keyNew = NoKey /\ keyOld = NoKey

\* What is on disk when the holder is about to take a step.
Rotating(r) ==
    LET at(pcs) == r.pc \in pcs IN
    /\ ~at({"probe", "sweep"})
    /\ at({"recover", "read", "stage"}) => Rest
    /\ at({"stage", "stagekey", "aside", "swap", "oldkey", "newkey", "verify", "commit"}) =>
         r.new \in Keys
    /\ at({"stagekey", "aside"}) => Holds(store, key, truth) /\ bak = NoDir
    /\ at({"stagekey", "aside", "swap"}) => Holds(stage, r.new, truth) /\ keyOld = NoKey
    /\ at({"stagekey", "verify", "undo", "commit", "dropkey", "installkey"}) => keyNew = NoKey
    /\ at({"aside", "swap", "oldkey", "newkey"}) => keyNew = r.new
    /\ at({"swap", "oldkey"}) => Holds(bak, key, truth) /\ keyOld = NoKey
    /\ at({"oldkey", "newkey", "verify", "commit"}) => Holds(store, r.new, truth)
    /\ at({"newkey", "verify", "undo"}) => Holds(bak, keyOld, truth)
    /\ at({"verify", "commit"}) => key = r.new
    /\ at({"oldkey", "newkey", "verify", "undo", "commit", "dropkey", "installkey"}) =>
         stage = NoDir
    /\ at({"dropkey", "installkey"}) =>
         /\ r.source = "old" /\ r.undo
         /\ Holds(store, keyOld, truth) /\ bak = NoDir

\* Writers forget the passphrase they used, and set is theirs.
Forgetful == \A p \in Procs : /\ At(p, "set") => p \in Writers
                              /\ p \in Writers => proc[p].cached = NoKey

WriteInv ==
    /\ Forgetful
    /\ crashes = 0 =>
         /\ lock = NoProc => Rest
         /\ \A p \in Procs : lock = p => Rotating(proc[p])

\* A step of the holder.
LEMMA HolderStep ==
  ASSUME RotationInv, WriteInv, NEW p \in Procs, lock = p, NEW r, Goto(p, r),
         UNCHANGED crashes, r.pc # "set", p \in Writers => r.cached = NoKey,
         \/ lock' = p /\ (crashes = 0 => Rotating(proc[p])')
         \/ lock' = NoProc /\ (crashes = 0 => Rest')
  PROVE  WriteInv'
<1>1. proc'[p] = r /\ \A q \in Procs \ {p} : proc'[q] = proc[q]
  BY DEF Goto, RotationInv, TypeOK
<1>2. NoProc \notin Procs
  BY ValueAssumption
<1>3. Forgetful'
  BY <1>1 DEF WriteInv, Forgetful, At
<1> QED BY <1>1, <1>2, <1>3 DEF WriteInv

LEMMA HolderAdvances ==
  ASSUME RotationInv, WriteInv, NEW p \in Procs, lock = p, NEW pc \in Locked, Next1(p, pc),
         UNCHANGED <<lock, crashes>>,
         crashes = 0 => Rotating(proc[p])'
  PROVE  WriteInv'
<1> DEFINE r == [proc[p] EXCEPT !.pc = pc]
<1>1. proc[p] \in Proc
  BY CachedType DEF RotationInv
<1>2. r.pc # "set" /\ r.cached = proc[p].cached
  BY <1>1 DEF Locked, Proc
<1>3. Goto(p, r)
  BY DEF Next1
<1> HIDE DEF r
<1> QED BY <1>2, <1>3, HolderStep DEF WriteInv, Forgetful

LEMMA HolderReleases ==
  ASSUME RotationInv, WriteInv, NEW p \in Procs, lock = p, NEW k, Release(p, k),
         p \in LongLived \/ k = NoKey \/ k \in Keys \cup {NoKey}, LongLived \cap Writers = {},
         UNCHANGED crashes, crashes = 0 => Rest'
  PROVE  WriteInv'
<1> DEFINE r == Done(p, k)
<1>1. Goto(p, r) /\ lock' = NoProc
  BY DEF Release
<1>2. r.pc # "set" /\ (p \in Writers => r.cached = NoKey)
  BY DEF Done, Idle
<1> HIDE DEF r
<1> QED BY <1>1, <1>2, HolderStep

LEMMA WriteSwap ==
  ASSUME RotationInv, WriteInv, NEW p \in Procs, LongLived \cap Writers = {},
         \/ StageStore(p) \/ StageKey(p) \/ MoveAside(p) \/ SwapStore(p)
         \/ SetOldKeyAside(p) \/ SwapKey(p) \/ Verify(p)
  PROVE  WriteInv'
<1>1. lock = p /\ proc[p] \in Proc
  BY LockedIsHeld, CachedType DEF StageStore, StageKey, MoveAside, SwapStore, SetOldKeyAside,
     SwapKey, Verify, At, RotationInv, Locked, Pcs
<1>2. crashes = 0 => Rotating(proc[p])
  BY <1>1 DEF WriteInv
<1>3. UNCHANGED <<lock, truth, crashes>>
  BY DEF StageStore, StageKey, MoveAside, SwapStore, SetOldKeyAside, SwapKey, Verify
<1>4. PICK pc \in Locked : Next1(p, pc) /\
        \/ StageStore(p) /\ pc = "stagekey"
        \/ StageKey(p) /\ pc = "aside"
        \/ MoveAside(p) /\ pc = "swap"
        \/ SwapStore(p) /\ pc = "oldkey"
        \/ SetOldKeyAside(p) /\ pc = "newkey"
        \/ SwapKey(p) /\ pc = "verify"
        \/ Verify(p) /\ pc \in {"commit", "undo"}
  BY DEF StageStore, StageKey, MoveAside, SwapStore, SetOldKeyAside, SwapKey, Verify, Locked, Pcs
<1>5. proc'[p].pc = pc /\ proc'[p].new = proc[p].new
  BY <1>1, <1>4 DEF Next1, Goto, Proc, RotationInv, TypeOK
<1>6. ASSUME crashes = 0 PROVE Rotating(proc[p])'
  <2>1. Rotating(proc[p])
    BY <1>2, <1>6
  <2>2. CASE StageStore(p) /\ pc = "stagekey"
    <3>1. Rest /\ proc[p].new \in Keys
      BY <2>1, <2>2 DEF Rotating, StageStore, At
    <3>2. Holds(stage', proc'[p].new, truth')
      BY <1>3, <1>5, <2>2, <3>1, RekeyedHolds DEF Rest, StageStore, RotationInv
    <3> QED BY <1>3, <1>5, <2>2, <3>1, <3>2 DEF Rotating, Rest, StageStore
  <2>3. CASE StageKey(p) /\ pc = "aside"
    BY <1>3, <1>5, <2>1, <2>3 DEF Rotating, StageKey, At
  <2>4. CASE MoveAside(p) /\ pc = "swap"
    BY <1>3, <1>5, <2>1, <2>4 DEF Rotating, MoveAside, At
  <2>5. CASE SwapStore(p) /\ pc = "oldkey"
    BY <1>3, <1>5, <2>1, <2>5 DEF Rotating, SwapStore, At
  <2>6. CASE SetOldKeyAside(p) /\ pc = "newkey"
    BY <1>3, <1>5, <2>1, <2>6 DEF Rotating, SetOldKeyAside, At
  <2>7. CASE SwapKey(p) /\ pc = "verify"
    BY <1>3, <1>5, <2>1, <2>7 DEF Rotating, SwapKey, At
  <2>8. CASE Verify(p) /\ pc \in {"commit", "undo"}
    BY <1>3, <1>5, <2>1, <2>8 DEF Rotating, Verify, At
  <2> QED BY <1>4, <2>2, <2>3, <2>4, <2>5, <2>6, <2>7, <2>8
<1> QED BY <1>1, <1>3, <1>4, <1>6, HolderAdvances

\* The end of a rotation: the commit, or the way back after a failed read-back.
LEMMA WriteEnd ==
  ASSUME RotationInv, WriteInv, NEW p \in Procs, LongLived \cap Writers = {},
         Undo(p) \/ DropKey(p) \/ InstallKey(p) \/ Commit(p)
  PROVE  WriteInv'
<1>1. lock = p /\ proc[p] \in Proc
  BY LockedIsHeld, CachedType DEF Undo, DropKey, InstallKey, Commit, At, RotationInv, Locked, Pcs
<1>2. crashes = 0 => Rotating(proc[p])
  BY <1>1 DEF WriteInv
<1>3. UNCHANGED <<truth, crashes>>
  BY DEF Undo, DropKey, InstallKey, Commit
<1>4. p \in Writers => proc[p].cached = NoKey
  BY DEF WriteInv, Forgetful
<1>5. CASE Undo(p)
  <2> DEFINE r == [proc[p] EXCEPT !.pc = "dropkey", !.source = "old", !.undo = TRUE]
  <2>1. r.pc = "dropkey" /\ r.source = "old" /\ r.undo /\ r.cached = proc[p].cached
    BY <1>1 DEF Proc
  <2>2. Goto(p, r) /\ lock' = p /\ proc'[p] = r
    BY <1>1, <1>5 DEF Undo, Goto, RotationInv, TypeOK
  <2> HIDE DEF r
  <2>3. crashes = 0 => Rotating(proc[p])'
    BY <1>2, <1>3, <1>5, <2>1, <2>2 DEF Rotating, Undo, At
  <2> QED BY <1>1, <1>3, <1>4, <2>1, <2>2, <2>3, HolderStep
<1>6. CASE DropKey(p)
  <2>1. /\ proc'[p].pc = "installkey"
        /\ proc'[p].source = proc[p].source /\ proc'[p].undo = proc[p].undo
    BY <1>1, <1>6 DEF DropKey, Next1, Goto, Proc, RotationInv, TypeOK
  <2>2. crashes = 0 => Rotating(proc[p])'
    BY <1>2, <1>3, <1>6, <2>1 DEF Rotating, DropKey, At
  <2>3. "installkey" \in Locked
    BY DEF Locked, Pcs
  <2> QED BY <1>1, <1>6, <2>2, <2>3, HolderAdvances DEF DropKey
<1>7. CASE InstallKey(p) /\ proc[p].undo
  <2>1. crashes = 0 => Rest'
    BY <1>2, <1>3, <1>7 DEF Rotating, InstallKey, At, Rest
  <2> QED BY <1>1, <1>3, <1>7, <2>1, HolderReleases, CachedType DEF InstallKey, RotationInv
<1>8. CASE InstallKey(p) /\ ~proc[p].undo
  <2> DEFINE r == [proc[p] EXCEPT !.pc = "sweep", !.source = "none"]
  <2>1. r.pc = "sweep" /\ r.cached = proc[p].cached
    BY <1>1 DEF Proc
  <2>2. Goto(p, r) /\ lock' = p
    BY <1>1, <1>8 DEF InstallKey
  <2>3. crashes # 0
    BY <1>2, <1>8 DEF Rotating, InstallKey, At
  <2> HIDE DEF r
  <2> QED BY <1>1, <1>3, <1>4, <2>1, <2>2, <2>3, HolderStep
<1>9. CASE Commit(p) /\ bak # NoDir
  <2>1. Goto(p, proc[p]) /\ lock' = p /\ proc[p].pc # "set" /\ proc' = proc
    BY <1>1, <1>9 DEF Commit, Goto, At, RotationInv, TypeOK
  <2>2. crashes = 0 => Rotating(proc[p])'
    BY <1>2, <1>3, <1>9, <2>1 DEF Rotating, Commit, At
  <2> QED BY <1>1, <1>3, <1>4, <2>1, <2>2, HolderStep
<1>10. CASE Commit(p) /\ bak = NoDir
  <2>1. crashes = 0 => Rest'
    BY <1>2, <1>3, <1>10 DEF Rotating, Commit, At, Rest
  <2>2. proc[p].new \in Keys \cup {NoKey}
    BY <1>1 DEF Proc
  <2> QED BY <1>1, <1>3, <1>10, <2>1, <2>2, HolderReleases DEF Commit
<1> QED BY <1>5, <1>6, <1>7, <1>8, <1>9, <1>10

LEMMA WriteRead ==
  ASSUME RotationInv, WriteInv, NEW p \in Procs, LongLived \cap Writers = {},
         Recover(p) \/ Read(p)
  PROVE  WriteInv'
<1>1. lock = p /\ proc[p] \in Proc
  BY LockedIsHeld, CachedType DEF Recover, Read, At, RotationInv, Locked, Pcs
<1>2. crashes = 0 => Rest
  BY <1>1 DEF WriteInv, Rotating, Recover, Read, At
<1>3. UNCHANGED <<truth, crashes>> /\ {"probe", "read", "stage"} \subseteq Locked
  BY DEF Recover, Read, Locked, Pcs
<1>4. CASE Recover(p)
  <2>1. PICK pc \in Locked : Next1(p, pc) /\ (crashes = 0 => pc = "read" /\ Rest')
    BY <1>2, <1>3, <1>4 DEF Recover, Rest, Artifacts
  <2>2. proc'[p].pc = pc
    BY <1>1, <2>1 DEF Next1, Goto, Proc, RotationInv, TypeOK
  <2>3. crashes = 0 => Rotating(proc[p])'
    BY <2>1, <2>2 DEF Rotating
  <2> QED BY <1>1, <1>3, <1>4, <2>1, <2>3, HolderAdvances DEF Recover
<1>5. CASE Read(p) /\ Release(p, proc[p].cached)
  <2>1. crashes = 0 => Rest'
    BY <1>2, <1>5 DEF Read, Rest
  <2> QED BY <1>1, <1>3, <1>5, <2>1, HolderReleases, CachedType DEF RotationInv
<1>6. CASE Read(p) /\ ~Release(p, proc[p].cached)
  <2>1. PICK k \in FreshKeys : Goto(p, [proc[p] EXCEPT !.pc = "stage", !.new = k])
    BY <1>6 DEF Read
  <2> DEFINE r == [proc[p] EXCEPT !.pc = "stage", !.new = k]
  <2>2. r.pc = "stage" /\ r.new \in Keys /\ r.cached = proc[p].cached /\ proc'[p] = r
    BY <1>1, <2>1 DEF Proc, FreshKeys, Goto, RotationInv, TypeOK
  <2>3. lock' = p /\ (p \in Writers => r.cached = NoKey)
    BY <1>1, <1>6, <2>2 DEF Read, WriteInv, Forgetful
  <2> HIDE DEF r
  <2>4. crashes = 0 => Rotating(proc[p])'
    BY <1>2, <1>6, <2>2 DEF Rotating, Rest, Read
  <2> QED BY <1>1, <1>3, <2>1, <2>2, <2>3, <2>4, HolderStep DEF r
<1> QED BY <1>4, <1>5, <1>6

\* Once something has crashed, only the memory of the writers is at stake.
LEMMA WriteVacuous ==
  ASSUME RotationInv, WriteInv, NEW p \in Procs, NEW r, Goto(p, r), crashes' # 0,
         r.pc # "set", p \in Writers => r.cached = NoKey
  PROVE  WriteInv'
<1>1. proc'[p] = r /\ \A q \in Procs \ {p} : proc'[q] = proc[q]
  BY DEF Goto, RotationInv, TypeOK
<1> QED BY <1>1 DEF WriteInv, Forgetful, At

LEMMA WriteRepairs ==
  ASSUME RotationInv, WriteInv, NEW p \in Procs, LongLived \cap Writers = {},
         Refuse(p) \/ Probe(p) \/ Sweep(p) \/ Crash(p)
  PROVE  WriteInv'
<1>1. proc[p] \in Proc /\ (p \in Writers => proc[p].cached = NoKey)
  BY CachedType DEF RotationInv, WriteInv, Forgetful
<1>2. CASE Crash(p)
  <2>1. crashes' # 0 /\ Goto(p, Idle(NoKey))
    BY <1>2 DEF Crash, RotationInv, TypeOK
  <2> QED BY <2>1, WriteVacuous DEF Idle
<1>3. CASE Refuse(p) \/ Probe(p) \/ Sweep(p)
  <2>1. lock = p /\ proc[p].pc \in {"probe", "sweep"}
    BY <1>3, LockedIsHeld DEF Refuse, Probe, Sweep, At, RotationInv, Locked, Pcs
  <2>2. crashes' # 0
    BY <1>3, <2>1 DEF WriteInv, Rotating, Refuse, Probe, Sweep
  <2>3. CASE Refuse(p)
    BY <1>1, <2>2, <2>3, WriteVacuous DEF Refuse, Release, Done, Idle
  <2>4. CASE Probe(p)
    <3>1. PICK r : Goto(p, r) /\ r.cached = proc[p].cached /\ r.pc # "set"
      <4>1. Decide \in {"sweep", "read", "forward", "rollback", "rollbackstore"}
        BY DEF Decide
      <4>2. CASE \E pc \in {"sweep", "read"} : Next1(p, pc)
        BY <1>1, <4>2 DEF Next1, Proc
      <4>3. CASE \E src \in {"new", "old"} :
                   Goto(p, [proc[p] EXCEPT !.pc = "dropkey", !.source = src])
        <5>1. PICK src \in {"new", "old"} :
                Goto(p, [proc[p] EXCEPT !.pc = "dropkey", !.source = src])
          BY <4>3
        <5> DEFINE r == [proc[p] EXCEPT !.pc = "dropkey", !.source = src]
        <5>2. r.cached = proc[p].cached /\ r.pc # "set" /\ Goto(p, r)
          BY <1>1, <5>1 DEF Proc
        <5> HIDE DEF r
        <5> QED BY <5>2
      <4> QED BY <2>4, <4>1, <4>2, <4>3 DEF Probe
    <3> QED BY <1>1, <2>2, <3>1, WriteVacuous
  <2>5. CASE Sweep(p)
    <3>1. PICK r : Goto(p, r) /\ r.cached = proc[p].cached /\ r.pc # "set"
      BY <1>1, <2>1, <2>5 DEF Sweep, Next1, Proc, Goto, RotationInv, TypeOK
    <3> QED BY <1>1, <2>2, <3>1, WriteVacuous
  <2> QED BY <1>3, <2>3, <2>4, <2>5
<1> QED BY <1>2, <1>3

-----------------------------------------------------------------------------
(* Beside a rotation: gets, the directory a set creates, commands that end *)
(* or begin.  None of them disturbs what the holder of the lock relies on. *)
LEMMA BesideHolder ==
  ASSUME RotationInv, WriteInv, NEW p \in Procs, lock # p, NEW r, Goto(p, r),
         UNCHANGED <<stage, bak, keyNew, keyOld, lock, truth, crashes>>,
         \/ UNCHANGED <<store, key>>
         \/ UNCHANGED store /\ (key # NoKey => key' = key)
         \/ UNCHANGED key /\ store' = IF store = NoDir THEN Empty ELSE store,
         r.pc = "set" => p \in Writers, p \in Writers => r.cached = NoKey
  PROVE  WriteInv'
<1>1. proc'[p] = r /\ \A q \in Procs \ {p} : proc'[q] = proc[q]
  BY DEF Goto, RotationInv, TypeOK
<1>2. Forgetful'
  BY <1>1 DEF WriteInv, Forgetful, At
<1>3. \A k, t : Holds(store, k, t) => store' = store
  BY EnsuredHolds
<1>4. \A d, t : Holds(d, key, t) => key' = key
  BY DEF Holds
<1>5. Rest => Rest'
  BY <1>3, <1>4 DEF Rest
<1>6. ASSUME crashes = 0, NEW q \in Procs, lock = q, Rotating(proc[q])
      PROVE  Rotating(proc[q])'
  <2>1. proc'[q] = proc[q]
    BY <1>1, <1>6
  <2>2. proc[q].new \in Keys => proc[q].new # NoKey
    BY ValueAssumption
  <2>3. proc[q].pc \in {"verify", "commit"} => key' = key
    BY <1>6, <2>2 DEF Rotating
  <2> QED BY <1>3, <1>4, <1>5, <1>6, <2>1, <2>3 DEF Rotating
<1> QED BY <1>2, <1>5, <1>6 DEF WriteInv

LEMMA WriteBeside ==
  ASSUME RotationInv, WriteInv, NEW p \in Procs, LongLived \cap Writers = {},
         \/ \E i \in Items : Get(p, i) \/ \E v \in Vals : SetBegin(p, i, v)
         \/ Leave(p) \/ \E dry \in BOOLEAN : RotateBegin(p, dry)
  PROVE  WriteInv'
<1>1. lock # p /\ proc[p] \in Proc /\ (p \in Writers => proc[p].cached = NoKey)
  BY OpenPcs, CachedType DEF Get, SetBegin, Leave, RotateBegin, At, RotationInv, WriteInv, Forgetful
<1>2. ASSUME NEW i \in Items, Get(p, i) PROVE WriteInv'
  <2>1. PICK k \in Passphrase(p) : key' = Provisioned(p, k) /\ Goto(p, Done(p, k))
    BY <1>2 DEF Get
  <2>2. key # NoKey => key' = key
    BY <2>1, KeyKept
  <2>3. Done(p, k).pc = "idle" /\ (p \in Writers => Done(p, k).cached = NoKey)
    BY DEF Done, Idle
  <2> QED BY <1>1, <1>2, <2>1, <2>2, <2>3, BesideHolder DEF Get
<1>3. ASSUME NEW i \in Items, NEW v \in Vals, SetBegin(p, i, v) PROVE WriteInv'
  <2> DEFINE r == [proc[p] EXCEPT !.pc = "set", !.item = i, !.val = v]
  <2>1. r.pc = "set" /\ r.cached = proc[p].cached
    BY <1>1 DEF Proc
  <2>2. Goto(p, r) /\ p \in Writers
    BY <1>3 DEF SetBegin
  <2> HIDE DEF r
  <2> QED BY <1>1, <1>3, <2>1, <2>2, BesideHolder DEF SetBegin
<1>4. CASE Leave(p)
  BY <1>1, <1>4, BesideHolder DEF Leave, Idle
<1>5. ASSUME NEW dry \in BOOLEAN, RotateBegin(p, dry) PROVE WriteInv'
  <2> DEFINE r == [proc[p] EXCEPT !.pc = "rotate", !.dry = dry]
  <2>1. r.pc = "rotate" /\ r.cached = proc[p].cached
    BY <1>1 DEF Proc
  <2> HIDE DEF r
  <2> QED BY <1>1, <1>5, <2>1, BesideHolder DEF RotateBegin, r
<1> QED BY <1>2, <1>3, <1>4, <1>5

\* A set or a delete finds the store at rest and leaves it so.
LEMMA WriteAtRest ==
  ASSUME RotationInv, WriteInv, NEW p \in Procs, LongLived \cap Writers = {},
         SetWrite(p) \/ \E i \in Items : Delete(p, i)
  PROVE  WriteInv'
<1>1. lock = NoProc /\ lock' = NoProc /\ NoProc \notin Procs /\ crashes' = crashes
  BY ValueAssumption DEF SetWrite, Delete
<1>2. crashes = 0 => Rest
  BY <1>1 DEF WriteInv
<1>3. store \in Dir \cup {NoDir} /\ truth \in [Items -> Vals \cup {NoVal}]
  BY DEF RotationInv, TypeOK
<1>4. CASE SetWrite(p)
  <2>1. PICK k \in Passphrase(p) :
          LET i == proc[p].item IN
          /\ key' = Provisioned(p, k) /\ Goto(p, Done(p, k))
          /\ IF store = NoDir THEN UNCHANGED <<store, truth>>
             ELSE /\ store' = [store EXCEPT ![i] = [key |-> k, val |-> proc[p].val]]
                  /\ truth' = [truth EXCEPT ![i] = proc[p].val]
    BY <1>4 DEF SetWrite
  <2> DEFINE i == proc[p].item
             f == [key |-> k, val |-> proc[p].val]
  <2>2. /\ p \in Writers /\ proc[p].cached = NoKey /\ k \in Keys
        /\ i \in Items /\ proc[p].val \in Vals
    BY <1>4, PassphraseType DEF SetWrite, WriteInv, Forgetful, RotationInv, PhaseOK
  <2>3. Done(p, k).pc = "idle" /\ Done(p, k).cached = NoKey
    BY <2>2 DEF Done, Idle
  <2>4. ASSUME crashes = 0 PROVE Rest'
    <3>1. key # NoKey /\ store # NoDir /\ Holds(store, key, truth) /\ store \in Dir
      BY <1>2, <1>3, <2>4 DEF Rest, Holds
    <3>2. k = key /\ key' = key
      BY <2>1, <2>2, <3>1, KeyKept DEF Passphrase
    <3>3. f # NoFile /\ f.key = key /\ f.val = proc[p].val
      BY <2>2, <3>2, ValueAssumption
    <3>4. store' = [store EXCEPT ![i] = f] /\ truth' = [truth EXCEPT ![i] = proc[p].val]
      BY <2>1, <3>1
    <3>5. store' \in [Items -> File \cup {NoFile}] /\ store' # NoDir
      <4>1. f \in File
        BY <2>2 DEF File
      <4> HIDE DEF f
      <4>2. store' \in Dir
        BY <3>1, <3>4, <4>1 DEF Dir
      <4> QED BY <4>2, DirFacts DEF Dir
    <3> HIDE DEF f, i
    <3>6. ASSUME NEW j \in Items, truth'[j] # NoVal
          PROVE  j \in Has(store') /\ store'[j].key = key /\ store'[j].val = truth'[j]
      <4>1. CASE j = i
        BY <1>3, <2>2, <3>1, <3>3, <3>4, <3>5, <4>1 DEF Has, Dir
      <4>2. CASE j # i
        BY <1>3, <3>1, <3>4, <3>5, <3>6, <4>2 DEF Has, Dir, Holds
      <4> QED BY <4>1, <4>2
    <3>7. Holds(store', key', truth')
      BY <3>1, <3>2, <3>5, <3>6 DEF Holds
    <3> QED BY <1>2, <1>4, <2>4, <3>7 DEF Rest, SetWrite
  <2>5. proc'[p] = Done(p, k) /\ \A q \in Procs \ {p} : proc'[q] = proc[q]
    BY <2>1 DEF Goto, RotationInv, TypeOK
  <2> QED BY <1>1, <2>3, <2>4, <2>5 DEF WriteInv, Forgetful, At
<1>5. ASSUME NEW i \in Items, Delete(p, i) PROVE WriteInv'
  <2>1. ASSUME crashes = 0 PROVE Rest'
    <3>1. Holds(store, key, truth) /\ store \in Dir
      BY <1>2, <1>3, <2>1 DEF Rest, Holds
    <3>2. store' = [store EXCEPT ![i] = NoFile] /\ truth' = [truth EXCEPT ![i] = NoVal]
      BY <1>5 DEF Delete
    <3>3. store' \in Dir /\ store' # NoDir
      BY <3>1, <3>2, DirFacts DEF Dir
    <3>4. ASSUME NEW j \in Items, truth'[j] # NoVal
          PROVE  j \in Has(store') /\ store'[j].key = key /\ store'[j].val = truth'[j]
      BY <1>3, <3>1, <3>2, <3>3, <3>4 DEF Has, Dir, Holds
    <3>5. Holds(store', key, truth')
      BY <3>1, <3>3, <3>4 DEF Holds
    <3> QED BY <1>2, <1>5, <2>1, <3>5 DEF Rest, Delete
  <2> QED BY <1>1, <1>5, <2>1 DEF WriteInv, Forgetful, At, Delete
<1> QED BY <1>4, <1>5

LEMMA WriteLocks ==
  ASSUME RotationInv, WriteInv, NEW p \in Procs, RotateLocked(p), LongLived \cap Writers = {}
  PROVE  WriteInv'
<1>1. /\ lock = NoProc /\ NoProc \notin Procs /\ proc[p] \in Proc
      /\ UNCHANGED <<store, stage, bak, key, keyNew, keyOld, truth, crashes>>
  BY ValueAssumption, CachedType DEF RotateLocked, RotationInv
<1>2. crashes = 0 => Rest /\ Rest'
  BY <1>1 DEF WriteInv, Rest
<1>3. CASE lock' = p /\ Next1(p, "recover")
  <2>1. /\ proc'[p].pc = "recover" /\ proc'[p].cached = proc[p].cached
        /\ \A q \in Procs \ {p} : proc'[q] = proc[q]
    BY <1>1, <1>3 DEF Next1, Goto, Proc, RotationInv, TypeOK
  <2>2. crashes = 0 => Rotating(proc[p])'
    BY <1>2, <2>1 DEF Rotating
  <2> QED BY <1>1, <1>3, <2>1, <2>2 DEF WriteInv, Forgetful, At
<1>4. CASE Release(p, proc[p].cached)
  <2>1. /\ lock' = NoProc /\ proc'[p].pc = "idle" /\ (p \in Writers => proc'[p].cached = NoKey)
        /\ \A q \in Procs \ {p} : proc'[q] = proc[q]
    BY <1>4 DEF Release, Goto, Done, Idle, RotationInv, TypeOK
  <2> QED BY <1>1, <1>2, <2>1 DEF WriteInv, Forgetful, At
<1> QED BY <1>3, <1>4 DEF RotateLocked

LEMMA WriteInit == Init => WriteInv
<1> SUFFICES ASSUME Init PROVE WriteInv
  OBVIOUS
<1>1. PICK k \in Keys, lost \in Keys, v \in Vals, live \in SUBSET Items, orphans \in SUBSET Items :
        /\ k # lost /\ live # {} /\ live \cap orphans = {}
        /\ store = [i \in Items |-> IF i \in live THEN [key |-> k, val |-> v]
                                    ELSE IF i \in orphans THEN [key |-> lost, val |-> v]
                                    ELSE NoFile]
        /\ truth = [i \in Items |-> IF i \in live THEN v ELSE NoVal]
        /\ key = k
  BY DEF Init
<1>2. store # NoDir /\ key # NoKey /\ [key |-> k, val |-> v] # NoFile
  <2>1. store \in Dir /\ [key |-> k, val |-> v] \in File
    BY <1>1 DEF Dir, File
  <2> QED BY <1>1, <2>1, DirFacts, ValueAssumption
<1>3. Holds(store, key, truth)
  BY <1>1, <1>2 DEF Holds, Has
<1>4. Forgetful
  BY DEF Init, Forgetful, At, Idle
<1>5. lock = NoProc /\ NoProc \notin Procs
  BY ValueAssumption DEF Init
<1> QED BY <1>3, <1>4, <1>5 DEF Init, WriteInv, Rest

LEMMA WriteNext ==
  ASSUME LongLived \cap Writers = {}, RotationInv, WriteInv, [Next]_vars
  PROVE  WriteInv'
<1>1. ASSUME NEW p \in Procs, Recovery(p) PROVE WriteInv'
  BY <1>1, WriteLocks, WriteRead, WriteRepairs, WriteEnd DEF Recovery
<1>2. ASSUME NEW p \in Procs, Rekey(p) PROVE WriteInv'
  BY <1>2, WriteRead, WriteSwap, WriteEnd DEF Rekey
<1>3. ASSUME NEW p \in Procs, NEW i \in Items,
             Get(p, i) \/ Delete(p, i) \/ \E v \in Vals : SetBegin(p, i, v)
      PROVE WriteInv'
  BY <1>3, WriteBeside, WriteAtRest
<1>4. ASSUME NEW p \in Procs,
             SetWrite(p) \/ Leave(p) \/ (\E dry \in BOOLEAN : RotateBegin(p, dry)) \/ Crash(p)
      PROVE WriteInv'
  BY <1>4, WriteAtRest, WriteBeside, WriteRepairs
<1>5. CASE UNCHANGED vars
  BY <1>5 DEF vars, WriteInv, Forgetful, At, Rest, Rotating
<1> QED BY <1>1, <1>2, <1>3, <1>4, <1>5 DEF Next, Rotation

LEMMA WriteInvariant ==
  ASSUME LongLived \cap Writers = {}
  PROVE  Spec => []WriteInv
BY WriteInit, WriteNext, InvariantHolds, PTL DEF Spec

\* Whatever sets, deletes, gets and rotations run beside each other, a failed
\* read-back included, no write is lost while none of them crashes.  A
\* long-lived process may read and rotate, but not set: it would seal its next
\* item under the passphrase it cached before another process rotated.
THEOREM WritesSafe ==
  ASSUME LongLived \cap Writers = {}
  PROVE  Spec => []WritesSurvive
<1>1. RotationInv /\ WriteInv => WritesSurvive
  <2> SUFFICES ASSUME RotationInv, WriteInv, crashes = 0 PROVE NothingLost
    BY DEF WritesSurvive
  <2>1. \A k : k # NoKey /\ k \in {key, keyNew, keyOld} => k \in Candidates
    BY DEF Candidates
  <2>2. \A d, k : Holds(d, k, truth) => k # NoKey
    BY DEF Holds
  <2>3. CASE lock = NoProc
    BY <2>1, <2>2, <2>3, HeldIsRecoverable DEF WriteInv, Rest
  <2>4. CASE lock # NoProc
    <3>1. PICK p \in Procs : lock = p
      BY <2>4 DEF RotationInv, TypeOK
    <3>2. Rotating(proc[p]) /\ proc[p].pc \in Locked
      BY <3>1, LockedIsHeld DEF WriteInv, RotationInv
    <3>3. \/ Holds(store, key, truth) \/ Holds(bak, key, truth)
          \/ Holds(bak, keyOld, truth) \/ Holds(store, keyOld, truth)
      BY <3>2 DEF Rotating, Rest, Locked, Pcs
    <3> QED BY <2>1, <2>2, <3>3, HeldIsRecoverable
  <2> QED BY <2>3, <2>4
<1> QED BY <1>1, InvariantHolds, WriteInvariant, PTL

\* When no command holds the store lock and none has crashed, every secret in
\* the store opens under the key file: no set leaves an item sealed under the
\* key of before a rotation, and no rotation leaves one behind.
THEOREM StoreUnmixed ==
  ASSUME LongLived \cap Writers = {}
  PROVE  Spec => []NoMixedStore
<1>1. WriteInv => NoMixedStore
  BY DEF WriteInv, Rest, NoMixedStore, Holds, Has, Opens
<1> QED BY <1>1, WriteInvariant, PTL
-----------------------------------------------------------------------------
(* Which keys are in use.  A step only ever brings a fresh one into use,   *)
(* and only a rotation's staging and a set seal files.                     *)

Active == (Candidates \cup {proc[p].cached : p \in Procs} \cup {proc[p].new : p \in Procs})
          \ {NoKey}

OnlyFresh == Active' \subseteq Active \cup FreshKeys

\* Every directory is one of those there were, or empty.
DirsMove == {store', stage', bak'} \subseteq {store, stage, bak, NoDir, Empty}

LEMMA ActiveKeys ==
  ASSUME NEW p \in Procs
  PROVE  {key, keyNew, keyOld, proc[p].cached, proc[p].new} \subseteq Active \cup {NoKey}
BY DEF Active, Candidates

LEMMA FreshStep ==
  ASSUME RotationInv, NEW p \in Procs, NEW r, Goto(p, r),
         {r.cached, r.new, key', keyNew', keyOld'} \subseteq Active \cup FreshKeys \cup {NoKey}
  PROVE  OnlyFresh
<1>1. proc'[p] = r /\ \A q \in Procs \ {p} : proc'[q] = proc[q]
  BY DEF Goto, RotationInv, TypeOK
<1>2. \A q \in Procs : {proc'[q].cached, proc'[q].new} \subseteq Active \cup FreshKeys \cup {NoKey}
  BY <1>1 DEF Active
<1> QED BY <1>2 DEF OnlyFresh, Active, Candidates

LEMMA PassphraseKeys ==
  ASSUME NEW p \in Procs, NEW k \in Passphrase(p)
  PROVE  {k, Provisioned(p, k), Done(p, k).cached, Done(p, k).new}
           \subseteq Active \cup FreshKeys \cup {NoKey}
<1>1. k \in Active \cup FreshKeys \cup {NoKey}
  BY ActiveKeys DEF Passphrase
<1> QED BY <1>1, ActiveKeys DEF Provisioned, Done, Idle

LEMMA RotationFrame ==
  ASSUME RotationInv, NEW p \in Procs, Rotation(p)
  PROVE  /\ OnlyFresh /\ truth' = truth
         /\ StageStore(p) \/ DirsMove
<1> DEFINE known == Active \cup FreshKeys \cup {NoKey}
<1>1. proc[p] \in Proc /\ proc \in [Procs -> Proc]
  BY CachedType DEF RotationInv, TypeOK
<1>2. /\ {key, keyNew, keyOld, proc[p].cached, proc[p].new} \subseteq known /\ NoKey \in known
      /\ FreshKeys \subseteq known
  BY ActiveKeys
<1>3. truth' = truth
  BY DEF Rotation, Recovery, Rekey, RotateLocked, Recover, Refuse, Probe, DropKey, InstallKey,
     Sweep, Read, StageStore, StageKey, MoveAside, SwapStore, SetOldKeyAside, SwapKey, Verify,
     Undo, Commit
<1>4. {key', keyNew', keyOld'} \subseteq known
  <2> HIDE DEF known
  <2> QED BY <1>2 DEF Rotation, Recovery, Rekey, RotateLocked, Recover, Refuse, Probe, DropKey,
     InstallKey, Sweep, Read, StageStore, StageKey, MoveAside, SwapStore, SetOldKeyAside, SwapKey,
     Verify, Undo, Commit
<1>5. StageStore(p) \/ DirsMove
  <2>1. SUFFICES ASSUME ~StageStore(p) PROVE DirsMove
    OBVIOUS
  <2>2. CASE Recovery(p)
    <3>1. Probe(p) => DirsMove
      <4>1. Decide \in {"sweep", "read", "forward", "rollback", "rollbackstore"}
        BY DEF Decide
      <4> QED BY <4>1 DEF Probe, DirsMove
    <3> QED BY <2>2, <3>1 DEF Recovery, RotateLocked, Recover, Refuse, DropKey, InstallKey, Sweep,
          DirsMove
  <2>3. CASE Rekey(p)
    BY <2>1, <2>3 DEF Rekey, Read, StageKey, MoveAside, SwapStore, SetOldKeyAside, SwapKey, Verify,
       Undo, Commit, DirsMove
  <2> QED BY <2>2, <2>3 DEF Rotation
<1>6. PICK r : Goto(p, r) /\ r.cached \in known /\ r.new \in known
  <2> HIDE DEF known
  <2>1. \A k \in known : Done(p, k).cached \in known /\ Done(p, k).new \in known
    BY <1>2 DEF Done, Idle
  <2>2. CASE UNCHANGED proc
    <3>1. Goto(p, proc[p])
      BY <1>1, <2>2 DEF Goto
    <3> QED BY <1>2, <3>1
  <2>3. CASE \E pc \in Pcs : Next1(p, pc)
    BY <1>1, <1>2, <2>3 DEF Next1, Proc
  <2>4. CASE \E k \in known : Goto(p, Done(p, k))
    BY <2>1, <2>4
  <2>5. CASE \E pc \in Pcs, src \in {"none", "new", "old"} :
               Goto(p, [proc[p] EXCEPT !.pc = pc, !.source = src])
    <3>1. PICK pc \in Pcs, src \in {"none", "new", "old"} :
            Goto(p, [proc[p] EXCEPT !.pc = pc, !.source = src])
      BY <2>5
    <3> DEFINE r == [proc[p] EXCEPT !.pc = pc, !.source = src]
    <3>2. r.new = proc[p].new /\ r.cached = proc[p].cached /\ Goto(p, r)
      BY <1>1, <3>1 DEF Proc
    <3> HIDE DEF r
    <3> QED BY <1>2, <3>2
  <2>6. CASE \E k \in FreshKeys : Goto(p, [proc[p] EXCEPT !.pc = "stage", !.new = k])
    <3>1. PICK k \in FreshKeys : Goto(p, [proc[p] EXCEPT !.pc = "stage", !.new = k])
      BY <2>6
    <3> DEFINE r == [proc[p] EXCEPT !.pc = "stage", !.new = k]
    <3>2. r.new = k /\ r.cached = proc[p].cached /\ Goto(p, r)
      BY <1>1, <3>1 DEF Proc
    <3> HIDE DEF r
    <3> QED BY <1>2, <3>1, <3>2
  <2>7. CASE Goto(p, [proc[p] EXCEPT !.pc = "dropkey", !.source = "old", !.undo = TRUE])
    <3> DEFINE r == [proc[p] EXCEPT !.pc = "dropkey", !.source = "old", !.undo = TRUE]
    <3>1. r.new = proc[p].new /\ r.cached = proc[p].cached /\ Goto(p, r)
      BY <1>1, <2>7 DEF Proc
    <3> HIDE DEF r
    <3> QED BY <1>2, <3>1
  <2>8. CASE Recovery(p)
    <3>1. Probe(p) => \/ \E pc \in Pcs : Next1(p, pc)
                      \/ \E pc \in Pcs, src \in {"none", "new", "old"} :
                            Goto(p, [proc[p] EXCEPT !.pc = pc, !.source = src])
      <4>1. Decide \in {"sweep", "read", "forward", "rollback", "rollbackstore"}
        BY DEF Decide
      <4> QED BY <4>1 DEF Probe, Pcs
    <3> QED BY <1>2, <2>2, <2>3, <2>4, <2>5, <2>8, <3>1 DEF Recovery, RotateLocked, Recover,
          Refuse, DropKey, InstallKey, Sweep, Release, Pcs
  <2>9. CASE Rekey(p)
    BY <1>2, <2>2, <2>3, <2>4, <2>6, <2>7, <2>9 DEF Rekey, Read, StageStore, StageKey, MoveAside,
       SwapStore, SetOldKeyAside, SwapKey, Verify, Undo, Commit, Release, Pcs
  <2> QED BY <2>8, <2>9 DEF Rotation
<1> QED BY <1>3, <1>4, <1>5, <1>6, FreshStep

\* What a process without the lock leaves alone.
Beside ==
    /\ UNCHANGED <<stage, bak, keyNew, keyOld, lock, crashes>>
    /\ \A q \in Procs : lock = q => proc'[q] = proc[q]

LEMMA BesideStep ==
  ASSUME RotationInv, NEW p \in Procs, lock # p, NEW r, Goto(p, r),
         {r.cached, r.new} \subseteq Active \cup FreshKeys \cup {NoKey},
         UNCHANGED <<stage, bak, keyNew, keyOld, lock, crashes>>,
         key' \in {key} \cup FreshKeys
  PROVE  OnlyFresh /\ Beside
<1>1. {key', keyNew', keyOld'} \subseteq Active \cup FreshKeys \cup {NoKey}
  BY ActiveKeys
<1>2. Beside
  BY DEF Beside, Goto, RotationInv, TypeOK
<1> QED BY <1>1, <1>2, FreshStep

\* Gets, the directory a set creates, and commands that end or begin.
LEMMA OpenFrame ==
  ASSUME RotationInv, NEW p \in Procs,
         \/ \E i \in Items : Get(p, i) \/ \E v \in Vals : SetBegin(p, i, v)
         \/ Leave(p) \/ \E dry \in BOOLEAN : RotateBegin(p, dry)
  PROVE  /\ OnlyFresh /\ Beside /\ truth' = truth
         /\ key' \in {key} \cup FreshKeys
         /\ store' = store \/ (store = NoDir /\ store' = Empty)
<1> DEFINE known == Active \cup FreshKeys \cup {NoKey}
<1>1. proc[p] \in Proc /\ lock # p
  BY CachedType, OpenPcs DEF RotationInv, Get, SetBegin, Leave, RotateBegin, At
<1>2. {proc[p].cached, proc[p].new} \subseteq known /\ NoKey \in known
  BY ActiveKeys
<1>3. /\ UNCHANGED <<stage, bak, keyNew, keyOld, lock, truth, crashes>>
      /\ store' = store \/ (store = NoDir /\ store' = Empty)
  BY DEF Get, SetBegin, Leave, RotateBegin
<1>4. key' \in {key} \cup FreshKeys
  BY DEF Get, SetBegin, Leave, RotateBegin, Provisioned, Passphrase
<1>5. PICK r : Goto(p, r) /\ {r.cached, r.new} \subseteq known
  <2>1. ASSUME NEW i \in Items, Get(p, i)
        PROVE  \E r : Goto(p, r) /\ {r.cached, r.new} \subseteq known
    <3>1. PICK k \in Passphrase(p) : Goto(p, Done(p, k))
      BY <2>1 DEF Get
    <3> QED BY <3>1, PassphraseKeys
  <2>2. ASSUME NEW i \in Items, NEW v \in Vals, SetBegin(p, i, v)
        PROVE  \E r : Goto(p, r) /\ {r.cached, r.new} \subseteq known
    <3> DEFINE r == [proc[p] EXCEPT !.pc = "set", !.item = i, !.val = v]
    <3>1. r.cached = proc[p].cached /\ r.new = proc[p].new /\ Goto(p, r)
      BY <1>1, <2>2 DEF Proc, SetBegin
    <3> HIDE DEF r, known
    <3> QED BY <1>2, <3>1
  <2>3. CASE Leave(p)
    BY <1>2, <2>3 DEF Leave, Idle
  <2>4. ASSUME NEW dry \in BOOLEAN, RotateBegin(p, dry)
        PROVE  \E r : Goto(p, r) /\ {r.cached, r.new} \subseteq known
    <3> DEFINE r == [proc[p] EXCEPT !.pc = "rotate", !.dry = dry]
    <3>1. r.cached = proc[p].cached /\ r.new = proc[p].new /\ Goto(p, r)
      BY <1>1, <2>4 DEF Proc, RotateBegin
    <3> HIDE DEF r, known
    <3> QED BY <1>2, <3>1
  <2> QED BY <2>1, <2>2, <2>3, <2>4
<1> QED BY <1>1, <1>3, <1>4, <1>5, BesideStep

\* A set, and a delete.
LEMMA WriteFrame ==
  ASSUME RotationInv, NEW p \in Procs, SetWrite(p) \/ \E i \in Items : Delete(p, i)
  PROVE  /\ OnlyFresh /\ Beside /\ lock = NoProc /\ NoProc \notin Procs
         /\ store' = NoDir <=> store = NoDir
         /\ \A i \in Has(store') : truth'[i] = NoVal =>
              truth[i] = NoVal /\ i \in Has(store) /\ store'[i].key = store[i].key
<1>1. lock = NoProc /\ NoProc \notin Procs
  BY ValueAssumption DEF SetWrite, Delete
<1>2. truth \in [Items -> Vals \cup {NoVal}] /\ store \in Dir \cup {NoDir} /\ NoDir \notin Dir
  BY DirFacts DEF RotationInv, TypeOK
<1>3. CASE SetWrite(p)
  <2> DEFINE i == proc[p].item
  <2>1. PICK k \in Passphrase(p) :
          /\ key' = Provisioned(p, k) /\ Goto(p, Done(p, k))
          /\ IF store = NoDir THEN UNCHANGED <<store, truth>>
             ELSE /\ store' = [store EXCEPT ![i] = [key |-> k, val |-> proc[p].val]]
                  /\ truth' = [truth EXCEPT ![i] = proc[p].val]
    BY <1>3 DEF SetWrite
  <2>2. UNCHANGED <<stage, bak, keyNew, keyOld, lock, crashes>> /\ lock # p
    BY <1>1, <1>3 DEF SetWrite
  <2>3. OnlyFresh /\ Beside
    <3> DEFINE r == Done(p, k)
    <3>1. {r.cached, r.new} \subseteq Active \cup FreshKeys \cup {NoKey} /\ Goto(p, r)
      BY <2>1, PassphraseKeys
    <3>2. key' \in {key} \cup FreshKeys
      BY <2>1 DEF Provisioned, Passphrase
    <3> HIDE DEF r
    <3> QED BY <2>2, <3>1, <3>2, BesideStep
  <2>4. i \in Items /\ proc[p].val # NoVal
    BY <1>3, ValueAssumption DEF SetWrite, RotationInv, PhaseOK
  <2>5. CASE store = NoDir
    BY <1>1, <2>1, <2>3, <2>5 DEF Has
  <2>6. CASE store # NoDir
    <3> HIDE DEF i
    <3>1. /\ store \in Dir /\ store' = [store EXCEPT ![i] = [key |-> k, val |-> proc[p].val]]
          /\ truth' = [truth EXCEPT ![i] = proc[p].val]
      BY <1>2, <2>1, <2>6
    <3>2. DOMAIN store = Items /\ store' # NoDir
      <4>1. [key |-> k, val |-> proc[p].val] \in File
        BY <1>3, PassphraseType DEF SetWrite, RotationInv, PhaseOK, File
      <4>2. store' \in Dir
        BY <3>1, <4>1 DEF Dir
      <4> QED BY <1>2, <3>1, <4>2 DEF Dir
    <3>3. ASSUME NEW j \in Has(store'), truth'[j] = NoVal
          PROVE  truth[j] = NoVal /\ j \in Has(store) /\ store'[j].key = store[j].key
      <4>1. j \in Items /\ store'[j] # NoFile
        BY <3>2, <3>3 DEF Has
      <4>2. j # i
        BY <1>2, <2>4, <3>1, <3>3, <4>1
      <4>3. truth[j] = NoVal /\ store'[j] = store[j]
        BY <1>2, <3>1, <3>2, <3>3, <4>1, <4>2
      <4> QED BY <2>6, <4>1, <4>3 DEF Has
    <3> QED BY <1>1, <2>3, <2>6, <3>2, <3>3
  <2> QED BY <2>5, <2>6
<1>4. CASE \E i \in Items : Delete(p, i)
  <2>1. PICK i \in Items : Delete(p, i)
    BY <1>4
  <2>2. /\ store \in Dir /\ store' = [store EXCEPT ![i] = NoFile]
        /\ truth' = [truth EXCEPT ![i] = NoVal]
        /\ UNCHANGED <<stage, bak, key, keyNew, keyOld, proc, lock, crashes>>
    BY <1>2, <2>1 DEF Delete, Has
  <2>3. store' \in Dir /\ store' # NoDir /\ store # NoDir
    BY <1>2, <2>2 DEF Dir
  <2>4. OnlyFresh /\ Beside
    BY <2>2 DEF OnlyFresh, Active, Candidates, Beside
  <2>5. ASSUME NEW j \in Has(store'), truth'[j] = NoVal
        PROVE  truth[j] = NoVal /\ j \in Has(store) /\ store'[j].key = store[j].key
    <3>1. j \in Items /\ store'[j] # NoFile
      BY <2>3, <2>5 DEF Has
    <3>2. j # i /\ store'[j] = store[j]
      BY <2>2, <3>1 DEF Dir
    <3> QED BY <1>2, <2>2, <2>3, <2>5, <3>1, <3>2 DEF Has
  <2> QED BY <1>1, <2>3, <2>4, <2>5
<1> QED BY <1>3, <1>4

LEMMA CrashFrame ==
  ASSUME RotationInv, NEW p \in Procs, Crash(p)
  PROVE  /\ OnlyFresh /\ truth' = truth
         /\ \/ /\ store \in Dir /\ proc[p].new \in Keys
               /\ stage' \in Torn(Rekeyed(p)) /\ UNCHANGED <<store, bak>>
            \/ /\ store' \in {store, NoDir} \cup Torn(store)
               /\ stage' \in {stage} \cup Torn(stage) /\ bak' \in {bak} \cup Torn(bak)
<1>1. /\ CrashDisk(p) /\ Goto(p, Idle(NoKey)) /\ UNCHANGED <<key, keyNew, keyOld, truth>>
      /\ Idle(NoKey).cached = NoKey /\ Idle(NoKey).new = NoKey
  BY DEF Crash, Idle
<1>2. OnlyFresh
  <2>1. {key, keyNew, keyOld} \subseteq Active \cup {NoKey}
    BY ActiveKeys
  <2> QED BY <1>1, <2>1, FreshStep
<1>3. CASE At(p, "stage")
  <2>1. store \in Dir /\ proc[p].new \in Keys
    BY <1>3 DEF RotationInv, PhaseOK
  <2> QED BY <1>1, <1>2, <1>3, <2>1 DEF CrashDisk, At
<1>4. CASE ~At(p, "stage")
  BY <1>1, <1>2, <1>4 DEF CrashDisk
<1> QED BY <1>3, <1>4

-----------------------------------------------------------------------------
(* With crashes, sets and failed read-backs.  A crash may leave any key     *)
(* file without a store and any store without a key file; what no step and *)
(* no crash does is to drop the last current copy of a secret, except the  *)
(* sweep beside a store directory that holds nothing.                      *)

\* The file of i in d is of the value in t and sealed under one of the keys C.
Current(d, i, C, t) == t[i] # NoVal /\ i \in Has(d) /\ d[i].key \in C /\ d[i].val = t[i]

\* What opens in d at all opens under k.
Only(d, C, k) == \A i \in Has(d) : d[i].key \in C => d[i].key = k

\* d is e re-keyed from old to k.
Pair(d, e, C, k, old) ==
    /\ Has(d) = Has(e) /\ Only(d, C, k) /\ Only(e, C, old)
    /\ \A i \in Has(d) : d[i].val = e[i].val /\ (d[i].key \in C <=> e[i].key \in C)

\* The store has a file for every current copy in the backup.
Covers == \A i \in Items : Current(bak, i, Candidates, truth) => i \in Has(store)

\* At any time: no key is in two key files; beside a backup, nothing in the
\* store is sealed under the old key; the backup is never ahead of the store;
\* a store under the staged key covers the backup.
DiskInv ==
    /\ (key # NoKey => key \notin {keyNew, keyOld}) /\ (keyNew # NoKey => keyNew # keyOld)
    /\ bak # NoDir /\ keyOld # NoKey => \A i \in Has(store) : store[i].key # keyOld
    /\ \A i \in Has(store) :
         Current(bak, i, Candidates, truth) => Current(store, i, Candidates, truth)
    /\ keyNew # NoKey /\ (\E i \in Has(store) : store[i].key = keyNew) => Covers

\* What the holder's next step relies on.
Sparing(r) ==
    LET at(pcs) == r.pc \in pcs
        bare == bak = NoDir /\ keyNew = NoKey /\ keyOld = NoKey
    IN
    /\ at({"sweep"}) => Has(store) = {} \/ (Only(store, Candidates, key) /\ Covers)
    /\ at({"dropkey", "installkey"}) /\ r.source = "new" => Only(store, Candidates, keyNew) /\ Covers
    /\ at({"dropkey", "installkey"}) /\ r.source # "new" => Only(store, Candidates, keyOld) /\ bak = NoDir
    /\ at({"read"}) => bare \/ Staged = {}
    /\ at({"stage", "stagekey"}) => /\ bare /\ r.new # NoKey
                                    /\ r.new \notin KeysOf(store) \cup Candidates
    /\ at({"stagekey"}) => Pair(stage, store, Candidates \cup {r.new}, r.new, key)
    /\ at({"aside"}) => Pair(stage, store, Candidates, keyNew, key) /\ bak = NoDir
    /\ at({"swap"}) => Pair(stage, bak, Candidates, keyNew, key) /\ Has(store) = {}
    /\ at({"oldkey"}) => Pair(store, bak, Candidates, keyNew, key)
    /\ at({"aside", "swap", "oldkey"}) => keyNew # NoKey /\ keyOld = NoKey
    /\ at({"newkey"}) => Pair(store, bak, Candidates, keyNew, keyOld)
    /\ at({"verify", "undo"}) => Pair(store, bak, Candidates, key, keyOld) /\ keyNew = NoKey
    /\ at({"commit"}) /\ bak = NoDir => Only(store, Candidates, key)
    /\ at({"commit"}) /\ bak # NoDir => Pair(store, bak, Candidates, key, keyOld)

LossInv ==
    /\ Forgetful /\ DiskInv
    /\ \A p \in Procs : lock = p => Sparing(proc[p])

\* The step loses nothing, or it is the sweep beside an empty store.
Lossless ==
    \A i \in Items : Recoverable(i) /\ ~Recoverable(i)' =>
      \E p \in Procs : At(p, "sweep") /\ Has(store) = {}

LEMMA HasItems == \A d : Has(d) \subseteq Items
BY DEF Has

LEMMA RecoverableIs ==
  \A i \in Items : Recoverable(i) <=> \/ truth[i] = NoVal
                                      \/ Current(store, i, Candidates, truth)
                                      \/ Current(bak, i, Candidates, truth)
BY DEF Recoverable, Current

\* A step that touches neither the store, its backup nor a key file.
LEMMA DiskStill ==
  ASSUME DiskInv, UNCHANGED <<store, bak, key, keyNew, keyOld, truth>>
  PROVE  DiskInv' /\ Lossless
BY DEF DiskInv, Lossless, Recoverable, Covers, Current, Candidates

LEMMA LossStep ==
  ASSUME RotationInv, LossInv, NEW p \in Procs, lock = p, NEW r, Goto(p, r),
         r.pc # "set", p \in Writers => r.cached = NoKey, DiskInv',
         \/ lock' = p /\ Sparing(proc[p])'
         \/ lock' = NoProc
  PROVE  LossInv'
<1>1. proc'[p] = r /\ \A q \in Procs \ {p} : proc'[q] = proc[q]
  BY DEF Goto, RotationInv, TypeOK
<1>2. NoProc \notin Procs
  BY ValueAssumption
<1>3. Forgetful'
  BY <1>1 DEF LossInv, Forgetful, At
<1> QED BY <1>1, <1>2, <1>3 DEF LossInv

LEMMA LossAdvances ==
  ASSUME RotationInv, LossInv, NEW p \in Procs, lock = p, NEW pc \in Locked, Next1(p, pc),
         lock' = lock, DiskInv', Sparing(proc[p])'
  PROVE  LossInv'
<1> DEFINE r == [proc[p] EXCEPT !.pc = pc]
<1>1. r.pc # "set" /\ r.cached = proc[p].cached /\ Goto(p, r)
  BY CachedType DEF RotationInv, Locked, Proc, Next1
<1> HIDE DEF r
<1> QED BY <1>1, LossStep DEF LossInv, Forgetful

LEMMA LossReleases ==
  ASSUME RotationInv, LossInv, NEW p \in Procs, lock = p, NEW k, Release(p, k),
         LongLived \cap Writers = {}, DiskInv'
  PROVE  LossInv'
<1> DEFINE r == Done(p, k)
<1>1. Goto(p, r) /\ lock' = NoProc /\ r.pc # "set" /\ (p \in Writers => r.cached = NoKey)
  BY DEF Release, Done, Idle
<1> HIDE DEF r
<1> QED BY <1>1, LossStep

\* A fresh key opens nothing.
LEMMA FreshOpensNothing ==
  ASSUME NEW k \in FreshKeys
  PROVE  /\ k # NoKey /\ k \notin Candidates
         /\ \A d \in {store, stage, bak} : \A i \in Has(d) : d[i].key # k
         /\ \A q \in Procs : proc[q].new # k
BY ValueAssumption DEF FreshKeys, UsedKeys, KeysOf

\* Beside the holder: the missing directory appears, or a key file where there
\* was none.
LEMMA LossBeside ==
  ASSUME RotationInv, LossInv, NEW p \in Procs, lock # p, NEW r, Goto(p, r),
         r.pc = "set" => p \in Writers, p \in Writers => r.cached = NoKey,
         UNCHANGED <<stage, bak, keyNew, keyOld, lock, truth>>,
         key' = key \/ (key = NoKey /\ key' \in FreshKeys),
         store' = store \/ (store = NoDir /\ store' = Empty)
  PROVE  LossInv' /\ Lossless
<1>1. proc'[p] = r /\ \A q \in Procs \ {p} : proc'[q] = proc[q]
  BY DEF Goto, RotationInv, TypeOK
<1>2. Forgetful'
  BY <1>1 DEF LossInv, Forgetful, At
<1>3. Has(store') = Has(store) /\ \A i \in Has(store) : store'[i] = store[i]
  BY DirFacts DEF Has
<1>4. /\ Candidates \subseteq Candidates'
      /\ \A d \in {store, stage, bak} : \A i \in Has(d) : d[i].key \in Candidates' <=> d[i].key \in Candidates
      /\ \A q \in Procs \ {p} : proc'[q].new \in Candidates' <=> proc[q].new \in Candidates
  BY <1>1, FreshOpensNothing DEF Candidates
<1>5. \A i \in Items : Current(store', i, Candidates', truth') <=> Current(store, i, Candidates, truth)
  BY <1>3, <1>4 DEF Current
<1>6. \A i \in Items : Current(bak', i, Candidates', truth') <=> Current(bak, i, Candidates, truth)
  BY <1>4 DEF Current
<1>7. Lossless
  BY <1>5, <1>6, RecoverableIs DEF Lossless, Recoverable, Current
<1>8. Covers' <=> Covers
  BY <1>3, <1>6 DEF Covers
<1>9. DiskInv'
  <2>1. DiskInv
    BY DEF LossInv
  <2>2. key' # NoKey => key' \notin {keyNew', keyOld'}
    BY <2>1, FreshOpensNothing DEF DiskInv, Candidates
  <2> QED BY <1>3, <1>5, <1>6, <1>8, <2>1, <2>2, HasItems DEF DiskInv
<1>10. ASSUME NEW q \in Procs, lock = q, Sparing(proc[q]) PROVE Sparing(proc[q])'
  <2>1. proc'[q] = proc[q] /\ q # p
    BY <1>1, <1>10
  <2>2. Staged = {} => Staged' = {}
    BY <1>3, FreshOpensNothing DEF Staged, Opens
  <2>3. KeysOf(store') = KeysOf(store)
    BY <1>3 DEF KeysOf
  <2>4. \A k : Only(store', Candidates', k) <=> Only(store, Candidates, k)
    BY <1>3, <1>4 DEF Only
  <2>5. \A k, old : Pair(store, bak, Candidates, k, old) => Pair(store', bak', Candidates', k, old)
    BY <1>3, <1>4 DEF Pair, Only
  <2>6. \A d \in {store, stage, bak} : Only(d, Candidates, key) => Only(d, Candidates', key')
    <3>1. key = NoKey => key \notin Candidates
      BY DEF Candidates
    <3> QED BY <1>4, <3>1 DEF Only
  <2>7. \A k : Pair(store, bak, Candidates, k, key) => Pair(store', bak', Candidates', k, key')
    BY <1>3, <1>4, <2>6 DEF Pair, Only
  <2>8. \A k : Pair(stage, bak, Candidates, k, key) => Pair(stage', bak', Candidates', k, key')
    BY <1>4, <2>6 DEF Pair, Only
  <2>9. Only(store, Candidates, key) => Only(store', Candidates', key')
    BY <1>3, <2>6 DEF Only
  <2>10. \A k : Pair(store, bak, Candidates, key, k) => Pair(store', bak', Candidates', key', k)
    BY <1>3, <1>4, <2>6 DEF Pair, Only
  <2>11. \A k : Pair(stage, store, Candidates, k, key) => Pair(stage', store', Candidates', k, key')
    BY <1>3, <1>4, <2>6 DEF Pair, Only
  <2>12. LET k == proc[q].new IN
         /\ k \notin Candidates => k \notin Candidates'
         /\ k # NoKey /\ k \notin Candidates /\ Pair(stage, store, Candidates \cup {k}, k, key)
              => Pair(stage', store', Candidates' \cup {k}, k, key')
    <3>1. proc[q].new \notin Candidates => proc[q].new \notin Candidates'
      BY <1>4, <2>1
    <3> DEFINE k == proc[q].new
    <3>2. ASSUME k # NoKey, k \notin Candidates, Pair(stage, store, Candidates \cup {k}, k, key)
          PROVE  Pair(stage', store', Candidates' \cup {k}, k, key')
      <4> HIDE DEF k
      <4>1. key' = key \/ key \notin Candidates \cup {k}
        BY <3>2 DEF Candidates
      <4>2. Only(store, Candidates' \cup {k}, key')
        BY <1>3, <1>4, <3>2, <4>1 DEF Pair, Only
      <4>3. Only(stage, Candidates' \cup {k}, k)
        BY <1>4, <3>2 DEF Pair, Only
      <4> QED BY <1>3, <1>4, <3>2, <4>2, <4>3 DEF Pair, Only
    <3> QED BY <3>1, <3>2
  <2> QED BY <1>3, <1>8, <1>10, <2>1, <2>2, <2>3, <2>4, <2>5, <2>7, <2>8, <2>9, <2>10, <2>11, <2>12
          DEF Sparing
<1> QED BY <1>1, <1>2, <1>7, <1>9, <1>10 DEF LossInv

\* The replacement store is the live one re-keyed.
LEMMA RekeyedPair ==
  ASSUME TypeOK, NEW p \in Procs, store \in Dir, proc[p].new \in Keys,
         keyNew = NoKey, keyOld = NoKey, proc[p].new \notin KeysOf(store) \cup Candidates
  PROVE  Pair(Rekeyed(p), store, Candidates \cup {proc[p].new}, proc[p].new, key)
<1> DEFINE k == proc[p].new
<1>1. /\ Rekeyed(p) \in Dir /\ Has(Rekeyed(p)) = Has(store)
      /\ \A i \in Has(store) : Rekeyed(p)[i].val = store[i].val
  BY RekeyedOK
<1>2. Candidates = {key} \ {NoKey} /\ k # NoKey
  BY ValueAssumption DEF Candidates
<1>3. ASSUME NEW i \in Has(store)
      PROVE  IF i \in Staged THEN Rekeyed(p)[i].key = k /\ store[i].key = key /\ key \in Candidates
             ELSE /\ Rekeyed(p)[i].key = store[i].key
                  /\ store[i].key \notin Candidates \cup {k}
  <2>1. i \in Items /\ store[i] \in File
    BY DirFacts DEF Has, Dir
  <2>2. CASE i \in Staged
    <3>1. Rekeyed(p)[i] = [store[i] EXCEPT !.key = k]
      BY <2>1, <2>2 DEF Rekeyed
    <3>2. Rekeyed(p)[i].key = k
      BY <2>1, <3>1 DEF File
    <3> QED BY <1>2, <2>2, <3>2 DEF Staged, Opens
  <2>3. CASE i \notin Staged
    <3>1. Rekeyed(p)[i] = store[i]
      BY <2>1, <2>3 DEF Rekeyed
    <3>2. key = NoKey \/ store[i].key # key
      BY <2>3 DEF Staged, Opens
    <3>3. store[i].key # k
      BY DEF KeysOf
    <3> QED BY <1>2, <2>3, <3>1, <3>2, <3>3
  <2> QED BY <2>2, <2>3
<1> HIDE DEF k
<1>4. Only(Rekeyed(p), Candidates \cup {k}, k)
  BY <1>1, <1>3 DEF Only
<1>5. Only(store, Candidates \cup {k}, key)
  BY <1>3 DEF Only
<1> QED BY <1>1, <1>3, <1>4, <1>5 DEF Pair, k

\* Beside a faithful copy of it the store may go.
LEMMA PairCurrent ==
  ASSUME NEW d, NEW e, NEW C, NEW k, NEW old, NEW t, Pair(d, e, C, k, old)
  PROVE  \A i \in Items : Current(d, i, C, t) <=> Current(e, i, C, t)
BY DEF Pair, Current

LEMMA LossSwap ==
  ASSUME RotationInv, LossInv, NEW p \in Procs,
         \/ StageStore(p) \/ StageKey(p) \/ MoveAside(p) \/ SwapStore(p)
         \/ SetOldKeyAside(p) \/ SwapKey(p) \/ Verify(p)
  PROVE  LossInv' /\ Lossless
<1>1. lock = p /\ proc[p] \in Proc
  BY LockedIsHeld, CachedType DEF StageStore, StageKey, MoveAside, SwapStore, SetOldKeyAside,
     SwapKey, Verify, At, RotationInv, Locked, Pcs
<1>2. Sparing(proc[p]) /\ DiskInv
  BY <1>1 DEF LossInv
<1>3. UNCHANGED <<lock, truth>>
  BY DEF StageStore, StageKey, MoveAside, SwapStore, SetOldKeyAside, SwapKey, Verify
<1>4. PICK pc \in Locked : Next1(p, pc) /\
        \/ StageStore(p) /\ pc = "stagekey"
        \/ StageKey(p) /\ pc = "aside"
        \/ MoveAside(p) /\ pc = "swap"
        \/ SwapStore(p) /\ pc = "oldkey"
        \/ SetOldKeyAside(p) /\ pc = "newkey"
        \/ SwapKey(p) /\ pc = "verify"
        \/ Verify(p) /\ pc \in {"commit", "undo"}
  BY DEF StageStore, StageKey, MoveAside, SwapStore, SetOldKeyAside, SwapKey, Verify, Locked, Pcs
<1>5. proc'[p].pc = pc /\ proc'[p].new = proc[p].new
  BY <1>1, <1>4 DEF Next1, Goto, Proc, RotationInv, TypeOK
<1>6. Sparing(proc[p])' /\ DiskInv' /\ Lossless
  <2>1. CASE StageStore(p) /\ pc = "stagekey"
    <3>1. /\ bak = NoDir /\ keyNew = NoKey /\ keyOld = NoKey /\ proc[p].new # NoKey
          /\ proc[p].new \notin KeysOf(store) \cup Candidates
      BY <1>2, <2>1 DEF Sparing, StageStore, At
    <3>2. store \in Dir /\ proc[p].new \in Keys
      BY <2>1 DEF StageStore, RotationInv, PhaseOK
    <3>3. stage' = Rekeyed(p) /\ UNCHANGED <<store, bak, key, keyNew, keyOld, truth>>
      BY <2>1 DEF StageStore
    <3>4. Pair(stage', store, Candidates \cup {proc[p].new}, proc[p].new, key)
      BY <3>1, <3>2, <3>3, RekeyedPair DEF RotationInv
    <3>5. Sparing(proc[p])'
      BY <1>5, <2>1, <3>1, <3>3, <3>4 DEF Sparing, Candidates, KeysOf
    <3> QED BY <1>2, <3>3, <3>5, DiskStill
  <2>2. CASE StageKey(p) /\ pc = "aside"
    <3> DEFINE k == proc[p].new
    <3>1. /\ bak = NoDir /\ keyNew = NoKey /\ keyOld = NoKey /\ k # NoKey
          /\ k \notin KeysOf(store) \cup Candidates
          /\ Pair(stage, store, Candidates \cup {k}, k, key)
      BY <1>2, <2>2 DEF Sparing, StageKey, At
    <3>2. keyNew' = k /\ UNCHANGED <<store, stage, bak, key, keyOld, truth>>
      BY <2>2 DEF StageKey
    <3> HIDE DEF k
    <3>3. Candidates' = Candidates \cup {k}
      BY <3>1, <3>2 DEF Candidates
    <3>4. Sparing(proc[p])'
      BY <1>5, <2>2, <3>1, <3>2, <3>3 DEF Sparing
    <3>5. \A i \in Items : ~Current(bak, i, Candidates', truth')
      BY <3>1 DEF Current, Has
    <3>6. DiskInv'
      BY <1>2, <3>1, <3>2, <3>5, HasItems DEF DiskInv, Covers, Candidates
    <3>7. Lossless
      BY <3>2, <3>3 DEF Lossless, Recoverable
    <3> QED BY <3>4, <3>6, <3>7
  <2>3. CASE MoveAside(p) /\ pc = "swap"
    <3>1. /\ Pair(stage, store, Candidates, keyNew, key) /\ bak = NoDir
          /\ keyNew # NoKey /\ keyOld = NoKey
      BY <1>2, <2>3 DEF Sparing, MoveAside, At
    <3>2. /\ bak' = store /\ store' = NoDir /\ Has(store') = {} /\ Has(bak) = {}
          /\ UNCHANGED <<stage, key, keyNew, keyOld, truth>> /\ Candidates' = Candidates
      BY <2>3, <3>1 DEF MoveAside, Candidates, Has
    <3>3. Sparing(proc[p])'
      BY <1>5, <2>3, <3>1, <3>2 DEF Sparing
    <3>4. DiskInv'
      BY <1>2, <3>1, <3>2 DEF DiskInv
    <3>5. Lossless
      BY <3>2 DEF Lossless, Recoverable
    <3> QED BY <3>3, <3>4, <3>5
  <2>4. CASE SwapStore(p) /\ pc = "oldkey"
    <3>1. /\ Pair(stage, bak, Candidates, keyNew, key) /\ Has(store) = {}
          /\ keyNew # NoKey /\ keyOld = NoKey
      BY <1>2, <2>4 DEF Sparing, SwapStore, At
    <3>2. /\ store' = stage /\ UNCHANGED <<bak, key, keyNew, keyOld, truth>>
          /\ Candidates' = Candidates
      BY <2>4 DEF SwapStore, Candidates
    <3>3. \A i \in Items : Current(store', i, Candidates, truth) <=> Current(bak, i, Candidates, truth)
      BY <3>1, <3>2, PairCurrent
    <3>4. Sparing(proc[p])'
      BY <1>5, <2>4, <3>1, <3>2 DEF Sparing
    <3>5. DiskInv'
      BY <1>2, <3>1, <3>2, <3>3, HasItems DEF DiskInv, Covers, Current
    <3>6. Lossless
      BY <3>1, <3>2, <3>3 DEF Lossless, Recoverable, Current
    <3> QED BY <3>4, <3>5, <3>6
  <2>5. CASE SetOldKeyAside(p) /\ pc = "newkey"
    <3>1. Pair(store, bak, Candidates, keyNew, key) /\ keyNew # NoKey /\ keyOld = NoKey
      BY <1>2, <2>5 DEF Sparing, SetOldKeyAside, At
    <3>2. /\ keyOld' = key /\ key' = NoKey /\ UNCHANGED <<store, bak, keyNew, truth>>
          /\ Candidates' = Candidates
      BY <2>5, <3>1 DEF SetOldKeyAside, Candidates
    <3>3. Sparing(proc[p])'
      BY <1>5, <2>5, <3>1, <3>2 DEF Sparing
    <3>4. key # NoKey => key # keyNew /\ key \in Candidates
      BY <1>2 DEF DiskInv, Candidates
    <3>5. key # NoKey => \A i \in Has(store) : store[i].key # key
      BY <3>1, <3>4 DEF Pair, Only
    <3>6. DiskInv'
      BY <1>2, <3>1, <3>2, <3>4, <3>5 DEF DiskInv, Covers
    <3>7. Lossless
      BY <3>2 DEF Lossless, Recoverable
    <3> QED BY <3>3, <3>6, <3>7
  <2>6. CASE SwapKey(p) /\ pc = "verify"
    <3>1. Pair(store, bak, Candidates, keyNew, keyOld)
      BY <1>2, <2>6 DEF Sparing, SwapKey, At
    <3>2. key' = keyNew /\ keyNew' = NoKey /\ UNCHANGED <<store, bak, keyOld, truth>>
      BY <2>6 DEF SwapKey
    <3>3. /\ Candidates' \subseteq Candidates
          /\ {keyNew, keyOld} \cap Candidates \subseteq Candidates'
      BY <3>2 DEF Candidates
    <3>4. \A d \in {store, bak} : \A i \in Has(d) : d[i].key \in Candidates' <=> d[i].key \in Candidates
      BY <3>1, <3>3 DEF Pair, Only
    <3>5. Pair(store, bak, Candidates', keyNew, keyOld)
      BY <3>1, <3>4 DEF Pair, Only
    <3>6. Sparing(proc[p])'
      BY <1>5, <2>6, <3>2, <3>5 DEF Sparing
    <3>7. \A d \in {store, bak} : \A i \in Items :
            Current(d, i, Candidates', truth) <=> Current(d, i, Candidates, truth)
      BY <3>4 DEF Current
    <3>8. DiskInv'
      BY <1>2, <3>2, <3>7, HasItems DEF DiskInv
    <3>9. Lossless
      BY <3>2, <3>7 DEF Lossless, Recoverable, Current
    <3> QED BY <3>6, <3>8, <3>9
  <2>7. CASE Verify(p) /\ pc \in {"commit", "undo"}
    <3>1. Pair(store, bak, Candidates, key, keyOld) /\ keyNew = NoKey
      BY <1>2, <2>7 DEF Sparing, Verify, At
    <3>2. UNCHANGED <<store, stage, bak, key, keyNew, keyOld, truth>> /\ Candidates' = Candidates
      BY <2>7 DEF Verify, Candidates
    <3>3. Sparing(proc[p])'
      BY <1>5, <2>7, <3>1, <3>2 DEF Sparing, Pair
    <3> QED BY <1>2, <3>2, <3>3, DiskStill
  <2> QED BY <1>4, <2>1, <2>2, <2>3, <2>4, <2>5, <2>6, <2>7
<1> QED BY <1>1, <1>3, <1>4, <1>6, LossAdvances

\* The end of a rotation: the commit, or the way back after a failed read-back.
LEMMA LossEnd ==
  ASSUME RotationInv, LossInv, NEW p \in Procs, LongLived \cap Writers = {},
         Undo(p) \/ DropKey(p) \/ InstallKey(p) \/ Commit(p)
  PROVE  LossInv' /\ Lossless
<1>1. lock = p /\ proc[p] \in Proc /\ (p \in Writers => proc[p].cached = NoKey)
  BY LockedIsHeld, CachedType DEF Undo, DropKey, InstallKey, Commit, At, RotationInv, Locked, Pcs,
     LossInv, Forgetful
<1>2. Sparing(proc[p]) /\ DiskInv
  BY <1>1 DEF LossInv
<1>3. UNCHANGED truth /\ \A i \in Items : Recoverable(i) <=>
        \/ truth[i] = NoVal \/ Current(store, i, Candidates, truth) \/ Current(bak, i, Candidates, truth)
  BY RecoverableIs DEF Undo, DropKey, InstallKey, Commit
<1>4. \A i \in Items : Recoverable(i)' <=>
        \/ truth[i] = NoVal
        \/ Current(store', i, Candidates', truth) \/ Current(bak', i, Candidates', truth)
  BY <1>3 DEF Recoverable, Current
<1>5. CASE Undo(p)
  <2> DEFINE r == [proc[p] EXCEPT !.pc = "dropkey", !.source = "old", !.undo = TRUE]
  <2>1. r.pc = "dropkey" /\ r.source = "old" /\ r.cached = proc[p].cached
    BY <1>1 DEF Proc
  <2>2. Goto(p, r) /\ lock' = p /\ proc'[p] = r
    BY <1>1, <1>5 DEF Undo, Goto, RotationInv, TypeOK
  <2> HIDE DEF r
  <2>3. Pair(store, bak, Candidates, key, keyOld)
    BY <1>2, <1>5 DEF Sparing, Undo, At
  <2>4. /\ store' = bak /\ bak' = NoDir /\ UNCHANGED <<key, keyNew, keyOld>>
        /\ Candidates' = Candidates /\ Has(bak') = {}
    BY <1>5 DEF Undo, Candidates, Has
  <2>5. Sparing(proc[p])'
    BY <2>1, <2>2, <2>3, <2>4 DEF Sparing, Pair
  <2>6. DiskInv'
    BY <1>2, <2>4 DEF DiskInv, Covers, Current
  <2>7. Lossless
    BY <1>3, <1>4, <2>3, <2>4, PairCurrent DEF Lossless
  <2> QED BY <1>1, <2>1, <2>2, <2>5, <2>6, <2>7, LossStep
<1>6. CASE DropKey(p)
  <2>1. /\ proc'[p].pc = "installkey" /\ proc'[p].source = proc[p].source
        /\ "installkey" \in Locked
    BY <1>1, <1>6 DEF DropKey, Next1, Goto, Proc, RotationInv, TypeOK, Locked, Pcs
  <2>2. /\ key' = NoKey /\ UNCHANGED <<store, bak, keyNew, keyOld>>
        /\ Candidates' \subseteq Candidates
        /\ {keyNew, keyOld} \cap Candidates \subseteq Candidates'
    BY <1>6 DEF DropKey, Candidates
  <2>3. \/ proc[p].source = "new" /\ Only(store, Candidates, keyNew) /\ Covers
        \/ proc[p].source # "new" /\ Only(store, Candidates, keyOld) /\ bak = NoDir
    BY <1>2, <1>6 DEF Sparing, DropKey, At
  <2>4. \A i \in Has(store) : store[i].key \in Candidates' <=> store[i].key \in Candidates
    BY <2>2, <2>3 DEF Only
  <2>5. \A i \in Items : Current(store, i, Candidates', truth) <=> Current(store, i, Candidates, truth)
    BY <2>4 DEF Current
  <2>6. \A i \in Items : Current(bak, i, Candidates', truth) => Current(bak, i, Candidates, truth)
    BY <2>2 DEF Current
  <2>7. Covers => Covers'
    BY <1>3, <2>2, <2>6 DEF Covers
  <2>8. DiskInv'
    BY <1>2, <1>3, <2>2, <2>5, <2>6, <2>7, HasItems DEF DiskInv
  <2>9. Sparing(proc[p])'
    BY <2>1, <2>2, <2>3, <2>4, <2>7 DEF Sparing, Only
  <2>10. Lossless
    <3>1. \A i \in Items : Current(bak, i, Candidates, truth) => Current(store, i, Candidates, truth)
      BY <1>2, <2>3 DEF DiskInv, Covers, Current, Has
    <3> QED BY <1>3, <1>4, <2>2, <2>5, <3>1 DEF Lossless
  <2> QED BY <1>1, <1>6, <2>1, <2>8, <2>9, <2>10, LossAdvances DEF DropKey
<1>7. CASE InstallKey(p)
  <2>1. \/ proc[p].source = "new" /\ Only(store, Candidates, keyNew) /\ Covers
        \/ proc[p].source # "new" /\ Only(store, Candidates, keyOld) /\ bak = NoDir
    BY <1>2, <1>7 DEF Sparing, InstallKey, At
  <2>2. /\ UNCHANGED <<store, bak>> /\ Candidates' \subseteq Candidates
        /\ {keyNew, keyOld} \cap Candidates \subseteq Candidates'
        /\ Only(store, Candidates, key')
    BY <1>7, <2>1 DEF InstallKey, Candidates
  <2>3. \A i \in Has(store) : store[i].key \in Candidates' <=> store[i].key \in Candidates
    BY <2>1, <2>2 DEF Only
  <2>4. \A i \in Items : Current(store, i, Candidates', truth) <=> Current(store, i, Candidates, truth)
    BY <2>3 DEF Current
  <2>5. \A i \in Items : Current(bak, i, Candidates', truth) => Current(bak, i, Candidates, truth)
    BY <2>2 DEF Current
  <2>6. Covers => Covers'
    BY <1>3, <2>2, <2>5 DEF Covers
  <2>7. bak = NoDir => Covers
    BY DEF Covers, Current, Has
  <2>8. DiskInv'
    BY <1>2, <1>3, <1>7, <2>1, <2>2, <2>4, <2>5, <2>6, <2>7, HasItems DEF DiskInv, InstallKey
  <2>9. Only(store', Candidates', key') /\ Covers'
    BY <2>1, <2>2, <2>6, <2>7 DEF Only
  <2>10. Lossless
    <3>1. \A i \in Items : Current(bak, i, Candidates, truth) => Current(store, i, Candidates, truth)
      BY <1>2, <2>1, <2>7 DEF DiskInv, Covers, Current
    <3> QED BY <1>3, <1>4, <2>2, <2>4, <3>1 DEF Lossless
  <2>11. CASE proc[p].undo
    BY <1>1, <1>7, <2>8, <2>10, <2>11, LossReleases DEF InstallKey
  <2>12. CASE ~proc[p].undo
    <3> DEFINE r == [proc[p] EXCEPT !.pc = "sweep", !.source = "none"]
    <3>1. r.pc = "sweep" /\ r.cached = proc[p].cached /\ Goto(p, r) /\ lock' = p /\ proc'[p] = r
      BY <1>1, <1>7, <2>12 DEF Proc, InstallKey, Goto, RotationInv, TypeOK
    <3> HIDE DEF r
    <3>2. Sparing(proc[p])'
      BY <2>9, <3>1 DEF Sparing
    <3> QED BY <1>1, <2>8, <2>10, <3>1, <3>2, LossStep
  <2> QED BY <2>11, <2>12
<1>8. CASE Commit(p) /\ bak # NoDir
  <2>1. Goto(p, proc[p]) /\ lock' = p /\ proc[p].pc = "commit" /\ proc' = proc
    BY <1>1, <1>8 DEF Commit, Goto, At, RotationInv, TypeOK
  <2>2. Pair(store, bak, Candidates, key, keyOld)
    BY <1>2, <1>8, <2>1 DEF Sparing
  <2>3. /\ bak' = NoDir /\ Has(bak') = {} /\ UNCHANGED <<store, key, keyNew, keyOld>>
        /\ Candidates' = Candidates
    BY <1>8 DEF Commit, Has, Candidates
  <2>4. DiskInv'
    BY <1>2, <2>3 DEF DiskInv, Covers, Current
  <2>5. Sparing(proc[p])'
    BY <2>1, <2>2, <2>3 DEF Sparing, Pair
  <2>6. Lossless
    BY <1>3, <1>4, <2>2, <2>3, PairCurrent DEF Lossless
  <2> QED BY <1>1, <2>1, <2>4, <2>5, <2>6, LossStep
<1>9. CASE Commit(p) /\ bak = NoDir
  <2>1. Only(store, Candidates, key)
    BY <1>2, <1>9 DEF Sparing, Commit, At
  <2>2. /\ keyOld' = NoKey /\ Release(p, proc[p].new) /\ UNCHANGED <<store, bak, key, keyNew>>
        /\ Candidates' \subseteq Candidates /\ {key} \cap Candidates \subseteq Candidates'
    BY <1>9 DEF Commit, Candidates
  <2>3. \A i \in Items : Current(store, i, Candidates', truth) <=> Current(store, i, Candidates, truth)
    BY <2>1, <2>2 DEF Current, Only
  <2>4. \A C : \A i \in Items : ~Current(bak, i, C, truth)
    BY <1>9 DEF Current, Has
  <2>5. DiskInv'
    BY <1>2, <1>3, <1>9, <2>2, <2>3, <2>4, HasItems DEF DiskInv, Covers
  <2>6. Lossless
    BY <1>3, <1>4, <2>2, <2>3, <2>4 DEF Lossless
  <2> QED BY <1>1, <2>2, <2>5, <2>6, LossReleases
<1> QED BY <1>5, <1>6, <1>7, <1>8, <1>9

LEMMA LossRecover ==
  ASSUME RotationInv, LossInv, NEW p \in Procs, LongLived \cap Writers = {},
         Recover(p) \/ Refuse(p) \/ Read(p)
  PROVE  LossInv' /\ Lossless
<1>1. lock = p /\ proc[p] \in Proc /\ (p \in Writers => proc[p].cached = NoKey)
  BY LockedIsHeld, CachedType DEF Recover, Refuse, Read, At, RotationInv, Locked, Pcs,
     LossInv, Forgetful
<1>2. Sparing(proc[p]) /\ DiskInv
  BY <1>1 DEF LossInv
<1>3. CASE Recover(p)
  <2>1. PICK pc \in {"probe", "read"} : Next1(p, pc) /\ (pc = "read" <=> ~Artifacts)
    BY <1>3 DEF Recover
  <2>2. proc'[p].pc = pc /\ pc \in Locked
    BY <1>1, <2>1 DEF Next1, Goto, Proc, RotationInv, TypeOK, Locked, Pcs
  <2>3. UNCHANGED <<key, keyNew, keyOld, truth>> /\ Candidates' = Candidates
    BY <1>3 DEF Recover, Candidates
  <2>4. DiskInv' /\ Lossless
    <3>1. CASE store' = bak /\ bak' = NoDir /\ store = NoDir
      <4>1. Has(bak') = {} /\ Has(store) = {}
        BY <3>1 DEF Has
      <4> QED BY <1>2, <2>3, <3>1, <4>1 DEF DiskInv, Covers, Current, Lossless, Recoverable
    <3>2. CASE UNCHANGED <<store, bak>>
      BY <1>2, <2>3, <3>2, DiskStill
    <3> QED BY <1>3, <3>1, <3>2 DEF Recover
  <2>5. Sparing(proc[p])'
    BY <1>3, <2>1, <2>2 DEF Sparing, Recover, Artifacts
  <2> QED BY <1>1, <1>3, <2>1, <2>2, <2>4, <2>5, LossAdvances DEF Recover
<1>4. CASE Refuse(p) \/ (Read(p) /\ Release(p, proc[p].cached))
  <2>1. Release(p, proc[p].cached) /\ UNCHANGED <<store, bak, key, keyNew, keyOld, truth>>
    BY <1>4 DEF Refuse, Read
  <2> QED BY <1>1, <1>2, <2>1, DiskStill, LossReleases
<1>5. CASE Read(p) /\ ~Release(p, proc[p].cached)
  <2>1. /\ UNCHANGED <<store, bak, key, keyNew, keyOld, truth>> /\ lock' = p
        /\ Staged # {} /\ At(p, "read")
        /\ \E k \in FreshKeys : Goto(p, [proc[p] EXCEPT !.pc = "stage", !.new = k])
    BY <1>1, <1>5 DEF Read
  <2>2. PICK k \in FreshKeys : Goto(p, [proc[p] EXCEPT !.pc = "stage", !.new = k])
    BY <2>1
  <2> DEFINE r == [proc[p] EXCEPT !.pc = "stage", !.new = k]
  <2>3. r.pc = "stage" /\ r.new = k /\ r.cached = proc[p].cached /\ proc'[p] = r
    BY <1>1, <2>2 DEF Proc, Goto, RotationInv, TypeOK
  <2>4. k # NoKey /\ k \notin KeysOf(store) \cup Candidates
    BY FreshOpensNothing DEF KeysOf
  <2> HIDE DEF r
  <2>5. bak = NoDir /\ keyNew = NoKey /\ keyOld = NoKey
    BY <1>2, <2>1 DEF Sparing, At
  <2>6. Sparing(proc[p])'
    BY <2>1, <2>3, <2>4, <2>5 DEF Sparing, KeysOf, Candidates
  <2> QED BY <1>1, <1>2, <2>1, <2>2, <2>3, <2>6, DiskStill, LossStep DEF r
<1> QED BY <1>3, <1>4, <1>5

\* What the classification of a directory says of the files in it.
LEMMA Classified ==
  ASSUME NEW d, NEW k
  PROVE  /\ Classify(d, k) = "all" => /\ Only(d, Candidates, k) /\ k # NoKey
                                      /\ \E i \in Has(d) : d[i].key = k
         /\ Classify(d, k) = "none" /\ k \in Candidates => \A i \in Has(d) : d[i].key # k
         /\ Classify(d, k) \in {"none", "some", "all"}
         /\ k = NoKey => Classify(d, k) = "none"
BY DEF Classify, Only, Opens, Candidates

\* What recovery decides spares every current copy.
LEMMA DecisionSpares ==
  ASSUME RotationInv, DiskInv, ~Refuses
  PROVE  /\ Decide = "sweep" => Has(store) = {} \/ (Only(store, Candidates, key) /\ Covers)
         /\ Decide = "forward" => Only(store, Candidates, keyNew) /\ Covers
         /\ Decide = "rollback" => Only(bak, Candidates, keyOld)
         /\ Decide = "rollbackstore" => Only(bak, Candidates, key)
         /\ Decide = "read" => Staged = {}
         /\ Decide \in {"rollback", "rollbackstore"} =>
              /\ bak # NoDir /\ \A i \in Has(store) : store[i].key \notin Candidates
<1>1. \A d, k : /\ Classify(d, k) = "all" => /\ Only(d, Candidates, k) /\ k # NoKey
                                             /\ \E i \in Has(d) : d[i].key = k
                /\ Classify(d, k) = "none" /\ k \in Candidates => \A i \in Has(d) : d[i].key # k
                /\ Classify(d, k) \in {"none", "some", "all"}
                /\ k = NoKey => Classify(d, k) = "none"
  BY Classified
<1>2. Decide = "sweep" => Has(store) = {} \/ (Only(store, Candidates, key) /\ Covers)
  <2>1. BackupOnly = {} => Covers
    BY DEF BackupOnly, Covers, Current
  <2> QED BY <1>1, <2>1 DEF Decide, Refuses
<1>3. Decide = "forward" => Only(store, Candidates, keyNew) /\ Covers
  <2>1. Decide = "forward" => Classify(store, keyNew) = "all"
    BY DEF Decide
  <2> QED BY <1>1, <2>1 DEF DiskInv
<1>4. Decide = "rollback" => Only(bak, Candidates, keyOld)
  BY <1>1 DEF Decide
<1>5. Decide = "rollbackstore" => Only(bak, Candidates, key)
  BY <1>1 DEF Decide
<1>6. Decide = "read" => Staged = {}
  BY ReadOpensNothing DEF RotationInv
<1>7. ASSUME Decide \in {"rollback", "rollbackstore"}
      PROVE  bak # NoDir /\ \A i \in Has(store) : store[i].key \notin Candidates
  <2>1. /\ Has(store) # {} /\ Classify(store, key) # "all" /\ Classify(store, keyNew) # "all"
        /\ Classify(bak, keyOld) = "all" \/ Classify(bak, key) = "all"
    BY <1>7 DEF Decide
  <2>2. Classify(store, key) = "none" /\ Classify(store, keyNew) = "none"
    BY <1>1, <2>1 DEF Refuses
  <2>3. bak # NoDir
    BY <1>1, <2>1 DEF Has
  <2>4. \A i \in Has(store) : keyOld # NoKey => store[i].key # keyOld
    BY <2>3 DEF DiskInv
  <2> QED BY <1>1, <2>2, <2>3, <2>4 DEF Candidates
<1> QED BY <1>2, <1>3, <1>4, <1>5, <1>6, <1>7

LEMMA LossProbe ==
  ASSUME RotationInv, LossInv, NEW p \in Procs, Probe(p)
  PROVE  LossInv' /\ Lossless
<1>1. lock = p /\ proc[p] \in Proc /\ (p \in Writers => proc[p].cached = NoKey)
  BY LockedIsHeld, CachedType DEF Probe, At, RotationInv, Locked, Pcs, LossInv, Forgetful
<1>2. DiskInv /\ ~Refuses /\ UNCHANGED <<stage, key, keyNew, keyOld, lock, truth>>
      /\ Candidates' = Candidates
  BY DEF LossInv, Probe, Candidates
<1>3. CASE Decide \in {"sweep", "read"}
  <2>1. Next1(p, Decide) /\ UNCHANGED <<store, bak>>
    BY <1>3 DEF Probe
  <2>2. proc'[p].pc = Decide /\ Decide \in Locked
    BY <1>1, <1>3, <2>1 DEF Next1, Goto, Proc, RotationInv, TypeOK, Locked, Pcs
  <2>3. /\ Decide = "sweep" => Has(store) = {} \/ (Only(store, Candidates, key) /\ Covers)
        /\ Decide = "read" => Staged = {}
    BY <1>2, DecisionSpares
  <2>4. Sparing(proc[p])'
    BY <1>2, <1>3, <2>1, <2>2, <2>3 DEF Sparing, Covers, Staged, Opens
  <2> QED BY <1>1, <1>2, <2>1, <2>2, <2>4, DiskStill, LossAdvances
<1>4. CASE Decide = "forward"
  <2> DEFINE r == [proc[p] EXCEPT !.pc = "dropkey", !.source = "new"]
  <2>1. /\ r.pc = "dropkey" /\ r.source = "new" /\ r.cached = proc[p].cached /\ Goto(p, r)
        /\ proc'[p] = r /\ UNCHANGED <<store, bak>>
    BY <1>1, <1>4 DEF Proc, Probe, Goto, RotationInv, TypeOK
  <2> HIDE DEF r
  <2>2. Sparing(proc[p])'
    BY <1>2, <1>4, <2>1, DecisionSpares DEF Sparing, Covers
  <2> QED BY <1>1, <1>2, <2>1, <2>2, DiskStill, LossStep
<1>5. ASSUME Decide \in {"rollback", "rollbackstore"}, store' = bak, bak' = NoDir
      PROVE  DiskInv' /\ Lossless
  <2>1. Has(bak') = {} /\ \A i \in Has(store) : store[i].key \notin Candidates
    BY <1>2, <1>5, DecisionSpares DEF Has
  <2> QED BY <1>2, <1>5, <2>1 DEF DiskInv, Covers, Current, Lossless, Recoverable
<1>6. CASE Decide = "rollback"
  <2> DEFINE r == [proc[p] EXCEPT !.pc = "dropkey", !.source = "old"]
  <2>1. /\ r.pc = "dropkey" /\ r.source = "old" /\ r.cached = proc[p].cached /\ Goto(p, r)
        /\ proc'[p] = r /\ store' = bak /\ bak' = NoDir
    BY <1>1, <1>6 DEF Proc, Probe, Goto, RotationInv, TypeOK
  <2> HIDE DEF r
  <2>2. Sparing(proc[p])'
    BY <1>2, <1>6, <2>1, DecisionSpares DEF Sparing
  <2> QED BY <1>1, <1>2, <1>5, <1>6, <2>1, <2>2, LossStep
<1>7. CASE Decide = "rollbackstore"
  <2>1. Next1(p, "sweep") /\ store' = bak /\ bak' = NoDir
    BY <1>7 DEF Probe
  <2>2. proc'[p].pc = "sweep" /\ "sweep" \in Locked
    BY <1>1, <2>1 DEF Next1, Goto, Proc, RotationInv, TypeOK, Locked, Pcs
  <2>3. Only(store', Candidates', key') /\ Covers'
    BY <1>2, <1>7, <2>1, DecisionSpares DEF Covers, Current, Has
  <2>4. Sparing(proc[p])'
    BY <2>2, <2>3 DEF Sparing
  <2> QED BY <1>1, <1>2, <1>5, <1>7, <2>1, <2>2, <2>4, LossAdvances
<1>8. Decide \in {"sweep", "read", "forward", "rollback", "rollbackstore"}
  BY DEF Decide
<1> QED BY <1>3, <1>4, <1>5, <1>6, <1>7, <1>8

\* The sweep loses something only where the store holds nothing.
LEMMA LossSweep ==
  ASSUME RotationInv, LossInv, NEW p \in Procs, Sweep(p)
  PROVE  LossInv' /\ Lossless
<1>1. /\ lock = p /\ proc[p] \in Proc /\ (p \in Writers => proc[p].cached = NoKey)
      /\ proc[p].pc = "sweep" /\ UNCHANGED <<store, key, lock, truth>>
  BY LockedIsHeld, CachedType DEF Sweep, At, RotationInv, Locked, Pcs, LossInv, Forgetful
<1>2. DiskInv /\ (Has(store) = {} \/ (Only(store, Candidates, key) /\ Covers))
  BY <1>1 DEF LossInv, Sparing
<1>3. /\ bak' \in {bak, NoDir} /\ keyNew' \in {keyNew, NoKey} /\ keyOld' \in {keyOld, NoKey}
      /\ bak = NoDir \/ (keyNew' = keyNew /\ keyOld' = keyOld)
  <2>1. CASE stage # NoDir \/ bak # NoDir
    BY <2>1 DEF Sweep
  <2>2. CASE stage = NoDir /\ bak = NoDir
    BY <2>2 DEF Sweep
  <2> QED BY <2>1, <2>2
<1>4. Candidates' \subseteq Candidates /\ {key} \cap Candidates \subseteq Candidates'
  BY <1>1, <1>3 DEF Candidates
<1>5. /\ \A i \in Items : Current(bak', i, Candidates', truth) => Current(bak, i, Candidates, truth)
      /\ Covers => Covers'
  BY <1>1, <1>3, <1>4 DEF Current, Covers, Has
<1>6. ASSUME Only(store, Candidates, key)
      PROVE  \A i \in Items : Current(store, i, Candidates', truth) <=> Current(store, i, Candidates, truth)
  BY <1>4, <1>6 DEF Current, Only
<1>7. DiskInv'
  BY <1>1, <1>2, <1>3, <1>5, <1>6, HasItems DEF DiskInv
<1>8. Lossless
  <2>1. CASE Has(store) = {}
    BY <1>1, <2>1 DEF Lossless, At
  <2>2. CASE Only(store, Candidates, key) /\ Covers
    <3>1. \A i \in Items : Current(bak, i, Candidates, truth) => Current(store, i, Candidates, truth)
      BY <1>2, <2>2 DEF DiskInv, Covers
    <3>2. \A i \in Items : Current(store, i, Candidates', truth) => Recoverable(i)'
      BY <1>1 DEF Recoverable, Current
    <3>3. \A i \in Items : truth[i] = NoVal => Recoverable(i)'
      BY <1>1 DEF Recoverable
    <3> QED BY <1>6, <2>2, <3>1, <3>2, <3>3, RecoverableIs DEF Lossless
  <2> QED BY <1>2, <2>1, <2>2
<1>9. PICK pc \in {"sweep", "read"} : Next1(p, pc) /\ (pc = "read" => bak' = NoDir /\ keyNew' = NoKey /\ keyOld' = NoKey)
  <2>1. UNCHANGED proc => Next1(p, "sweep")
    BY <1>1 DEF Next1, Goto, RotationInv, TypeOK, Proc
  <2> QED BY <2>1 DEF Sweep
<1>10. proc'[p].pc = pc /\ pc \in Locked
  BY <1>1, <1>9 DEF Next1, Goto, Proc, RotationInv, TypeOK, Locked, Pcs
<1>11. Sparing(proc[p])'
  BY <1>1, <1>2, <1>4, <1>5, <1>9, <1>10 DEF Sparing, Only
<1> QED BY <1>1, <1>7, <1>8, <1>9, <1>10, <1>11, LossAdvances

LEMMA LossLocks ==
  ASSUME RotationInv, LossInv, NEW p \in Procs, LongLived \cap Writers = {}, RotateLocked(p)
  PROVE  LossInv' /\ Lossless
<1>1. /\ lock = NoProc /\ NoProc \notin Procs /\ proc[p] \in Proc
      /\ UNCHANGED <<store, stage, bak, key, keyNew, keyOld, truth>>
      /\ p \in Writers => proc[p].cached = NoKey
  BY ValueAssumption, CachedType DEF RotateLocked, RotationInv, LossInv, Forgetful
<1>2. DiskInv' /\ Lossless
  BY <1>1, DiskStill DEF LossInv
<1>3. CASE Release(p, proc[p].cached)
  <2>1. /\ lock' = NoProc /\ proc'[p].pc = "idle" /\ (p \in Writers => proc'[p].cached = NoKey)
        /\ \A q \in Procs \ {p} : proc'[q] = proc[q]
    BY <1>3 DEF Release, Goto, Done, Idle, RotationInv, TypeOK
  <2> QED BY <1>1, <1>2, <2>1 DEF LossInv, Forgetful, At
<1>4. CASE lock' = p /\ Next1(p, "recover")
  <2>1. /\ proc'[p].pc = "recover" /\ proc'[p].cached = proc[p].cached
        /\ \A q \in Procs \ {p} : proc'[q] = proc[q]
    BY <1>1, <1>4 DEF Next1, Goto, Proc, RotationInv, TypeOK
  <2>2. Sparing(proc[p])'
    BY <2>1 DEF Sparing
  <2> QED BY <1>1, <1>2, <1>4, <2>1, <2>2 DEF LossInv, Forgetful, At
<1> QED BY <1>3, <1>4 DEF RotateLocked

LEMMA LossOpen ==
  ASSUME RotationInv, LossInv, NEW p \in Procs, LongLived \cap Writers = {},
         \/ \E i \in Items : Get(p, i) \/ \E v \in Vals : SetBegin(p, i, v)
         \/ Leave(p) \/ \E dry \in BOOLEAN : RotateBegin(p, dry)
  PROVE  LossInv' /\ Lossless
<1>1. lock # p /\ proc[p] \in Proc /\ (p \in Writers => proc[p].cached = NoKey)
  BY OpenPcs, CachedType DEF Get, SetBegin, Leave, RotateBegin, At, RotationInv, LossInv, Forgetful
<1>2. ASSUME NEW i \in Items, Get(p, i) PROVE LossInv' /\ Lossless
  <2>1. PICK k \in Passphrase(p) : key' = Provisioned(p, k) /\ Goto(p, Done(p, k))
    BY <1>2 DEF Get
  <2>2. key' = key \/ (key = NoKey /\ key' \in FreshKeys)
    BY <2>1 DEF Provisioned, Passphrase
  <2>3. Done(p, k).pc = "idle" /\ (p \in Writers => Done(p, k).cached = NoKey)
    BY DEF Done, Idle
  <2> QED BY <1>1, <1>2, <2>1, <2>2, <2>3, LossBeside DEF Get
<1>3. ASSUME NEW i \in Items, NEW v \in Vals, SetBegin(p, i, v) PROVE LossInv' /\ Lossless
  <2> DEFINE r == [proc[p] EXCEPT !.pc = "set", !.item = i, !.val = v]
  <2>1. r.pc = "set" /\ r.cached = proc[p].cached
    BY <1>1 DEF Proc
  <2>2. Goto(p, r) /\ p \in Writers
    BY <1>3 DEF SetBegin
  <2> HIDE DEF r
  <2> QED BY <1>1, <1>3, <2>1, <2>2, LossBeside DEF SetBegin
<1>4. CASE Leave(p)
  BY <1>1, <1>4, LossBeside DEF Leave, Idle
<1>5. ASSUME NEW dry \in BOOLEAN, RotateBegin(p, dry) PROVE LossInv' /\ Lossless
  <2> DEFINE r == [proc[p] EXCEPT !.pc = "rotate", !.dry = dry]
  <2>1. r.pc = "rotate" /\ r.cached = proc[p].cached /\ Goto(p, r)
    BY <1>1, <1>5 DEF Proc, RotateBegin
  <2> HIDE DEF r
  <2> QED BY <1>1, <1>5, <2>1, LossBeside DEF RotateBegin
<1> QED BY <1>2, <1>3, <1>4, <1>5

\* A set puts a current file in the store; a delete takes an item from what is
\* to be kept.
LEMMA LossWrite ==
  ASSUME RotationInv, LossInv, NEW p \in Procs, LongLived \cap Writers = {},
         SetWrite(p) \/ \E i \in Items : Delete(p, i)
  PROVE  LossInv' /\ Lossless
<1>1. /\ lock = NoProc /\ lock' = NoProc /\ NoProc \notin Procs /\ DiskInv
      /\ UNCHANGED <<stage, bak, keyNew, keyOld>>
  BY ValueAssumption DEF SetWrite, Delete, LossInv
<1>2. store \in Dir \cup {NoDir} /\ truth \in [Items -> Vals \cup {NoVal}]
  BY DEF RotationInv, TypeOK
<1>3. ASSUME NEW i \in Items, store # NoDir, NEW f \in File \cup {NoFile}, NEW v \in Vals \cup {NoVal},
             store' = [store EXCEPT ![i] = f], truth' = [truth EXCEPT ![i] = v],
             key' = key \/ (key = NoKey /\ key' \in FreshKeys),
             v # NoVal => f # NoFile /\ f.val = v /\ f.key = key' /\ key' # NoKey,
             f # NoFile => v # NoVal
      PROVE  DiskInv' /\ Lossless
  <2>1. store' \in Dir /\ store' # NoDir /\ store \in Dir
    BY <1>2, <1>3, DirFacts DEF Dir
  <2>2. \A j \in Items \ {i} : /\ j \in Has(store') <=> j \in Has(store)
                               /\ store'[j] = store[j] /\ truth'[j] = truth[j]
    BY <1>2, <1>3, <2>1 DEF Has, Dir
  <2>3. store'[i] = f /\ truth'[i] = v /\ (i \in Has(store') <=> f # NoFile)
    BY <1>2, <1>3, <2>1 DEF Has, Dir
  <2>4. /\ Candidates \subseteq Candidates' /\ (key' # NoKey => key' \in Candidates')
        /\ \A d \in {store, stage, bak} : \A j \in Has(d) : d[j].key \in Candidates' <=> d[j].key \in Candidates
        /\ key' = key \/ key' \notin Candidates
    BY <1>1, <1>3, FreshOpensNothing DEF Candidates
  <2>5. \A j \in Items \ {i} : /\ Current(store', j, Candidates', truth') <=> Current(store, j, Candidates, truth)
                               /\ Current(bak, j, Candidates', truth') <=> Current(bak, j, Candidates, truth)
    BY <2>2, <2>4 DEF Current
  <2>6. v # NoVal => Current(store', i, Candidates', truth')
    BY <1>3, <2>3, <2>4 DEF Current
  <2>7. v = NoVal => ~Current(bak, i, Candidates', truth')
    BY <2>3 DEF Current
  <2>8. key' # NoKey => key' \notin {keyNew, keyOld}
    BY <1>1, <1>3, <2>4 DEF DiskInv, Candidates
  <2>9. Covers => Covers'
    BY <1>1, <2>2, <2>3, <2>5, <2>6, <2>7, <1>3 DEF Covers
  <2>10. \A j \in Has(store') : store'[j].key = key' \/ (j \in Has(store) /\ store'[j].key = store[j].key)
    BY <1>3, <2>2, <2>3, HasItems
  <2>11. /\ bak # NoDir /\ keyOld # NoKey => \A j \in Has(store') : store'[j].key # keyOld
         /\ keyNew # NoKey /\ (\E j \in Has(store') : store'[j].key = keyNew) => Covers'
    BY <1>1, <2>8, <2>9, <2>10 DEF DiskInv
  <2>12. \A j \in Has(store') : Current(bak, j, Candidates', truth') => Current(store', j, Candidates', truth')
    BY <1>1, <2>2, <2>5, <2>6, <2>7, HasItems DEF DiskInv
  <2>13. DiskInv'
    BY <1>1, <2>8, <2>11, <2>12 DEF DiskInv
  <2>14. \A j \in Items : Recoverable(j)' <=> \/ truth'[j] = NoVal
                                              \/ Current(store', j, Candidates', truth')
                                              \/ Current(bak, j, Candidates', truth')
    BY <1>1 DEF Recoverable, Current
  <2> QED BY <1>3, <2>2, <2>3, <2>5, <2>6, <2>13, <2>14, RecoverableIs DEF Lossless
<1>4. CASE SetWrite(p)
  <2>1. PICK k \in Passphrase(p) :
          LET i == proc[p].item IN
          /\ key' = Provisioned(p, k) /\ Goto(p, Done(p, k))
          /\ IF store = NoDir THEN UNCHANGED <<store, truth>>
             ELSE /\ store' = [store EXCEPT ![i] = [key |-> k, val |-> proc[p].val]]
                  /\ truth' = [truth EXCEPT ![i] = proc[p].val]
    BY <1>4 DEF SetWrite
  <2> DEFINE i == proc[p].item
             v == proc[p].val
             f == [key |-> k, val |-> v]
  <2>2. /\ p \in Writers /\ proc[p].cached = NoKey /\ k \in Keys
        /\ i \in Items /\ v \in Vals
    BY <1>4, PassphraseType DEF SetWrite, LossInv, Forgetful, RotationInv, PhaseOK
  <2>3. Done(p, k).pc = "idle" /\ Done(p, k).cached = NoKey
    BY <2>2 DEF Done, Idle
  <2>4. key' = k /\ (key' = key \/ (key = NoKey /\ key' \in FreshKeys))
    BY <2>1, <2>2 DEF Provisioned, Passphrase
  <2>5. /\ f \in File \cup {NoFile} /\ v \in Vals \cup {NoVal} /\ v # NoVal /\ f # NoFile
        /\ f.val = v /\ f.key = key' /\ key' # NoKey
    BY <2>2, <2>4, ValueAssumption DEF File
  <2>6. proc'[p] = Done(p, k) /\ \A q \in Procs \ {p} : proc'[q] = proc[q]
    BY <2>1 DEF Goto, RotationInv, TypeOK
  <2>7. CASE store = NoDir
    <3>1. lock # p /\ UNCHANGED <<store, truth, lock>>
      BY <1>1, <2>1, <2>7
    <3> QED BY <1>1, <2>1, <2>3, <2>4, <3>1, LossBeside
  <2>8. CASE store # NoDir
    <3>1. store' = [store EXCEPT ![i] = f] /\ truth' = [truth EXCEPT ![i] = v]
      BY <2>1, <2>8
    <3> HIDE DEF i, v, f
    <3>2. DiskInv' /\ Lossless
      BY <1>3, <2>2, <2>4, <2>5, <2>8, <3>1
    <3> QED BY <1>1, <2>3, <2>6, <3>2 DEF LossInv, Forgetful, At
  <2> QED BY <2>7, <2>8
<1>5. CASE \E i \in Items : Delete(p, i)
  <2>1. PICK i \in Items : Delete(p, i)
    BY <1>5
  <2>2. /\ store # NoDir /\ store' = [store EXCEPT ![i] = NoFile] /\ truth' = [truth EXCEPT ![i] = NoVal]
        /\ UNCHANGED <<key, proc>>
    BY <2>1 DEF Delete, Has
  <2>3. DiskInv' /\ Lossless
    BY <1>3, <2>2
  <2> QED BY <1>1, <2>2, <2>3 DEF LossInv, Forgetful, At
<1> QED BY <1>4, <1>5

LEMMA TornFiles ==
  ASSUME NEW d \in Dir \cup {NoDir}, NEW t \in Torn(d) \cup {NoDir, d}
  PROVE  Has(t) \subseteq Has(d) /\ (\A i \in Has(t) : t[i] = d[i]) /\ (d = NoDir => t = NoDir)
<1>1. CASE t \in {NoDir, d}
  BY <1>1 DEF Has
<1>2. CASE t \in Torn(d) /\ d # NoDir
  <2>1. PICK kept \in SUBSET Items : t = [i \in Items |-> IF i \in kept THEN d[i] ELSE NoFile]
    BY <1>2 DEF Torn
  <2> QED BY <1>2, <2>1 DEF Has
<1>3. CASE t \in Torn(d) /\ d = NoDir
  BY <1>3 DEF Torn, Has
<1> QED BY <1>1, <1>2, <1>3

\* What a crash leaves half copied or half removed is not the last copy.
LEMMA LossCrash ==
  ASSUME RotationInv, LossInv, NEW p \in Procs, Crash(p)
  PROVE  LossInv' /\ Lossless
<1> DEFINE r == Idle(NoKey)
<1>1. /\ Goto(p, r) /\ r.pc = "idle" /\ r.cached = NoKey /\ CrashDisk(p)
      /\ UNCHANGED <<key, keyNew, keyOld, truth>> /\ Candidates' = Candidates
      /\ lock' = IF lock = p THEN NoProc ELSE lock
  BY DEF Crash, Idle, Candidates
<1> HIDE DEF r
<1>2. DiskInv /\ {store, bak} \subseteq Dir \cup {NoDir}
  BY DEF LossInv, RotationInv, TypeOK
<1>3. CASE lock # p
  <2>1. UNCHANGED <<store, stage, bak>>
    BY <1>1, <1>3, CrashDiskType
  <2> QED BY <1>1, <1>3, <2>1, LossBeside
<1>4. CASE lock = p
  <2>1. Sparing(proc[p])
    BY <1>4 DEF LossInv
  <2>2. DiskInv' /\ Lossless
    <3>1. CASE At(p, "sweep") \/ At(p, "commit")
      <4>1. store' = store /\ bak' \in Torn(bak) \cup {NoDir, bak}
        BY <1>1, <3>1 DEF CrashDisk, At
      <4>2. /\ Has(bak') \subseteq Has(bak) /\ (\A i \in Has(bak') : bak'[i] = bak[i])
            /\ bak = NoDir => bak' = NoDir
        BY <1>2, <4>1, TornFiles
      <4>3. \A i \in Items : Current(bak', i, Candidates, truth) => Current(bak, i, Candidates, truth)
        BY <4>2 DEF Current
      <4>4. DiskInv'
        BY <1>1, <1>2, <4>1, <4>2, <4>3, HasItems DEF DiskInv, Covers
      <4>5. Has(store) # {} \/ ~At(p, "sweep") =>
              \A i \in Items : Current(bak, i, Candidates, truth) => Current(store, i, Candidates, truth)
        <5>1. CASE At(p, "sweep")
          BY <1>2, <2>1, <5>1 DEF Sparing, At, DiskInv, Covers
        <5>2. CASE At(p, "commit") /\ bak # NoDir
          BY <2>1, <5>2, PairCurrent DEF Sparing, At
        <5>3. CASE At(p, "commit") /\ bak = NoDir
          BY <5>3 DEF Current, Has
        <5> QED BY <3>1, <5>1, <5>2, <5>3
      <4>6. CASE Has(store) = {} /\ At(p, "sweep")
        BY <4>4, <4>6 DEF Lossless
      <4>7. CASE Has(store) # {} \/ ~At(p, "sweep")
        <5>1. \A i \in Items : truth[i] = NoVal \/ Current(store, i, Candidates, truth) => Recoverable(i)'
          BY <1>1, <4>1 DEF Recoverable, Current
        <5> QED BY <4>4, <4>5, <4>7, <5>1, RecoverableIs DEF Lossless
      <4> QED BY <4>6, <4>7
    <3>2. CASE At(p, "undo") \/ (At(p, "probe") /\ ~Refuses /\ Decide \in {"rollback", "rollbackstore"})
      <4>1. bak' = bak /\ store' \in Torn(store) \cup {NoDir, store}
        BY <1>1, <3>2 DEF CrashDisk, At
      <4>2. Has(store') \subseteq Has(store) /\ \A i \in Has(store') : store'[i] = store[i]
        BY <1>2, <4>1, TornFiles
      <4>3. \A i \in Items : Current(store, i, Candidates, truth) => Current(bak, i, Candidates, truth)
        <5>1. CASE At(p, "undo")
          BY <2>1, <5>1, PairCurrent DEF Sparing, At
        <5>2. CASE ~Refuses /\ Decide \in {"rollback", "rollbackstore"}
          BY <1>2, <5>2, DecisionSpares DEF Current
        <5> QED BY <3>2, <5>1, <5>2
      <4>4. Lossless
        <5>1. \A i \in Items : truth[i] = NoVal \/ Current(bak, i, Candidates, truth) => Recoverable(i)'
          BY <1>1, <4>1 DEF Recoverable, Current
        <5> QED BY <4>3, <5>1, RecoverableIs DEF Lossless
      <4>5. \A i \in Has(store') : Current(store, i, Candidates, truth) => Current(store', i, Candidates, truth)
        BY <4>2 DEF Current
      <4>6. keyNew # NoKey => \A i \in Has(store') : store'[i].key # keyNew
        <5>1. CASE At(p, "undo")
          BY <2>1, <5>1 DEF Sparing, At
        <5>2. CASE ~Refuses /\ Decide \in {"rollback", "rollbackstore"}
          BY <1>2, <4>2, <5>2, DecisionSpares DEF Candidates
        <5> QED BY <3>2, <5>1, <5>2
      <4>7. DiskInv'
        BY <1>1, <1>2, <4>1, <4>2, <4>5, <4>6 DEF DiskInv
      <4> QED BY <4>4, <4>7
    <3>3. CASE ~(At(p, "sweep") \/ At(p, "commit") \/ At(p, "undo")
                 \/ (At(p, "probe") /\ ~Refuses /\ Decide \in {"rollback", "rollbackstore"}))
      <4>1. UNCHANGED <<store, bak>>
        BY <1>1, <3>3 DEF CrashDisk
      <4> QED BY <1>1, <1>2, <4>1, DiskStill
    <3> QED BY <3>1, <3>2, <3>3
  <2> QED BY <1>1, <1>4, <2>2, LossStep
<1> QED BY <1>3, <1>4

LEMMA LossInit == Init => LossInv
<1> SUFFICES ASSUME Init PROVE LossInv
  OBVIOUS
<1>1. Forgetful /\ lock = NoProc /\ NoProc \notin Procs
  BY WriteInit, ValueAssumption DEF Init, WriteInv
<1>2. bak = NoDir /\ keyNew = NoKey /\ keyOld = NoKey
  BY DEF Init
<1> QED BY <1>1, <1>2 DEF LossInv, DiskInv, Current, Has

LEMMA LossNext ==
  ASSUME LongLived \cap Writers = {}, RotationInv, LossInv, [Next]_vars
  PROVE  LossInv' /\ Lossless
<1>1. ASSUME NEW p \in Procs, Recovery(p) PROVE LossInv' /\ Lossless
  BY <1>1, LossLocks, LossRecover, LossProbe, LossEnd, LossSweep DEF Recovery
<1>2. ASSUME NEW p \in Procs, Rekey(p) PROVE LossInv' /\ Lossless
  BY <1>2, LossRecover, LossSwap, LossEnd DEF Rekey
<1>3. ASSUME NEW p \in Procs, NEW i \in Items,
             Get(p, i) \/ Delete(p, i) \/ \E v \in Vals : SetBegin(p, i, v)
      PROVE LossInv' /\ Lossless
  BY <1>3, LossOpen, LossWrite
<1>4. ASSUME NEW p \in Procs,
             SetWrite(p) \/ Leave(p) \/ (\E dry \in BOOLEAN : RotateBegin(p, dry)) \/ Crash(p)
      PROVE LossInv' /\ Lossless
  BY <1>4, LossOpen, LossWrite, LossCrash
<1>5. CASE UNCHANGED vars
  <2>1. DiskInv' /\ Lossless
    BY <1>5, DiskStill DEF vars, LossInv
  <2>2. \A p \in Procs : Sparing(proc[p]) => Sparing(proc[p])'
    BY <1>5 DEF vars, Sparing, Covers, Candidates, Staged, Opens, KeysOf
  <2> QED BY <1>5, <2>1, <2>2 DEF vars, LossInv, Forgetful, At
<1> QED BY <1>1, <1>2, <1>3, <1>4, <1>5 DEF Next, Rotation

\* Whatever crashes, however often, and whatever sets, deletes, gets and
\* rotations run between them, failed read-backs included, a secret is lost in
\* one way only: the sweep of a recovery beside a store directory that holds
\* nothing, which a set's ensureFileDir() or a removal cut short put where the
\* rollback expects none.  A long-lived process may read and rotate, but not
\* set: it would seal its next item under the passphrase it cached before
\* another process rotated.
THEOREM CrashSafe ==
  ASSUME LongLived \cap Writers = {}
  PROVE  Spec => LostOnlyBySweep
<1>1. RotationInv /\ LossInv /\ [Next]_vars
        => [\A i \in Items : Recoverable(i) /\ ~Recoverable(i)' =>
              \E p \in Procs : At(p, "sweep") /\ Has(store) = {}]_vars
  BY LossNext DEF Lossless
<1>2. RotationInv /\ LossInv /\ [Next]_vars => LossInv'
  BY LossNext
<1> QED BY <1>1, <1>2, LossInit, InvariantHolds, PTL DEF Spec, LostOnlyBySweep

-----------------------------------------------------------------------------
(* Orphans.  A file of an item that is not live stays sealed under a key   *)
(* nobody has: no copy of it is re-keyed, and no key is provisioned twice. *)

Sealed(d) == \A i \in Has(d) : truth[i] = NoVal => d[i].key \notin Active
AllSealed == \A d \in {store, stage, bak} : Sealed(d)

\* After the step, every orphan of d was one in a directory of S.
CopiedFrom(d, S) ==
    \A i \in Has(d) : truth'[i] = NoVal =>
      truth[i] = NoVal /\ \E c \in S : i \in Has(c) /\ c[i].key = d[i].key

LEMMA CopyIsSealed ==
  ASSUME OnlyFresh, NEW S \in SUBSET {store, stage, bak}, \A c \in S : Sealed(c),
         NEW d, CopiedFrom(d, S)
  PROVE  \A i \in Has(d) : truth'[i] = NoVal => d[i].key \notin Active'
<1> SUFFICES ASSUME NEW i \in Has(d), truth'[i] = NoVal PROVE d[i].key \notin Active'
  OBVIOUS
<1>1. PICK c \in S : truth[i] = NoVal /\ i \in Has(c) /\ c[i].key = d[i].key
  BY DEF CopiedFrom
<1>2. c[i].key \notin Active
  BY <1>1 DEF Sealed
<1>3. c[i].key \notin FreshKeys
  BY <1>1 DEF FreshKeys, UsedKeys, KeysOf
<1> QED BY <1>1, <1>2, <1>3 DEF OnlyFresh

LEMMA KeptIsCopied ==
  ASSUME truth' = truth, NEW S, NEW d \in S \cup {NoDir, Empty}
  PROVE  CopiedFrom(d, S)
<1>1. Has(NoDir) = {} /\ Has(Empty) = {}
  BY DirFacts DEF Has
<1> QED BY <1>1 DEF CopiedFrom

LEMMA TornIsCopied ==
  ASSUME NEW S, NEW d, CopiedFrom(d, S), NEW e \in Torn(d)
  PROVE  CopiedFrom(e, S)
<1>1. CASE d = NoDir
  BY <1>1 DEF Torn
<1>2. CASE d # NoDir
  <2>1. PICK kept \in SUBSET Items : e = [i \in Items |-> IF i \in kept THEN d[i] ELSE NoFile]
    BY <1>2 DEF Torn
  <2>2. \A i \in Has(e) : i \in Has(d) /\ e[i] = d[i]
    BY <1>2, <2>1 DEF Has
  <2> QED BY <2>2 DEF CopiedFrom
<1> QED BY <1>1, <1>2

LEMMA RekeyedIsCopied ==
  ASSUME RotationInv, Sealed(store), NEW p \in Procs, store \in Dir, proc[p].new \in Keys,
         truth' = truth
  PROVE  CopiedFrom(Rekeyed(p), {store})
<1>1. Has(Rekeyed(p)) = Has(store)
  BY RekeyedOK DEF RotationInv
<1>2. ASSUME NEW i \in Has(Rekeyed(p)), truth[i] = NoVal
      PROVE  i \in Has(store) /\ Rekeyed(p)[i].key = store[i].key
  <2>1. i \in Items /\ i \in Has(store)
    BY <1>1 DEF Has
  <2>2. i \notin Staged
    BY <1>2, <2>1 DEF Sealed, Staged, Opens, Active, Candidates
  <2> QED BY <2>1, <2>2 DEF Rekeyed
<1> QED BY <1>2 DEF CopiedFrom

LEMMA AllSealedStep ==
  ASSUME AllSealed, OnlyFresh,
         \A d \in {store', stage', bak'} : CopiedFrom(d, {store, stage, bak})
  PROVE  AllSealed'
<1> DEFINE S == {store, stage, bak}
<1>1. S \in SUBSET {store, stage, bak} /\ \A c \in S : Sealed(c)
  BY DEF AllSealed
<1>2. ASSUME NEW d \in {store', stage', bak'}
      PROVE  \A i \in Has(d) : truth'[i] = NoVal => d[i].key \notin Active'
  <2> CopiedFrom(d, S)
    BY <1>2
  <2> HIDE DEF S
  <2> QED BY <1>1, CopyIsSealed
<1> QED BY <1>2 DEF AllSealed, Sealed

\* Every step but a delete keeps the orphans of all three directories sealed.
LEMMA AllSealedRotation ==
  ASSUME RotationInv, AllSealed, NEW p \in Procs, Rotation(p) \/ Crash(p)
  PROVE  AllSealed'
<1> DEFINE S == {store, stage, bak}
<1>1. OnlyFresh /\ truth' = truth
  BY RotationFrame, CrashFrame
<1>2. \A d \in S \cup {NoDir, Empty} : CopiedFrom(d, S)
  BY <1>1, KeptIsCopied
<1>3. store \in Dir /\ proc[p].new \in Keys => CopiedFrom(Rekeyed(p), S)
  BY <1>1, RekeyedIsCopied DEF AllSealed, CopiedFrom
<1>4. CASE Crash(p)
  BY <1>1, <1>2, <1>3, <1>4, CrashFrame, TornIsCopied, AllSealedStep
<1>5. CASE StageStore(p)
  <2>1. store \in Dir /\ proc[p].new \in Keys
    BY <1>5 DEF RotationInv, PhaseOK, StageStore
  <2> QED BY <1>1, <1>2, <1>3, <1>5, <2>1, AllSealedStep DEF StageStore
<1>6. CASE Rotation(p) /\ ~StageStore(p)
  <2>1. DirsMove
    BY <1>6, RotationFrame
  <2> QED BY <1>1, <1>2, <2>1, AllSealedStep DEF DirsMove
<1> QED BY <1>4, <1>5, <1>6

LEMMA AllSealedOpen ==
  ASSUME RotationInv, AllSealed, NEW p \in Procs,
         \/ \E i \in Items : Get(p, i) \/ \E v \in Vals : SetBegin(p, i, v)
         \/ Leave(p) \/ \E dry \in BOOLEAN : RotateBegin(p, dry)
  PROVE  AllSealed'
<1>1. OnlyFresh /\ Beside /\ truth' = truth /\ store' \in {store, Empty}
  BY OpenFrame
<1> QED BY <1>1, KeptIsCopied, AllSealedStep DEF Beside

\* So does a set, and a delete where no other directory holds the item.
LEMMA AllSealedWrite ==
  ASSUME RotationInv, AllSealed, NEW p \in Procs,
         SetWrite(p) \/ (stage = NoDir /\ bak = NoDir /\ \E i \in Items : Delete(p, i))
  PROVE  AllSealed'
<1>1. /\ OnlyFresh /\ UNCHANGED <<stage, bak>>
      /\ CopiedFrom(store', {store, stage, bak})
  BY WriteFrame DEF Beside, CopiedFrom
<1>2. CASE stage = NoDir /\ bak = NoDir
  BY <1>1, <1>2, AllSealedStep DEF CopiedFrom, Has
<1>3. CASE SetWrite(p)
  <2>1. \A i \in Items : truth'[i] = NoVal => truth[i] = NoVal
    BY <1>3, ValueAssumption DEF SetWrite, RotationInv, PhaseOK, TypeOK
  <2> QED BY <1>1, <2>1, AllSealedStep DEF CopiedFrom, Has
<1> QED BY <1>2, <1>3

LEMMA AllSealedInit == Init => AllSealed
<1> SUFFICES ASSUME Init PROVE AllSealed
  OBVIOUS
<1>1. PICK k \in Keys, lost \in Keys, v \in Vals, live \in SUBSET Items, orphans \in SUBSET Items :
        /\ k # lost /\ live # {} /\ live \cap orphans = {}
        /\ store = [i \in Items |-> IF i \in live THEN [key |-> k, val |-> v]
                                    ELSE IF i \in orphans THEN [key |-> lost, val |-> v]
                                    ELSE NoFile]
        /\ truth = [i \in Items |-> IF i \in live THEN v ELSE NoVal]
        /\ key = k
  BY DEF Init
<1>2. Active = {k}
  BY <1>1, ValueAssumption DEF Init, Active, Candidates, Idle
<1>3. stage = NoDir /\ bak = NoDir /\ Has(NoDir) = {}
  BY DEF Init, Has
<1>4. ASSUME NEW i \in Has(store), truth[i] = NoVal PROVE store[i].key = lost
  BY <1>1, <1>4, ValueAssumption DEF Has
<1> QED BY <1>1, <1>2, <1>3, <1>4 DEF AllSealed, Sealed

LEMMA AllSealedNext ==
  ASSUME Deleters = {}, RotationInv, AllSealed, [Next]_vars
  PROVE  AllSealed'
<1>1. ASSUME NEW p \in Procs, NEW i \in Items,
             Get(p, i) \/ Delete(p, i) \/ \E v \in Vals : SetBegin(p, i, v)
      PROVE AllSealed'
  BY <1>1, AllSealedOpen DEF Delete
<1>2. ASSUME NEW p \in Procs,
             SetWrite(p) \/ Leave(p) \/ (\E dry \in BOOLEAN : RotateBegin(p, dry)) \/ Crash(p)
      PROVE AllSealed'
  BY <1>2, AllSealedOpen, AllSealedWrite, AllSealedRotation
<1>3. CASE UNCHANGED vars
  BY <1>3 DEF vars, AllSealed, Sealed, Active, Candidates
<1> QED BY <1>1, <1>2, <1>3, AllSealedRotation DEF Next

-----------------------------------------------------------------------------
(* One crash, beside deletes.  Until it, and once its recovery got past    *)
(* the probe, every rotation leaves a tidy disk, where nothing is probed;  *)
(* in between the orphans of the store stay sealed.                        *)

\* What the holder leaves for the end of its rotation.
Tidying(r) ==
    LET at(pcs) == r.pc \in pcs IN
    /\ ~at({"probe"})
    /\ at({"recover", "read", "stage"}) => ~Artifacts
    /\ at({"oldkey", "newkey", "verify", "undo", "commit"}) => stage = NoDir
    /\ at({"verify", "undo", "commit"}) => keyNew = NoKey
    /\ (at({"dropkey", "installkey"}) /\ r.undo) =>
         r.source = "old" /\ stage = NoDir /\ bak = NoDir /\ keyNew = NoKey

Tidy == /\ lock = NoProc => ~Artifacts
        /\ \A p \in Procs : lock = p => Tidying(proc[p])

\* Between the crash and the recovery that decides.
Interrupted ==
    /\ \A p \in Procs : lock = p =>
         /\ proc[p].pc \in {"recover", "probe", "read"}
         /\ At(p, "read") => Staged = {}
    /\ Sealed(store) /\ (store = NoDir => Sealed(bak))

\* Only the keys of an undone rotation are put back for good.
Undoing == \A p \in Procs : proc[p].undo => proc[p].pc \in {"dropkey", "installkey"}

OneCrashInv ==
    /\ Undoing
    /\ IF crashes = 0 THEN Tidy /\ AllSealed ELSE Tidy \/ Interrupted

LEMMA UndoStep ==
  ASSUME RotationInv, Undoing, NEW p \in Procs, NEW r, Goto(p, r),
         r.undo => r.pc \in {"dropkey", "installkey"}
  PROVE  Undoing'
BY DEF Undoing, Goto, RotationInv, TypeOK

LEMMA UndoingNext ==
  ASSUME RotationInv, Undoing, [Next]_vars
  PROVE  Undoing'
<1>1. ASSUME NEW p \in Procs, NEW k, Goto(p, Done(p, k)) PROVE Undoing'
  <2> DEFINE r == Done(p, k)
  <2>1. ~r.undo /\ Goto(p, r)
    BY <1>1 DEF Done, Idle
  <2> HIDE DEF r
  <2> QED BY <2>1, UndoStep
<1>2. ASSUME NEW p \in Procs, NEW pc \in Pcs, Next1(p, pc),
             pc \in {"dropkey", "installkey"} \/ ~(At(p, "dropkey") \/ At(p, "installkey"))
      PROVE Undoing'
  <2> DEFINE r == [proc[p] EXCEPT !.pc = pc]
  <2>1. r.undo = proc[p].undo /\ r.pc = pc /\ Goto(p, r)
    BY <1>2, CachedType DEF Proc, RotationInv, Next1
  <2>2. r.undo => r.pc \in {"dropkey", "installkey"}
    BY <1>2, <2>1 DEF Undoing, At
  <2> HIDE DEF r
  <2> QED BY <2>1, <2>2, UndoStep
<1>3. ASSUME proc' = proc PROVE Undoing'
  BY <1>3 DEF Undoing
<1>4. ASSUME NEW p \in Procs, Recovery(p) PROVE Undoing'
  <2>1. CASE InstallKey(p)
    <3> DEFINE r == [proc[p] EXCEPT !.pc = "sweep", !.source = "none"]
    <3>1. r.undo = proc[p].undo
      BY CachedType DEF Proc, RotationInv
    <3>2. proc[p].undo \/ (~r.undo /\ Goto(p, r))
      BY <2>1, <3>1 DEF InstallKey
    <3> HIDE DEF r
    <3> QED BY <1>1, <2>1, <3>2, UndoStep DEF InstallKey, Release
  <2>2. CASE Probe(p)
    <3>1. Decide \in {"sweep", "read", "forward", "rollback", "rollbackstore"}
      BY DEF Decide
    <3>2. ASSUME NEW src \in {"new", "old"},
                 Goto(p, [proc[p] EXCEPT !.pc = "dropkey", !.source = src])
          PROVE  Undoing'
      <4> DEFINE r == [proc[p] EXCEPT !.pc = "dropkey", !.source = src]
      <4>1. r.pc = "dropkey" /\ Goto(p, r)
        BY <3>2, CachedType DEF Proc, RotationInv
      <4> HIDE DEF r
      <4> QED BY <4>1, UndoStep
    <3> QED BY <1>2, <2>2, <3>1, <3>2 DEF Probe, At, Pcs
  <2> QED BY <1>1, <1>2, <1>3, <1>4, <2>1, <2>2 DEF Recovery, RotateLocked, Recover, Refuse,
        DropKey, Sweep, Release, At, Pcs
<1>5. ASSUME NEW p \in Procs, Rekey(p) PROVE Undoing'
  <2>1. CASE Undo(p)
    <3> DEFINE r == [proc[p] EXCEPT !.pc = "dropkey", !.source = "old", !.undo = TRUE]
    <3>1. r.pc = "dropkey" /\ Goto(p, r)
      BY <2>1, CachedType DEF Proc, RotationInv, Undo
    <3> HIDE DEF r
    <3> QED BY <3>1, UndoStep
  <2>2. ASSUME NEW k, At(p, "read"), Goto(p, [proc[p] EXCEPT !.pc = "stage", !.new = k])
        PROVE  Undoing'
    <3> DEFINE r == [proc[p] EXCEPT !.pc = "stage", !.new = k]
    <3>1. ~r.undo /\ Goto(p, r)
      BY <2>2, CachedType DEF Proc, RotationInv, Undoing, At
    <3> HIDE DEF r
    <3> QED BY <3>1, UndoStep
  <2> QED BY <1>1, <1>2, <1>3, <1>5, <2>1, <2>2 DEF Rekey, Read, StageStore, StageKey, MoveAside,
        SwapStore, SetOldKeyAside, SwapKey, Verify, Commit, Release, At, Pcs
<1>6. ASSUME NEW p \in Procs, NEW i \in Items,
             Get(p, i) \/ Delete(p, i) \/ \E v \in Vals : SetBegin(p, i, v)
      PROVE  Undoing'
  <2>1. ASSUME NEW v \in Vals, SetBegin(p, i, v) PROVE Undoing'
    <3> DEFINE r == [proc[p] EXCEPT !.pc = "set", !.item = i, !.val = v]
    <3>1. ~r.undo /\ Goto(p, r)
      BY <2>1, CachedType DEF Proc, RotationInv, Undoing, SetBegin, At
    <3> HIDE DEF r
    <3> QED BY <3>1, UndoStep
  <2> QED BY <1>1, <1>3, <1>6, <2>1 DEF Get, Delete
<1>7. ASSUME NEW p \in Procs,
             SetWrite(p) \/ Leave(p) \/ (\E dry \in BOOLEAN : RotateBegin(p, dry)) \/ Crash(p)
      PROVE  Undoing'
  <2>1. ASSUME NEW dry \in BOOLEAN, RotateBegin(p, dry) PROVE Undoing'
    <3> DEFINE r == [proc[p] EXCEPT !.pc = "rotate", !.dry = dry]
    <3>1. ~r.undo /\ Goto(p, r)
      BY <2>1, CachedType DEF Proc, RotationInv, Undoing, RotateBegin, At
    <3> HIDE DEF r
    <3> QED BY <3>1, UndoStep
  <2>2. CASE Goto(p, Idle(NoKey))
    <3> DEFINE r == Idle(NoKey)
    <3>1. ~r.undo /\ Goto(p, r)
      BY <2>2 DEF Idle
    <3> HIDE DEF r
    <3> QED BY <3>1, UndoStep
  <2> QED BY <1>1, <1>7, <2>1, <2>2 DEF SetWrite, Leave, Crash
<1> QED BY <1>3, <1>4, <1>5, <1>6, <1>7 DEF Next, Rotation, vars

LEMMA TidyBeside ==
  ASSUME Tidy, Beside
  PROVE  Tidy'
BY DEF Tidy, Tidying, Beside, Artifacts

LEMMA GotoSets ==
  ASSUME RotationInv, NEW p \in Procs, NEW r, Goto(p, r)
  PROVE  proc'[p] = r
BY DEF Goto, RotationInv, TypeOK

LEMMA TidyStep ==
  ASSUME RotationInv, NEW p \in Procs, lock = p, NEW r, Goto(p, r),
         \/ lock' = p /\ Tidying(proc[p])'
         \/ lock' = NoProc /\ ~Artifacts'
  PROVE  Tidy'
<1>1. NoProc \notin Procs
  BY ValueAssumption
<1> QED BY <1>1 DEF Tidy

\* The steps of a rotation that only move on.
LEMMA TidyAdvances ==
  ASSUME RotationInv, Tidy, NEW p \in Procs, lock = p,
         \/ Recover(p) \/ DropKey(p) \/ StageStore(p) \/ StageKey(p) \/ MoveAside(p)
         \/ SwapStore(p) \/ SetOldKeyAside(p) \/ SwapKey(p) \/ Verify(p)
  PROVE  Tidy'
<1>1. proc[p] \in Proc /\ Tidying(proc[p])
  BY CachedType DEF RotationInv, Tidy
<1>2. PICK pc \in Locked : Next1(p, pc) /\ lock' = p /\
        \/ Recover(p) /\ pc = "read" /\ ~Artifacts'
        \/ DropKey(p) /\ pc = "installkey"
        \/ StageStore(p) /\ pc = "stagekey"
        \/ StageKey(p) /\ pc = "aside"
        \/ MoveAside(p) /\ pc = "swap"
        \/ SwapStore(p) /\ pc = "oldkey"
        \/ SetOldKeyAside(p) /\ pc = "newkey"
        \/ SwapKey(p) /\ pc = "verify"
        \/ Verify(p) /\ pc \in {"commit", "undo"}
  <2>1. CASE Recover(p)
    BY <1>1, <2>1 DEF Recover, Tidying, At, Artifacts, Locked, Pcs
  <2>2. CASE ~Recover(p)
    BY <2>2 DEF DropKey, StageStore, StageKey, MoveAside, SwapStore, SetOldKeyAside, SwapKey,
       Verify, Locked, Pcs
  <2> QED BY <2>1, <2>2
<1> DEFINE r == [proc[p] EXCEPT !.pc = pc]
<1>3. r.pc = pc /\ r.undo = proc[p].undo /\ r.source = proc[p].source /\ Goto(p, r)
  BY <1>1, <1>2 DEF Proc, Next1
<1> HIDE DEF r
<1>4. Tidying(proc[p])'
  BY <1>1, <1>2, <1>3, GotoSets DEF Tidying, DropKey, SwapStore, SetOldKeyAside, SwapKey, Verify, At
<1> QED BY <1>2, <1>3, <1>4, TidyStep

\* The steps that remove, choose or end.
LEMMA TidyEnds ==
  ASSUME RotationInv, Tidy, NEW p \in Procs, lock = p,
         InstallKey(p) \/ Sweep(p) \/ Read(p) \/ Undo(p) \/ Commit(p)
  PROVE  Tidy'
<1>1. proc[p] \in Proc /\ Tidying(proc[p])
  BY CachedType DEF RotationInv, Tidy
<1>2. CASE InstallKey(p)
  <2>1. CASE proc[p].undo
    <3>1. lock' = NoProc /\ ~Artifacts' /\ Goto(p, Done(p, proc[p].cached))
      BY <1>1, <1>2, <2>1 DEF InstallKey, Release, Tidying, Artifacts, At
    <3> QED BY <3>1, TidyStep
  <2>2. CASE ~proc[p].undo
    <3> DEFINE r == [proc[p] EXCEPT !.pc = "sweep", !.source = "none"]
    <3>1. r.pc = "sweep" /\ Goto(p, r) /\ lock' = p
      BY <1>1, <1>2, <2>2 DEF InstallKey, Proc
    <3> HIDE DEF r
    <3>2. Tidying(proc[p])'
      BY <3>1, GotoSets DEF Tidying
    <3> QED BY <3>1, <3>2, TidyStep
  <2> QED BY <2>1, <2>2
<1>3. CASE Sweep(p) /\ proc' = proc
  BY <1>3, ValueAssumption DEF Sweep, At, Tidy, Tidying
<1>4. CASE Sweep(p) /\ proc' # proc
  <2> DEFINE r == [proc[p] EXCEPT !.pc = "read"]
  <2>1. r.pc = "read" /\ Goto(p, r) /\ lock' = p /\ ~Artifacts'
    BY <1>1, <1>4 DEF Sweep, Next1, Proc, Artifacts
  <2> HIDE DEF r
  <2>2. Tidying(proc[p])'
    BY <2>1, GotoSets DEF Tidying
  <2> QED BY <2>1, <2>2, TidyStep
<1>5. CASE Read(p)
  <2>1. ~Artifacts'
    BY <1>1, <1>5 DEF Read, Tidying, At, Artifacts
  <2>2. CASE Release(p, proc[p].cached)
    BY <2>1, <2>2, TidyStep DEF Release
  <2>3. CASE lock' = lock /\ \E k \in FreshKeys :
               Goto(p, [proc[p] EXCEPT !.pc = "stage", !.new = k])
    <3>1. PICK k \in FreshKeys : Goto(p, [proc[p] EXCEPT !.pc = "stage", !.new = k])
      BY <2>3
    <3> DEFINE r == [proc[p] EXCEPT !.pc = "stage", !.new = k]
    <3>2. r.pc = "stage" /\ Goto(p, r)
      BY <1>1, <3>1 DEF Proc
    <3> HIDE DEF r
    <3>3. Tidying(proc[p])'
      BY <2>1, <3>2, GotoSets DEF Tidying
    <3> QED BY <2>3, <3>2, <3>3, TidyStep
  <2> QED BY <1>5, <2>2, <2>3 DEF Read
<1>6. CASE Undo(p)
  <2> DEFINE r == [proc[p] EXCEPT !.pc = "dropkey", !.source = "old", !.undo = TRUE]
  <2>1. r.pc = "dropkey" /\ r.source = "old" /\ Goto(p, r) /\ lock' = p
    BY <1>1, <1>6 DEF Undo, Proc
  <2> HIDE DEF r
  <2>2. Tidying(proc[p])'
    BY <1>1, <1>6, <2>1, GotoSets DEF Undo, Tidying, At
  <2> QED BY <2>1, <2>2, TidyStep
<1>7. CASE Commit(p) /\ bak # NoDir
  BY <1>1, <1>7, ValueAssumption DEF Commit, At, Tidy, Tidying
<1>8. CASE Commit(p) /\ bak = NoDir
  <2>1. lock' = NoProc /\ Goto(p, Done(p, proc[p].new)) /\ ~Artifacts'
    BY <1>1, <1>8 DEF Commit, Release, Tidying, At, Artifacts
  <2> QED BY <2>1, TidyStep
<1> QED BY <1>2, <1>3, <1>4, <1>5, <1>6, <1>7, <1>8

LEMMA TidyLocks ==
  ASSUME RotationInv, Tidy, NEW p \in Procs, RotateLocked(p)
  PROVE  Tidy'
<1>1. /\ proc[p] \in Proc /\ lock = NoProc /\ NoProc \notin Procs
      /\ UNCHANGED <<stage, bak, keyNew, keyOld>> /\ ~Artifacts
  BY CachedType, ValueAssumption DEF RotationInv, Tidy, RotateLocked
<1>2. ~Artifacts'
  BY <1>1 DEF Artifacts
<1>3. CASE Release(p, proc[p].cached)
  BY <1>1, <1>2, <1>3 DEF Release, Tidy
<1>4. CASE lock' = p /\ Next1(p, "recover")
  <2>1. proc'[p].pc = "recover"
    BY <1>1, <1>4 DEF Next1, Goto, Proc, RotationInv, TypeOK
  <2> QED BY <1>1, <1>2, <1>4, <2>1 DEF Tidy, Tidying
<1> QED BY <1>3, <1>4 DEF RotateLocked

LEMMA TidyRotation ==
  ASSUME RotationInv, Tidy, NEW p \in Procs, Rotation(p)
  PROVE  Tidy'
<1>1. CASE RotateLocked(p)
  BY <1>1, TidyLocks
<1>2. CASE ~RotateLocked(p)
  <2>1. lock = p
    <3>1. proc[p].pc \in Locked
      BY <1>2 DEF Rotation, Recovery, Rekey, Recover, Refuse, Probe, DropKey, InstallKey, Sweep,
         Read, StageStore, StageKey, MoveAside, SwapStore, SetOldKeyAside, SwapKey, Verify, Undo,
         Commit, At, Locked, Pcs
    <3> QED BY <3>1, LockedIsHeld DEF RotationInv
  <2>2. ~Refuse(p) /\ ~Probe(p)
    BY <2>1 DEF Tidy, Tidying, Refuse, Probe, At
  <2> QED BY <1>2, <2>1, <2>2, TidyAdvances, TidyEnds DEF Rotation, Recovery, Rekey
<1> QED BY <1>1, <1>2

\* A step of the holder, or one that takes or gives up the lock, between the
\* crash and the decision.
LEMMA InterruptedStep ==
  ASSUME RotationInv, Interrupted, NEW p \in Procs, lock \in {p, NoProc}, NEW r, Goto(p, r),
         OnlyFresh, truth' = truth, UNCHANGED <<stage, key>>,
         \/ UNCHANGED <<store, bak>>
         \/ store = NoDir /\ bak # NoDir /\ store' = bak,
         \/ lock' = NoProc
         \/ lock' = p /\ r.pc \in {"recover", "probe"}
         \/ lock' = p /\ r.pc = "read" /\ Staged' = {}
  PROVE  Interrupted'
<1>1. proc'[p] = r /\ NoProc \notin Procs
  BY ValueAssumption DEF Goto, RotationInv, TypeOK
<1>2. \A q \in Procs : lock' = q =>
        proc'[q].pc \in {"recover", "probe", "read"} /\ (proc'[q].pc = "read" => Staged' = {})
  BY <1>1
<1>3. Sealed(store)' /\ (store' = NoDir => Sealed(bak)')
  <2>1. CASE UNCHANGED <<store, bak>>
    <3>1. ASSUME NEW d \in {store, bak}, Sealed(d)
          PROVE  \A i \in Has(d) : truth'[i] = NoVal => d[i].key \notin Active'
      <4> DEFINE S == {d}
      <4>1. S \in SUBSET {store, stage, bak} /\ (\A c \in S : Sealed(c)) /\ CopiedFrom(d, S)
        BY <3>1, KeptIsCopied
      <4> HIDE DEF S
      <4> QED BY <4>1, CopyIsSealed
    <3> QED BY <2>1, <3>1 DEF Interrupted, Sealed
  <2>2. CASE store = NoDir /\ bak # NoDir /\ store' = bak
    <3> DEFINE S == {bak}
    <3>1. S \in SUBSET {store, stage, bak} /\ (\A c \in S : Sealed(c)) /\ CopiedFrom(bak, S)
      BY <2>2, KeptIsCopied DEF Interrupted
    <3> HIDE DEF S
    <3>2. \A i \in Has(bak) : truth'[i] = NoVal => bak[i].key \notin Active'
      BY <3>1, CopyIsSealed
    <3> QED BY <2>2, <3>2 DEF Sealed
  <2> QED BY <2>1, <2>2
<1> QED BY <1>2, <1>3 DEF Interrupted, At

\* A recovery in between either leaves things as they are or decides.
LEMMA InterruptedRotation ==
  ASSUME RotationInv, Undoing, Interrupted, NEW p \in Procs, Rotation(p)
  PROVE  Tidy' \/ Interrupted'
<1>1. /\ proc[p] \in Proc /\ NoProc \notin Procs /\ OnlyFresh /\ truth' = truth
      /\ lock = p <=> proc[p].pc \in Locked
  BY CachedType, ValueAssumption, RotationFrame, LockedIsHeld DEF RotationInv
<1>2. CASE RotateLocked(p)
  <2>1. lock = NoProc /\ UNCHANGED <<store, stage, bak, key>>
    BY <1>2 DEF RotateLocked
  <2>2. CASE Release(p, proc[p].cached)
    BY <1>1, <2>1, <2>2, InterruptedStep DEF Release
  <2>3. CASE lock' = p /\ Next1(p, "recover")
    <3> DEFINE r == [proc[p] EXCEPT !.pc = "recover"]
    <3>1. r.pc = "recover" /\ Goto(p, r)
      BY <1>1, <2>3 DEF Proc, Next1
    <3> HIDE DEF r
    <3> QED BY <1>1, <2>1, <2>3, <3>1, InterruptedStep
  <2> QED BY <1>2, <2>2, <2>3 DEF RotateLocked
<1>3. CASE Recover(p) /\ Artifacts
  <2> DEFINE r == [proc[p] EXCEPT !.pc = "probe"]
  <2>1. r.pc = "probe" /\ Goto(p, r) /\ lock = p /\ lock' = p
    BY <1>1, <1>3 DEF Recover, Proc, Next1, At, Locked, Pcs
  <2> HIDE DEF r
  <2>2. /\ UNCHANGED <<stage, key>>
        /\ UNCHANGED <<store, bak>> \/ (store = NoDir /\ bak # NoDir /\ store' = bak)
    BY <1>3 DEF Recover
  <2> QED BY <1>1, <2>1, <2>2, InterruptedStep
<1>4. CASE Recover(p) /\ ~Artifacts
  <2>1. lock = p /\ lock' = p /\ UNCHANGED <<stage, bak, keyNew, keyOld>>
    BY <1>1, <1>4 DEF Recover, At, Locked, Pcs
  <2> DEFINE r == [proc[p] EXCEPT !.pc = "read"]
  <2>2. r.pc = "read" /\ Goto(p, r) /\ ~Artifacts'
    BY <1>1, <1>4, <2>1 DEF Recover, Proc, Next1, Artifacts
  <2> HIDE DEF r
  <2>3. Tidying(proc[p])'
    BY <2>2, GotoSets DEF Tidying
  <2> QED BY <2>1, <2>2, <2>3, TidyStep
<1>5. CASE Refuse(p)
  <2>1. lock = p /\ UNCHANGED <<store, stage, bak, key>> /\ Release(p, proc[p].cached)
    BY <1>1, <1>5 DEF Refuse, At, Locked, Pcs
  <2> QED BY <1>1, <2>1, InterruptedStep DEF Release
<1>6. CASE Probe(p) /\ Decide = "read"
  <2>1. /\ lock = p /\ lock' = p /\ UNCHANGED <<store, stage, bak, key>>
        /\ Next1(p, "read") /\ Staged = {}
    BY <1>1, <1>6, ReadOpensNothing DEF Probe, At, Locked, Pcs, RotationInv
  <2> DEFINE r == [proc[p] EXCEPT !.pc = "read"]
  <2>2. r.pc = "read" /\ Goto(p, r) /\ Staged' = {}
    BY <1>1, <2>1 DEF Proc, Next1, Staged, Has, Opens
  <2> HIDE DEF r
  <2> QED BY <1>1, <2>1, <2>2, InterruptedStep
<1>7. CASE Probe(p) /\ Decide # "read"
  <2>1. lock = p /\ lock' = p /\ ~proc[p].undo
    BY <1>1, <1>7 DEF Probe, At, Locked, Pcs, Undoing
  <2>2. Decide \in {"sweep", "forward", "rollback", "rollbackstore"}
    BY <1>7 DEF Decide
  <2>3. CASE Next1(p, "sweep")
    <3> DEFINE r == [proc[p] EXCEPT !.pc = "sweep"]
    <3>1. r.pc = "sweep" /\ Goto(p, r)
      BY <1>1, <2>3 DEF Proc, Next1
    <3> HIDE DEF r
    <3>2. Tidying(proc[p])'
      BY <3>1, GotoSets DEF Tidying
    <3> QED BY <2>1, <3>1, <3>2, TidyStep
  <2>4. CASE \E src \in {"new", "old"} :
               Goto(p, [proc[p] EXCEPT !.pc = "dropkey", !.source = src])
    <3>1. PICK src \in {"new", "old"} :
            Goto(p, [proc[p] EXCEPT !.pc = "dropkey", !.source = src])
      BY <2>4
    <3> DEFINE r == [proc[p] EXCEPT !.pc = "dropkey", !.source = src]
    <3>2. r.pc = "dropkey" /\ r.undo = proc[p].undo /\ Goto(p, r)
      BY <1>1, <3>1 DEF Proc
    <3> HIDE DEF r
    <3>3. Tidying(proc[p])'
      BY <2>1, <3>2, GotoSets DEF Tidying
    <3> QED BY <2>1, <3>2, <3>3, TidyStep
  <2> QED BY <1>7, <2>2, <2>3, <2>4 DEF Probe
<1>8. CASE Read(p)
  <2>1. lock = p /\ Staged = {}
    BY <1>1, <1>8 DEF Read, At, Locked, Pcs, Interrupted
  <2>2. UNCHANGED <<store, stage, bak, key>> /\ Release(p, proc[p].cached)
    BY <1>8, <2>1 DEF Read
  <2> QED BY <1>1, <2>1, <2>2, InterruptedStep DEF Release
<1>9. CASE ~(RotateLocked(p) \/ Recover(p) \/ Refuse(p) \/ Probe(p) \/ Read(p))
  <2>1. proc[p].pc \in Locked \ {"recover", "probe", "read"}
    BY <1>9 DEF Rotation, Recovery, Rekey, DropKey, InstallKey, Sweep, StageStore, StageKey,
       MoveAside, SwapStore, SetOldKeyAside, SwapKey, Verify, Undo, Commit, At, Locked, Pcs
  <2> QED BY <1>1, <2>1 DEF Interrupted
<1> QED BY <1>2, <1>3, <1>4, <1>5, <1>6, <1>7, <1>8, <1>9

\* Gets and commands beside it, sets and deletes between its holders.
LEMMA InterruptedBeside ==
  ASSUME RotationInv, Interrupted, NEW p \in Procs,
         \/ \E i \in Items : Get(p, i) \/ Delete(p, i) \/ \E v \in Vals : SetBegin(p, i, v)
         \/ SetWrite(p) \/ Leave(p) \/ \E dry \in BOOLEAN : RotateBegin(p, dry)
  PROVE  Interrupted'
<1>1. CASE SetWrite(p) \/ \E i \in Items : Delete(p, i)
  <2>1. /\ OnlyFresh /\ Beside /\ lock = NoProc /\ NoProc \notin Procs
        /\ CopiedFrom(store', {store})
    BY <1>1, WriteFrame DEF CopiedFrom
  <2>2. Sealed(store)'
    <3> DEFINE S == {store}
    <3>1. S \in SUBSET {store, stage, bak} /\ (\A c \in S : Sealed(c)) /\ CopiedFrom(store', S)
      BY <2>1 DEF Interrupted
    <3> HIDE DEF S
    <3> QED BY <2>1, <3>1, CopyIsSealed DEF Sealed
  <2>3. store' = NoDir => Sealed(bak)'
    <3> SUFFICES ASSUME store' = NoDir PROVE Sealed(bak)'
      OBVIOUS
    <3>1. store = NoDir /\ truth' = truth
      BY <1>1, WriteFrame DEF SetWrite, Delete, Has
    <3> DEFINE S == {bak}
    <3>2. S \in SUBSET {store, stage, bak} /\ (\A c \in S : Sealed(c)) /\ CopiedFrom(bak, S)
      BY <3>1, KeptIsCopied DEF Interrupted
    <3> HIDE DEF S
    <3>3. \A i \in Has(bak) : truth'[i] = NoVal => bak[i].key \notin Active'
      BY <2>1, <3>2, CopyIsSealed
    <3> QED BY <2>1, <3>3 DEF Beside, Sealed
  <2>4. lock' = NoProc
    BY <2>1 DEF Beside
  <2> QED BY <2>1, <2>2, <2>3, <2>4 DEF Interrupted
<1>2. CASE \/ \E i \in Items : Get(p, i) \/ \E v \in Vals : SetBegin(p, i, v)
           \/ Leave(p) \/ \E dry \in BOOLEAN : RotateBegin(p, dry)
  <2>1. /\ OnlyFresh /\ Beside /\ truth' = truth /\ key' \in {key} \cup FreshKeys
        /\ store' = store \/ (store = NoDir /\ store' = Empty)
    BY <1>2, OpenFrame
  <2>2. Has(store') = Has(store) /\ \A i \in Has(store) : store'[i] = store[i]
    BY <2>1, DirFacts DEF Has
  <2>3. Staged = {} => Staged' = {}
    BY <2>1, <2>2 DEF Staged, Opens, FreshKeys, UsedKeys, KeysOf
  <2>4. ASSUME NEW d \in {store, bak}, Sealed(d)
        PROVE  \A i \in Has(d) : truth'[i] = NoVal => d[i].key \notin Active'
    <3> DEFINE S == {d}
    <3>1. S \in SUBSET {store, stage, bak} /\ (\A c \in S : Sealed(c)) /\ CopiedFrom(d, S)
      BY <2>1, <2>4, KeptIsCopied
    <3> HIDE DEF S
    <3> QED BY <2>1, <3>1, CopyIsSealed
  <2>5. Sealed(store)' /\ (store' = NoDir => Sealed(bak)')
    <3>1. Empty # NoDir
      BY DirFacts
    <3> QED BY <2>1, <2>2, <2>4, <3>1 DEF Sealed, Interrupted, Beside
  <2> QED BY <2>1, <2>3, <2>5 DEF Interrupted, Beside, At
<1> QED BY <1>1, <1>2

\* The crash itself, on a tidy disk.
LEMMA CrashInterrupts ==
  ASSUME RotationInv, Tidy, AllSealed, NEW p \in Procs, Crash(p)
  PROVE  Tidy' \/ Interrupted'
<1>1. /\ CrashDisk(p) /\ Goto(p, Idle(NoKey)) /\ UNCHANGED <<key, keyNew, keyOld>>
      /\ lock' = IF lock = p THEN NoProc ELSE lock
  BY DEF Crash
<1>2. AllSealed' /\ NoProc \notin Procs
  BY AllSealedRotation, ValueAssumption
<1>3. CASE lock = p
  BY <1>1, <1>2, <1>3 DEF Interrupted, AllSealed
<1>4. CASE lock # p
  <2>1. UNCHANGED <<store, stage, bak>>
    BY <1>1, <1>4, CrashDiskType
  <2>2. \A q \in Procs : lock = q => proc'[q] = proc[q]
    BY <1>1, <1>4 DEF Goto, RotationInv, TypeOK
  <2> QED BY <1>1, <1>4, <2>1, <2>2 DEF Tidy, Tidying, Artifacts
<1> QED BY <1>3, <1>4

LEMMA OneCrashNext ==
  ASSUME MaxCrashes <= 1, RotationInv, OneCrashInv, [Next]_vars
  PROVE  OneCrashInv'
<1>0. Undoing'
  BY UndoingNext DEF OneCrashInv
<1>1. ASSUME NEW p \in Procs, Rotation(p) PROVE OneCrashInv'
  <2>1. UNCHANGED crashes
    BY <1>1 DEF Rotation, Recovery, Rekey, RotateLocked, Recover, Refuse, Probe, DropKey,
       InstallKey, Sweep, Read, StageStore, StageKey, MoveAside, SwapStore, SetOldKeyAside,
       SwapKey, Verify, Undo, Commit
  <2> QED BY <1>1, <2>1, <1>0, TidyRotation, AllSealedRotation, InterruptedRotation DEF OneCrashInv
<1>2. ASSUME NEW p \in Procs,
             \/ \E i \in Items : Get(p, i) \/ Delete(p, i) \/ \E v \in Vals : SetBegin(p, i, v)
             \/ SetWrite(p) \/ Leave(p) \/ \E dry \in BOOLEAN : RotateBegin(p, dry)
      PROVE  OneCrashInv'
  <2>1. Beside
    BY <1>2, OpenFrame, WriteFrame
  <2>2. Tidy /\ AllSealed => AllSealed'
    <3> SUFFICES ASSUME Tidy, AllSealed PROVE AllSealed'
      OBVIOUS
    <3>1. CASE SetWrite(p) \/ \E i \in Items : Delete(p, i)
      <4>1. stage = NoDir /\ bak = NoDir
        BY <3>1, WriteFrame DEF Tidy, Artifacts
      <4> QED BY <3>1, <4>1, AllSealedWrite
    <3>2. CASE ~(SetWrite(p) \/ \E i \in Items : Delete(p, i))
      BY <1>2, <3>2, AllSealedOpen
    <3> QED BY <3>1, <3>2
  <2> QED BY <1>0, <1>2, <2>1, <2>2, TidyBeside, InterruptedBeside DEF OneCrashInv, Beside
<1>3. ASSUME NEW p \in Procs, Crash(p) PROVE OneCrashInv'
  <2>1. crashes = 0 /\ crashes' # 0
    BY <1>3, RoleAssumption DEF Crash, RotationInv, TypeOK
  <2> QED BY <1>0, <1>3, <2>1, CrashInterrupts DEF OneCrashInv
<1>4. CASE UNCHANGED vars
  BY <1>0, <1>4 DEF vars, OneCrashInv, Tidy, Tidying, Artifacts, AllSealed, Sealed, Active, Candidates,
     Interrupted, At, Staged, Has, Opens
<1> QED BY <1>1, <1>2, <1>3, <1>4 DEF Next

-----------------------------------------------------------------------------
\* Where the orphans of the store are sealed they are no reason to refuse.
LEMMA SealedRefusal ==
  ASSUME Sealed(store), SafeToSweep
  PROVE  ~Refuses
<1> DEFINE known == {i \in Has(store) : store[i].key \in Candidates}
           open(k) == {i \in known : Opens(store, i, k)}
<1>1. ASSUME NEW i \in known PROVE Opens(store, i, key)
  <2>1. i \in Items /\ store[i].key \in Active
    BY DEF Has, Active, Candidates
  <2>2. truth[i] # NoVal
    BY <2>1 DEF Sealed
  <2> QED BY <2>1, <2>2 DEF SafeToSweep
<1>2. open(key) = known
  BY <1>1
<1>3. Classify(store, key) = IF known = {} THEN "none" ELSE "all"
  BY <1>2 DEF Classify
<1>4. known = {} => Classify(store, keyNew) = "none"
  BY DEF Classify
<1>5. BackupOnly = {}
  BY DEF SafeToSweep
<1> HIDE DEF known, open
<1> QED BY <1>3, <1>4, <1>5 DEF Refuses

\* Recovery refuses to proceed only where sweeping would destroy something:
\* orphans are no reason.  It holds after any crashes and failed read-backs,
\* beside any sets, those of a long-lived process with a stale passphrase
\* included, and beside deletes too as long as there is one crash.  With two it
\* does not: an item deleted after the first may come back from the backup with
\* a rollback, and if the second cuts that recovery before it installs the key,
\* a set provisions another one and the deleted item makes the store mixed.
THEOREM RefusalJustified ==
  ASSUME Deleters = {} \/ MaxCrashes <= 1
  PROVE  Spec => []RefusesOnlyMixed
<1>1. CASE Deleters = {}
  <2>1. AllSealed => RefusesOnlyMixed
    BY SealedRefusal DEF AllSealed, RefusesOnlyMixed
  <2>2. RotationInv /\ AllSealed /\ [Next]_vars => AllSealed'
    BY <1>1, AllSealedNext
  <2> QED BY <2>1, <2>2, AllSealedInit, InvariantHolds, PTL DEF Spec
<1>2. CASE MaxCrashes <= 1
  <2>1. Init => OneCrashInv
    <3> SUFFICES ASSUME Init PROVE OneCrashInv
      OBVIOUS
    <3>1. Tidy /\ crashes = 0
      BY ValueAssumption DEF Init, Tidy, Artifacts
    <3>2. Undoing
      BY DEF Init, Undoing, Idle
    <3> QED BY <3>1, <3>2, AllSealedInit DEF OneCrashInv
  <2>2. RotationInv /\ OneCrashInv => RefusesOnlyMixed
    <3> SUFFICES ASSUME RotationInv, OneCrashInv, NEW p \in Procs, At(p, "probe"), SafeToSweep
                 PROVE  ~Refuses
      BY DEF RefusesOnlyMixed
    <3>1. lock = p
      BY LockedIsHeld DEF RotationInv, At, Locked, Pcs
    <3>2. Interrupted
      BY <3>1 DEF OneCrashInv, Tidy, Tidying, At
    <3> QED BY <3>2, SealedRefusal DEF Interrupted
  <2>3. RotationInv /\ OneCrashInv /\ [Next]_vars => OneCrashInv'
    BY <1>2, OneCrashNext
  <2> QED BY <2>1, <2>2, <2>3, InvariantHolds, PTL DEF Spec
<1> QED BY <1>1, <1>2
=============================================================================
