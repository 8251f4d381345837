---------------------------- MODULE SecretsRotation ----------------------------
(***************************************************************************)
(* The encrypted file store of secrets and the rotation of its machine     *)
(* passphrase (src/cli/src/lib/secrets/filestore.ts, canonical key layout).*)
(*                                                                         *)
(* A store directory maps an item to its .enc file, which is sealed under  *)
(* one key; a key file holds one key.  A rotation stages a re-keyed store  *)
(* beside the live one and swaps store and key in four renames; whatever a *)
(* crash leaves behind is repaired, or refused, by the next rotation.      *)
(* set, delete and rotate hold the store lock; get and the directory       *)
(* creation of set do not.  A crash kills the process, not the machine: it *)
(* may land between any two steps, and in the middle of a recursive        *)
(* removal or of the staging loop.                                         *)
(***************************************************************************)
EXTENDS Naturals, FiniteSets

CONSTANTS
    Items, Keys, Vals,
    NoKey, NoItem, NoDir, NoFile, NoVal, NoProc,
    Procs,
    Rotators,      \* processes that run rotate-passphrase
    Readers,       \* processes that get
    Writers,       \* processes that set
    Deleters,      \* processes that delete
    LongLived,     \* processes that keep cachedPassphrase between operations
    CliGuard,      \* rotate comes through the CLI command's own check
    DiskFaults,    \* the read-back after the swap may fail
    MaxCrashes     \* bound: crashes

ASSUME ValueAssumption ==
    /\ NoKey \notin Keys /\ NoItem \notin Items /\ NoVal \notin Vals /\ NoProc \notin Procs
    /\ NoFile \notin [key : Keys, val : Vals]
    /\ NoDir \notin [Items -> [key : Keys, val : Vals] \cup {NoFile}]
ASSUME RoleAssumption ==
    /\ Rotators \cup Readers \cup Writers \cup Deleters \cup LongLived \subseteq Procs
    /\ CliGuard \in BOOLEAN /\ DiskFaults \in BOOLEAN /\ MaxCrashes \in Nat

VARIABLES
    store, stage, bak,      \* <dir>, <dir>.rotate-<rand>, <dir>.rotate-old-<rand>
    key, keyNew, keyOld,    \* passphrase, .rotate-new, .rotate-oldkey
    proc,                   \* what each process is doing
    lock,                   \* the process holding the store lock
    truth,                  \* ghost: the value each item was last set to
    crashes

vars == <<store, stage, bak, key, keyNew, keyOld, proc, lock, truth, crashes>>

File == [key : Keys, val : Vals]
Dir  == [Items -> File \cup {NoFile}]
Empty == [i \in Items |-> NoFile]

Pcs == {"idle", "set", "rotate", "recover", "probe", "dropkey", "installkey", "sweep",
        "read", "stage", "stagekey", "aside", "swap", "oldkey", "newkey", "verify",
        "undo", "commit"}

Proc == [ pc     : Pcs,
          item   : Items \cup {NoItem},         \* of a set
          val    : Vals \cup {NoVal},
          dry    : BOOLEAN,                    \* --dry-run
          new    : Keys \cup {NoKey},          \* newPass
          source : {"none", "new", "old"},     \* the key file being installed
          undo   : BOOLEAN,                    \* rolling back a failed read-back
          cached : Keys \cup {NoKey} ]         \* cachedPassphrase

Idle(k) == [pc |-> "idle", item |-> NoItem, val |-> NoVal, dry |-> FALSE,
            new |-> NoKey, source |-> "none", undo |-> FALSE, cached |-> k]

-----------------------------------------------------------------------------
(* Directories and keys. *)
Has(d) == IF d = NoDir THEN {} ELSE {i \in Items : d[i] # NoFile}

Opens(d, i, k) == k # NoKey /\ d[i].key = k

\* Removing a tree file by file may leave any part of it.
Torn(d) == IF d = NoDir THEN {NoDir}
           ELSE {[i \in Items |-> IF i \in kept THEN d[i] ELSE NoFile] : kept \in SUBSET Items}

Candidates == {key, keyNew, keyOld} \ {NoKey}

\* Mutant: an orphan counts against the store.
MutClassify(d, k) ==
    LET open  == {i \in Has(d) : Opens(d, i, k)}
    IN  IF open = {} THEN "none" ELSE IF open = Has(d) THEN "all" ELSE "some"

\* classifyStore(): orphans, which open under no candidate, are ignored.
Classify(d, k) ==
    LET known == {i \in Has(d) : d[i].key \in Candidates}
        open  == {i \in known : Opens(d, i, k)}
    IN  IF open = {} THEN "none" ELSE IF open = known THEN "all" ELSE "some"

\* backupOnlyEnc()
BackupOnly == Has(bak) \ Has(store)

\* hasInterruptedRotationArtifacts()
Artifacts == stage # NoDir \/ bak # NoDir \/ keyNew # NoKey \/ keyOld # NoKey

KeysOf(d) == {d[i].key : i \in Has(d)}
UsedKeys == KeysOf(store) \cup KeysOf(stage) \cup KeysOf(bak) \cup Candidates
            \cup {proc[p].cached : p \in Procs} \cup {proc[p].new : p \in Procs}
FreshKeys == Keys \ UsedKeys

\* The keys getPassphrase() may return, provisioning one if there is none.
Passphrase(p) ==
    IF proc[p].cached # NoKey THEN {proc[p].cached}
    ELSE IF key # NoKey THEN {key} ELSE FreshKeys

\* The key file after getPassphrase() returned k.
Provisioned(p, k) == IF proc[p].cached = NoKey /\ key = NoKey THEN k ELSE key

\* A short-lived process exits after its operation.
Done(p, k) == Idle(IF p \in LongLived THEN k ELSE NoKey)

Goto(p, r) == proc' = [proc EXCEPT ![p] = r]
At(p, pc)  == proc[p].pc = pc
Next1(p, pc) == Goto(p, [proc[p] EXCEPT !.pc = pc])

\* The locked section ends, by a return or a throw.
Release(p, k) == lock' = NoProc /\ Goto(p, Done(p, k))

\* A consistent store, beside orphans sealed under a key nobody has any more.
Init ==
    /\ \E k \in Keys, lost \in Keys, v \in Vals, live, orphans \in SUBSET Items :
         /\ k # lost /\ live # {} /\ live \cap orphans = {}
         /\ store = [i \in Items |-> IF i \in live THEN [key |-> k, val |-> v]
                                     ELSE IF i \in orphans THEN [key |-> lost, val |-> v]
                                     ELSE NoFile]
         /\ truth = [i \in Items |-> IF i \in live THEN v ELSE NoVal]
         /\ key = k
    /\ stage = NoDir /\ bak = NoDir /\ keyNew = NoKey /\ keyOld = NoKey
    /\ proc = [p \in Procs |-> Idle(NoKey)]
    /\ lock = NoProc /\ crashes = 0

-----------------------------------------------------------------------------
(* Items. *)

\* fileGet() of an existing item, decrypted or not, without the lock.
Get(p, i) ==
    /\ At(p, "idle") /\ p \in Readers /\ i \in Has(store)
    /\ \E k \in Passphrase(p) :
         /\ key' = Provisioned(p, k)
         /\ Goto(p, Done(p, k))
    /\ UNCHANGED <<store, stage, bak, keyNew, keyOld, lock, truth, crashes>>

\* ensureFileDir() runs before the lock is taken.
SetBegin(p, i, v) ==
    /\ At(p, "idle") /\ p \in Writers
    /\ store' = IF store = NoDir THEN Empty ELSE store
    /\ Goto(p, [proc[p] EXCEPT !.pc = "set", !.item = i, !.val = v])
    /\ UNCHANGED <<stage, bak, key, keyNew, keyOld, lock, truth, crashes>>

\* Mutant: set does not take the lock.
MutSetWrite(p) ==
    /\ At(p, "set")
    /\ \E k \in Passphrase(p) :
         LET i == proc[p].item IN
         /\ key' = Provisioned(p, k)
         /\ Goto(p, Done(p, k))
         /\ IF store = NoDir THEN UNCHANGED <<store, truth>>
            ELSE /\ store' = [store EXCEPT ![i] = [key |-> k, val |-> proc[p].val]]
                 /\ truth' = [truth EXCEPT ![i] = proc[p].val]
    /\ UNCHANGED <<stage, bak, keyNew, keyOld, lock, crashes>>

\* The locked section of fileSet(); it throws if the directory went away.
SetWrite(p) ==
    /\ At(p, "set") /\ lock = NoProc
    /\ \E k \in Passphrase(p) :
         LET i == proc[p].item IN
         /\ key' = Provisioned(p, k)
         /\ Goto(p, Done(p, k))
         /\ IF store = NoDir THEN UNCHANGED <<store, truth>>
            ELSE /\ store' = [store EXCEPT ![i] = [key |-> k, val |-> proc[p].val]]
                 /\ truth' = [truth EXCEPT ![i] = proc[p].val]
    /\ UNCHANGED <<stage, bak, keyNew, keyOld, lock, crashes>>

Delete(p, i) ==
    /\ At(p, "idle") /\ p \in Deleters /\ lock = NoProc /\ i \in Has(store)
    /\ store' = [store EXCEPT ![i] = NoFile]
    /\ truth' = [truth EXCEPT ![i] = NoVal]
    /\ UNCHANGED <<stage, bak, key, keyNew, keyOld, proc, lock, crashes>>

\* A command, or a process that cached the passphrase, ends or gives up
\* waiting for the lock.
Leave(p) ==
    /\ \/ At(p, "idle") /\ proc[p].cached # NoKey
       \/ At(p, "set") /\ lock # NoProc
       \/ At(p, "rotate") /\ lock # NoProc
    /\ Goto(p, Idle(NoKey))
    /\ UNCHANGED <<store, stage, bak, key, keyNew, keyOld, lock, truth, crashes>>

-----------------------------------------------------------------------------
(* rotatePassphrase(): entry and recovery. *)

RotateBegin(p, dry) ==
    /\ At(p, "idle") /\ p \in Rotators
    /\ CliGuard => key # NoKey                 \* machinePassphraseExists()
    /\ Goto(p, [proc[p] EXCEPT !.pc = "rotate", !.dry = dry])
    /\ UNCHANGED <<store, stage, bak, key, keyNew, keyOld, lock, truth, crashes>>

\* Mutant: a rotation does not wait for the lock.
MutRotateUnlocked(p) ==
    /\ At(p, "rotate")
    /\ IF key # NoKey \/ keyNew # NoKey \/ keyOld # NoKey
       THEN lock' = p /\ Next1(p, "recover")
       ELSE Release(p, proc[p].cached)
    /\ UNCHANGED <<store, stage, bak, key, keyNew, keyOld, truth, crashes>>

\* A rotation goes ahead with a key file or with what an interrupted one left
\* of it (resolveInterruptedKeyPath()).
RotateLocked(p) ==
    /\ At(p, "rotate") /\ lock = NoProc
    /\ IF key # NoKey \/ keyNew # NoKey \/ keyOld # NoKey
       THEN lock' = p /\ Next1(p, "recover")
       ELSE Release(p, proc[p].cached)         \* nothing to rotate
    /\ UNCHANGED <<store, stage, bak, key, keyNew, keyOld, truth, crashes>>

\* Nothing to recover, or the store directory is restored from its backup.
Recover(p) ==
    /\ At(p, "recover")
    /\ IF Artifacts /\ store = NoDir /\ bak # NoDir
       THEN store' = bak /\ bak' = NoDir
       ELSE UNCHANGED <<store, bak>>
    /\ Next1(p, IF Artifacts THEN "probe" ELSE "read")
    /\ UNCHANGED <<stage, key, keyNew, keyOld, lock, truth, crashes>>

Refuses ==
    /\ Has(store) # {}
    /\ \/ Classify(store, key) = "some"
       \/ Classify(store, key) = "all" /\ BackupOnly # {}
       \/ Classify(store, key) = "none" /\ Classify(store, keyNew) = "some"

Refuse(p) ==
    /\ At(p, "probe") /\ Refuses
    /\ Release(p, proc[p].cached)
    /\ UNCHANGED <<store, stage, bak, key, keyNew, keyOld, truth, crashes>>

\* Mutant: a store and a key file that are both there are taken to match.
MutDecide == IF key # NoKey THEN "sweep" ELSE IF keyNew # NoKey THEN "forward" ELSE "read"

\* What recovery does with a store it does not refuse.
Decide ==
    IF Has(store) = {} THEN (IF key # NoKey THEN "sweep" ELSE "read")
    ELSE IF Classify(store, key) = "all" THEN "sweep"
    ELSE IF Classify(store, keyNew) = "all" THEN "forward"
    ELSE IF Classify(bak, keyOld) = "all" THEN "rollback"
    ELSE IF Classify(bak, key) = "all" THEN "rollbackstore"
    ELSE "read"

Probe(p) ==
    /\ At(p, "probe") /\ ~Refuses
    /\ CASE Decide = "sweep"   -> Next1(p, "sweep") /\ UNCHANGED <<store, bak>>
         [] Decide = "read"    -> Next1(p, "read") /\ UNCHANGED <<store, bak>>
         [] Decide = "forward" -> /\ Goto(p, [proc[p] EXCEPT !.pc = "dropkey", !.source = "new"])
                                  /\ UNCHANGED <<store, bak>>
         [] Decide = "rollback" -> /\ Goto(p, [proc[p] EXCEPT !.pc = "dropkey", !.source = "old"])
                                   /\ store' = bak /\ bak' = NoDir
         [] Decide = "rollbackstore" -> Next1(p, "sweep") /\ store' = bak /\ bak' = NoDir
    /\ UNCHANGED <<stage, key, keyNew, keyOld, lock, truth, crashes>>

\* rm of the key file, then a rename over it.
DropKey(p) ==
    /\ At(p, "dropkey")
    /\ key' = NoKey
    /\ Next1(p, "installkey")
    /\ UNCHANGED <<store, stage, bak, keyNew, keyOld, lock, truth, crashes>>

InstallKey(p) ==
    /\ At(p, "installkey")
    /\ IF proc[p].source = "new"
       THEN key' = keyNew /\ keyNew' = NoKey /\ UNCHANGED keyOld
       ELSE key' = keyOld /\ keyOld' = NoKey /\ UNCHANGED keyNew
    /\ IF proc[p].undo THEN Release(p, proc[p].cached)
       ELSE /\ Goto(p, [proc[p] EXCEPT !.pc = "sweep", !.source = "none"])
            /\ UNCHANGED lock
    /\ UNCHANGED <<store, stage, bak, truth, crashes>>

\* sweep(): the directories, then the key artifacts, one removal at a time.
Sweep(p) ==
    /\ At(p, "sweep")
    /\ \/ /\ stage # NoDir \/ bak # NoDir
          /\ \/ stage # NoDir /\ stage' = NoDir /\ UNCHANGED bak
             \/ bak # NoDir /\ bak' = NoDir /\ UNCHANGED stage
          /\ UNCHANGED <<keyNew, keyOld, proc>>
       \/ /\ stage = NoDir /\ bak = NoDir /\ keyNew # NoKey
          /\ keyNew' = NoKey
          /\ UNCHANGED <<stage, bak, keyOld, proc>>
       \/ /\ stage = NoDir /\ bak = NoDir /\ keyNew = NoKey
          /\ keyOld' = NoKey
          /\ Next1(p, "read")
          /\ UNCHANGED <<stage, bak, keyNew>>
    /\ UNCHANGED <<store, key, lock, truth, crashes>>

-----------------------------------------------------------------------------
(* rotatePassphrase(): re-key and swap. *)

Staged == {i \in Has(store) : Opens(store, i, key)}

\* Reading the key file, listing the items and re-keying them in memory: a
\* missing key, an empty store or no item that opens aborts the rotation.
Read(p) ==
    /\ At(p, "read")
    /\ IF key = NoKey \/ Staged = {} \/ proc[p].dry
       THEN Release(p, proc[p].cached)
       ELSE /\ \E k \in FreshKeys :
                 Goto(p, [proc[p] EXCEPT !.pc = "stage", !.new = k])
            /\ UNCHANGED lock
    /\ UNCHANGED <<store, stage, bak, key, keyNew, keyOld, truth, crashes>>

\* Mutant: the items that do not open are left behind.
MutRekeyed(p) ==
    [i \in Items |-> IF i \in Staged THEN [store[i] EXCEPT !.key = proc[p].new] ELSE NoFile]

\* The replacement store: orphans are copied through verbatim.
Rekeyed(p) ==
    [i \in Items |-> IF i \in Staged THEN [store[i] EXCEPT !.key = proc[p].new]
                     ELSE store[i]]

StageStore(p) ==
    /\ At(p, "stage")
    /\ stage' = Rekeyed(p)
    /\ Next1(p, "stagekey")
    /\ UNCHANGED <<store, bak, key, keyNew, keyOld, lock, truth, crashes>>

StageKey(p) ==
    /\ At(p, "stagekey")
    /\ keyNew' = proc[p].new
    /\ Next1(p, "aside")
    /\ UNCHANGED <<store, stage, bak, key, keyOld, lock, truth, crashes>>

MoveAside(p) ==
    /\ At(p, "aside")
    /\ bak' = store /\ store' = NoDir
    /\ Next1(p, "swap")
    /\ UNCHANGED <<stage, key, keyNew, keyOld, lock, truth, crashes>>

SwapStore(p) ==
    /\ At(p, "swap")
    /\ store' = stage /\ stage' = NoDir
    /\ Next1(p, "oldkey")
    /\ UNCHANGED <<bak, key, keyNew, keyOld, lock, truth, crashes>>

SetOldKeyAside(p) ==
    /\ At(p, "oldkey")
    /\ keyOld' = key /\ key' = NoKey
    /\ Next1(p, "newkey")
    /\ UNCHANGED <<store, stage, bak, keyNew, lock, truth, crashes>>

SwapKey(p) ==
    /\ At(p, "newkey")
    /\ key' = keyNew /\ keyNew' = NoKey
    /\ Next1(p, "verify")
    /\ UNCHANGED <<store, stage, bak, keyOld, lock, truth, crashes>>

Verify(p) ==
    /\ At(p, "verify")
    /\ \/ Next1(p, "commit")
       \/ DiskFaults /\ Next1(p, "undo")
    /\ UNCHANGED <<store, stage, bak, key, keyNew, keyOld, lock, truth, crashes>>

\* The read-back failed: the backup replaces the store, the old key the new.
Undo(p) ==
    /\ At(p, "undo")
    /\ store' = bak /\ bak' = NoDir
    /\ Goto(p, [proc[p] EXCEPT !.pc = "dropkey", !.source = "old", !.undo = TRUE])
    /\ UNCHANGED <<stage, key, keyNew, keyOld, lock, truth, crashes>>

\* The old ciphertext goes, then the old key.
Commit(p) ==
    /\ At(p, "commit")
    /\ IF bak # NoDir
       THEN bak' = NoDir /\ UNCHANGED <<keyOld, lock, proc>>
       ELSE keyOld' = NoKey /\ Release(p, proc[p].new) /\ UNCHANGED bak
    /\ UNCHANGED <<store, stage, key, keyNew, truth, crashes>>

-----------------------------------------------------------------------------
(* A crash; the lock of a dead holder goes stale and is broken. *)

\* What a removal or a copy in progress may leave.
CrashDisk(p) ==
    CASE At(p, "stage") -> stage' \in Torn(Rekeyed(p)) /\ UNCHANGED <<store, bak>>
      [] At(p, "sweep") -> /\ UNCHANGED store
                           /\ \/ stage' \in Torn(stage) /\ UNCHANGED bak
                              \/ bak' \in Torn(bak) /\ UNCHANGED stage
      [] At(p, "commit") -> bak' \in Torn(bak) /\ UNCHANGED <<store, stage>>
      [] At(p, "undo") \/ (At(p, "probe") /\ ~Refuses /\ Decide \in {"rollback", "rollbackstore"}) ->
           store' \in Torn(store) \cup {NoDir} /\ UNCHANGED <<stage, bak>>
      [] OTHER -> UNCHANGED <<store, stage, bak>>

Crash(p) ==
    /\ crashes < MaxCrashes /\ ~At(p, "idle")
    /\ crashes' = crashes + 1
    /\ CrashDisk(p)
    /\ Goto(p, Idle(NoKey))
    /\ lock' = IF lock = p THEN NoProc ELSE lock
    /\ UNCHANGED <<key, keyNew, keyOld, truth>>

-----------------------------------------------------------------------------
Recovery(p) == RotateLocked(p) \/ Recover(p) \/ Refuse(p) \/ Probe(p)
               \/ DropKey(p) \/ InstallKey(p) \/ Sweep(p)
Rekey(p) == Read(p) \/ StageStore(p) \/ StageKey(p) \/ MoveAside(p) \/ SwapStore(p)
            \/ SetOldKeyAside(p) \/ SwapKey(p) \/ Verify(p) \/ Undo(p) \/ Commit(p)
Rotation(p) == Recovery(p) \/ Rekey(p)

Next ==
    \E p \in Procs :
      \/ \E i \in Items : Get(p, i) \/ Delete(p, i) \/ \E v \in Vals : SetBegin(p, i, v)
      \/ SetWrite(p) \/ Leave(p)
      \/ \E dry \in BOOLEAN : RotateBegin(p, dry)
      \/ Rotation(p) \/ Crash(p)

Spec == Init /\ [][Next]_vars

\* A rotation that was started runs on, and one is started again and again
\* (dry or not: both recover): "the next run" of the help text.
FairSpec ==
    /\ Spec
    /\ \A p \in Rotators : WF_vars(Rotation(p)) /\ WF_vars(\E d \in BOOLEAN : RotateBegin(p, d))

-----------------------------------------------------------------------------
(* Type invariant. *)
TypeOK ==
    /\ {store, stage, bak} \subseteq Dir \cup {NoDir}
    /\ {key, keyNew, keyOld} \subseteq Keys \cup {NoKey}
    /\ proc \in [Procs -> Proc]
    /\ lock \in Procs \cup {NoProc}
    /\ \A p \in Procs : lock = p <=> proc[p].pc \notin {"idle", "set", "rotate"}
    /\ truth \in [Items -> Vals \cup {NoVal}]
    /\ crashes \in 0 .. MaxCrashes

(* Durability. *)

\* The last value of i is in the store or in its backup, sealed under a key
\* file on disk.
Recoverable(i) ==
    \/ truth[i] = NoVal
    \/ \E d \in {store, bak} :
         i \in Has(d) /\ d[i].key \in Candidates /\ d[i].val = truth[i]

\* No secret is lost.
NothingLost == \A i \in Items : Recoverable(i)

\* No write is lost by the commands and rotations that run beside it, a
\* failed read-back included, as long as none of them crashes.
WritesSurvive == crashes = 0 => NothingLost

\* A secret is lost in one way only: a recovery that finds the store directory
\* there but without an item takes the backup for dead weight and sweeps it
\* ("an empty or unreadable store holds no ciphertext at risk").  No crash in
\* the renames, in the recovery or in the undo of a failed read-back, and no
\* set, get or delete between two of them, loses one otherwise.
LostOnlyBySweep ==
    [][\A i \in Items : Recoverable(i) /\ ~Recoverable(i)' =>
          \E p \in Procs : At(p, "sweep") /\ Has(store) = {}]_vars

\* The store opens under the key file, with nothing left to repair.
Healthy ==
    /\ store # NoDir /\ ~Artifacts
    /\ \A i \in Items : truth[i] # NoVal =>
         i \in Has(store) /\ Opens(store, i, key) /\ store[i].val = truth[i]

\* Outside a locked section every item opens under the key file.
NoMixedStore ==
    lock = NoProc /\ crashes = 0 /\ store # NoDir =>
      \A i \in Has(store) : truth[i] # NoVal => Opens(store, i, key)

\* The swap starts from a complete staged store and over no older backup, the
\* only copies a recovery could still need.
SwapStartsClean ==
    \A p \in Procs : At(p, "aside") =>
      /\ bak = NoDir /\ keyOld = NoKey
      /\ Has(stage) = Has(store)
      /\ \A i \in Has(store) : stage[i].val = store[i].val

\* Recovery refuses only where sweeping would lose something: a secret the
\* store does not hold under the key file, or a file only the backup has.
\* Orphans in the store alone are no reason.
SafeToSweep ==
    /\ BackupOnly = {}
    /\ \A i \in Items : truth[i] # NoVal =>
         i \in Has(store) /\ Opens(store, i, key) /\ store[i].val = truth[i]
RefusesOnlyMixed ==
    \A p \in Procs : At(p, "probe") /\ Refuses => ~SafeToSweep

\* The help text of the command: "a crash inside the swap self-heals on the
\* next rotate-passphrase run".
HealsItself == []<>Healthy
=============================================================================
