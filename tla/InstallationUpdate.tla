------------------------- MODULE InstallationUpdate -------------------------
(***************************************************************************)
(* One frozen installation of a harness and everything that changes or     *)
(* launches it (src/cli/src/lib/installations): the update transaction     *)
(* (update.ts, strategies.ts), a repair install (versions.ts), the launch  *)
(* gate and its leases (launch-gate.ts, shims.ts), the policy writer       *)
(* (update-policy.ts) and the check that nothing runs (active-check.ts).   *)
(*                                                                         *)
(* Processes share the version directory, its record installation.json     *)
(* and one lock.  An action is the code of one process from one await or   *)
(* file operation another process can observe to the next.  A process that *)
(* dies leaves its lock behind as stale, and the next acquirer breaks it.  *)
(* That a live holder is not taken for dead is the lock library's promise. *)
(***************************************************************************)
EXTENDS Naturals

CONSTANTS
    Updaters,       \* processes that run updateInstallation or installVersion
    Launchers,      \* processes that launch the harness
    Releases,       \* vendor releases
    NumEntries,     \* NPM_LIVE_ENTRIES.length
    Gone,           \* no such entry in a directory
    None,           \* launcher without a child
    Free, Stale,    \* nobody holds the lock; its holder is dead
    Transactional,  \* the strategy's flag: npm-package or install-script
    MaxFaults       \* bound: crashed updaters and failed restorations

ASSUME ReleasesAssumption == Gone \notin Releases /\ Releases # {}
ASSUME EntriesAssumption == NumEntries \in Nat \ {0}
ASSUME LockAssumption ==
    /\ Free # Stale /\ Free \notin Updaters /\ Stale \notin Updaters
ASSUME ModeAssumption == Transactional \in BOOLEAN /\ MaxFaults \in Nat

Entries == 1 .. NumEntries
Trees == [Entries -> Releases \cup {Gone}]
ASSUME NoneAssumption == None \notin Trees

Whole(r) == [e \in Entries |-> r]
Empty == [e \in Entries |-> Gone]
Policies == {"latest", "pinned"}

VARIABLES
    rec,        \* installation.json: [release, policy]
    tree,       \* the live entries of the version directory
    lock,       \* the installation lock: an updater, Free or Stale
    autoOn,     \* isAutoUpdateEnabledForAgent
    tx,         \* [Updaters -> the transaction the process is in]
    orphans,    \* contents of the .rollback-* directories nobody will remove
    launcher,   \* [Launchers -> "idle" | "leased" | "spawned"]
    child,      \* [Launchers -> the tree its child was started from]
    damage,     \* history: what has upset the tree since the last record
    wanted,     \* history: the policy set last
    faults      \* crashes and failed restorations so far

vars == <<rec, tree, lock, autoOn, tx, orphans, launcher, child, damage,
          wanted, faults>>

Records == [release : Releases, policy : Policies]
SomeRelease == Releases \cup {Gone}
Phases == {"idle", "resolve", "scan", "stage", "staged", "rescan", "aside",
           "in", "probe", "record", "finalize", "iscan", "fetch", "irecord"}
Swapping == {"aside", "in", "probe", "record", "finalize"}
Kinds == {"auto", "manual", "install"}

\* A transaction: what was asked, the copy of the record read under the lock,
\* the release that was staged, the displaced entries and the loop index.
Transaction == [ phase : Phases, kind : Kinds, to : SomeRelease,
                 policy : Policies \cup {"keep"},
                 copy : [release : SomeRelease, policy : Policies],
                 staged : SomeRelease, aside : Trees,
                 n : 1 .. NumEntries + 1 ]

NoTransaction ==
    [ phase |-> "idle", kind |-> "manual", to |-> Gone, policy |-> "keep",
      copy |-> [release |-> Gone, policy |-> "latest"], staged |-> Gone,
      aside |-> Empty, n |-> 1 ]

Init ==
    /\ \E r \in Releases, p \in Policies :
          /\ rec = [release |-> r, policy |-> p]
          /\ tree = Whole(r) /\ wanted = p
    /\ tx = [u \in Updaters |-> NoTransaction]
    /\ lock = Free /\ autoOn \in BOOLEAN
    /\ orphans = {} /\ damage = {} /\ faults = 0
    /\ launcher = [l \in Launchers |-> "idle"]
    /\ child = [l \in Launchers |-> None]

Unlocked == lock \in {Free, Stale}

\* hasLiveLaunchLease: the lease of a live launcher.
LeaseLive == \E l \in Launchers : launcher[l] # "idle"

\* Mutant: only children of live launchers are looked for.
MutProcessLive == \E l \in Launchers : child[l] # None /\ launcher[l] # "idle"

\* installationLooksActive over a process-table scan.
ProcessLive == \E l \in Launchers : child[l] # None

\* isInstallationLikelyActive runs up to its first await: the lease half.
MayProceed == Transactional => ~LeaseLive

Goto(u, p) == tx' = [tx EXCEPT ![u].phase = p]

\* The transaction ends: the lock is released, the staging tree removed.
Finish(u) ==
    /\ tx' = [tx EXCEPT ![u] = NoTransaction]
    /\ lock' = IF lock = u THEN Free ELSE lock
-----------------------------------------------------------------------------
(* Begin: acquire the lock and read the record under it.                   *)

Asked(k, p) == (k = "auto") => (p = "keep")

BeginUpdate(u) ==
    /\ tx[u].phase = "idle" /\ Unlocked
    /\ \E k \in {"auto", "manual"}, r \in Releases, p \in Policies \cup {"keep"} :
          /\ Asked(k, p)
          /\ tx' = [tx EXCEPT ![u] = [NoTransaction EXCEPT
                       !.phase = "resolve", !.kind = k, !.to = r,
                       !.policy = p, !.copy = rec]]
    /\ lock' = u
    /\ UNCHANGED <<rec, tree, autoOn, orphans, launcher, child, damage,
                   wanted, faults>>

\* The policy a successful transaction records, from the copy it read.
PolicyOf(u) ==
    IF tx[u].policy = "keep" THEN tx[u].copy.policy ELSE tx[u].policy

\* The release is already there: only the requested policy is written.
AlreadyCurrent(u) ==
    /\ \/ tx[u].phase = "resolve" /\ tx[u].to = tx[u].copy.release
       \/ tx[u].phase = "staged" /\ tx[u].staged = tx[u].copy.release
    /\ rec' = IF tx[u].policy = "keep" THEN rec
              ELSE [tx[u].copy EXCEPT !.policy = tx[u].policy]
    /\ wanted' = IF tx[u].policy = "keep" THEN wanted ELSE tx[u].policy
    /\ Finish(u)
    /\ UNCHANGED <<tree, autoOn, orphans, launcher, child, damage, faults>>

\* Mutant: the pin is not looked at.
MutAutoMayRun(u, p) == tx[u].kind = "auto" => autoOn

\* What an automatic update must not override, against a given policy.
AutoMayRun(u, p) == tx[u].kind = "auto" => p # "pinned" /\ autoOn

\* resolveTarget has answered: the checks before staging, and the lease half
\* of the activity check.
Resolve(u) ==
    /\ tx[u].phase = "resolve" /\ tx[u].to # tx[u].copy.release
    /\ AutoMayRun(u, tx[u].copy.policy) /\ MayProceed
    /\ Goto(u, IF Transactional THEN "scan" ELSE "stage")
    /\ UNCHANGED <<rec, tree, lock, autoOn, orphans, launcher, child, damage,
                   wanted, faults>>

\* The process-table half of an activity check.
Scan(u) ==
    /\ tx[u].phase \in {"scan", "rescan", "iscan"} /\ ~ProcessLive
    /\ Goto(u, CASE tx[u].phase = "scan" -> "stage"
                 [] tx[u].phase = "rescan" -> "aside"
                 [] tx[u].phase = "iscan" -> "fetch")
    /\ damage' = IF tx[u].phase = "iscan" THEN damage \cup {"install"}
                 ELSE damage
    /\ UNCHANGED <<rec, tree, lock, autoOn, orphans, launcher, child, wanted,
                   faults>>

\* Mutant: the staged release is not kept for the commit.
MutStage(u) ==
    /\ tx[u].phase = "stage" /\ Goto(u, "staged")
    /\ UNCHANGED <<rec, tree, lock, autoOn, orphans, launcher, child, damage,
                   wanted, faults>>

\* The release was fetched beside the live tree and its binary launches.  An
\* install script may fetch another release than the one asked for.
Stage(u) ==
    /\ tx[u].phase = "stage"
    /\ \E r \in IF Transactional THEN {tx[u].to} ELSE Releases :
          tx' = [tx EXCEPT ![u].phase = "staged", ![u].staged = r]
    /\ UNCHANGED <<rec, tree, lock, autoOn, orphans, launcher, child, damage,
                   wanted, faults>>

\* The second round of checks, on a fresh record, before the swap.
Recheck(u) ==
    /\ tx[u].phase = "staged" /\ tx[u].staged # tx[u].copy.release
    /\ AutoMayRun(u, rec.policy) /\ MayProceed
    /\ Goto(u, IF Transactional THEN "rescan" ELSE "aside")
    /\ UNCHANGED <<rec, tree, lock, autoOn, orphans, launcher, child, damage,
                   wanted, faults>>

\* Cancellation, a deferral, a failed lookup, fetch, probe or scan: nothing
\* that is live has been touched.
GiveUp(u) ==
    /\ tx[u].phase \in {"resolve", "scan", "stage", "staged", "rescan",
                        "iscan"}
    /\ Finish(u)
    /\ UNCHANGED <<rec, tree, autoOn, orphans, launcher, child, damage,
                   wanted, faults>>
-----------------------------------------------------------------------------
(* The swap: live entries aside, staged entries in, probe, record, drop    *)
(* the rollback material.                                                  *)

MoveAside(u) ==
    LET e == tx[u].n IN
    /\ tx[u].phase = "aside" /\ e \in Entries
    /\ tree' = [tree EXCEPT ![e] = Gone]
    /\ tx' = [tx EXCEPT ![u].aside[e] = tree[e], ![u].n = e + 1]
    /\ UNCHANGED <<rec, lock, autoOn, orphans, launcher, child, damage,
                   wanted, faults>>

AllAside(u) ==
    /\ tx[u].phase = "aside" /\ tx[u].n = NumEntries + 1
    /\ tx' = [tx EXCEPT ![u].phase = "in", ![u].n = 1]
    /\ UNCHANGED <<rec, tree, lock, autoOn, orphans, launcher, child, damage,
                   wanted, faults>>

MoveIn(u) ==
    LET e == tx[u].n IN
    /\ tx[u].phase = "in" /\ e \in Entries
    /\ tree' = [tree EXCEPT ![e] = tx[u].staged]
    /\ tx' = [tx EXCEPT ![u].n = e + 1]
    /\ UNCHANGED <<rec, lock, autoOn, orphans, launcher, child, damage,
                   wanted, faults>>

AllIn(u) ==
    /\ tx[u].phase = "in" /\ tx[u].n = NumEntries + 1
    /\ Goto(u, "probe")
    /\ UNCHANGED <<rec, tree, lock, autoOn, orphans, launcher, child, damage,
                   wanted, faults>>

Probe(u) ==
    /\ tx[u].phase = "probe" /\ Goto(u, "record")
    /\ UNCHANGED <<rec, tree, lock, autoOn, orphans, launcher, child, damage,
                   wanted, faults>>

\* Entries the staged release already occupies.
StagedIn(u) ==
    CASE tx[u].phase = "in" -> 1 .. tx[u].n - 1
      [] tx[u].phase \in {"probe", "record"} -> Entries
      [] OTHER -> {}

Displaced(u) == {e \in Entries : tx[u].aside[e] # Gone}

\* restorePreCommitState, with the entries it fails to put back.
Restored(u, bad) ==
    [e \in Entries |->
        IF e \in bad THEN Gone
        ELSE IF e \in Displaced(u) THEN tx[u].aside[e]
        ELSE IF e \in StagedIn(u) THEN Gone ELSE tree[e]]

Leftover(u, bad) ==
    [e \in Entries |-> IF e \in bad THEN tx[u].aside[e] ELSE Gone]

\* Mutant: the rollback material is dropped before the record is written, so
\* that a failing write has nothing to put back.
MutUndo(u) ==
    /\ tx[u].phase \in {"aside", "in", "probe", "record"}
    /\ tree' = IF tx[u].phase = "record" THEN tree ELSE Restored(u, {})
    /\ Finish(u)
    /\ UNCHANGED <<rec, autoOn, orphans, launcher, child, damage, wanted,
                   faults>>

\* A move, the live probe or the record write failed.
Undo(u) ==
    /\ tx[u].phase \in {"aside", "in", "probe", "record"}
    /\ tree' = Restored(u, {})
    /\ Finish(u)
    /\ UNCHANGED <<rec, autoOn, orphans, launcher, child, damage, wanted,
                   faults>>

\* Mutant: the rollback directory is removed although a restoration failed.
MutUndoFails(u) ==
    /\ tx[u].phase \in {"aside", "in", "probe", "record"}
    /\ faults < MaxFaults /\ faults' = faults + 1
    /\ \E bad \in SUBSET Displaced(u) \ {{}} : tree' = Restored(u, bad)
    /\ damage' = damage \cup {"undo"}
    /\ Finish(u)
    /\ UNCHANGED <<rec, autoOn, orphans, launcher, child, wanted>>

\* The restoration itself fails for some entries: they stay in the rollback
\* directory, which is kept.
UndoFails(u) ==
    /\ tx[u].phase \in {"aside", "in", "probe", "record"}
    /\ faults < MaxFaults /\ faults' = faults + 1
    /\ \E bad \in SUBSET Displaced(u) \ {{}} :
          /\ tree' = Restored(u, bad)
          /\ orphans' = orphans \cup {Leftover(u, bad)}
    /\ damage' = damage \cup {"undo"}
    /\ Finish(u)
    /\ UNCHANGED <<rec, autoOn, launcher, child, wanted>>

\* recordRelease writes the copy read at the start, with the new release.
Record(u) ==
    /\ tx[u].phase = "record"
    /\ rec' = [release |-> tx[u].staged, policy |-> PolicyOf(u)]
    /\ wanted' = IF tx[u].policy = "keep" THEN wanted ELSE tx[u].policy
    /\ damage' = {}
    /\ Goto(u, "finalize")
    /\ UNCHANGED <<tree, lock, autoOn, orphans, launcher, child, faults>>

Finalize(u) ==
    /\ tx[u].phase = "finalize" /\ Finish(u)
    /\ UNCHANGED <<rec, tree, autoOn, orphans, launcher, child, damage,
                   wanted, faults>>
-----------------------------------------------------------------------------
(* A repair install of the same label, from npm.  That of an install-script*)
(* harness, which runs the vendor's installer outside the lock, is left    *)
(* out.                                                                    *)

BeginInstall(u) ==
    /\ Transactional
    /\ tx[u].phase = "idle" /\ Unlocked /\ ~LeaseLive
    /\ \E r \in Releases :
          tx' = [tx EXCEPT ![u] = [NoTransaction EXCEPT
                    !.phase = "iscan", !.kind = "install", !.to = r,
                    !.copy = rec]]
    /\ lock' = u
    /\ UNCHANGED <<rec, tree, autoOn, orphans, launcher, child, damage,
                   wanted, faults>>

FetchSucceeds(u) ==
    /\ tx[u].phase = "fetch"
    /\ tree' = Whole(tx[u].to)
    /\ Goto(u, "irecord")
    /\ UNCHANGED <<rec, lock, autoOn, orphans, launcher, child, damage,
                   wanted, faults>>

\* removeInstallArtifacts after a failed fetch or integrity gate; without npm
\* what was there stays.
FetchFails(u) ==
    /\ tx[u].phase = "fetch"
    /\ tree' \in {Empty, tree}
    /\ Finish(u)
    /\ UNCHANGED <<rec, autoOn, orphans, launcher, child, damage, wanted,
                   faults>>

\* createInstallation: an existing record keeps its identity and policy.
InstallRecord(u) ==
    /\ tx[u].phase = "irecord"
    /\ rec' = [rec EXCEPT !.release = tx[u].to]
    /\ damage' = {}
    /\ Finish(u)
    /\ UNCHANGED <<tree, autoOn, orphans, launcher, child, wanted, faults>>

\* Its write fails: the healthy tree stays, the record is the old one.
InstallUnrecorded(u) ==
    /\ tx[u].phase = "irecord" /\ Finish(u)
    /\ UNCHANGED <<rec, tree, autoOn, orphans, launcher, child, damage,
                   wanted, faults>>
-----------------------------------------------------------------------------
(* Policy, switch and crash.                                               *)

\* Mutant: the policy is written without the installation lock.
MutSetPolicy(p) ==
    /\ rec' = [rec EXCEPT !.policy = p] /\ wanted' = p
    /\ UNCHANGED <<tree, lock, autoOn, tx, orphans, launcher, child, damage,
                   faults>>

\* setInstallationUpdatePolicy: a short read-modify-write under the lock.
SetPolicy(p) ==
    /\ Unlocked /\ lock' = Free
    /\ rec' = [rec EXCEPT !.policy = p] /\ wanted' = p
    /\ UNCHANGED <<tree, autoOn, tx, orphans, launcher, child, damage, faults>>

\* updates.auto is an operator's switch that no lock covers.
ToggleAuto ==
    /\ autoOn' = ~autoOn
    /\ UNCHANGED <<rec, tree, lock, tx, orphans, launcher, child, damage,
                   wanted, faults>>

\* What a directory can hold when the process dies in the middle of npm.
TornBy(u) ==
    IF tx[u].phase = "fetch"
    THEN {t \in Trees : \A e \in Entries : t[e] \in {tree[e], tx[u].to, Gone}}
    ELSE {tree}

Crash(u) ==
    /\ tx[u].phase # "idle"
    /\ faults < MaxFaults /\ faults' = faults + 1
    /\ tree' \in TornBy(u)
    /\ damage' = IF tx[u].phase \in {"aside", "in", "probe", "record"}
                 THEN damage \cup {"crash"} ELSE damage
    /\ orphans' = IF Displaced(u) = {} THEN orphans
                  ELSE orphans \cup {tx[u].aside}
    /\ lock' = IF lock = u THEN Stale ELSE lock
    /\ tx' = [tx EXCEPT ![u] = NoTransaction]
    /\ UNCHANGED <<rec, autoOn, launcher, child, wanted>>
-----------------------------------------------------------------------------
(* Launches.  A lease names the launcher's pid; it is live while that      *)
(* process is.  A launch that cannot get the lock is refused.              *)

\* Mutant: a launch that cannot get the lock goes ahead (fails open).
MutLease(l) ==
    /\ launcher[l] = "idle" /\ child[l] = None
    /\ launcher' = [launcher EXCEPT ![l] = "leased"]
    /\ UNCHANGED <<rec, tree, lock, autoOn, tx, orphans, child, damage,
                   wanted, faults>>

\* withLaunchGate(recordLaunchLease): acquire, write the lease, release.
Lease(l) ==
    /\ launcher[l] = "idle" /\ child[l] = None
    /\ Unlocked /\ lock' = Free
    /\ launcher' = [launcher EXCEPT ![l] = "leased"]
    /\ UNCHANGED <<rec, tree, autoOn, tx, orphans, child, damage, wanted,
                   faults>>

\* The spawn, outside the lock.
Spawn(l) ==
    /\ launcher[l] = "leased"
    /\ launcher' = [launcher EXCEPT ![l] = "spawned"]
    /\ child' = [child EXCEPT ![l] = tree]
    /\ UNCHANGED <<rec, tree, lock, autoOn, tx, orphans, damage, wanted,
                   faults>>

\* The child exits; a live launcher then drops its lease.
ChildExit(l) ==
    /\ child[l] # None
    /\ child' = [child EXCEPT ![l] = None]
    /\ launcher' = [launcher EXCEPT ![l] = "idle"]
    /\ UNCHANGED <<rec, tree, lock, autoOn, tx, orphans, damage, wanted,
                   faults>>

\* The launcher dies: its lease is dead, a child it started lives on.
LauncherDies(l) ==
    /\ launcher[l] # "idle"
    /\ launcher' = [launcher EXCEPT ![l] = "idle"]
    /\ UNCHANGED <<rec, tree, lock, autoOn, tx, orphans, child, damage,
                   wanted, faults>>
-----------------------------------------------------------------------------
UpdaterStep(u) ==
    \/ BeginUpdate(u) \/ AlreadyCurrent(u) \/ Resolve(u) \/ Scan(u)
    \/ Stage(u) \/ Recheck(u) \/ GiveUp(u)
    \/ MoveAside(u) \/ AllAside(u) \/ MoveIn(u) \/ AllIn(u) \/ Probe(u)
    \/ Undo(u) \/ UndoFails(u) \/ Record(u) \/ Finalize(u)
    \/ BeginInstall(u) \/ FetchSucceeds(u) \/ FetchFails(u)
    \/ InstallRecord(u) \/ InstallUnrecorded(u) \/ Crash(u)

LauncherStep(l) == Lease(l) \/ Spawn(l) \/ ChildExit(l) \/ LauncherDies(l)

Next ==
    \/ \E u \in Updaters : UpdaterStep(u)
    \/ \E l \in Launchers : LauncherStep(l)
    \/ \E p \in Policies : SetPolicy(p)
    \/ ToggleAuto

Spec == Init /\ [][Next]_vars
-----------------------------------------------------------------------------
(* Properties.                                                             *)

TypeOK ==
    /\ rec \in Records /\ tree \in Trees
    /\ lock \in Updaters \cup {Free, Stale}
    /\ autoOn \in BOOLEAN /\ tx \in [Updaters -> Transaction]
    /\ \A u \in Updaters :
          /\ tx[u].phase # "idle" => tx[u].to # Gone /\ tx[u].copy \in Records
          /\ tx[u].phase \in {"staged", "rescan"} \cup Swapping
                => tx[u].staged # Gone
    /\ orphans \subseteq Trees
    /\ launcher \in [Launchers -> {"idle", "leased", "spawned"}]
    /\ child \in [Launchers -> Trees \cup {None}]
    /\ damage \subseteq {"crash", "undo", "install"}
    /\ wanted \in Policies /\ faults \in 0 .. MaxFaults

\* A harness never has the files it was started from replaced while it runs
\* (the activity checks and the launch gate, update.ts and launch-gate.ts).
NoSwapUnderProcess ==
    Transactional => \A l \in Launchers : child[l] # None => child[l] = tree

\* A policy set by the operator survives every concurrent update, although
\* recordRelease writes back a copy read minutes earlier (update-policy.ts,
\* setInstallationUpdatePolicy: "silently reverting a just-applied pin").
PolicySurvives == rec.policy = wanted

\* An automatic update never makes a release live while the record is pinned
\* (update.ts, abortIfPinnedBeforeCommit).
PinHonoured ==
    \A u \in Updaters :
        tx[u].kind = "auto" /\ tx[u].phase \in Swapping => rec.policy # "pinned"

\* Once the lock is free the record names the release that is live, unless a
\* crash, a failed restoration or a failed repair came in between.
RecordTellsTree ==
    Unlocked /\ damage = {} => tree = Whole(rec.release)

\* Every entry of the recorded release is live, or kept in rollback material,
\* whatever fails or dies (strategies.ts: "never erase the only good copy");
\* a repair install wipes the tree on purpose.
Kept(e) ==
    \/ tree[e] = rec.release
    \/ \E u \in Updaters : tx[u].aside[e] = rec.release
    \/ \E o \in orphans : o[e] = rec.release
NothingErased == "install" \notin damage => \A e \in Entries : Kept(e)

\* A launch never starts from a half-swapped tree, even where no activity
\* check guards the swap (update.ts: install-script harnesses "have no
\* reversible swap to protect", although their commit is the npm swap).
LaunchesWhole ==
    [][\A l \in Launchers :
          child[l] = None /\ child'[l] # None /\ damage = {}
             => \E r \in Releases : child'[l] = Whole(r)]_vars

\* The installation is the register its docblock promises: launches see whole
\* releases, updates replace them atomically and only at rest.
Register == INSTANCE InstallationRegister WITH
    release <- rec.release, policy <- rec.policy,
    sound <- (damage = {}), running <- child
ImplementsRegister == Register!RegisterSpec
=============================================================================
