# agents-cli: TLA+ models and proofs

`src/` is agents-cli: a command-line tool and a background daemon that install
coding-agent harnesses (Claude, Codex, ...), run them locally, on other hosts and
in the cloud, on a schedule (routines), in teams, and keep their state, sessions,
secrets and accounts.  This directory holds TLA+ modules translated from that
code, the TLC configurations that check them on small instances, and theorems
with TLAPS proofs.  `PROJECT.json` maps every definition to the lines it models.

Paths below are relative to `src/cli/src/lib/` unless they start with `src/`.

## 1. Inventory

| Component | State | Operations | What is hard | What makes it correct |
|---|---|---|---|---|
| Daemon service supervisor (`daemon/supervisor.ts`, `daemon/service.ts`) | one `RegisteredService` per service: state, failure counter, in-flight guard, timers, waiters | start, stop, restart, runNow, tick, park, backoff, awaitIdle | callbacks racing awaits; deadlines racing late results; handles of timers overwritten or spent | no guard without an owner; no tick pulled from under; a parked service is retried; a stopped service stays stopped; boot, shutdown and control requests end |
| Daemon process (`daemon/daemon.ts`) | service toggles, restart queue, pid file and heartbeat | boot, SIGHUP reload, SIGTERM shutdown, singleton claim | signals between any two steps; two daemons starting at once | a reload takes effect; shutdown ends; one daemon |
| Routines (`scheduling/routines.ts`, `scheduler.ts`, `overdue.ts`, `catchup.ts`, `daemon/runner.ts`) | job files, run directories with `meta.json`, live children | cron fire, catch-up, manual run, settle, reap, cancel | several processes claim the same slot; a crash between claim, spawn and record; reaper racing settlement | a slot runs at most once; a run is settled once; no overlap |
| File locks and atomic writes (`fs-atomic.ts`) | lock directory and its mtime | acquire, heartbeat, stale break, release | crashed and suspended holders; budgets against staleness | mutual exclusion while holders refresh; a crash does not block forever |
| Installations (`installations/`) | version directory, `installation.json`, launch leases | update (stage, verify, commit, record, roll back), launch, pin | update against launch against pin, crash inside the swap | record and tree agree; no swap under a running harness; a pin is not lost |
| Teams (`teams/`) | teammate records with `after` edges, run processes | dispatch, reconcile, supervise, stop | two dispatchers of one team; dead predecessors; restarts | a teammate starts after its predecessors and at most once |
| Box leases (`crabbox/lease.ts`) | lease store, pool | lease, extend, release, reap | create failing half way; expiry racing use | no leaked box, none shared |
| Secrets (`secrets/`) | keychain items, encrypted store, broker cache with TTL | unlock, get, put, rotate, lock | rotation crash; TTL racing a read; sleep | a rotation loses no item; an expired entry is not served |
| Monitors (`monitors/`) | per-monitor state, fired fingerprints | poll, compare, dispatch | duplicate or lost fire after a crash | an event fires once |
| Feed and mailbox (`feed/`, `mailbox.ts`) | append-only event files, message boxes | publish, block, answer, deliver | two writers; delivery racing a reader | a message is delivered once and not lost |
| Accounts and auth (`accounts/`, `auth-health.ts`) | slots, active account, auth operation lock | add, switch, migrate, sync tokens | token refresh on two hosts | slots and accounts agree |
| Self-update (`self-update.ts`, `daemon/self-update-service.ts`) | installed CLI release, backoff | check, install, restart daemon | update while ticks run | old release stays usable |
| Sessions (`session/`) | SQLite index of transcripts | scan, index, sync | partial files, concurrent scans | the index follows the files |
| Hosts and cloud dispatch (`hosts/`, `cloud/`) | remote run records | dispatch, poll, reconcile | lost replies, duplicated dispatch | one run per request |
| Browser automation (`browser/`) | tasks, tabs, drivers | start, act, reap | reap racing use | no task without an owner |
| Devices and fleet (`devices/`, `fleet/`) | device registry, shared-repository sync | probe, sync | concurrent git writers | converging state |
| Traces and shares (`traces/`, `share/`) | upload cursors | sync | partial upload | nothing lost or sent twice |
| CLI surface (`src/cli/src/commands/`, formatting, agent specs) | none of its own | parse, print | - | - |
| Native helpers (`src/native/`, `menubar/`, `computer/`) | platform UI state | - | platform APIs | - |

The parts meet in files under `~/.agents` (job files, run records, installation
records, lock directories), in child processes the daemon spawns, in signals
(SIGHUP, SIGTERM) and, inside the daemon, in the one event loop the supervisor's
services share.

## 2. Plan and state

Order: what the whole system stands on first.

| Modules | Models | State |
|---|---|---|
| `ServiceSupervisor`, `MCServiceSupervisor`, `ServiceSupervisorProofs` | the supervisor and the control edges of `daemon.ts` that drive it | checked, seven theorems |
| `SecretsRotation`, `MCSecretsRotation`, `SecretsRotationProofs`, `SecretsDurabilityProofs` | the encrypted store, its lock section, rotation and recovery | checked, six theorems |
| `InstallationRegister` | abstract: a launch sees one whole release, an update replaces it in one step | specification of the next |
| `InstallationUpdate`, `MCInstallationUpdate`, `InstallationUpdateProofs` | update transaction, repair install, launch gate, policy write | checked, refinement included; seven theorems |
| `RoutineRuns`, `MCRoutineRuns`, `RoutineRunsProofs` | slots, launch lock, run records, children, sweeps | checked, four theorems |
| `Mailbox`, `MCMailbox`, `MailboxProofs` | message files, drain, sweeps, receipts in the feed block | checked, five theorems |
| `Teams`, `MCTeams`, `TeamsProofs`, `TeamsWatchProofs` | teammate records and processes under several managers without a lock | checked, five theorems |

Each module composes the processes that share its files; the modules share no state
with one another, so they are not composed further.  A property earns its place when it
takes several steps, often of several processes, to violate.  What would come next:
teammates and runs on other hosts, the leases of boxes, and the broker's TTL cache.

## 3. ServiceSupervisor

**State.** `entry[s]` is the `RegisteredService` of `s` (`state`, `consecutiveFailures`,
`inFlight`, `activeTick`, `timer`, `restartTimer`, `startupTimer`, `idleWaiters`), and
beside it what the event loop still holds for that service: lifecycle calls being
awaited (`starting`, `restarting`, `stopping`), resumed control edges (`resumed`),
the last abandoned tick (`orphan`), and timers whose handle was overwritten
(`leaked`, `strayRestart`, `strayStartup`).  `enabled` is the toggle the last reload
read, `phase`, `loop` and `closing` are the boot and shutdown loops of `daemon.ts`.

**Actions.** One action per stretch of code between two awaits: the supervisor is
one object on one event loop, so nothing else interleaves.  `Turn` says that a
macrotask (a timer, a settled call, a signal) runs only when no control edge is due.
`BootStart`, `BootSkip`, `BootDone` are `startAll()`; `StartSettles` the two ends of
`startOne()`; `IntervalFires`, `RunNow`, `StartupTimerFires` the three ways into
`runTick()`; `TickSucceeds`, `TickThrows`, `TickDeadline`, `OrphanSettles` its ends;
`RestartTimerFires`, `RestartSucceeds`, `RestartFails` `attemptRestart()`; `Reload`,
`RunResumed`, `StopSettles` the SIGHUP path through `awaitIdle()`; `Shutdown`,
`ShutdownStop`, `ShutdownStopSettles`, `Exit` the SIGTERM path.

**Abstractions.** Time: an armed timer may fire at any moment, so backoff length and
`restartAttempts` do not appear.  `consecutiveFailures` saturates at `ParkAfter`, past
which the code only compares.  Only the latest abandoned tick is kept by name; an
older one settles without effect.  Two promises that settle in the same macrotask
are ordered as if each had its own.  A lifecycle call that outlived its deadline
has no continuation in the supervisor and is dropped.  The late registration of the
state-directory check, `health()` and logging are left out.

**Runs** (instance: `MCServiceSupervisor`; `MaxReloads` bounds the SIGHUPs).

| Run | Shows | Bounds, and why they are enough |
|---|---|---|
| `SupervisorAlone` | `OneRecovery`, `OneInterval`, `StoppedIsQuiet`; `GuardReleased`, `ShutdownCompletes`, `BootCompletes` | a periodic, a delayed and a lifecycle-only service, a shutdown but no reload, `ParkAfter = 1`: every kind of entry (an interval from the start, one after a start-up delay, none) stopped in every state, and the boot and shutdown loops past a wedged one |
| `SupervisorControl` | `TypeOK`, `GuardHasOwner`, `EdgesResumeIdle`, `ParkedIsRetriedOnce`, `StoppedIsQuiet`; `EdgesAct` | one delayed service (services share no state but the loops), stopped at boot, three reloads and a shutdown, `ParkAfter = 2`: enabled and disabled while `start()` is pending, an edge in every state and a second one while the first waits |
| `StaleBackoffHandle` | violates `ParkedIsRetried` | one service, no signals; finding below |

Deadlock is checked where no shutdown or bound can end the run (`StaleBackoffHandle`).

**Fairness.** The event loop runs what is due, armed timers fire, and each awaited
call races a deadline (`startOne`, `runTick`, `attemptRestart` and `stopOne` all use
one), so the *deadline* branch of each is weakly fair.  Nothing is assumed of the
services: no start, tick, restart or stop need ever settle.  Nothing is assumed of
signals.

**Finding.** After a backoff restart `entry.restartTimer` keeps the spent handle; a
later park finds it set and schedules nothing.  `ParkedIsRetriedOnce` states what does
hold.

**Known limits**, reachable in the model and stated by no property.  A SIGHUP restart
during a backoff restart starts a second `restart()`, both install an interval and one
handle is lost (`daemon/supervisor.ts:201`): `OneInterval` and `OneRecovery` hold without
reloads.  A live disable during `attemptRestart()`'s await is undone when it completes
(`:468`).  A live start that fails is neither parked nor retried (`:289`).  Timers whose
handle was overwritten (`leaked`, `strayRestart`, `strayStartup`) outlive a stop, and a
lost start-up delay that elapses afterwards arms a new interval on the stopped service
(`:301-305`), whose ticks `runTick()` then refuses.  `StoppedIsQuiet` names that interval
(`revived`) as its one exception, and says that without a reload there is none and no
lost timer either.

## 4. SecretsRotation

**State.** Three directories (`store`, `stage`, `bak`), each absent (`NoDir`) or a map
from item to its `.enc` file, a file being the key it is sealed under and its value;
three key files (`key`, `keyNew`, `keyOld`); the lock holder; and per process where
it is in its operation and the passphrase it caches.  `truth` is a ghost variable: the
value each item was last set to, `NoVal` if it was deleted.

**Actions.** `Get`, `SetBegin`/`SetWrite`, `Delete` are `fileGet`, `fileSet` (its `mkdir` is
outside the lock, hence two steps) and `fileDelete`.  `RotateBegin`, `RotateLocked` enter
`rotatePassphrase()`; `Recover`, `Probe`/`Refuse`, `DropKey`, `InstallKey`, `Sweep` are
`recoverInterruptedRotation()`; `Read` to `Commit` are the rest of
`rotatePassphraseLocked()`, one action per rename, removal or file write another
process or a crash could see half done.  `Decide`, `Refuses` and `Classify` are the
decision table of the recovery.  `Crash` kills a process between any two steps; a
recursive removal or the staging loop may then have left any part of its directory
(`Torn`).

**Abstractions.** Encryption is "opens under key k iff sealed under k".  Only the
canonical key location is modelled: with the legacy co-located file the key moves
with the directory.  `AGENTS_SECRETS_PASSPHRASE`, the metadata cache, the broker guard
of the command, a crash inside the write of a single file, and power loss (the
`fsync`s) are left out.  The lock is exclusive while its holder lives, which the
heartbeat calls in the loops justify here; a dead holder's lock is taken over at
once instead of after the stale window.  All artifact directories of
one kind are one variable: `SwapStartsClean` shows that a second never appears.

**Runs** (instance: `MCSecretsRotation`).  Two items, so that a store can be mixed; four
keys: the live one, the next, a lost one for orphans, and one a reader may
provision.  Items, keys and values are symmetric in the safety run; the liveness run
uses no symmetry.  Deadlock is off: processes may all have left.

| Run | Shows |
|---|---|
| `RotationWriters` | `TypeOK`, `WritesSurvive`, `NoMixedStore`, `SwapStartsClean`, `RefusesOnlyMixed`, `LostOnlyBySweep`: two rotators, writers, a deleter and readers, failed read-backs, one crash, processes that end after each operation |
| `RotationStranded` | violates `HealsItself`: the command as it is (`CliGuard`), one crash |

**Finding.** The help text promises that "a crash inside the swap self-heals on the next
rotate-passphrase run" (`secrets-rotate-passphrase.ts:33-34`).  Between the two key renames
there is no `passphrase` file, and the command refuses to run without one
(`machinePassphraseExists()`, `:50`) before it reaches the recovery that would install the
staged key.  No run of it heals that state; a read that provisions a passphrase lets the
next one in.

**Fairness** is used by the violation only: `FairSpec` lets a rotation that began go on,
and a user run the command again and again, dry or not: "the next run".  Crashes are
bounded, so `HealsItself` says: once the crashes stop, a rotation heals the store.

**Known limits**, reachable in the model.
- `WritesSurvive` and `NoMixedStore` speak of executions without a crash.  With crashes
  `LostOnlyBySweep` says what can still be lost and where: a secret in the backup, swept
  by a recovery that finds the store directory there but empty.  A `set` creates that
  directory before it takes the lock (`ensureFileDir()`), after a crash between the two
  renames; a crash in the `rm` of an undo or a rollback may leave it empty too.  The
  code takes an empty store to hold "no ciphertext at risk" and does not look at the backup.
- All three need that no writer is long-lived: a process that cached the passphrase, waited
  for a rotation and then wrote seals its item under the retired key.
- `RefusesOnlyMixed` needs one crash only, or no deletes: an item deleted after a first
  crash may still be in the backup and come back with a rollback; if a second crash cuts
  that recovery before it installs the old key, a `set` provisions another one beside it,
  and the deleted item counts against the store.
- A reader takes no lock and may find neither store during the swap.

## 5. InstallationUpdate and InstallationRegister

**State.** `rec` is `installation.json` (`release`, `policy`), `tree` the live entries of the
version directory (`NPM_LIVE_ENTRIES`), each holding the release it came from or `Gone`;
`lock` the installation lock; `tx[u]` the transaction of a process: its phase, the copy of
the record it read, what it staged, what it moved aside and the index of its loop.
`orphans` are rollback directories nobody will remove, `launcher` and `child` the launches
with their leases and processes.  `damage`, `wanted` and `faults` are history: what upset
the tree since the last record, the policy set last, and the bound.

**Actions.** `BeginUpdate` to `Recheck` are `updateInstallation()` up to the swap, with both
rounds of checks and their two halves (leases, then after an await the process table:
`Scan`); `MoveAside`/`MoveIn`, one entry at a time, `Probe`, `Record`, `Finalize` the commit;
`Undo`, `UndoFails` its restoration; `BeginInstall` to `InstallUnrecorded` a repair install;
`SetPolicy` and `ToggleAuto` the operator; `Lease`, `Spawn`, `ChildExit`, `LauncherDies` a
launch, whose lock covers the lease but not the spawn; `Crash` a process that dies
anywhere, in the middle of npm included (`TornBy`).

**Abstractions.** An entry is the release it came from.  Fetching, probing and scanning
succeed, fail or are given up.  A lock of a dead holder is broken by the next acquirer at
once.  A repair install is one from npm: the branch of `installVersion()` that runs a vendor's
installer (`versions.ts:1196`) takes no installation lock and is left out, as are global-binary
harnesses, first installs, shims and aliases.

**Refinement.** `InstallationRegister` is what the docblock of `updateInstallation()`
promises: the release is a register, replaced in one step while nothing runs; a launch
gets the recorded release entry by entry, except after a crash or a failed restoration.
The mapping reads `release` and `policy` off the record, `running` off the children, and
takes the tree for sound while `damage` is empty: `Record` is the step that replaces, the
moves of the swap stutter.

| Run | Shows | Bounds |
|---|---|---|
| `InstallationUpdate` | `TypeOK`, `NoSwapUnderProcess`, `PolicySurvives`, `PinHonoured`, `RecordTellsTree`, `NothingErased`, `ImplementsRegister` | npm harness, two updaters, two launchers, three releases, two entries (one move aside and one in are enough to be half way), two crashes or failed restorations |
| `InstallScriptLaunch` | violates `LaunchesWhole` | install-script harness, one updater, one launcher, no fault |

Deadlock is checked in both.

**Finding.** An install-script harness uses the npm swap, but `update.ts` skips both
activity checks for it, saying that it has no swap to protect: a launch that wrote its
lease before the update spawns in the middle of the swap.

**Known limits.** `PinHonoured` is about the pin; the switch for automatic updates is under no
lock, so one thrown after the second check does not stop the swap.  Nothing restores a `.rollback-*` directory after a crash, and an update to
the recorded release then answers that there is nothing to do; `NothingErased` says only
that the entries are still on disk.  A repair install whose record write fails leaves
directory and record apart until the next completed change.  A global-binary update (not
modelled) rewrites the records of sibling installations without their locks (`update.ts:340`).

## 6. RoutineRuns

**State.** An attempt is one call of `executeJob` or `executeJobDetached`: `att[a]` has its
stage, who makes it (the daemon or a command), what triggered it, its slot, its run id and
the versions tried.  `rec[r]` is the run directory and its `meta.json`, `era[r]` where its
`startedAt` falls, `child` the agent's process, `age` whether a run is past its timeout or
past a day, `lock` the launch lock, `reaper` the copy of a record a sweep works on.
`adrift` and `unread` are history: attempts the active-run check can no longer see, and pairs
of attempts one of which checked while the record of the other was torn.

**Actions.** `Occurs` is time; `Fire`, `Ask`, `Detect` the triggers (cron, by hand or webhook,
`detectOverdueJobs`); `ClaimMissed`, `RecordMissed`, `Claim`, `Duplicate`, `GiveUp` the claims
of slot and lock; `Look`, `Block`, `Admit` what `allocateRoutineAttempt` does under the lock;
`Prepare`, `Refuse`, `Spawn`, `WritePid`, `WriteFails` the dispatch; `Exits`, `Settle`,
`FailOver`, `Expire`, `ForceKill` the ends; `ReapRead`/`ReapApply` a sweep with the await
between read and write; `ReapTerminal` the killing of processes that outlived their
record; `DaemonDies`, `DaemonStarts`, `CommandDies`, `LockGoesStale` the crashes.  Attempts of
the daemon share its event loop: `Turn` and `DaemonIdle` let nothing else of the daemon run
inside a synchronous stretch (`Sync`).

**Abstractions.** Every run is local.  A pid names the launcher, the child, or a child that
has exited; pids are not reused.  `writeRunMeta` is a plain `writeFileSync` outside the launch
lock and an unparsable record is skipped in silence, so a write has the effects of two steps:
a reader in another process may miss a record that is about to be rewritten (`Rewritten`, in
`Look` and `Detect`), and a crash or a failed write of a sweep may leave it `Torn` for good.
The torn moment of a write that ends a run is left out, since to the active-run check a run
that has ended and one that cannot be read are the same (`detectOverdueJobs` and a second
delivery of a slot could only begin a catch-up which the slot's claim decides, or record a
skip).  A check that read the pid of a launcher and probed it after the launcher had recorded
its child and gone misses the run in the same way as one that found that record torn.  Loops,
foreground command routines, cron parsing, overlapping heartbeat ticks and job files are left out.
A launcher that is suspended past the lock's stale window, and goes on with a compromised
lock (`daemon/runner.ts:225`), is left out: the lock is exclusive until its holder is dead.

| Run | Shows | Bounds |
|---|---|---|
| `RoutineRuns` | `TypeOK`, `OncePerSlot`, `NoOverlap`, `EndsOnRecord` | two attempts of any kind, one slot, two versions, the daemon's sweep, one crash or failed write: two claims of one slot, or a run and its overlap, are the cases |
| `RoutineEnds` | `RunsEnd` | one attempt, both sweeps, two faults, a failover |
| `ManualOverlap` | violates `ManualKeepsOut` | two attempts, two versions, no sweep, no fault |

Deadlock is off: attempts end and are not renewed.  `RoutineRuns` compares states through
`SafetyView` (in `MCRoutineRuns`), which drops what no later step and no safety invariant
can depend on: `due`, `armed`, `era` and `born` once every attempt has begun, since they
only decide whether and for which slot one may begin; what a terminal record says once its
process is gone, since nothing reads it again but to see that it is one; and the history
(`adrift`, `unread`) of an attempt that is over and has no live child.  `TypeOK` reads the dropped values too, so there its theorem
is the full answer.

**Fairness** (`RoutineEnds` only): the daemon is started again, time passes, a synchronous
stretch ends, and the heartbeat visits each record over and over (strong fairness of its
read, because other daemon code may always be in the way; weak of its write).  Nothing is
assumed of children, commands or triggers.

**Finding.** After a failover the record of a manual run names the process that exited, so
the active-run check does not see the version now running.

**Known limits.** A claimed slot whose launcher died before its record stays claimed (the
code calls that its at-most-once trade).  The last writer of a record wins: a sweep may
overwrite a settlement.  Of several missed occurrences only the last leaves a trace.
`NoOverlap` is not mutual exclusion: it names each way in which the active-run check can miss
a live run, the torn read (`unread`), a torn or failed write, the stale write-back of a sweep
and the failover (`adrift`), and says that there is no other.  A record that stays torn is
seen by no sweep either: `RunsEnd` asks that a record stops being `running`, not that its
child is found.

## 7. Mailbox

**State.** `spool` are the files in `inbox/` and `processing/`, `consumed` what the archive says
of a message, `dirs` the directories that exist, `lapsed` the messages whose time is over, `block` and `receipts` the feed block
of the agent, `held` the copy of it a process is writing a receipt into, `sender` and `proc`
where the senders, the drain and the sweeps are.  `out`, `returned`, `bounced`, `lost`, `passed`
and `ahead` are history: what became of each message, which ones the running drain has left
because a directory was missing, and what was sent before it got its id.

**Actions.** `Name`, `Enqueue`, `QueuedRead`, `QueuedWrite` are a sender; `Begin` and `SweepRead` to
`SweepNext` the sweep that `drain()`, `peek()` and `gcMailbox()` share, one file operation per
step; `Prune`, `RemoveDir`, `RemoveDirFails` and `GcEnds` the pruning of the archive, the
removal of the empty directories of a box taken for dead, and that of its block; `DrainSwept` to `DrainReturn` the
drain: recovery of `processing/`, claim, archive, receipt; `Ask` and `Resolve` the publish
hook; `Lapse` the clock; `Crash` the death of any process.

**Abstractions.** A message is its id; ids are in the order they are taken (two processes in
the same millisecond aside).  `ensureDirs()` is one step: the directories that can be missing
after it are those a sweep removes after it.  What fails because a directory is missing is
modelled: an `enqueue()` that throws (`EnqueueFails`), a sweep that cannot write its mark, a
claim and an archiving rename (`Claim`, `Consume`).  Writes that fail for another reason, answer
claims, event files, and corrupt or misaddressed files are left out.

| Run | Shows | Bounds |
|---|---|---|
| `MailboxSpool` | `TypeOK`, `OneFate`, `ReceiptsTrue`, `InOrder`, `NothingStranded` | two messages (order needs two), one with a TTL and a block, the agent and one sweeper of either kind, and one event: a crash or a hook call; the `View` (in `MCMailbox`) drops what no later step and no property asks about messages that are no longer pending |

Deadlock is checked: a sweep can always begin.

**Known limits.** A drain archives a message before it returns it (`mailbox.ts:272`), so one
that dies in between loses it, although the header promises at-least-once; `OneFate` says
that nothing else loses one.  `gcMailbox()` removes the empty directories of a box it takes for
dead (`mailbox-gc.ts:170-183`) even when its agent is draining it.  A rename into one that is gone
fails, and the drain takes that for a racing claimer (`mailbox.ts:273`, `310`): the message stays
where it is until the next drain, and if `ensureDirs()` brings the directory back in between, the
same drain delivers a later one before it.  So delivery in order and an empty `processing/` are
not promises of this code without exception; `InOrder` and `NothingStranded` except exactly the
messages the running drain has passed over for that reason (without the exception TLC refutes
both), and `OneFate` shows that none of them is lost.  A receipt may go back from `consumed` to `queued`, because the
rank is compared with the copy (`feed/feed.ts:525`), and a stale copy may bring a removed
block back: `ReceiptsTrue` states what survives.  The archive may show a delivered message as
expired, never the other way round.

## 8. Teams

**State.** `disk` is each teammate's `meta.json` (status and pid), `reg` the team's entry in the
registry, `tomb` its tombstone, `fresh` the teammates nobody added yet; `live`, `log` and `exit` a
teammate's processes, the terminal event in its log (and whether its line was polled half
written) and the success in its sentinel file; `cache[m]` and `mgr[m]` the `AgentManager` of one
command: its records in memory, and where it is in its script (`Script`), which teammates it has
still to poll and to work on, and the save it is in.  `won`, `resumed`, `taken` (which managers
took a teammate up, to launch or to fail it) and `disowned` (a save refused by the tombstone, or
a record purged) are history.

**Actions.** `Look` is one turn of `listAll()`: read the log, look at the process, adopt, keep or
judge; `SaveChecks`/`SaveWrites` are `saveMeta()` around its tombstone check; `Load`, `List`,
`Rescan` the listings; `Ready`, `ReadyFails`, `ReadyLaunches`, `Spawn`, `SpawnFails`
`startReady()` and `launchProcess()`; `Drain`, `Breach`, `Wave` and `Quit` the end of a wave of
`runSupervisor()`: drained or not, over budget (every running teammate is stopped), ended by a
signal; `Ensure`/`Clear` are `ensureTeam()`, which puts a team into the registry and then removes
its tombstone; `Disband`/`Bury` are `removeTeam()`, which does the reverse, and `PurgeAll`/`Purge`
what follows; `Add`, `Stop`/`StopKills`, `Resume` and their refusals the other commands; `Emit`,
`Exit`, `Die` the process.  There is no lock around the records: every command interleaves with
every other at each await.

**Abstractions.** Teammates on this machine.  A sentinel with another code than 0 reads like
none.  Listings of one command with nothing of its own in between are one.  Truncating the
log, removing the sentinel and spawning are one step.  Of an event whose line was read in two
halves every manager may learn the result or not (in the code only those that read a half do
not), and so it is of one that lies before the offset a manager reads from.  A command does not
crash between two steps (except that a watch may be ended after a wave).

| Run | Shows | Bounds |
|---|---|---|
| `TeamDrains` | `CompletedIsEarned`, `DepsFirst`, `StopFinds`, `TerminalLatch`, `WatchDrains` | two teammates, the one listed first staged after the other (so that a wave polls them in the awkward order), one watch, one command at a time, two events of `MaxEvents` (commands besides the additions, budget breaches, torn lines): enough for a disband followed by an addition that creates the team again, under a watch that knew the old one; success events only (error events, more watches and more commands are covered by the proofs); `TypeOK` is proved, not run |

Deadlock is off: a team may be finished.  **Fairness**: the watch, a foreground process, goes
on, and a teammate's process ends sooner or later; nothing is assumed of other commands.

`StopFinds` and `TerminalLatch` speak of `Undisturbed` teammates.  Each of the three exceptions
is a behaviour of the code that breaks them, found by TLC when it is dropped:
- *Contested*: a second `teams start`, or pr-watch, that holds a teammate as pending launches it
  again (`agents.ts:2850`), and the record names one of the two processes.
- *Resumed*: a watch that knows a teammate as completed writes that over the record of its
  resume (`:1603`), and a resume may start a process beside one whose log already reported
  success (`:1099`).
- *Disowned*: a watch that launched a teammate after the disband has its save refused
  (`:1186`), and a disband purges the record of one whose log reported success while it still
  ran; `teams add` then creates the team again and clears the tombstone
  (`registry.ts:172`), and in that team a process is alive that no record names.

**Known limits**, reachable in the model or named in `PROJECT.json` with their lines.
- A launcher that dies between spawn and save leaves a process no command finds
  (`teams/agents.ts:2509`; not modelled).
- A save that looked for the tombstone before a disband brings the record back (`:1186`).
- Registry and tombstone are two files: an addition between `Disband` and `Bury` of a disband
  in another process registers the team and then finds its tombstone written
  (`registry.ts:228-238`), and every save in the registered team is refused.  The model has
  the steps; the run has one command at a time, so only the proofs cover them.
- For a teammate on another host every poll saves the record after a round trip (`:1511`;
  not modelled).

## 9. Proofs

All theorems hold for every value of the constants that satisfies the named assumptions of
the module; TLC evaluates these assumptions in every run.  Extra hypotheses are named.

| Module | Theorems |
|---|---|
| `ServiceSupervisorProofs` | `TypeCorrect`, `GuardSafe` (`GuardHasOwner`), `EdgesSafe` (`EdgesResumeIdle`), `ParkedSafe` (`ParkedIsRetriedOnce`), `QuietSafe` (`StoppedIsQuiet`), and with `"reload" \notin Signals` `AloneSafe` (`OneRecovery`), `IntervalSafe` (`OneInterval`) |
| `SecretsRotationProofs` | `TypeCorrect` (a process is in the locked section exactly when it holds the lock), `SwapSafe` (`SwapStartsClean`) |
| `SecretsDurabilityProofs` | with `LongLived \cap Writers = {}` `WritesSafe` (`WritesSurvive`), `StoreUnmixed` (`NoMixedStore`); `CrashSafe` (`LostOnlyBySweep`); with `Deleters = {} \/ MaxCrashes <= 1` `RefusalJustified` (`RefusesOnlyMixed`) |
| `InstallationUpdateProofs` | `TypeCorrect`, `SwapSafe` (`NoSwapUnderProcess`), `PolicySafe`, `PinSafe`, `RecordSafe`, `ErasedNever`, and with `Transactional` `Implements` (`Spec => ImplementsRegister`) |
| `RoutineRunsProofs` | `TypeCorrect`, `SlotSafe` (`OncePerSlot`), `OverlapSafe` (`NoOverlap`), `RecordSafe` (`EndsOnRecord`) |
| `MailboxProofs` | `TypeCorrect`, `FateSafe` (`OneFate`), `ReceiptsSafe`, `OrderSafe` (`InOrder`), `StrandedSafe` (`NothingStranded`) |
| `TeamsProofs` | `TypeCorrect`, `EarnedSafe` (`CompletedIsEarned`), `DepsSafe` (`DepsFirst`) |
| `TeamsWatchProofs` | `StopFindsSafe`, `LatchSafe` (`TerminalLatch`) |

*Supervisor.*  None of the properties is inductive alone.  `EntryOK` strengthens the three
per-service properties with the type of the entry and what ties its fields: one lemma per
operation (`ParkOK`, `RunTickOK`, `FinishTickOK`, ...) shows that it takes an `EntryOK` entry to
another; `StepOK` lifts that to an action and `EntriesInvariant` is the inductive invariant.
`Quiet` adds which timers a stopped entry can have: the handles it holds are cleared, and an
interval only one that a lost start-up delay re-armed after the stop (`revived`).  `AllAlone`
says, without reloads, which recoveries can be pending in which state: never two, and none
lost, which makes the stopped entry timer-free.  A shutdown needs no exception: it stops what it finds, and what was
pending settles on a stopped entry.

*Rotation.*  `SwapStartsClean` speaks of one moment; `PhaseOK` says what leads to it.  A process
that recovered and found its key to open something stands on an artifact-free disk
(`Clean`), from `stage` on, and once the staged store is written it is `Faithful`: same
items, same values.  Only the lock holder writes what `PhaseOK` reads.

*Durability of the store.*  Each of the four properties has its own invariant beside
`RotationInv`, about which directory holds every live secret under which key
(`Holds(d, k, truth)`), or one secret (`Current`), or which keys are in use (`Active`).

- `WriteInv`, without a crash.  At `Rest` the store holds everything under the key file and
  nothing is left over; `Rotating` says for each step of a rotation, and of the way back after
  a failed read-back, which directory holds everything under which key file.  Every end of
  the locked section leads back to `Rest`, so a set always finds the live store.  A
  `Forgetful` writer uses the key file of the moment.
- `LossInv`, with any number of crashes, sets, deletes and failed read-backs.  `DiskInv` is what
  every crash leaves and every recovery starts from: no key is in two key files; beside a
  backup nothing in the store is sealed under the old key; where the backup has a current
  copy of a secret the store has, the store's is current too; a store under the staged key
  covers the backup.  `Sparing` says what the holder's next step relies on: during a swap
  that store and backup are a `Pair`, the one re-keyed from the other, and before a key file
  goes that nothing still needed opens under it only.  `DecisionSpares` shows that the
  decision table of the recovery leads there from any `DiskInv` state it does not refuse.
- `AllSealed`, without deletes: a file of an item that is not live is sealed under a key that
  is neither in a key file, nor cached, nor about to become one.  A step copies files or
  re-keys those that open, and brings only fresh keys into use (`OnlyFresh`).
- `OneCrashInv`, with deletes and one crash.  Before the crash, and again once the recovery
  got past its probe, every rotation ends with a `Tidy` disk and nothing is probed; in between
  (`Interrupted`) the orphans of the store, or of the backup where there is no store, stay
  sealed.

The hypotheses are not conveniences.  Where one is dropped TLC finds the property violated,
by the behaviours under *Known limits* of section 4: a long-lived writer for `WritesSafe`,
`StoreUnmixed` and `CrashSafe`; a delete between two crashes and a set after them for `RefusalJustified`.  They cover the constants of
the two runs, and more: any number of processes, of crashes where the theorem allows them, and
long-lived readers, deleters and rotators.

*Installation.*  `UpdateInv` says of each transaction that it owns the lock, that its copy of
the record is the record (`CopyPart`), where its phase puts every entry (`ShapePart`) and that
nothing runs (`QuietPart`).  Policy, pin, record and tree follow, and with `LeasedIdle` each
step maps to a step of the register or a stutter.

*Routines.*  `RunsInv` has one part per question: who owns a slot (`SlotPart`), that the
record of a held attempt keeps others out unless it could not be read (`SeenPart`) so that two are never held unseen
(`AlonePart`), what record an ended attempt left (`EndPart`), what a record says of its attempt (`RecPart`) and what a sweep's copy may still
say (`CopyPart`).  Frame lemmas (`OneStep`, `RunStep`, `OverStep`, `FreshStep`, `QuietStep`) carry the
parts of the attempts a step does not touch.

*Mailbox.*  `OneFate` is inductive with the types.  `ReceiptsInv` extends `ReceiptsTrue` to the
copies in the hands of processes.  `OrderInv` says that ids come in order
(`IdsInOrder`) and that what the running drain has not passed over is still in its list
(`Listed`): all of `processing/` while it recovers, and, for each inbox name left to claim,
whatever was sent before it and still waits.

*Teams.*  `SuccessInv` ties the traces (log, sentinel, caches, the prior record of a resume) to
`won`.  `WatchInv` says, for an undisturbed teammate, where its one process is tracked at every
moment (`Tracked`, nine parts): its process, its record, who adds it, launches it, saves it,
polls and kills it, that only one manager took it up (`TakenPart`) and that this one still
answers for it; `JobInv` says where a command can be in its script.  There is no hypothesis on
the number of watches, on budgets or on the registry: what may go wrong with them is in
`Undisturbed`.

*Only model-checked.*  The liveness properties (`BootCompletes`, `GuardReleased`, `EdgesAct`,
`ShutdownCompletes`, `RunsEnd`, `WatchDrains`: liveness under fairness is out of the
prover's reach), and the violations.  Every invariant, action property and refinement of the
other runs is a theorem.

## 10. Not modelled

`PROJECT.json` lists every component with its status and the reason.  Most of the
repository is outside what a state machine says something about: commands and their
output, parsing of transcripts and their index, agent and provider specifications,
platform APIs (keychain, tmux, browsers, native helpers), network providers and SQL.
The modules cover the parts where processes meet in files, timers and signals, a small
share of the lines.  Of those parts the following are left out:

- The lock protocol.  `fs-atomic.ts` passes options to proper-lockfile and maps its errors;
  the stale window, the refresh and the takeover are the library's.  Every module takes a
  lock as exclusive while its holder lives and free once it is dead.
- Everything whose other half is another machine: runs, teammates and mailboxes on hosts and
  in clouds, box leases, token refresh, the synchronisation of devices.
- The secrets broker, monitors, accounts, self-update: small state behind provider calls or
  timers; none is modelled.
- Inside the modelled components: what each section lists under abstractions.
