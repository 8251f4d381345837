---------------------------- MODULE RoutineRuns ----------------------------
(***************************************************************************)
(* The runs of one routine (src/cli/src/lib/daemon/runner.ts,              *)
(* scheduling/routines.ts, catchup.ts, overdue.ts, scheduler.ts): cron     *)
(* fires, the catch-up of missed fires, runs asked for by hand or by a     *)
(* webhook, the single-fire claim of a slot, the launch lock, the active   *)
(* run, the child and its record, and the two sweeps that finalize records *)
(* whose process is gone.                                                  *)
(*                                                                         *)
(* An attempt is one call of executeJob or executeJobDetached.  Attempts   *)
(* of the daemon share its event loop, a command is a process of its own.  *)
(* A run record is one meta.json; a child outlives whoever launched it.    *)
(* Placement on another host is left out: every run is local.              *)
(***************************************************************************)
EXTENDS Naturals

CONSTANTS
    Attempts,       \* attempts, each with the fresh run id it may generate
    NumSlots,       \* bound: cron occurrences of the routine
    ChainLength,    \* bound: versions a foreground run tries in turn
    Reapers,        \* who sweeps: "daemon", "cli"
    MaxFaults,      \* bound: crashes and failed writes
    Free,           \* nobody holds the launch lock
    None            \* no run, no sweep under way

Slots == 1 .. NumSlots
Runs == Slots \cup Attempts

ASSUME SlotsAssumption == NumSlots \in Nat /\ Slots \cap Attempts = {}
ASSUME SentinelAssumption == Free \notin Attempts /\ None \notin Runs
ASSUME BoundsAssumption ==
    /\ ChainLength \in Nat \ {0} /\ MaxFaults \in Nat
    /\ Reapers \subseteq {"daemon", "cli"}

VARIABLES
    due,        \* occurrences whose time has come
    armed,      \* the cron job was scheduled when the last one came
    daemonUp,   \* the daemon process is running
    att,        \* [Attempts -> the call]
    rec,        \* [Runs -> the run directory and its meta.json]
    era,        \* [Runs -> the occurrence the record's startedAt falls after]
    child,      \* [Attempts -> the agent or command process]
    age,        \* [Attempts -> of the run: 1 past its timeout, 2 past a day]
    lock,       \* the launch lock: an attempt or Free
    reaper,     \* [Reapers -> the copy of a record a sweep works on]
    adrift,     \* history: attempts the active-run check can no longer see
    unread,     \* history: <<a, b>> if b's record was torn when a checked
    faults      \* crashes and failed writes so far

vars == <<due, armed, daemonUp, att, rec, era, child, age, lock, reaper,
          adrift, unread, faults>>

Sync == {"missing", "claimed", "clear", "spawned"}
Stages == Sync \cup {"idle", "overdue", "waiting", "dispatch", "prepared",
                     "watched", "dying", "done", "dead"}
Statuses == {"absent", "empty", "torn", "running", "completed", "failed", "timeout",
             "missed", "skipped", "blocked"}

\* The call: who makes it, what triggered it, the slot it is for (0: none),
\* the run id it was given, the occurrence after which its fresh id was
\* generated and the versions it has tried.
Calls == [ stage : Stages, cli : BOOLEAN,
           kind : {"schedule", "catchup", "manual"}, slot : 0 .. NumSlots,
           run : Runs \cup {None}, born : 0 .. NumSlots,
           tries : 0 .. ChainLength ]

\* The record.  pid names the launcher, the child or an earlier child that has
\* exited; timed tells whether timeoutMs is recorded.
Metas == [ status : Statuses, pid : {"null", "launcher", "child", "gone"},
           timed : BOOLEAN, by : Attempts \cup {None} ]

Meta(s, p, t, a) == [status |-> s, pid |-> p, timed |-> t, by |-> a]
Absent == Meta("absent", "null", FALSE, None)
Empty == Meta("empty", "null", FALSE, None)

\* writeFileSync had truncated the file when its process died or it failed.
Torn == Meta("torn", "null", FALSE, None)

Init ==
    /\ due = 0 /\ armed = FALSE /\ daemonUp \in BOOLEAN
    /\ att = [a \in Attempts |-> [stage |-> "idle", cli |-> FALSE,
                 kind |-> "manual", slot |-> 0, run |-> None, born |-> 0,
                 tries |-> 0]]
    /\ rec = [r \in Runs |-> Absent] /\ era = [r \in Runs |-> 0]
    /\ child = [a \in Attempts |-> "none"] /\ age = [a \in Attempts |-> 0]
    /\ lock = Free /\ reaper = [x \in Reapers |-> None]
    /\ adrift = {} /\ unread = {} /\ faults = 0

Stage(a) == att[a].stage
RunOf(a) == att[a].run
Goto(a, s) == att' = [att EXCEPT ![a].stage = s]
Write(r, m) == rec' = [rec EXCEPT ![r] = m]
Stamp(r) == era' = [era EXCEPT ![r] = due]

\* `agents routines run`: executeJob awaits the child.
Foreground(a) == att[a].cli /\ att[a].kind = "manual"

\* The process of the attempt is up, and no other code is in the middle of a
\* synchronous stretch on the daemon's event loop.
DaemonIdle == daemonUp /\ \A b \in Attempts : ~att[b].cli => Stage(b) \notin Sync
Turn(a) == att[a].cli \/ (daemonUp /\ (Stage(a) \in Sync \/ DaemonIdle))

Running(a) == Stage(a) \notin {"idle", "done", "dead"}

\* isPidOurs: the recorded process of attempt a is alive.
Ours(pid, a) == \/ pid = "launcher" /\ Running(a)
                \/ pid = "child" /\ child[a] = "alive"

\* A record with a meta.json readRunMeta can parse.
Readable(r) == rec[r].status \notin {"absent", "empty", "torn"}

\* A reader outside the writer's event loop may find r truncated: an attempt
\* of another process is about to write it anew, and its run goes on.
Rewritten(r, cli) ==
    \E b \in Attempts :
        /\ RunOf(b) = r /\ (cli \/ att[b].cli)
        /\ Stage(b) = "spawned" \/ (Stage(b) = "dispatch" /\ Foreground(b))

\* The next step of the attempt may write its record.
Writes(a) == \/ Stage(a) \in {"dispatch", "prepared", "spawned"}
             \/ Stage(a) = "watched" /\ (child[a] # "alive" \/ age[a] > 0)

\* activeRoutineRun: what makes it return r.
Active(r) == /\ rec[r].status = "running" /\ age[rec[r].by] = 0
             /\ (rec[r].pid = "null" \/ Ours(rec[r].pid, rec[r].by))
-----------------------------------------------------------------------------
(* Time and triggers.                                                      *)

\* The next occurrence comes; croner fires it only if it was scheduled.
Occurs == /\ due < NumSlots /\ due' = due + 1 /\ armed' = daemonUp
          /\ UNCHANGED <<daemonUp, att, rec, era, child, age, lock, reaper,
                         adrift, unread, faults>>

\* An attempt begins.
Begin(a, cli, kind, slot, stage) ==
    /\ Stage(a) = "idle" /\ (cli \/ DaemonIdle)
    /\ att' = [att EXCEPT ![a] = [stage |-> stage, cli |-> cli, kind |-> kind,
                    slot |-> slot, run |-> None, born |-> 0, tries |-> 0]]
    /\ UNCHANGED <<due, armed, daemonUp, rec, era, child, age, lock, reaper,
                   adrift, unread, faults>>

\* The cron callback, once or more often for one occurrence.
Fire(a) == armed /\ Begin(a, FALSE, "schedule", due, "waiting")

\* `agents routines run`, or a webhook or monitor served by the daemon.
Ask(a) == \E cli \in BOOLEAN : Begin(a, cli, "manual", 0, "waiting")

\* Run ids sort by time: a slot's before the fresh ones generated after it.
Key(r) == IF r \in Slots THEN 2 * r ELSE 2 * att[r].born + 1

\* detectOverdueJobs: the last record it can read, all but those in blank,
\* started before the last occurrence.
Overdue(blank) ==
    /\ due > 0
    /\ LET seen == {r \in Runs \ blank : Readable(r)}
       IN  \/ seen = {}
           \/ \E r \in seen : /\ era[r] < due
                             /\ \A q \in seen : Key(q) <= Key(r)

Detect(a) ==
    \E cli \in BOOLEAN :
        /\ \E blank \in SUBSET {r \in Runs : Rewritten(r, cli)} : Overdue(blank)
        /\ Begin(a, cli, "catchup", due, "overdue")
-----------------------------------------------------------------------------
(* Claims.                                                                 *)

\* Mutant: mkdir is recursive and never fails.
MutUnclaimed(r) == TRUE

\* claimRunSlot, claimMissedFire: the non-recursive mkdir of a slot succeeds.
Unclaimed(r) == rec[r].status = "absent"

\* claimMissedFire up to the record; losing the claim ends the catch-up.
ClaimMissed(a) ==
    /\ Stage(a) = "overdue" /\ Turn(a)
    /\ IF Unclaimed(att[a].slot)
       THEN Write(att[a].slot, Empty) /\ Goto(a, "missing")
       ELSE Goto(a, "done") /\ UNCHANGED rec
    /\ UNCHANGED <<due, armed, daemonUp, era, child, age, lock, reaper, adrift,
                   unread, faults>>

\* The miss is recorded; unless that is all, a late run follows.
RecordMissed(a) ==
    /\ Stage(a) = "missing" /\ Turn(a)
    /\ Write(att[a].slot, Meta("missed", "null", FALSE, None))
    /\ era' = [era EXCEPT ![att[a].slot] = att[a].slot]
    /\ \E s \in {"waiting", "done"} : Goto(a, s)
    /\ UNCHANGED <<due, armed, daemonUp, child, age, lock, reaper, adrift,
                   unread, faults>>

\* Mutant: the launch lock is not waited for.
MutLockFree == TRUE

LockFree == lock = Free

\* withRoutineLock, then the run id: a fresh one, or the slot's if this
\* attempt is the first to claim it.
Claim(a) ==
    /\ Stage(a) = "waiting" /\ LockFree /\ Turn(a)
    /\ LET r == IF att[a].kind = "schedule" THEN att[a].slot ELSE a
       IN  /\ Unclaimed(r)
           /\ Write(r, Empty)
           /\ att' = [att EXCEPT ![a].stage = "claimed", ![a].run = r,
                                 ![a].born = due]
    /\ lock' = a
    /\ UNCHANGED <<due, armed, daemonUp, era, child, age, reaper, adrift,
                   unread, faults>>

\* A duplicate delivery: the existing record stands for it, or a skip is
\* recorded under a fresh id.
Duplicate(a) ==
    /\ Stage(a) = "waiting" /\ lock = Free /\ Turn(a)
    /\ att[a].kind = "schedule" /\ ~Unclaimed(att[a].slot)
    /\ IF Readable(att[a].slot)
       THEN UNCHANGED <<rec, era>>
       ELSE Write(a, Meta("skipped", "null", FALSE, None)) /\ Stamp(a)
    /\ att' = [att EXCEPT ![a].stage = "done", ![a].born = due]
    /\ UNCHANGED <<due, armed, daemonUp, child, age, lock, reaper, adrift,
                   unread, faults>>

\* The lock cannot be had within its retries: the attempt throws.
GiveUp(a) ==
    /\ Stage(a) = "waiting" /\ lock # Free /\ Turn(a)
    /\ Goto(a, "done")
    /\ UNCHANGED <<due, armed, daemonUp, rec, era, child, age, lock, reaper,
                   adrift, unread, faults>>

\* Mutant: the record is left to whoever reads the run directory.
MutTurned(a, s) ==
    /\ UNCHANGED <<rec, era>> /\ Goto(a, "done") /\ lock' = Free

\* writeTerminalRecord before anything was spawned.
Turned(a, s) ==
    /\ Write(RunOf(a), Meta(s, "null", FALSE, None)) /\ Stamp(RunOf(a))
    /\ Goto(a, "done") /\ lock' = Free

\* allocateRoutineAttempt: is a prior run of the routine still active?  A
\* record that cannot be read, one of blank, is not.
Look(a) ==
    /\ Stage(a) = "claimed" /\ Turn(a)
    /\ \E blank \in SUBSET {r \in Runs : Rewritten(r, att[a].cli)} :
          IF \E r \in Runs \ (blank \cup {RunOf(a)}) : Active(r)
          THEN Turned(a, "skipped") /\ UNCHANGED unread
          ELSE /\ Goto(a, "clear") /\ UNCHANGED <<rec, era, lock>>
               /\ unread' = unread \cup {<<a, rec[r].by>> :
                                r \in {q \in blank : Active(q)}}
    /\ UNCHANGED <<due, armed, daemonUp, child, age, reaper, adrift, faults>>

\* Recorded as skipped or blocked: another device's routine, a retired
\* harness, a placement or a directory the run cannot have.
Block(a) ==
    /\ Stage(a) = "clear" /\ Turn(a) /\ Turned(a, "blocked")
    /\ UNCHANGED <<due, armed, daemonUp, child, age, reaper, adrift, unread,
                   faults>>

\* launcherClaimPid.
ClaimPid(a) == IF att[a].cli THEN "launcher" ELSE "null"

\* writeActiveClaim, and the lock is released.
Admit(a) ==
    /\ Stage(a) = "clear" /\ Turn(a)
    /\ Write(RunOf(a), Meta("running", ClaimPid(a), TRUE, a))
    /\ Stamp(RunOf(a))
    /\ age' = [age EXCEPT ![a] = 0]
    /\ Goto(a, "dispatch") /\ lock' = Free
    /\ UNCHANGED <<due, armed, daemonUp, child, reaper, adrift, unread,
                   faults>>
-----------------------------------------------------------------------------
(* Dispatch, child and settlement.                                         *)

\* executeJob rewrites the record before its preflight.
Prepare(a) ==
    /\ Stage(a) = "dispatch" /\ Foreground(a) /\ Turn(a)
    /\ Write(RunOf(a), Meta("running", "null", FALSE, a)) /\ Stamp(RunOf(a))
    /\ age' = [age EXCEPT ![a] = 0]
    /\ Goto(a, "prepared")
    /\ UNCHANGED <<due, armed, daemonUp, child, lock, reaper, adrift, unread,
                   faults>>

\* The last stage before the child is started.
Ready(a) == Stage(a) = IF Foreground(a) THEN "prepared" ELSE "dispatch"

\* The preflight throws, or finds the account signed out.
Refuse(a) ==
    /\ Stage(a) \in {"dispatch", "prepared"} /\ Turn(a)
    /\ \/ Write(RunOf(a), [rec[RunOf(a)] EXCEPT !.status = "failed"])
       \/ /\ Ready(a)
          /\ Write(RunOf(a), Meta("blocked", "null", ~Foreground(a), a))
    /\ Goto(a, "done") /\ age' = [age EXCEPT ![a] = 0]
    /\ UNCHANGED <<due, armed, daemonUp, era, child, lock, reaper, adrift,
                   unread, faults>>

\* spawn: a process, or an error that is delivered later.
Spawn(a) ==
    /\ Ready(a) /\ Turn(a)
    /\ \E c \in {"alive", "failed"} : child' = [child EXCEPT ![a] = c]
    /\ Goto(a, IF Foreground(a) THEN "watched" ELSE "spawned")
    /\ UNCHANGED <<due, armed, daemonUp, rec, era, age, lock, reaper, adrift,
                   unread, faults>>

ChildPid(a) == IF child[a] = "failed" THEN "null" ELSE "child"

\* A detached launcher records the child's pid in a record of its own.
WritePid(a) ==
    /\ Stage(a) = "spawned" /\ Turn(a)
    /\ Write(RunOf(a), Meta("running", ChildPid(a), TRUE, a))
    /\ Stamp(RunOf(a))
    /\ age' = [age EXCEPT ![a] = 0]
    /\ Goto(a, "watched")
    /\ UNCHANGED <<due, armed, daemonUp, child, lock, reaper, adrift, unread,
                   faults>>

\* That write fails: the attempt is recorded as failed, or as blocked if the
\* record can no longer be read, while the child runs on.
WriteFails(a) ==
    /\ Stage(a) = "spawned" /\ Turn(a) /\ faults < MaxFaults
    /\ \/ Write(RunOf(a), [rec[RunOf(a)] EXCEPT !.status = "failed"])
       \/ Write(RunOf(a), Meta("blocked", "null", FALSE, a))
    /\ adrift' = adrift \cup {a} /\ faults' = faults + 1
    /\ Goto(a, "watched")
    /\ UNCHANGED <<due, armed, daemonUp, era, child, age, lock, reaper,
                   unread>>

\* The child ends, leaving a success behind or not.
Exits(a) ==
    /\ child[a] = "alive"
    /\ \E c \in {"ok", "bad"} : child' = [child EXCEPT ![a] = c]
    /\ UNCHANGED <<due, armed, daemonUp, att, rec, era, age, lock, reaper,
                   adrift, unread, faults>>

\* Mutant: the status is whatever the process said.
MutOutcome(a) == child[a]

\* The status taken from the exit code, the exit-code file or the log.
Outcome(a) == IF child[a] = "ok" THEN "completed" ELSE "failed"

\* The launcher sees the exit (or the error) and settles the run.
Settle(a) ==
    /\ Stage(a) = "watched" /\ child[a] # "alive" /\ Turn(a)
    /\ Write(RunOf(a), Meta(Outcome(a), ChildPid(a), ~Foreground(a), a))
    /\ Goto(a, "done") /\ age' = [age EXCEPT ![a] = 0]
    /\ UNCHANGED <<due, armed, daemonUp, era, child, lock, reaper, adrift,
                   unread, faults>>

\* A foreground run that hit a rate limit goes on to the next version.  The
\* record it writes in between names the process that has exited.
FailOver(a) ==
    /\ Stage(a) = "watched" /\ Foreground(a) /\ child[a] = "bad" /\ Turn(a)
    /\ att[a].tries + 1 < ChainLength
    /\ att' = [att EXCEPT ![a].tries = @ + 1]
    /\ \E c \in {"alive", "failed"} : child' = [child EXCEPT ![a] = c]
    /\ Write(RunOf(a), Meta("running", "gone", FALSE, a))
    /\ adrift' = adrift \cup {a}
    /\ UNCHANGED <<due, armed, daemonUp, era, age, lock, reaper, unread,
                   faults>>

\* SIGKILL, unless it has ended already, and the attempt is over.
Killed(a) ==
    /\ child' = [child EXCEPT ![a] = IF @ = "alive" THEN "bad" ELSE @]
    /\ Goto(a, "done") /\ age' = [age EXCEPT ![a] = 0]

\* The timer of the launcher: a detached child is killed, a foreground one
\* asked to end first.
Expire(a) ==
    /\ Stage(a) = "watched" /\ age[a] > 0 /\ Turn(a)
    /\ Write(RunOf(a), Meta("timeout", ChildPid(a), ~Foreground(a), a))
    /\ IF Foreground(a)
       THEN Goto(a, "dying") /\ UNCHANGED <<child, age>>
       ELSE Killed(a)
    /\ UNCHANGED <<due, armed, daemonUp, era, lock, reaper, adrift, unread,
                   faults>>

ForceKill(a) ==
    /\ Stage(a) = "dying" /\ Turn(a) /\ Killed(a)
    /\ UNCHANGED <<due, armed, daemonUp, rec, era, lock, reaper, adrift,
                   unread, faults>>

\* Time passes for the record of a run: its timeout, then a day.
Ages(a) ==
    /\ RunOf(a) # None /\ rec[RunOf(a)].status = "running"
    /\ rec[RunOf(a)].by = a
    /\ age[a] < IF rec[RunOf(a)].timed THEN 1 ELSE 2
    /\ age' = [age EXCEPT ![a] = @ + 1]
    /\ adrift' = adrift \cup {a}
    /\ UNCHANGED <<due, armed, daemonUp, att, rec, era, child, lock, reaper,
                   unread, faults>>
-----------------------------------------------------------------------------
(* Sweeps.                                                                 *)

\* Mutant: a record without a pid is left alone before its age is looked at.
MutOverran(m) == m.pid # "null" /\ age[m.by] >= IF m.timed THEN 1 ELSE 2

\* MAX_WALL_CLOCK_MS stands in where no timeout is recorded.
Overran(m) == age[m.by] >= IF m.timed THEN 1 ELSE 2

\* reapExitedRunningJobs, monitorRunningJobs: one record is read.
ReapRead(x, r) ==
    /\ reaper[x] = None /\ (x = "daemon" => DaemonIdle)
    /\ rec[r].status = "running"
    /\ reaper' = [reaper EXCEPT ![x] = [run |-> r, copy |-> rec[r],
                                        aged |-> Overran(rec[r])]]
    /\ UNCHANGED <<due, armed, daemonUp, att, rec, era, child, age, lock,
                   adrift, unread, faults>>

\* The ages the copy may have by now.
Verdicts(p) == IF p.aged THEN {TRUE}
               ELSE IF rec[p.run] = p.copy THEN {Overran(p.copy)} ELSE BOOLEAN

\* The write of a sweep, which may fail halfway.
Finalize(r, m) ==
    \/ Write(r, m) /\ UNCHANGED faults
    \/ Write(r, Torn) /\ faults < MaxFaults /\ faults' = faults + 1

\* reconcileRunningRecord on the copy, once the process was looked at.
ReapApply(x) ==
    /\ reaper[x] # None /\ (x = "daemon" => DaemonIdle)
    /\ LET p == reaper[x]  m == p.copy  b == m.by  ours == Ours(m.pid, b)
       IN  \/ /\ TRUE \in Verdicts(p)
              /\ Finalize(p.run, [m EXCEPT !.status = "timeout"])
              /\ IF m.pid = "launcher" /\ ours THEN Goto(b, "dead")
                 ELSE UNCHANGED att
              /\ child' = IF m.pid = "child" /\ ours
                          THEN [child EXCEPT ![b] = "bad"] ELSE child
              /\ adrift' = adrift \cup {b}
           \/ /\ FALSE \in Verdicts(p) /\ m.pid # "null" /\ ~ours
              /\ Finalize(p.run, [m EXCEPT !.status = Outcome(b)])
              /\ adrift' = IF att[b].cli THEN adrift \cup {b} ELSE adrift
              /\ UNCHANGED <<att, child>>
           \/ /\ FALSE \in Verdicts(p) /\ (m.pid = "null" \/ ours)
              /\ UNCHANGED <<att, rec, child, adrift, faults>>
    /\ reaper' = [reaper EXCEPT ![x] = None]
    /\ UNCHANGED <<due, armed, daemonUp, era, age, lock, unread>>

\* reapTerminalRoutineProcesses: a process outlived its record.
ReapTerminal(r) ==
    /\ DaemonIdle /\ rec[r].status \in {"failed", "timeout"}
    /\ rec[r].by # None /\ Ours(rec[r].pid, rec[r].by)
    /\ IF rec[r].pid = "child"
       THEN child' = [child EXCEPT ![rec[r].by] = "bad"] /\ UNCHANGED att
       ELSE Goto(rec[r].by, "dead") /\ UNCHANGED child
    /\ UNCHANGED <<due, armed, daemonUp, rec, era, age, lock, reaper, adrift,
                   unread, faults>>
-----------------------------------------------------------------------------
(* Crashes.                                                                *)

\* The daemon ends, perhaps in the middle of a write; its children live on.
DaemonDies ==
    /\ daemonUp /\ faults < MaxFaults
    /\ daemonUp' = FALSE /\ armed' = FALSE /\ faults' = faults + 1
    /\ att' = [a \in Attempts |->
                  IF Running(a) /\ ~att[a].cli
                  THEN [att[a] EXCEPT !.stage = "dead"] ELSE att[a]]
    /\ reaper' = [x \in Reapers |-> IF x = "daemon" THEN None ELSE reaper[x]]
    /\ \/ UNCHANGED <<rec, adrift>>
       \/ \E a \in Attempts : /\ Writes(a) /\ ~att[a].cli
                               /\ Write(RunOf(a), Torn)
                               /\ adrift' = adrift \cup {a}
    /\ UNCHANGED <<due, era, child, age, lock, unread>>

DaemonStarts ==
    /\ ~daemonUp /\ daemonUp' = TRUE
    /\ UNCHANGED <<due, armed, att, rec, era, child, age, lock, reaper, adrift,
                   unread, faults>>

\* A command is killed, perhaps in the middle of a write.
CommandDies(a) ==
    /\ Running(a) /\ att[a].cli /\ faults < MaxFaults
    /\ faults' = faults + 1 /\ Goto(a, "dead")
    /\ UNCHANGED rec \/ (Writes(a) /\ Write(RunOf(a), Torn))
    /\ adrift' = IF Stage(a) = "spawned" THEN adrift \cup {a} ELSE adrift
    /\ UNCHANGED <<due, armed, daemonUp, era, child, age, lock, reaper, unread>>

\* The lock of a dead holder goes stale.
LockGoesStale ==
    /\ lock # Free /\ Stage(lock) = "dead" /\ lock' = Free
    /\ UNCHANGED <<due, armed, daemonUp, att, rec, era, child, age, reaper,
                   adrift, unread, faults>>
-----------------------------------------------------------------------------
Launches(a) ==
    \/ ClaimMissed(a) \/ RecordMissed(a) \/ Claim(a) \/ Duplicate(a)
    \/ GiveUp(a) \/ Look(a) \/ Block(a) \/ Admit(a) \/ Prepare(a)
    \/ Refuse(a) \/ Spawn(a) \/ WritePid(a) \/ WriteFails(a) \/ Settle(a)
    \/ FailOver(a) \/ Expire(a) \/ ForceKill(a)

Next ==
    \/ Occurs \/ DaemonDies \/ DaemonStarts \/ LockGoesStale
    \/ \E a \in Attempts :
          \/ Fire(a) \/ Ask(a) \/ Detect(a) \/ Launches(a)
          \/ Exits(a) \/ Ages(a) \/ CommandDies(a)
    \/ \E r \in Runs : ReapTerminal(r) \/ \E x \in Reapers : ReapRead(x, r)
    \/ \E x \in Reapers : ReapApply(x)

Spec == Init /\ [][Next]_vars

\* The daemon is started again, time passes, a synchronous stretch ends, and
\* the heartbeat visits every record over and over.
Fairness ==
    /\ WF_vars(DaemonStarts)
    /\ \A a \in Attempts :
          /\ WF_vars(Ages(a)) /\ WF_vars(RecordMissed(a))
          /\ WF_vars(Look(a)) /\ WF_vars(Block(a) \/ Admit(a))
          /\ WF_vars(WritePid(a) \/ WriteFails(a))
    /\ \A r \in Runs : SF_vars(ReapRead("daemon", r))
    /\ WF_vars(ReapApply("daemon"))

FairSpec == Spec /\ Fairness
-----------------------------------------------------------------------------
TypeOK ==
    /\ due \in 0 .. NumSlots /\ armed \in BOOLEAN /\ daemonUp \in BOOLEAN
    /\ att \in [Attempts -> Calls] /\ rec \in [Runs -> Metas]
    /\ era \in [Runs -> 0 .. NumSlots]
    /\ child \in [Attempts -> {"none", "failed", "alive", "ok", "bad"}]
    /\ age \in [Attempts -> 0 .. 2] /\ lock \in Attempts \cup {Free}
    /\ reaper \in [Reapers -> {None} \cup
                      [run : Runs, copy : Metas, aged : BOOLEAN]]
    /\ adrift \subseteq Attempts /\ unread \subseteq Attempts \X Attempts
    /\ faults \in 0 .. MaxFaults

\* A scheduled occurrence is launched at most once, by a cron callback, a
\* second delivery of it or a catch-up of it, whatever crashes in between.
OncePerSlot ==
    \A a, b \in Attempts :
        /\ a # b /\ child[a] # "none" /\ child[b] # "none"
        /\ att[a].slot > 0
        => att[a].slot # att[b].slot

\* Two children of the routine run at once only if the check for an active
\* run could not see one of them: its record was torn at that very moment, by
\* a rewriting of it in another process; or it is past its timeout, its
\* command died before the pid was recorded, the record could not be written
\* or was cut short by a crash, a sweep acted on a stale copy of a command's
\* record, or it is a failover.
NoOverlap ==
    \A a, b \in Attempts :
        a # b /\ child[a] = "alive" /\ child[b] = "alive"
        => {a, b} \cap adrift # {} \/ {<<a, b>>, <<b, a>>} \cap unread # {}

\* An attempt that has ended leaves a terminal record of its run, or one that
\* the failed write of a sweep has torn.
EndsOnRecord ==
    \A a \in Attempts :
        Stage(a) = "done" /\ RunOf(a) # None
        => rec[RunOf(a)].status \notin {"absent", "empty", "running"}

\* No record stays `running` for ever, whoever crashed.
RunsEnd ==
    \A r \in Runs : rec[r].status = "running" ~> rec[r].status # "running"

\* A manual run that goes on to its next version, its command alive and its
\* timeout not over, does not run beside a scheduled one.
ManualKeepsOut ==
    \A a, b \in Attempts :
        /\ Foreground(a) /\ att[a].tries > 0 /\ age[a] = 0
        /\ att[b].kind = "schedule" /\ age[b] = 0
        => ~(child[a] = "alive" /\ child[b] = "alive")
=============================================================================
