------------------------------- MODULE Teams -------------------------------
(***************************************************************************)
(* The teammates of one team on this machine                               *)
(* (src/cli/src/lib/teams/agents.ts, supervisor.ts, registry.ts and the    *)
(* teams commands): the --after graph, `teams start --watch`, and the      *)
(* commands that add, list, stop and resume teammates and disband the      *)
(* team while it runs.                                                     *)
(*                                                                         *)
(* Every command is a process of its own with an AgentManager: a cache of  *)
(* the records (meta.json) on disk, read and written with no lock.  A      *)
(* teammate is a detached process which outlives the command; its log and  *)
(* the exit code its shell writes are all that tells how it ended.         *)
(* Teammates on another host or in a cloud, the placement on a pool and    *)
(* the retention of old records are left out.                              *)
(***************************************************************************)
EXTENDS Naturals, Sequences

CONSTANTS
    Teammates,      \* numbers, in the order of their directories
    After,          \* [Teammates -> the teammates named by --after]
    Watchers,       \* managers that run `teams start --watch`
    Clis,           \* managers that run one command after another
    Results,        \* the terminal events of a stream: "ok", "bad"
    MaxEvents       \* bound: commands begun, the additions apart, budgets
                    \* exceeded, and events of a log read in two halves

Nobody == 0
Managers == Watchers \cup Clis

ASSUME GraphAssumption ==
    Teammates \subseteq Nat \ {0} /\ After \in [Teammates -> SUBSET Teammates]
ASSUME ManagersAssumption == Watchers \cap Clis = {}
ASSUME ResultsAssumption == Results \subseteq {"ok", "bad"}
ASSUME BoundAssumption == MaxEvents \in Nat

VARIABLES
    disk,       \* [Teammates -> meta.json]
    reg,        \* the team is in the registry
    tomb,       \* the tombstone of the team is there
    fresh,      \* teammates nobody has added yet
    live,       \* [Teammates -> its processes that are alive]
    launches,   \* [Teammates -> processes spawned so far: the last pid]
    log,        \* [Teammates -> the terminal event in stdout.log, and whether
                \* its line was torn: polled while it was being written]
    exit,       \* [Teammates -> what the exit_code sentinel holds, if it is 0]
    cache,      \* [Managers -> the records in memory]
    mgr,        \* [Managers -> what the command is doing]
    begun,      \* how many of the events that MaxEvents bounds there were
    won,        \* history: teammates a process of which succeeded
    resumed,    \* history: teammates that `teams resume` tried to launch again
    taken,      \* history: [Teammates -> the managers that took it up, to
                \* launch it or to fail it]
    disowned    \* history: teammates a save of which the tombstone refused, or
                \* whose record a disband purged

vars == <<disk, reg, tomb, fresh, live, launches, log, exit, cache, mgr, begun,
          won, resumed, taken, disowned>>

files == <<disk, reg, tomb, fresh>>
runs == <<live, launches, log, exit>>
procs == <<runs, begun, won, resumed, taken, disowned>>

Terminal == {"completed", "failed", "stopped"}
Statuses == {"none", "pending", "running"} \cup Terminal
Records == [st : Statuses, pid : Nat]
Rec(s, p) == [st |-> s, pid |-> p]
NoRec == Rec("none", 0)
Events == [result : {"none", "ok", "bad"}, torn : BOOLEAN]
Event(r, b) == [result |-> r, torn |-> b]
NoEvent == Event("none", FALSE)

\* The steps of each command; a watch goes back to its second one every wave,
\* and to breach when its budget is exceeded.  Each begins with the polls it
\* makes (listByTask: every cached record is polled); listings with nothing of
\* their manager's own in between are one.
Script ==
    [ off     |-> << >>,
      status  |-> <<"load">>,
      add     |-> <<"ensure", "clear", "load", "add">>,
      stop    |-> <<"load", "stop">>,
      resume  |-> <<"load", "resume">>,
      disband |-> <<"load", "stop", "list", "unregister", "tomb", "purge">>,
      watch   |-> <<"load", "ready", "drain">>,
      breach  |-> <<"stop">> ]
Commands == DOMAIN Script

\* step: how far the script is.  poll and todo: teammates still to poll and to
\* work on.  start: the teammate being launched, prior: its record before a
\* resume.  at: inside the poll, save or stop of teammate who.
Jobs == [ cmd : Commands, step : Nat, tgt : Teammates \cup {Nobody},
          poll : SUBSET Teammates, todo : SUBSET Teammates,
          start : Teammates \cup {Nobody}, prior : Records,
          at : {"go", "save", "write", "grace"},
          who : Teammates \cup {Nobody} ]

Job(c, t) == [ cmd |-> c, step |-> 0, tgt |-> t, poll |-> {}, todo |-> {},
               start |-> Nobody, prior |-> NoRec, at |-> "go", who |-> Nobody ]
Off == Job("off", Nobody)
NoCache == [t \in Teammates |-> NoRec]

Init ==
    /\ disk = NoCache /\ reg = FALSE /\ tomb = FALSE /\ fresh = Teammates
    /\ live = [t \in Teammates |-> {}] /\ launches = [t \in Teammates |-> 0]
    /\ log = [t \in Teammates |-> NoEvent] /\ exit = [t \in Teammates |-> "none"]
    /\ cache = [m \in Managers |-> NoCache] /\ mgr = [m \in Managers |-> Off]
    /\ begun = 0 /\ won = {} /\ resumed = {} /\ disowned = {}
    /\ taken = [t \in Teammates |-> {}]

\* Teammates are numbered as readdir lists their directories.
First(t, ts) == t \in ts /\ \A u \in ts : t <= u

Known(m) == {t \in Teammates : cache[m][t].st # "none"}

\* Mutant: a dependency only has to be under way.
MutCompleted(m, t) == cache[m][t].st \in {"running", "completed"}

Completed(m, t) == cache[m][t].st = "completed"

\* Mutant: a stopped dependency is waited for.
MutBlocks(m, d) == cache[m][d].st \in {"none", "failed"}

Blocks(m, d) == cache[m][d].st \in {"none"} \cup (Terminal \ {"completed"})

\* Mutant: what failed is tried again.
MutWaiting(m, t) == cache[m][t].st \in {"pending", "failed"}

Waiting(m, t) == cache[m][t].st = "pending"

\* startReady fails what a dependency blocks for good, launches what waits for
\* nothing, and passes over the rest.
Blocked(m, t) == Waiting(m, t) /\ \E d \in After[t] : Blocks(m, d)
Launchable(m, t) == Waiting(m, t) /\ \A d \in After[t] : Completed(m, d)

\* The step has something to do about the teammate: stop passes over what does
\* not run; resume steers what runs and refuses what is pending.
Current(m) == Script[mgr[m].cmd][mgr[m].step]
Due(m, t) ==
    \/ Current(m) = "ready" /\ (Blocked(m, t) \/ Launchable(m, t))
    \/ Current(m) = "stop" /\ cache[m][t].st = "running"
    \/ Current(m) = "resume" /\ cache[m][t].st \in Terminal
    \/ Current(m) \in {"add", "purge"}
Agenda(m) == {t \in mgr[m].todo : Due(m, t)}

Free(m) == mgr[m].at = "go" /\ mgr[m].poll = {} /\ mgr[m].start = Nobody
Working(m, s, t) == Free(m) /\ First(t, Agenda(m)) /\ Current(m) = s
Upcoming(m, s) ==
    /\ Free(m) /\ Agenda(m) = {}
    /\ mgr[m].step < Len(Script[mgr[m].cmd])
    /\ Script[mgr[m].cmd][mgr[m].step + 1] = s

Set(m, j) == mgr' = [mgr EXCEPT ![m] = j]
Keep(m, t, r) == cache' = [cache EXCEPT ![m][t] = r]

\* The script goes on to step k, with these teammates to poll and to work on.
Enter(m, k, ps, ts) ==
    Set(m, [mgr[m] EXCEPT !.step = k, !.poll = ps, !.todo = ts])
Advance(m) == Enter(m, mgr[m].step + 1, {}, {})

\* The teammate is done with, and those passed over before it; or its record is
\* to be saved first.
Past(m, t) == [mgr[m] EXCEPT !.todo = {u \in @ : u > t}]
Done(m, t) == Set(m, Past(m, t))
Saving(m, t) == [Past(m, t) EXCEPT !.at = "save", !.who = t]

-----------------------------------------------------------------------------
(* The teammate's process.                                                 *)

\* The terminal event of the agent's stream.
Emit(t, r, torn) ==
    /\ live[t] # {} /\ log[t].result = "none"
    /\ torn => begun < MaxEvents
    /\ begun' = IF torn THEN begun + 1 ELSE begun
    /\ log' = [log EXCEPT ![t] = Event(r, torn)]
    /\ won' = IF r = "ok" THEN won \cup {t} ELSE won
    /\ UNCHANGED <<files, live, launches, exit, cache, mgr, resumed, taken, disowned>>

\* buildSentinelCommand: the shell writes $? once the agent has exited.
Exit(t, p) ==
    /\ p \in live[t]
    /\ live' = [live EXCEPT ![t] = @ \ {p}]
    /\ exit' = [exit EXCEPT ![t] = "ok"]
    /\ won' = won \cup {t}
    /\ UNCHANGED <<files, launches, log, cache, mgr, begun, resumed, taken, disowned>>

\* The agent fails, or the whole group is killed and nothing is written: both
\* read alike.
Die(t, p) ==
    /\ p \in live[t]
    /\ live' = [live EXCEPT ![t] = @ \ {p}]
    /\ exit' = [exit EXCEPT ![t] = "none"]
    /\ UNCHANGED <<files, launches, log, cache, mgr, begun, won, resumed, taken,
                   disowned>>

-----------------------------------------------------------------------------
(* Reading and saving records.                                             *)

\* readNewEvents: the status after what is new in the log.  The offset it is
\* read from, in memory, may lie beyond the event: a line read in two halves
\* tells nothing, and another manager may have launched the teammate again.
Reads(m, t) ==
    LET cached == cache[m][t].st
        result == IF log[t].result = "ok" THEN "completed" ELSE "failed"
    IN  IF log[t].result = "none" THEN {cached}
        ELSE IF ~log[t].torn /\ cache[m][t].pid = launches[t] THEN {result}
        ELSE {cached, result}

\* Mutant: a process that left no sentinel counts as one that exited with 0.
MutVerdict(t, s) == IF s # "running" THEN s ELSE "completed"

\* reapProcess: of a process that is gone only the log and the sentinel tell
\* how it ended.
Verdict(t, s) == IF s # "running" THEN s
                 ELSE IF exit[t] = "ok" THEN "completed" ELSE "failed"

\* One turn of listAll: readNewEvents, then updateStatusFromProcess.  A record
\* that is final on disk is adopted; one whose process is alive or was never
\* launched stays as it is; otherwise the verdict is saved, even when nothing
\* has changed.
Look(m, t) ==
    /\ mgr[m].at = "go" /\ First(t, mgr[m].poll)
    /\ \E s \in Reads(m, t) :
         LET p == cache[m][t].pid
             adopt == s \notin Terminal /\ disk[t].st \in Terminal
             rest == p \in live[t] \/ (p = 0 /\ s # "running")
             done == [mgr[m] EXCEPT !.poll = @ \ {t}]
         IN  \/ /\ adopt \/ rest
                /\ Keep(m, t, Rec(IF adopt THEN disk[t].st ELSE s, p))
                /\ Set(m, done)
             \/ /\ ~adopt /\ ~rest
                /\ Keep(m, t, Rec(Verdict(t, s), p))
                /\ Set(m, [done EXCEPT !.who = t, !.at = "save"])
    /\ UNCHANGED <<files, procs>>

\* saveMeta looks for the tombstone, and writes later.
SaveChecks(m) ==
    /\ mgr[m].at = "save"
    /\ Set(m, [mgr[m] EXCEPT !.at = IF tomb THEN "go" ELSE "write",
                               !.who = IF tomb THEN Nobody ELSE @])
    /\ disowned' = IF tomb THEN disowned \cup {mgr[m].who} ELSE disowned
    /\ UNCHANGED <<files, runs, begun, won, resumed, taken, cache>>

SaveWrites(m) ==
    /\ mgr[m].at = "write"
    /\ disk' = [disk EXCEPT ![mgr[m].who] = cache[m][mgr[m].who]]
    /\ Set(m, [mgr[m] EXCEPT !.at = "go", !.who = Nobody])
    /\ UNCHANGED <<reg, tomb, fresh, procs, cache>>

\* loadExistingAgents.  The manager polls each record it loads and the command
\* then lists them: one poll stands for both.
Load(m) ==
    /\ Upcoming(m, "load")
    /\ cache' = [cache EXCEPT ![m] = disk]
    /\ Enter(m, mgr[m].step + 1, {t \in Teammates : disk[t].st # "none"}, {})
    /\ UNCHANGED <<files, procs>>

List(m) ==
    /\ Upcoming(m, "list")
    /\ Enter(m, mgr[m].step + 1, Known(m), {})
    /\ UNCHANGED <<files, procs, cache>>

\* rescanFromDisk: records it does not know, and those that have become
\* terminal since.
Rescan(m) ==
    cache' = [cache EXCEPT ![m] = [t \in Teammates |->
        IF \/ cache[m][t].st = "none"
           \/ cache[m][t].st \notin Terminal /\ disk[t].st \in Terminal
        THEN disk[t] ELSE cache[m][t]]]
Seen(m) == Known(m) \cup {t \in Teammates : disk[t].st # "none"}

-----------------------------------------------------------------------------
(* Launching.                                                              *)

Launching(m, t) == [Past(m, t) EXCEPT !.start = t]

\* The manager is one of those that took the teammate up.
Takes(m, t) ==
    /\ taken' = [taken EXCEPT ![t] = @ \cup {m}]
    /\ UNCHANGED <<files, runs, begun, won, resumed, disowned>>

\* A wave of runSupervisor: rescan, list, startReady;
AtRest(m) == \A t \in Teammates : cache[m][t].st \notin {"pending", "running"}
WaveOver(m) ==
    Free(m) /\ mgr[m].cmd = "watch" /\ mgr[m].step = Len(Script["watch"])

Ready(m) ==
    /\ Upcoming(m, "ready") \/ (WaveOver(m) /\ ~AtRest(m))
    /\ Rescan(m)
    /\ Enter(m, 2, Seen(m), Seen(m))
    /\ UNCHANGED <<files, procs>>

ReadyFails(m, t) ==
    /\ Working(m, "ready", t) /\ Blocked(m, t)
    /\ Keep(m, t, Rec("failed", cache[m][t].pid))
    /\ Set(m, Saving(m, t))
    /\ Takes(m, t)

\* launchProcess lists every teammate first.
ReadyLaunches(m, t) ==
    /\ Working(m, "ready", t) /\ Launchable(m, t)
    /\ Set(m, [Launching(m, t) EXCEPT !.poll = Known(m)])
    /\ Takes(m, t) /\ UNCHANGED cache

\* then rescan and list again: another wave after a sleep, or drained,
Drain(m) ==
    /\ Upcoming(m, "drain")
    /\ Rescan(m)
    /\ Enter(m, mgr[m].step + 1, Seen(m), {})
    /\ UNCHANGED <<files, procs>>

End(m) == Set(m, Off) /\ cache' = [cache EXCEPT ![m] = NoCache]

Wave(m) ==
    /\ WaveOver(m) /\ AtRest(m)
    /\ End(m)
    /\ UNCHANGED <<files, procs>>

\* unless the budget is exceeded: everything is stopped, and the watch ends;
Breach(m) ==
    /\ Upcoming(m, "drain") /\ begun < MaxEvents
    /\ Set(m, Job("breach", Nobody))
    /\ begun' = begun + 1
    /\ UNCHANGED <<files, runs, won, resumed, taken, disowned, cache>>

\* or a signal or the bound on waves ends it.
Quit(m) ==
    /\ WaveOver(m) /\ ~AtRest(m)
    /\ End(m)
    /\ UNCHANGED <<files, procs>>

Starting(m) == mgr[m].start # Nobody /\ mgr[m].at = "go" /\ mgr[m].poll = {}
Started(m) == [mgr[m] EXCEPT !.start = Nobody, !.prior = NoRec,
                             !.at = "save", !.who = mgr[m].start]

\* The log is truncated, the sentinel removed and the process spawned.
Spawn(m) ==
    LET t == mgr[m].start
        p == launches[t] + 1
    IN  /\ Starting(m)
        /\ launches' = [launches EXCEPT ![t] = p]
        /\ live' = [live EXCEPT ![t] = @ \cup {p}]
        /\ log' = [log EXCEPT ![t] = NoEvent]
        /\ exit' = [exit EXCEPT ![t] = "none"]
        /\ Keep(m, t, Rec("running", p))
        /\ Set(m, Started(m))
        /\ UNCHANGED <<files, begun, won, resumed, taken, disowned>>

\* It cannot be spawned: failAgent, or the record as it was before the resume.
SpawnFails(m) ==
    LET t == mgr[m].start
    IN  /\ Starting(m)
        /\ Keep(m, t, IF mgr[m].cmd = "resume" THEN mgr[m].prior
                      ELSE Rec("failed", cache[m][t].pid))
        /\ \E e \in {exit[t], "none"} : exit' = [exit EXCEPT ![t] = e]
        /\ Set(m, Started(m))
        /\ UNCHANGED <<files, live, launches, log, begun, won, resumed, taken,
                       disowned>>

-----------------------------------------------------------------------------
(* The commands.                                                           *)

Begin(m, c, t) ==
    /\ mgr[m].cmd = "off"
    /\ Set(m, Job(c, t))
    /\ fresh' = IF c = "add" THEN fresh \ {t} ELSE fresh
    /\ begun' = IF c = "add" THEN begun ELSE begun + 1
    /\ UNCHANGED <<disk, reg, tomb, runs, won, resumed, taken, disowned, cache>>

\* teamExists is asked before a start.
BeginWatch(m) == m \in Watchers /\ reg /\ Begin(m, "watch", Nobody)
BeginTeam(m) ==
    m \in Clis /\ \E c \in {"status", "disband"} : Begin(m, c, Nobody)
BeginAdd(m) == m \in Clis /\ \E t \in fresh : Begin(m, "add", t)
BeginOne(m) ==
    /\ m \in Clis
    /\ \E t \in Teammates :
         /\ disk[t].st # "none"
         /\ \E c \in {"stop", "resume"} : Begin(m, c, t)

Finish(m) ==
    /\ mgr[m].cmd \notin {"off", "watch"} /\ Free(m) /\ Agenda(m) = {}
    /\ mgr[m].step = Len(Script[mgr[m].cmd])
    /\ End(m)
    /\ UNCHANGED <<files, procs>>

\* ensureTeam (so does `teams create`): a team that is not in the registry is put there
Ensure(m) ==
    /\ Upcoming(m, "ensure")
    /\ reg' = TRUE
    /\ Enter(m, mgr[m].step + (IF reg THEN 2 ELSE 1), {}, {})
    /\ UNCHANGED <<disk, tomb, fresh, procs, cache>>

\* and then its tombstone is removed.
Clear(m) ==
    /\ Upcoming(m, "clear")
    /\ tomb' = FALSE
    /\ Advance(m)
    /\ UNCHANGED <<disk, reg, fresh, procs, cache>>

\* add, stop and resume of a teammate; a disband or a breach stops them all.
Target(m) ==
    /\ \E s \in {"add", "stop", "resume"} : Upcoming(m, s)
    /\ LET ts == IF mgr[m].tgt = Nobody THEN Known(m) ELSE {mgr[m].tgt}
       IN  Set(m, [mgr[m] EXCEPT !.step = @ + 1, !.tgt = Nobody, !.todo = ts,
                     !.poll = ts \cap Known(m)])
    /\ UNCHANGED <<files, procs, cache>>

\* validateAddPreconditions finds a dependency missing.
AddRejects(m, t) ==
    /\ Working(m, "add", t) /\ ~(After[t] \subseteq Known(m))
    /\ fresh' = fresh \cup {t}
    /\ Done(m, t)
    /\ UNCHANGED <<disk, reg, tomb, procs, cache>>

\* A teammate with dependencies is staged, one without is launched at once.
Add(m, t) ==
    /\ Working(m, "add", t) /\ After[t] \subseteq Known(m)
    /\ Keep(m, t, Rec("pending", 0))
    /\ IF After[t] = {}
       THEN Set(m, Launching(m, t)) /\ Takes(m, t)
       ELSE Set(m, Saving(m, t)) /\ UNCHANGED <<files, procs>>

\* stop: SIGTERM to the process group, unless it is gone already,
Stop(m, t) ==
    /\ Working(m, "stop", t)
    /\ IF cache[m][t].pid \in live[t]
       THEN /\ Set(m, [Saving(m, t) EXCEPT !.at = "grace"])
            /\ UNCHANGED cache
       ELSE /\ Keep(m, t, Rec("stopped", cache[m][t].pid))
            /\ Set(m, Saving(m, t))
    /\ UNCHANGED <<files, procs>>

\* Mutant: it is not killed when it survives the SIGTERM.
MutStopKills(m) ==
    /\ mgr[m].at = "grace"
    /\ Keep(m, mgr[m].who, Rec("stopped", cache[m][mgr[m].who].pid))
    /\ Set(m, [mgr[m] EXCEPT !.at = "save"])
    /\ UNCHANGED <<files, procs>>

\* and SIGKILL two seconds later.
StopKills(m) ==
    LET t == mgr[m].who
        p == cache[m][t].pid
    IN  /\ mgr[m].at = "grace"
        /\ live' = [live EXCEPT ![t] = @ \ {p}]
        /\ Keep(m, t, Rec("stopped", p))
        /\ Set(m, [mgr[m] EXCEPT !.at = "save"])
        /\ UNCHANGED <<files, launches, log, exit, begun, won, resumed, taken,
                       disowned>>

\* resumeTeammate.
Resume(m, t) ==
    /\ Working(m, "resume", t)
    /\ Keep(m, t, Rec("running", cache[m][t].pid))
    /\ Set(m, [Launching(m, t) EXCEPT !.prior = cache[m][t]])
    /\ resumed' = resumed \cup {t}
    /\ UNCHANGED <<files, runs, begun, won, taken, disowned>>

\* removeTeam: the registry entry goes,
Disband(m) ==
    /\ Upcoming(m, "unregister")
    /\ reg' = FALSE
    /\ Advance(m)
    /\ UNCHANGED <<disk, tomb, fresh, procs, cache>>

\* then the tombstone is written,
Bury(m) ==
    /\ Upcoming(m, "tomb")
    /\ tomb' = TRUE
    /\ Advance(m)
    /\ UNCHANGED <<disk, reg, fresh, procs, cache>>

PurgeAll(m) ==
    /\ Upcoming(m, "purge")
    /\ Enter(m, mgr[m].step + 1, Known(m), Known(m))
    /\ UNCHANGED <<files, procs, cache>>

\* and the records follow, with their logs or without.
Purge(m, t) ==
    /\ Working(m, "purge", t)
    /\ disk' = [disk EXCEPT ![t] = NoRec]
    /\ \/ UNCHANGED <<log, exit>>
       \/ /\ log' = [log EXCEPT ![t] = NoEvent]
          /\ exit' = [exit EXCEPT ![t] = "none"]
    /\ disowned' = disowned \cup {t}
    /\ Keep(m, t, NoRec)
    /\ Done(m, t)
    /\ UNCHANGED <<reg, tomb, fresh, live, launches, begun, won, resumed, taken>>

-----------------------------------------------------------------------------
Work(m, t) ==
    \/ Look(m, t)
    \/ ReadyFails(m, t) \/ ReadyLaunches(m, t)
    \/ AddRejects(m, t) \/ Add(m, t)
    \/ Stop(m, t) \/ Resume(m, t) \/ Purge(m, t)

\* What a command does of its own accord once it has begun.
Continue(m) ==
    \/ \E t \in Teammates : Work(m, t)
    \/ SaveChecks(m) \/ SaveWrites(m)
    \/ Load(m) \/ List(m) \/ Ready(m) \/ Drain(m)
    \/ Spawn(m) \/ SpawnFails(m)
    \/ Ensure(m) \/ Clear(m) \/ Disband(m) \/ Bury(m) \/ PurgeAll(m)
    \/ Target(m) \/ StopKills(m)
    \/ Wave(m) \/ Finish(m)

BeginSome(m) ==
    \/ BeginAdd(m)
    \/ begun < MaxEvents /\ (BeginWatch(m) \/ BeginTeam(m) \/ BeginOne(m))

Ends(t) == \E p \in live[t] : Die(t, p) \/ Exit(t, p)

Next ==
    \/ \E m \in Managers : Continue(m) \/ BeginSome(m) \/ Breach(m) \/ Quit(m)
    \/ \E t \in Teammates : Ends(t)
                          \/ \E r \in Results, torn \in BOOLEAN : Emit(t, r, torn)

Spec == Init /\ [][Next]_vars

\* The watch is the foreground process of its terminal, and an agent's process
\* ends sooner or later; nothing is asked of the other commands.
FairSpec ==
    /\ Spec
    /\ \A m \in Watchers : WF_vars(Continue(m))
    /\ \A t \in Teammates : WF_vars(Ends(t))

-----------------------------------------------------------------------------
TypeOK ==
    /\ disk \in [Teammates -> Records] /\ reg \in BOOLEAN /\ tomb \in BOOLEAN
    /\ fresh \subseteq Teammates
    /\ live \in [Teammates -> SUBSET Nat] /\ launches \in [Teammates -> Nat]
    /\ log \in [Teammates -> Events]
    /\ exit \in [Teammates -> {"none", "ok"}]
    /\ cache \in [Managers -> [Teammates -> Records]]
    /\ mgr \in [Managers -> Jobs]
    /\ begun \in Nat /\ won \subseteq Teammates /\ resumed \subseteq Teammates
    /\ taken \in [Teammates -> SUBSET Managers] /\ disowned \subseteq Teammates \cup {Nobody}

\* A record says completed only if a process of the teammate reported success
\* or exited with 0: not because it was stopped, killed, never launched, or
\* because the sentinel of an earlier process was read.
CompletedIsEarned == \A t \in Teammates : disk[t].st = "completed" => t \in won

\* A teammate is launched only after every teammate it was staged --after has
\* really succeeded, unless somebody resumed it: whatever the commands that
\* stopped, reaped or resumed its dependencies wrote.
DepsFirst ==
    \A t \in Teammates \ resumed : launches[t] > 0 => After[t] \subseteq won

\* Teammates that two managers launched or failed, both holding them as pending
\* (a second `teams start`), that somebody resumed, or that a disband disowned.
Contested == {t \in Teammates : \E m, n \in taken[t] : m # n}
Undisturbed == Teammates \ (Contested \cup resumed \cup disowned)

\* `teams stop` can find every undisturbed teammate that runs: its record names
\* its live process as running, unless its launcher is about to write that.  So
\* it has one process at a time.  A team that is disbanded and created again
\* leaves behind the processes of disowned teammates only.
Recording(m, t, p) ==
    /\ mgr[m].who = t /\ mgr[m].at \in {"save", "write"}
    /\ cache[m][t] = Rec("running", p)

StopFinds ==
    \A t \in Undisturbed : \A p \in live[t] :
        \/ disk[t] = Rec("running", p)
        \/ \E m \in Managers : Recording(m, t, p)

\* "A terminal status is a one-way latch": no manager that saves what it
\* remembers takes the record of an undisturbed teammate that was stopped,
\* failed or completed back to pending or running.
TerminalLatch ==
    [][\A t \in Undisturbed :
         disk[t].st \in Terminal /\ disk'[t].st # "none"
            => disk'[t].st \in Terminal]_vars

\* A watch ends: every teammate it knows comes to rest, whatever is added,
\* stopped, resumed, killed or disbanded meanwhile.
WatchDrains ==
    \A m \in Watchers : mgr[m].cmd = "watch" ~> mgr[m].cmd = "off"

=============================================================================
