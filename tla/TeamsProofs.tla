---------------------------- MODULE TeamsProofs ----------------------------
(* Theorems about Teams, for any teammates, graph, watches and commands.     *)
EXTENDS Teams, TLAPS

-----------------------------------------------------------------------------
(* Types.                                                                    *)

LEMMA CommandsAre ==
  Commands = {"off", "status", "add", "stop", "resume", "disband", "watch", "breach"}
BY DEF Commands, Script

LEMMA NobodyOut == Nobody \notin Teammates
BY GraphAssumption DEF Nobody

LEMMA RecType == ASSUME NEW s \in Statuses, NEW p \in Nat PROVE Rec(s, p) \in Records
BY DEF Rec, Records

LEMMA NoRecType == NoRec \in Records
BY RecType DEF NoRec, Statuses

LEMMA JobType ==
  ASSUME NEW c \in Commands, NEW t \in Teammates \cup {Nobody}
  PROVE  Job(c, t) \in Jobs
BY NoRecType DEF Job, Jobs

LEMMA SetType ==
  ASSUME TypeOK, NEW m \in Managers, NEW j \in Jobs, Set(m, j)
  PROVE  mgr' \in [Managers -> Jobs]
BY DEF TypeOK, Set

LEMMA KeepType ==
  ASSUME TypeOK, NEW m \in Managers, NEW t \in Teammates, NEW r \in Records,
         Keep(m, t, r)
  PROVE  cache' \in [Managers -> [Teammates -> Records]]
BY DEF TypeOK, Keep

LEMMA CacheType ==
  ASSUME TypeOK, NEW m \in Managers, NEW t \in Teammates
  PROVE  /\ cache[m][t] \in Records
         /\ cache[m][t].st \in Statuses /\ cache[m][t].pid \in Nat
         /\ disk[t] \in Records /\ disk[t].st \in Statuses
         /\ Known(m) \subseteq Teammates
         /\ mgr[m] \in Jobs
BY DEF TypeOK, Records, Known

LEMMA MgrType ==
  ASSUME TypeOK, NEW m \in Managers
  PROVE  mgr[m] \in Jobs /\ Known(m) \subseteq Teammates
BY DEF TypeOK, Known

\* The next step of a script, with teammates to poll and to work on.
LEMMA EnterType ==
  ASSUME TypeOK, NEW m \in Managers, NEW k \in Nat, NEW ps \in SUBSET Teammates,
         NEW ts \in SUBSET Teammates, Enter(m, k, ps, ts)
  PROVE  mgr' \in [Managers -> Jobs]
<1>1. mgr[m] \in Jobs
  BY MgrType
<1>2. [mgr[m] EXCEPT !.step = k, !.poll = ps, !.todo = ts] \in Jobs
  BY <1>1 DEF Jobs
<1> QED BY <1>2, SetType DEF Enter

LEMMA AdvanceType ==
  ASSUME TypeOK, NEW m \in Managers, Advance(m)
  PROVE  mgr' \in [Managers -> Jobs]
<1>1. mgr[m] \in Jobs
  BY MgrType
<1>2. mgr[m].step + 1 \in Nat
  BY <1>1 DEF Jobs
<1> QED BY <1>2, EnterType DEF Advance

\* A step that changes what one manager does, and one cached record of it.
LEMMA LocalType ==
  ASSUME TypeOK, mgr' \in [Managers -> Jobs],
         cache' \in [Managers -> [Teammates -> Records]],
         UNCHANGED <<files, procs>>
  PROVE  TypeOK'
BY DEF TypeOK, files, procs, runs

LEMMA TakesType ==
  ASSUME TypeOK, mgr' \in [Managers -> Jobs],
         cache' \in [Managers -> [Teammates -> Records]],
         NEW m \in Managers, NEW t \in Teammates, Takes(m, t)
  PROVE  TypeOK'
BY DEF TypeOK, Takes, files, runs

\* What a step finds to do about a teammate.
LEMMA WorkingDue ==
  ASSUME NEW m \in Managers, NEW s, NEW t, Working(m, s, t)
  PROVE  /\ t \in mgr[m].todo /\ Free(m)
         /\ s = "ready" => Blocked(m, t) \/ Launchable(m, t)
         /\ s = "stop" => cache[m][t].st = "running"
         /\ s = "resume" => cache[m][t].st \in Terminal
BY DEF Working, First, Agenda, Due

LEMMA ProcessType ==
  ASSUME TypeOK, NEW t \in Teammates,
         Ends(t) \/ \E r \in Results, torn \in BOOLEAN : Emit(t, r, torn)
  PROVE  TypeOK'
<1>1. ASSUME NEW r \in Results, NEW torn \in BOOLEAN, Emit(t, r, torn) PROVE TypeOK'
  <2>1. Event(r, torn) \in Events
    BY ResultsAssumption DEF Event, Events
  <2>2. begun' \in Nat
    BY <1>1 DEF Emit, TypeOK
  <2> QED BY <1>1, <2>1, <2>2 DEF Emit, TypeOK, files
<1>2. ASSUME NEW p \in live[t], Die(t, p) PROVE TypeOK'
  BY <1>2 DEF Die, TypeOK, files, runs
<1>3. ASSUME NEW p \in live[t], Exit(t, p) PROVE TypeOK'
  BY <1>3 DEF Exit, TypeOK, files, runs
<1> QED BY <1>1, <1>2, <1>3 DEF Ends

LEMMA ReadsType ==
  ASSUME TypeOK, NEW m \in Managers, NEW t \in Teammates, NEW s \in Reads(m, t)
  PROVE  s \in Statuses /\ Verdict(t, s) \in Statuses
BY CacheType DEF Reads, Verdict, Statuses, Terminal

LEMMA LookType ==
  ASSUME TypeOK, NEW m \in Managers, NEW t \in Teammates, Look(m, t)
  PROVE  TypeOK'
<1>0. mgr[m] \in Jobs /\ cache[m][t].pid \in Nat /\ disk[t].st \in Statuses
  BY CacheType
<1>1. PICK s \in Reads(m, t) :
        \E r \in {Rec(disk[t].st, cache[m][t].pid), Rec(s, cache[m][t].pid),
                  Rec(Verdict(t, s), cache[m][t].pid)},
           j \in {[mgr[m] EXCEPT !.poll = @ \ {t}],
                  [mgr[m] EXCEPT !.poll = @ \ {t}, !.who = t, !.at = "save"]} :
          Keep(m, t, r) /\ Set(m, j)
  <2>1. PICK s \in Reads(m, t) :
          \/ /\ Keep(m, t, Rec(IF s \notin Terminal /\ disk[t].st \in Terminal
                               THEN disk[t].st ELSE s, cache[m][t].pid))
             /\ Set(m, [mgr[m] EXCEPT !.poll = @ \ {t}])
          \/ /\ Keep(m, t, Rec(Verdict(t, s), cache[m][t].pid))
             /\ Set(m, [[mgr[m] EXCEPT !.poll = @ \ {t}] EXCEPT !.who = t, !.at = "save"])
    BY Zenon DEF Look
  <2>2. [[mgr[m] EXCEPT !.poll = @ \ {t}] EXCEPT !.who = t, !.at = "save"]
          = [mgr[m] EXCEPT !.poll = @ \ {t}, !.who = t, !.at = "save"]
    OBVIOUS
  <2> QED BY <2>1, <2>2
<1>2. /\ [mgr[m] EXCEPT !.poll = @ \ {t}] \in Jobs
      /\ [mgr[m] EXCEPT !.poll = @ \ {t}, !.who = t, !.at = "save"] \in Jobs
  BY <1>0 DEF Jobs
<1>3. /\ Rec(disk[t].st, cache[m][t].pid) \in Records
      /\ Rec(s, cache[m][t].pid) \in Records
      /\ Rec(Verdict(t, s), cache[m][t].pid) \in Records
  BY <1>0, ReadsType, RecType
<1>4. mgr' \in [Managers -> Jobs] /\ cache' \in [Managers -> [Teammates -> Records]]
  BY <1>1, <1>2, <1>3, SetType, KeepType
<1> QED BY <1>4, LocalType DEF Look

LEMMA SavesType ==
  ASSUME TypeOK, NEW m \in Managers,
         SaveChecks(m) \/ SaveWrites(m) \/ Load(m) \/ List(m)
  PROVE  TypeOK'
<1>0. mgr[m] \in Jobs /\ Known(m) \subseteq Teammates
  BY MgrType
<1>9. mgr[m].step + 1 \in Nat
  BY <1>0 DEF Jobs
<1>1. CASE SaveChecks(m)
  <2>1. [mgr[m] EXCEPT !.at = IF tomb THEN "go" ELSE "write",
                       !.who = IF tomb THEN Nobody ELSE @] \in Jobs
    BY <1>0 DEF Jobs
  <2>2. mgr' \in [Managers -> Jobs]
    BY <1>1, <2>1, SetType DEF SaveChecks
  <2>3. disowned' \subseteq Teammates \cup {Nobody}
    <3>1. mgr[m].who \in Teammates \cup {Nobody}
      BY <1>0 DEF Jobs
    <3> QED BY <1>1, <3>1 DEF SaveChecks, TypeOK
  <2> QED BY <1>1, <2>2, <2>3 DEF SaveChecks, TypeOK, files, runs
<1>2. CASE SaveWrites(m)
  <2>1. [mgr[m] EXCEPT !.at = "go", !.who = Nobody] \in Jobs
    BY <1>0 DEF Jobs
  <2>2. mgr' \in [Managers -> Jobs]
    BY <1>2, <2>1, SetType DEF SaveWrites
  <2>3. disk' \in [Teammates -> Records]
    <3>1. disk' = [disk EXCEPT ![mgr[m].who] = cache[m][mgr[m].who]]
      BY <1>2 DEF SaveWrites
    <3> QED BY <3>1, CacheType DEF TypeOK
  <2>4. UNCHANGED <<reg, tomb, fresh, procs, cache>>
    BY <1>2 DEF SaveWrites
  <2> QED BY <2>2, <2>3, <2>4 DEF TypeOK, procs, runs
<1>3. CASE Load(m)
  <2>1. mgr' \in [Managers -> Jobs]
    <3> DEFINE ps == {t \in Teammates : disk[t].st # "none"}
    <3>1. ps \in SUBSET Teammates /\ {} \in SUBSET Teammates
      OBVIOUS
    <3>2. Enter(m, mgr[m].step + 1, ps, {})
      BY <1>3 DEF Load
    <3> HIDE DEF ps
    <3> QED BY <1>9, <3>1, <3>2, EnterType
  <2>2. cache' \in [Managers -> [Teammates -> Records]]
    BY <1>3 DEF Load, TypeOK
  <2> QED BY <1>3, <2>1, <2>2, LocalType DEF Load
<1>4. CASE List(m)
  <2>1. mgr' \in [Managers -> Jobs]
    <3>1. Known(m) \in SUBSET Teammates /\ {} \in SUBSET Teammates
      BY <1>0
    <3> QED BY <1>4, <1>9, <3>1, EnterType DEF List
  <2> QED BY <1>4, <2>1, LocalType DEF List, TypeOK
<1> QED BY <1>1, <1>2, <1>3, <1>4

\* What may become of a manager's job while it works on teammate t.
LEMMA WorkJobs ==
  ASSUME TypeOK, NEW m \in Managers, NEW t \in Teammates
  PROVE  /\ Past(m, t) \in Jobs
         /\ Saving(m, t) \in Jobs
         /\ Launching(m, t) \in Jobs
         /\ [Launching(m, t) EXCEPT !.poll = Known(m)] \in Jobs
         /\ [Launching(m, t) EXCEPT !.prior = cache[m][t]] \in Jobs
         /\ [Saving(m, t) EXCEPT !.at = "grace"] \in Jobs
<1>1. mgr[m] \in Jobs /\ Known(m) \in SUBSET Teammates /\ cache[m][t] \in Records
  BY CacheType
<1>2. Past(m, t) \in Jobs
  BY <1>1 DEF Past, Jobs
<1>3. Saving(m, t) \in Jobs /\ Launching(m, t) \in Jobs
  BY <1>2 DEF Saving, Launching, Jobs
<1> QED BY <1>1, <1>2, <1>3 DEF Jobs

LEMMA ReadyType ==
  ASSUME TypeOK, NEW m \in Managers, NEW t \in Teammates,
         ReadyFails(m, t) \/ ReadyLaunches(m, t)
  PROVE  TypeOK'
<1>2. CASE ReadyFails(m, t)
  <2>1. Rec("failed", cache[m][t].pid) \in Records
    BY CacheType, RecType DEF Statuses, Terminal
  <2> QED BY <1>2, <2>1, WorkJobs, SetType, KeepType, TakesType DEF ReadyFails
<1>3. CASE ReadyLaunches(m, t)
  BY <1>3, WorkJobs, SetType, TakesType DEF ReadyLaunches, TypeOK
<1> QED BY <1>2, <1>3

LEMMA LaunchType ==
  ASSUME TypeOK, NEW m \in Managers,
         Ready(m) \/ Drain(m) \/ Spawn(m) \/ SpawnFails(m)
  PROVE  TypeOK'
<1>0. mgr[m] \in Jobs /\ Known(m) \subseteq Teammates
  BY MgrType
<1>1. CASE Ready(m) \/ Drain(m)
  <2>1. cache' \in [Managers -> [Teammates -> Records]]
    <3> DEFINE f == [t \in Teammates |->
                IF \/ cache[m][t].st = "none"
                   \/ cache[m][t].st \notin Terminal /\ disk[t].st \in Terminal
                THEN disk[t] ELSE cache[m][t]]
    <3>1. f \in [Teammates -> Records]
      BY DEF TypeOK
    <3>2. cache' = [cache EXCEPT ![m] = f]
      BY <1>1 DEF Ready, Drain, Rescan
    <3> HIDE DEF f
    <3> QED BY <3>1, <3>2 DEF TypeOK
  <2>2. Seen(m) \in SUBSET Teammates /\ mgr[m].step + 1 \in Nat
    BY <1>0 DEF Seen, Jobs
  <2>3. mgr' \in [Managers -> Jobs]
    BY <1>1, <2>2, EnterType DEF Ready, Drain
  <2> QED BY <1>1, <2>1, <2>3, LocalType DEF Ready, Drain
<1>2. ASSUME Starting(m)
      PROVE  /\ mgr[m].start \in Teammates /\ Started(m) \in Jobs
             /\ mgr[m].prior \in Records
  BY <1>0, <1>2, NoRecType DEF Starting, Started, Jobs
<1>3. CASE Spawn(m)
  <2> DEFINE t == mgr[m].start
             p == launches[t] + 1
  <2>1. t \in Teammates /\ Started(m) \in Jobs
    BY <1>2, <1>3 DEF Spawn
  <2>2. p \in Nat /\ Rec("running", p) \in Records
    BY <2>1, RecType DEF TypeOK, Statuses
  <2>3. /\ mgr' \in [Managers -> Jobs]
        /\ cache' \in [Managers -> [Teammates -> Records]]
    BY <1>3, <2>1, <2>2, SetType, KeepType DEF Spawn
  <2>4. /\ launches' = [launches EXCEPT ![t] = p]
        /\ live' = [live EXCEPT ![t] = @ \cup {p}]
        /\ log' = [log EXCEPT ![t] = NoEvent]
        /\ exit' = [exit EXCEPT ![t] = "none"]
        /\ UNCHANGED <<files, begun, won, resumed, taken, disowned>>
    BY <1>3 DEF Spawn
  <2>5. NoEvent \in Events
    BY DEF NoEvent, Event, Events
  <2> HIDE DEF t, p
  <2> QED BY <2>1, <2>2, <2>3, <2>4, <2>5 DEF TypeOK, files
<1>4. CASE SpawnFails(m)
  <2> DEFINE t == mgr[m].start
             r == IF mgr[m].cmd = "resume" THEN mgr[m].prior
                  ELSE Rec("failed", cache[m][t].pid)
  <2>1. t \in Teammates /\ Started(m) \in Jobs /\ mgr[m].prior \in Records
    BY <1>2, <1>4 DEF SpawnFails
  <2>2. r \in Records
    BY <2>1, RecType, CacheType DEF Statuses, Terminal
  <2>3. /\ mgr' \in [Managers -> Jobs]
        /\ cache' \in [Managers -> [Teammates -> Records]]
    BY <1>4, <2>1, <2>2, SetType, KeepType DEF SpawnFails
  <2>4. /\ \E e \in {exit[t], "none"} : exit' = [exit EXCEPT ![t] = e]
        /\ UNCHANGED <<files, live, launches, log, begun, won, resumed, taken, disowned>>
    BY <1>4 DEF SpawnFails
  <2> HIDE DEF t, r
  <2> QED BY <2>1, <2>3, <2>4 DEF TypeOK, files
<1> QED BY <1>1, <1>3, <1>4

LEMMA AddType ==
  ASSUME TypeOK, NEW m \in Managers, NEW t \in Teammates, AddRejects(m, t) \/ Add(m, t)
  PROVE  TypeOK'
<1>1. CASE AddRejects(m, t)
  <2>1. mgr' \in [Managers -> Jobs]
    BY <1>1, WorkJobs, SetType DEF AddRejects, Done
  <2> QED BY <1>1, <2>1 DEF AddRejects, TypeOK, procs, runs
<1>2. CASE Add(m, t)
  <2>1. Rec("pending", 0) \in Records
    BY RecType DEF Statuses
  <2>2. mgr' \in [Managers -> Jobs]
    BY <1>2, WorkJobs, SetType DEF Add
  <2>3. cache' \in [Managers -> [Teammates -> Records]]
    BY <1>2, <2>1, KeepType DEF Add
  <2> QED BY <1>2, <2>2, <2>3, LocalType, TakesType DEF Add
<1> QED BY <1>1, <1>2

LEMMA StopType ==
  ASSUME TypeOK, NEW m \in Managers, NEW t \in Teammates, Stop(m, t)
  PROVE  TypeOK'
<1>2. CASE Stop(m, t)
  <2>1. Rec("stopped", cache[m][t].pid) \in Records
    BY CacheType, RecType DEF Statuses, Terminal
  <2>2. mgr' \in [Managers -> Jobs]
    BY <1>2, WorkJobs, SetType DEF Stop
  <2>3. cache' \in [Managers -> [Teammates -> Records]]
    BY <1>2, <2>1, KeepType DEF Stop, TypeOK
  <2> QED BY <1>2, <2>2, <2>3, LocalType DEF Stop
<1> QED BY <1>2

LEMMA KillType ==
  ASSUME TypeOK, NEW m \in Managers, StopKills(m)
  PROVE  TypeOK'
<1> DEFINE t == mgr[m].who
           p == cache[m][t].pid
<1>0. mgr[m] \in Jobs
  BY MgrType
<1>1. [mgr[m] EXCEPT !.at = "save"] \in Jobs
  BY <1>0 DEF Jobs
<1>2. mgr' \in [Managers -> Jobs]
  BY <1>1, SetType DEF StopKills
<1>3. CASE t \in Teammates
  <2>1. Rec("stopped", p) \in Records
    BY <1>3, CacheType, RecType DEF Statuses, Terminal
  <2>2. Keep(m, t, Rec("stopped", p)) /\ live' = [live EXCEPT ![t] = @ \ {p}]
    BY DEF StopKills
  <2>3. cache' \in [Managers -> [Teammates -> Records]]
    BY <1>3, <2>1, <2>2, KeepType
  <2>4. UNCHANGED <<files, launches, log, exit, begun, won, resumed, taken, disowned>>
    BY DEF StopKills
  <2> HIDE DEF t, p
  <2>5. live' \in [Teammates -> SUBSET Nat]
    BY <1>3, <2>2 DEF TypeOK
  <2> QED BY <1>2, <2>3, <2>4, <2>5 DEF TypeOK, files
<1>4. CASE t \notin Teammates
  \* There is nobody to kill: nothing changes but the job.
  <2>1. live' = live /\ cache' = cache
    <3>1. live' = [live EXCEPT ![t] = @ \ {p}]
      BY DEF StopKills
    <3>2. cache' = [cache EXCEPT ![m][t] = Rec("stopped", p)]
      BY DEF StopKills, Keep
    <3>3. live \in [Teammates -> SUBSET Nat] /\ cache \in [Managers -> [Teammates -> Records]]
      BY DEF TypeOK
    <3> HIDE DEF t, p
    <3> QED BY <1>4, <3>1, <3>2, <3>3
  <2>2. UNCHANGED <<files, launches, log, exit, begun, won, resumed, taken, disowned>>
    BY DEF StopKills
  <2> QED BY <1>2, <2>1, <2>2 DEF TypeOK, files
<1> QED BY <1>3, <1>4

LEMMA ResumeType ==
  ASSUME TypeOK, NEW m \in Managers, NEW t \in Teammates,
         Resume(m, t)
  PROVE  TypeOK'
<1>2. CASE Resume(m, t)
  <2>1. Rec("running", cache[m][t].pid) \in Records
    BY CacheType, RecType DEF Statuses
  <2>2. mgr' \in [Managers -> Jobs]
    BY <1>2, WorkJobs, SetType DEF Resume
  <2>3. cache' \in [Managers -> [Teammates -> Records]]
    BY <1>2, <2>1, KeepType DEF Resume
  <2> QED BY <1>2, <2>2, <2>3 DEF Resume, TypeOK, files, runs
<1> QED BY <1>2

LEMMA PurgeType ==
  ASSUME TypeOK, NEW m \in Managers, NEW t \in Teammates, Purge(m, t)
  PROVE  TypeOK'
<1>1. mgr' \in [Managers -> Jobs]
  BY WorkJobs, SetType DEF Purge, Done
<1>2. cache' \in [Managers -> [Teammates -> Records]]
  BY NoRecType, KeepType DEF Purge
<1>3. log' \in [Teammates -> Events] /\ exit' \in [Teammates -> {"none", "ok"}]
  <2>1. NoEvent \in Events
    BY DEF NoEvent, Event, Events
  <2> QED BY <2>1 DEF Purge, TypeOK
<1>4. /\ disk' = [disk EXCEPT ![t] = NoRec] /\ disowned' = disowned \cup {t}
      /\ UNCHANGED <<reg, tomb, fresh, live, launches, begun, won, resumed, taken>>
  BY DEF Purge
<1> QED BY <1>1, <1>2, <1>3, <1>4, NoRecType DEF TypeOK

LEMMA TeamType ==
  ASSUME TypeOK, NEW m \in Managers,
         \/ Ensure(m) \/ Clear(m) \/ Target(m) \/ Disband(m) \/ Bury(m) \/ PurgeAll(m)
         \/ Wave(m) \/ Finish(m) \/ Breach(m) \/ Quit(m)
  PROVE  TypeOK'
<1>0. mgr[m] \in Jobs /\ Known(m) \subseteq Teammates
  BY MgrType
<1>1. CASE Target(m)
  <2>1. PICK ts \in SUBSET Teammates :
          Set(m, [mgr[m] EXCEPT !.step = @ + 1, !.tgt = Nobody, !.todo = ts,
                     !.poll = ts \cap Known(m)])
    <3>1. CASE mgr[m].tgt = Nobody
      BY <1>0, <1>1, <3>1 DEF Target
    <3>2. CASE mgr[m].tgt # Nobody
      BY <1>0, <1>1, <3>2 DEF Target, Jobs
    <3> QED BY <3>1, <3>2
  <2>2. [mgr[m] EXCEPT !.step = @ + 1, !.tgt = Nobody, !.todo = ts,
                     !.poll = ts \cap Known(m)] \in Jobs
    <3>1. mgr[m].step + 1 \in Nat /\ ts \cap Known(m) \in SUBSET Teammates
      BY <1>0 DEF Jobs
    <3> QED BY <1>0, <3>1 DEF Jobs
  <2> QED BY <1>1, <2>1, <2>2, SetType, LocalType DEF Target, TypeOK
<1>2. CASE Ensure(m)
  <2>1. mgr[m].step + (IF reg THEN 2 ELSE 1) \in Nat
    BY <1>0 DEF Jobs
  <2>2. mgr' \in [Managers -> Jobs]
    <3>1. Enter(m, mgr[m].step + (IF reg THEN 2 ELSE 1), {}, {})
      BY <1>2 DEF Ensure
    <3> QED BY <2>1, <3>1, EnterType
  <2> QED BY <1>2, <2>2 DEF Ensure, TypeOK, procs, runs
<1>3. CASE Clear(m) \/ Disband(m) \/ Bury(m)
  <2>1. mgr' \in [Managers -> Jobs]
    BY <1>3, AdvanceType DEF Clear, Disband, Bury
  <2> QED BY <1>3, <2>1 DEF Clear, Disband, Bury, TypeOK, procs, runs
<1>7. CASE PurgeAll(m)
  <2>1. mgr[m].step + 1 \in Nat
    BY <1>0 DEF Jobs
  <2>2. mgr' \in [Managers -> Jobs]
    BY <1>0, <1>7, <2>1, EnterType DEF PurgeAll
  <2> QED BY <1>7, <2>2, LocalType DEF PurgeAll, TypeOK
<1>4. ASSUME End(m), UNCHANGED <<files, procs>> PROVE TypeOK'
  <2>1. Off \in Jobs
    BY JobType, CommandsAre DEF Off
  <2>2. cache' \in [Managers -> [Teammates -> Records]]
    BY <1>4, NoRecType DEF End, NoCache, TypeOK
  <2> QED BY <1>4, <2>1, <2>2, SetType, LocalType DEF End
<1>5. CASE Breach(m)
  <2>1. mgr' \in [Managers -> Jobs]
    BY <1>5, JobType, CommandsAre, SetType DEF Breach
  <2> QED BY <1>5, <2>1 DEF Breach, TypeOK, files, runs
<1>6. CASE Wave(m) \/ Finish(m) \/ Quit(m)
  BY <1>4, <1>6 DEF Wave, Finish, Quit
<1> QED BY <1>1, <1>2, <1>3, <1>5, <1>6, <1>7

LEMMA BeginType ==
  ASSUME TypeOK, NEW m \in Managers, BeginSome(m)
  PROVE  TypeOK'
<1>1. ASSUME NEW d \in Commands, NEW t \in Teammates \cup {Nobody}, Begin(m, d, t),
             d = "add" => t \in Teammates
      PROVE  TypeOK'
  <2>1. mgr' \in [Managers -> Jobs]
    BY <1>1, JobType, SetType DEF Begin
  <2> QED BY <1>1, <2>1, BoundAssumption DEF Begin, TypeOK, runs
<1>2. CASE BeginAdd(m)
  BY <1>1, <1>2, CommandsAre DEF BeginAdd, TypeOK
<1>3. CASE BeginWatch(m)
  BY <1>1, <1>3, CommandsAre DEF BeginWatch
<1>4. CASE BeginTeam(m)
  BY <1>1, <1>4, CommandsAre DEF BeginTeam
<1>5. CASE BeginOne(m)
  BY <1>1, <1>5, CommandsAre DEF BeginOne
<1> QED BY <1>2, <1>3, <1>4, <1>5 DEF BeginSome

\* Every record and job has the shape the code gives it, with a status of
\* AgentStatus and a known step of its command.
THEOREM TypeCorrect == Spec => []TypeOK
<1>1. Init => TypeOK
  <2>1. NoCache \in [Teammates -> Records] /\ Off \in Jobs
    BY NoRecType, JobType, CommandsAre DEF NoCache, Off
  <2> SUFFICES ASSUME Init PROVE TypeOK
    OBVIOUS
  <2>2. disk \in [Teammates -> Records] /\ cache \in [Managers -> [Teammates -> Records]]
    BY <2>1 DEF Init
  <2>3. mgr \in [Managers -> Jobs]
    BY <2>1 DEF Init
  <2>4. NoEvent \in Events
    BY DEF NoEvent, Event, Events
  <2> QED BY <2>2, <2>3, <2>4 DEF Init, TypeOK
<1>2. TypeOK /\ [Next]_vars => TypeOK'
  <2> SUFFICES ASSUME TypeOK, [Next]_vars PROVE TypeOK'
    OBVIOUS
  <2>1. CASE UNCHANGED vars
    BY <2>1 DEF vars, TypeOK
  <2>2. ASSUME NEW m \in Managers, Continue(m) PROVE TypeOK'
    <3>1. ASSUME NEW t \in Teammates, Work(m, t) PROVE TypeOK'
      BY <3>1, LookType, ReadyType, AddType, StopType, ResumeType, PurgeType DEF Work
    <3> QED BY <2>2, <3>1, SavesType, LaunchType, KillType, TeamType DEF Continue
  <2>3. ASSUME NEW m \in Managers, BeginSome(m) \/ Breach(m) \/ Quit(m) PROVE TypeOK'
    BY <2>3, BeginType, TeamType
  <2>4. ASSUME NEW t \in Teammates,
               Ends(t) \/ \E r \in Results, torn \in BOOLEAN : Emit(t, r, torn)
        PROVE  TypeOK'
    BY <2>4, ProcessType
  <2> QED BY <2>1, <2>2, <2>3, <2>4 DEF Next
<1> QED BY <1>1, <1>2, PTL DEF Spec

-----------------------------------------------------------------------------
(* Success: nothing that a manager reads, remembers, is about to save or has *)
(* saved says completed of a teammate that has not succeeded, and nobody is  *)
(* launching a teammate whose dependencies have not.                         *)

JobEarned(j) ==
    /\ j.prior.st = "completed" => j.start \in won
    /\ j.start \in Teammates \ resumed => After[j.start] \subseteq won

CacheEarned(records) == \A t \in Teammates : records[t].st = "completed" => t \in won

TracesEarned ==
    \A t \in Teammates : log[t].result = "ok" \/ exit[t] = "ok" => t \in won

SuccessInv ==
    /\ CompletedIsEarned /\ TracesEarned /\ DepsFirst
    /\ \A m \in Managers : JobEarned(mgr[m]) /\ CacheEarned(cache[m])

Evidence == <<disk, launches, log, exit, won, resumed>>

\* A step of one manager that touches no record and no process.
LEMMA ManagerEarned ==
  ASSUME TypeOK, SuccessInv, NEW m \in Managers, NEW j, Set(m, j), JobEarned(j),
         CacheEarned(cache'[m]), \A n \in Managers : n # m => cache'[n] = cache[n],
         UNCHANGED Evidence
  PROVE  SuccessInv'
<1>1. UNCHANGED <<disk, launches, log, exit, won, resumed>>
  BY DEF Evidence
<1>2. CompletedIsEarned' /\ TracesEarned' /\ DepsFirst'
  BY <1>1 DEF SuccessInv, CompletedIsEarned, TracesEarned, DepsFirst
<1>3. ASSUME NEW n \in Managers
      PROVE  JobEarned(mgr[n])' /\ CacheEarned(cache[n])'
  <2>1. mgr' = [mgr EXCEPT ![m] = j] /\ mgr \in [Managers -> Jobs]
    BY DEF Set, TypeOK
  <2>2. JobEarned(mgr'[n]) /\ CacheEarned(cache'[n])
    BY <2>1, <1>3 DEF SuccessInv
  <2> QED BY <1>1, <2>2 DEF JobEarned, CacheEarned
<1> QED BY <1>2, <1>3 DEF SuccessInv

LEMMA KeepEarned ==
  ASSUME TypeOK, SuccessInv, NEW m \in Managers, NEW t, NEW r, Keep(m, t, r),
         r.st = "completed" => t \in won
  PROVE  /\ CacheEarned(cache'[m])
         /\ \A n \in Managers : n # m => cache'[n] = cache[n]
<1>1. cache' = [cache EXCEPT ![m][t] = r] /\ cache \in [Managers -> [Teammates -> Records]]
  BY DEF Keep, TypeOK
<1>2. CacheEarned(cache[m])
  BY DEF SuccessInv
<1> QED BY <1>1, <1>2 DEF CacheEarned

LEMMA LocalEarned ==
  ASSUME TypeOK, SuccessInv, NEW m \in Managers, NEW j, Set(m, j), JobEarned(j),
         CacheEarned(cache'[m]), \A n \in Managers : n # m => cache'[n] = cache[n],
         UNCHANGED <<files, procs>>
  PROVE  SuccessInv'
BY ManagerEarned DEF Evidence, files, procs, runs

\* The same job, as far as a launch goes.
LEMMA JobKept ==
  ASSUME SuccessInv, NEW m \in Managers, NEW j,
         j.prior = mgr[m].prior, j.start = mgr[m].start
  PROVE  JobEarned(j)
BY DEF SuccessInv, JobEarned

LEMMA JobCleared ==
  ASSUME TypeOK, NEW j, j.prior = NoRec, j.start = Nobody
  PROVE  JobEarned(j)
BY NobodyOut DEF JobEarned, NoRec, Rec

\* A manager that launches nothing has no record put aside that says completed.
LEMMA JobLaunches ==
  ASSUME TypeOK, SuccessInv, NEW m \in Managers, mgr[m].start = Nobody,
         NEW t \in Teammates, NEW j, j.prior = mgr[m].prior, j.start = t,
         After[t] \subseteq won
  PROVE  JobEarned(j)
BY NobodyOut DEF SuccessInv, JobEarned, TypeOK

LEMMA LookEarned ==
  ASSUME TypeOK, SuccessInv, NEW m \in Managers, NEW t \in Teammates, Look(m, t)
  PROVE  SuccessInv'
<1>1. cache[m][t].st = "completed" => t \in won
  BY DEF SuccessInv, CacheEarned
<1>2. \A s \in Reads(m, t) : s = "completed" => t \in won
  BY <1>1 DEF Reads, SuccessInv, TracesEarned
<1>3. PICK s \in Reads(m, t) :
        \/ /\ Keep(m, t, Rec(IF s \notin Terminal /\ disk[t].st \in Terminal
                             THEN disk[t].st ELSE s, cache[m][t].pid))
           /\ Set(m, [mgr[m] EXCEPT !.poll = @ \ {t}])
        \/ /\ Keep(m, t, Rec(Verdict(t, s), cache[m][t].pid))
           /\ Set(m, [[mgr[m] EXCEPT !.poll = @ \ {t}] EXCEPT !.who = t, !.at = "save"])
  BY Zenon DEF Look
<1>4. mgr[m] \in Jobs
  BY MgrType
<1>5. UNCHANGED <<files, procs>>
  BY DEF Look
<1>6. CASE /\ Keep(m, t, Rec(IF s \notin Terminal /\ disk[t].st \in Terminal
                             THEN disk[t].st ELSE s, cache[m][t].pid))
           /\ Set(m, [mgr[m] EXCEPT !.poll = @ \ {t}])
  <2> DEFINE r == Rec(IF s \notin Terminal /\ disk[t].st \in Terminal
                      THEN disk[t].st ELSE s, cache[m][t].pid)
             j == [mgr[m] EXCEPT !.poll = @ \ {t}]
  <2>1. r.st = "completed" => t \in won
    BY <1>2 DEF SuccessInv, CompletedIsEarned, Rec
  <2>2. j.prior = mgr[m].prior /\ j.start = mgr[m].start
    BY <1>4 DEF Jobs
  <2> HIDE DEF r, j
  <2>3. Keep(m, t, r) /\ Set(m, j)
    BY <1>6 DEF r, j
  <2> QED BY <1>5, <2>1, <2>2, <2>3, KeepEarned, JobKept, LocalEarned
<1>7. CASE /\ Keep(m, t, Rec(Verdict(t, s), cache[m][t].pid))
           /\ Set(m, [[mgr[m] EXCEPT !.poll = @ \ {t}] EXCEPT !.who = t, !.at = "save"])
  <2> DEFINE r == Rec(Verdict(t, s), cache[m][t].pid)
             j == [[mgr[m] EXCEPT !.poll = @ \ {t}] EXCEPT !.who = t, !.at = "save"]
  <2>1. r.st = "completed" => t \in won
    BY <1>2 DEF SuccessInv, TracesEarned, Verdict, Rec
  <2>2. j.prior = mgr[m].prior /\ j.start = mgr[m].start
    BY <1>4 DEF Jobs
  <2> HIDE DEF r, j
  <2>3. Keep(m, t, r) /\ Set(m, j)
    BY <1>7 DEF r, j
  <2> QED BY <1>5, <2>1, <2>2, <2>3, KeepEarned, JobKept, LocalEarned
<1> QED BY <1>3, <1>6, <1>7

\* A manager that reads nothing new and launches nothing: of what matters only
\* its job changes.
LEMMA IdleEarned ==
  ASSUME TypeOK, SuccessInv, NEW m \in Managers, NEW j, Set(m, j),
         j.prior = mgr[m].prior, j.start = mgr[m].start,
         UNCHANGED <<Evidence, cache>>
  PROVE  SuccessInv'
<1>1. UNCHANGED Evidence /\ cache' = cache
  OBVIOUS
<1> QED BY <1>1, JobKept, ManagerEarned DEF SuccessInv

LEMMA Untouched ==
  ASSUME UNCHANGED <<files, procs>>
  PROVE  UNCHANGED Evidence
BY DEF Evidence, files, procs, runs

\* The same for a step of a script.
LEMMA EnterEarned ==
  ASSUME TypeOK, SuccessInv, NEW m \in Managers, NEW k, NEW ps, NEW ts,
         Enter(m, k, ps, ts), UNCHANGED Evidence,
         CacheEarned(cache'[m]), \A n \in Managers : n # m => cache'[n] = cache[n]
  PROVE  SuccessInv'
<1> DEFINE j == [mgr[m] EXCEPT !.step = k, !.poll = ps, !.todo = ts]
<1>1. mgr[m] \in Jobs
  BY MgrType
<1>2. Set(m, j) /\ j.prior = mgr[m].prior /\ j.start = mgr[m].start
  BY <1>1 DEF Enter, Jobs
<1> HIDE DEF j
<1> QED BY <1>2, JobKept, ManagerEarned

LEMMA SavesEarned ==
  ASSUME TypeOK, SuccessInv, NEW m \in Managers,
         SaveChecks(m) \/ SaveWrites(m) \/ Load(m) \/ List(m)
  PROVE  SuccessInv'
<1>0. mgr[m] \in Jobs
  BY MgrType
<1>1. CASE SaveChecks(m)
  BY <1>0, <1>1, IdleEarned DEF SaveChecks, Jobs, Evidence, files, runs
<1>2. CASE SaveWrites(m)
  <2>1. /\ disk' = [disk EXCEPT ![mgr[m].who] = cache[m][mgr[m].who]]
        /\ mgr' = [mgr EXCEPT ![m] = [mgr[m] EXCEPT !.at = "go", !.who = Nobody]]
        /\ UNCHANGED <<launches, log, exit, won, resumed, cache>>
    BY <1>2 DEF SaveWrites, Set, procs, runs
  <2>2. CompletedIsEarned'
    BY <2>1 DEF SuccessInv, CompletedIsEarned, CacheEarned, TypeOK
  <2>3. TracesEarned' /\ DepsFirst'
    BY <2>1 DEF SuccessInv, TracesEarned, DepsFirst
  <2>4. \A n \in Managers : /\ mgr'[n].prior = mgr[n].prior
                            /\ mgr'[n].start = mgr[n].start
    BY <1>0, <2>1 DEF TypeOK, Jobs
  <2>5. \A n \in Managers : JobEarned(mgr[n])' /\ CacheEarned(cache[n])'
    BY <2>1, <2>4 DEF SuccessInv, JobEarned, CacheEarned
  <2> QED BY <2>2, <2>3, <2>5 DEF SuccessInv
<1>3. CASE Load(m)
  <2>1. CacheEarned(cache'[m]) /\ \A n \in Managers : n # m => cache'[n] = cache[n]
    BY <1>3 DEF Load, SuccessInv, CompletedIsEarned, CacheEarned, TypeOK
  <2> QED BY <1>3, <2>1, EnterEarned, Untouched DEF Load
<1>4. CASE List(m)
  <2>1. CacheEarned(cache'[m]) /\ \A n \in Managers : n # m => cache'[n] = cache[n]
    BY <1>4 DEF List, SuccessInv
  <2> QED BY <1>4, <2>1, EnterEarned, Untouched DEF List
<1> QED BY <1>1, <1>2, <1>3, <1>4

LEMMA ReadyEarned ==
  ASSUME TypeOK, SuccessInv, NEW m \in Managers, NEW t \in Teammates,
         ReadyFails(m, t) \/ ReadyLaunches(m, t)
  PROVE  SuccessInv'
<1>0. mgr[m] \in Jobs
  BY MgrType
<1>1. Takes(m, t) => UNCHANGED Evidence
  BY DEF Takes, Evidence, files, runs
<1>2. CASE ReadyFails(m, t)
  <2> DEFINE j == Saving(m, t)
             r == Rec("failed", cache[m][t].pid)
  <2>1. j.prior = mgr[m].prior /\ j.start = mgr[m].start /\ r.st # "completed"
    BY <1>0 DEF Saving, Past, Jobs, Rec
  <2>2. Keep(m, t, r) /\ Set(m, j) /\ UNCHANGED Evidence
    BY <1>1, <1>2 DEF ReadyFails
  <2> HIDE DEF j, r
  <2> QED BY <2>1, <2>2, KeepEarned, JobKept, ManagerEarned
<1>3. CASE ReadyLaunches(m, t)
  <2> DEFINE j == [Launching(m, t) EXCEPT !.poll = Known(m)]
  <2>1. After[t] \subseteq won
    <3>1. \A d \in After[t] : cache[m][d].st = "completed"
      BY <1>3 DEF ReadyLaunches, Launchable, Completed
    <3>2. After[t] \subseteq Teammates
      BY GraphAssumption
    <3> QED BY <3>1, <3>2 DEF SuccessInv, CacheEarned
  <2>2. j.prior = mgr[m].prior /\ j.start = t
    BY <1>0 DEF Launching, Past, Jobs
  <2>3. /\ mgr[m].start = Nobody /\ Set(m, j) /\ cache' = cache
        /\ UNCHANGED Evidence
    BY <1>1, <1>3 DEF ReadyLaunches, Working, Free
  <2> HIDE DEF j
  <2>4. JobEarned(j)
    BY <2>1, <2>2, <2>3, JobLaunches
  <2> QED BY <2>3, <2>4, ManagerEarned DEF SuccessInv
<1> QED BY <1>2, <1>3

LEMMA LaunchEarned ==
  ASSUME TypeOK, SuccessInv, NEW m \in Managers,
         Ready(m) \/ Drain(m) \/ Spawn(m) \/ SpawnFails(m)
  PROVE  SuccessInv'
<1>0. mgr[m] \in Jobs
  BY MgrType
<1>1. CASE Ready(m) \/ Drain(m)
  <2>1. CacheEarned(cache'[m]) /\ \A n \in Managers : n # m => cache'[n] = cache[n]
    <3>1. Rescan(m)
      BY <1>1 DEF Ready, Drain
    <3> QED BY <3>1 DEF Rescan, SuccessInv, CompletedIsEarned, CacheEarned, TypeOK
  <2>2. UNCHANGED Evidence
    BY <1>1, Untouched DEF Ready, Drain
  <2>3. PICK k, ts : Enter(m, k, Seen(m), ts)
    BY <1>1 DEF Ready, Drain
  <2> QED BY <2>1, <2>2, <2>3, EnterEarned
<1>2. CASE Spawn(m) \/ SpawnFails(m)
  <2> DEFINE t == mgr[m].start
             r == IF Spawn(m) THEN Rec("running", launches[t] + 1)
                  ELSE IF mgr[m].cmd = "resume" THEN mgr[m].prior
                  ELSE Rec("failed", cache[m][t].pid)
  <2>1. t \in Teammates
    BY <1>0, <1>2 DEF Spawn, SpawnFails, Starting, Jobs
  <2>2. r.st = "completed" => t \in won
    BY DEF SuccessInv, JobEarned, Rec
  <2>3. Keep(m, t, r) /\ Set(m, Started(m)) /\ UNCHANGED <<files, begun, won, resumed>>
    BY <1>2 DEF Spawn, SpawnFails
  <2>4. JobEarned(Started(m))
    BY <1>0, JobCleared DEF Started, Jobs
  <2>5. /\ log'[t] \in {log[t], NoEvent} /\ exit'[t] \in {exit[t], "none"}
        /\ \A u \in Teammates : u # t => log'[u] = log[u] /\ exit'[u] = exit[u]
        /\ \A u \in Teammates : launches'[u] = launches[u] \/ u = t
    <3>1. CASE Spawn(m)
      BY <2>1, <3>1 DEF Spawn, TypeOK
    <3>2. CASE SpawnFails(m)
      BY <2>1, <3>2 DEF SpawnFails, TypeOK
    <3> QED BY <1>2, <3>1, <3>2
  <2>6. t \notin resumed => After[t] \subseteq won
    BY <2>1 DEF SuccessInv, JobEarned
  <2>7. CacheEarned(cache'[m]) /\ \A n \in Managers : n # m => cache'[n] = cache[n]
    <3> HIDE DEF t, r
    <3> QED BY <2>1, <2>2, <2>3, KeepEarned
  <2> HIDE DEF t, r
  <2>8. UNCHANGED <<disk, won, resumed>>
    BY <2>3 DEF files
  <2>9. CompletedIsEarned' /\ TracesEarned' /\ DepsFirst'
    BY <2>1, <2>5, <2>6, <2>8
    DEF SuccessInv, CompletedIsEarned, TracesEarned, DepsFirst, NoEvent, Event
  <2>10. ASSUME NEW n \in Managers PROVE (JobEarned(mgr[n]) /\ CacheEarned(cache[n]))'
    <3>1. mgr' = [mgr EXCEPT ![m] = Started(m)] /\ mgr \in [Managers -> Jobs]
      BY <2>3 DEF Set, TypeOK
    <3>2. JobEarned(mgr'[n]) /\ CacheEarned(cache'[n])
      BY <2>4, <2>7, <3>1 DEF SuccessInv
    <3> QED BY <2>8, <3>2 DEF JobEarned, CacheEarned
  <2> QED BY <2>9, <2>10 DEF SuccessInv
<1> QED BY <1>1, <1>2

LEMMA AddEarned ==
  ASSUME TypeOK, SuccessInv, NEW m \in Managers, NEW t \in Teammates,
         AddRejects(m, t) \/ Add(m, t)
  PROVE  SuccessInv'
<1>0. mgr[m] \in Jobs
  BY MgrType
<1>1. CASE AddRejects(m, t)
  <2>1. /\ mgr' = [mgr EXCEPT ![m] = Past(m, t)]
        /\ UNCHANGED <<disk, launches, log, exit, won, resumed, cache>>
    BY <1>1 DEF AddRejects, Done, Set, procs, runs
  <2>2. \A n \in Managers : /\ mgr'[n].prior = mgr[n].prior
                            /\ mgr'[n].start = mgr[n].start
    BY <1>0, <2>1 DEF TypeOK, Past, Jobs
  <2>3. \A n \in Managers : JobEarned(mgr[n])' /\ CacheEarned(cache[n])'
    BY <2>1, <2>2 DEF SuccessInv, JobEarned, CacheEarned
  <2> QED BY <2>1, <2>3
      DEF SuccessInv, CompletedIsEarned, TracesEarned, DepsFirst
<1>2. CASE Add(m, t)
  <2> DEFINE r == Rec("pending", 0)
             j == IF After[t] = {} THEN Launching(m, t) ELSE Saving(m, t)
  <2>1. /\ mgr[m].start = Nobody /\ Keep(m, t, r) /\ Set(m, j)
        /\ UNCHANGED Evidence
    BY <1>2, Untouched DEF Add, Takes, Evidence, files, runs, Working, Free
  <2>2. r.st # "completed"
    BY DEF Rec
  <2>3. JobEarned(j)
    <3>1. CASE After[t] = {}
      <4>1. Launching(m, t).prior = mgr[m].prior /\ Launching(m, t).start = t
        BY <1>0 DEF Launching, Past, Jobs
      <4> QED BY <2>1, <3>1, <4>1, JobLaunches
    <3>2. CASE After[t] # {}
      <4>1. /\ Saving(m, t).prior = mgr[m].prior
            /\ Saving(m, t).start = mgr[m].start
        BY <1>0 DEF Saving, Past, Jobs
      <4> QED BY <3>2, <4>1, JobKept
    <3> QED BY <3>1, <3>2
  <2> HIDE DEF r, j
  <2> QED BY <2>1, <2>2, <2>3, KeepEarned, ManagerEarned
<1> QED BY <1>1, <1>2

\* A step of one manager that launches nothing; files may go.
LEMMA QuietEarned ==
  ASSUME TypeOK, SuccessInv, NEW m \in Managers, NEW j, Set(m, j),
         (j.prior.st = "completed" => j.start \in won),
         (j.start \in Teammates \ resumed' => After[j.start] \subseteq won),
         CacheEarned(cache'[m]), \A n \in Managers : n # m => cache'[n] = cache[n],
         \A u \in Teammates : /\ disk'[u] \in {disk[u], NoRec}
                              /\ log'[u] \in {log[u], NoEvent}
                              /\ exit'[u] \in {exit[u], "none"},
         UNCHANGED <<launches, won>>, resumed \subseteq resumed'
  PROVE  SuccessInv'
<1>1. CompletedIsEarned' /\ TracesEarned' /\ DepsFirst'
  BY DEF SuccessInv, CompletedIsEarned, TracesEarned, DepsFirst, NoRec, Rec, NoEvent,
         Event
<1>2. ASSUME NEW n \in Managers PROVE (JobEarned(mgr[n]) /\ CacheEarned(cache[n]))'
  <2>1. mgr' = [mgr EXCEPT ![m] = j] /\ mgr \in [Managers -> Jobs]
    BY DEF Set, TypeOK
  <2>2. CASE n = m
    BY <2>1, <2>2 DEF JobEarned, CacheEarned
  <2>3. CASE n # m
    <3>1. JobEarned(mgr[n]) /\ CacheEarned(cache[n])
      BY DEF SuccessInv
    <3>2. mgr'[n] = mgr[n] /\ cache'[n] = cache[n]
      BY <2>1, <2>3
    <3> QED BY <3>1, <3>2 DEF JobEarned, CacheEarned
  <2> QED BY <2>2, <2>3
<1> QED BY <1>1, <1>2 DEF SuccessInv

LEMMA StopEarned ==
  ASSUME TypeOK, SuccessInv, NEW m \in Managers, NEW t \in Teammates,
         Stop(m, t)
  PROVE  SuccessInv'
<1>0. mgr[m] \in Jobs
  BY MgrType
<1>2. CASE Stop(m, t) /\ cache[m][t].pid \in live[t]
  <2> DEFINE j == [Saving(m, t) EXCEPT !.at = "grace"]
  <2>1. /\ Set(m, j) /\ j.prior = mgr[m].prior /\ j.start = mgr[m].start
        /\ UNCHANGED <<Evidence, cache>>
    BY <1>0, <1>2, Untouched DEF Stop, Saving, Past, Jobs
  <2> HIDE DEF j
  <2> QED BY <2>1, IdleEarned
<1>3. CASE Stop(m, t) /\ cache[m][t].pid \notin live[t]
  <2> DEFINE j == Saving(m, t)
             r == Rec("stopped", cache[m][t].pid)
  <2>1. j.prior = mgr[m].prior /\ j.start = mgr[m].start /\ r.st # "completed"
    BY <1>0 DEF Saving, Past, Jobs, Rec
  <2>2. Keep(m, t, r) /\ Set(m, j) /\ UNCHANGED <<files, procs>>
    BY <1>3 DEF Stop
  <2> HIDE DEF j, r
  <2> QED BY <2>1, <2>2, KeepEarned, JobKept, LocalEarned
<1> QED BY <1>2, <1>3

LEMMA KillEarned ==
  ASSUME TypeOK, SuccessInv, NEW m \in Managers, StopKills(m)
  PROVE  SuccessInv'
<1>0. mgr[m] \in Jobs
  BY MgrType
<1> DEFINE t == mgr[m].who
           r == Rec("stopped", cache[m][t].pid)
           j == [mgr[m] EXCEPT !.at = "save"]
<1>1. j.prior = mgr[m].prior /\ j.start = mgr[m].start /\ r.st # "completed"
  BY <1>0 DEF Jobs, Rec
<1>2. /\ Keep(m, t, r) /\ Set(m, j)
      /\ UNCHANGED <<disk, launches, log, exit, won, resumed>>
  BY DEF StopKills, files
<1> HIDE DEF t, r, j
<1>3. JobEarned(j)
  BY <1>1, JobKept
<1> QED BY <1>1, <1>2, <1>3, KeepEarned, QuietEarned DEF JobEarned

LEMMA ResumeEarned ==
  ASSUME TypeOK, SuccessInv, NEW m \in Managers, NEW t \in Teammates,
         Resume(m, t)
  PROVE  SuccessInv'
<1>0. mgr[m] \in Jobs
  BY MgrType
<1>2. CASE Resume(m, t)
  <2> DEFINE j == [Launching(m, t) EXCEPT !.prior = cache[m][t]]
             r == Rec("running", cache[m][t].pid)
  <2>1. j.prior = cache[m][t] /\ j.start = t /\ r.st # "completed"
    BY <1>0 DEF Launching, Past, Jobs, Rec
  <2>2. /\ Keep(m, t, r) /\ Set(m, j) /\ resumed' = resumed \cup {t}
        /\ UNCHANGED <<disk, launches, log, exit, won>>
    BY <1>2 DEF Resume, files, runs
  <2> HIDE DEF j, r
  <2>3. cache[m][t].st = "completed" => t \in won
    BY DEF SuccessInv, CacheEarned
  <2> QED BY <2>1, <2>2, <2>3, KeepEarned, QuietEarned
<1> QED BY <1>2

LEMMA PurgeEarned ==
  ASSUME TypeOK, SuccessInv, NEW m \in Managers, NEW t \in Teammates, Purge(m, t)
  PROVE  SuccessInv'
<1>0. mgr[m] \in Jobs
  BY MgrType
<1> DEFINE j == Past(m, t)
<1>1. /\ Set(m, j) /\ Keep(m, t, NoRec) /\ UNCHANGED <<launches, won, resumed>>
      /\ j.prior = mgr[m].prior /\ j.start = mgr[m].start
  BY <1>0 DEF Purge, Done, Past, Jobs
<1> HIDE DEF j
<1>2. \A u \in Teammates : /\ disk'[u] \in {disk[u], NoRec}
                           /\ log'[u] \in {log[u], NoEvent}
                           /\ exit'[u] \in {exit[u], "none"}
  BY DEF Purge, TypeOK
<1>3. NoRec.st # "completed"
  BY DEF NoRec, Rec
<1>4. CacheEarned(cache'[m]) /\ \A n \in Managers : n # m => cache'[n] = cache[n]
  BY <1>1, <1>3, KeepEarned
<1>5. JobEarned(j)
  BY <1>1, JobKept
<1> QED BY <1>1, <1>2, <1>4, <1>5, QuietEarned DEF JobEarned

LEMMA TeamEarned ==
  ASSUME TypeOK, SuccessInv, NEW m \in Managers,
         \/ Ensure(m) \/ Clear(m) \/ Target(m) \/ Disband(m) \/ Bury(m) \/ PurgeAll(m)
         \/ Wave(m) \/ Finish(m) \/ Breach(m) \/ Quit(m)
  PROVE  SuccessInv'
<1>0. mgr[m] \in Jobs
  BY MgrType
<1>1. CASE Target(m)
  <2>1. PICK ts : Set(m, [mgr[m] EXCEPT !.step = @ + 1, !.tgt = Nobody,
                            !.todo = ts, !.poll = ts \cap Known(m)])
    BY <1>1 DEF Target
  <2> DEFINE j == [mgr[m] EXCEPT !.step = @ + 1, !.tgt = Nobody,
                            !.todo = ts, !.poll = ts \cap Known(m)]
  <2>2. /\ Set(m, j) /\ j.prior = mgr[m].prior /\ j.start = mgr[m].start
        /\ UNCHANGED <<Evidence, cache>>
    BY <1>0, <1>1, <2>1, Untouched DEF Target, Jobs
  <2> HIDE DEF j
  <2> QED BY <2>2, IdleEarned
<1>2. CASE Ensure(m) \/ Clear(m) \/ Disband(m) \/ Bury(m) \/ PurgeAll(m)
  <2>1. PICK k, ps, ts : Enter(m, k, ps, ts)
    BY <1>2 DEF Ensure, Clear, Disband, Bury, PurgeAll, Advance
  <2>2. UNCHANGED Evidence /\ cache' = cache
    BY <1>2 DEF Ensure, Clear, Disband, Bury, PurgeAll, Evidence, files, procs, runs
  <2> QED BY <2>1, <2>2, EnterEarned DEF SuccessInv
<1>4. ASSUME End(m), UNCHANGED <<files, procs>> PROVE SuccessInv'
  <2>1. Off.prior = NoRec /\ Off.start = Nobody
    BY DEF Off, Job
  <2>2. JobEarned(Off)
    BY <2>1, JobCleared
  <2>3. CacheEarned(cache'[m]) /\ \A n \in Managers : n # m => cache'[n] = cache[n]
    BY <1>4 DEF End, NoCache, NoRec, Rec, CacheEarned, TypeOK
  <2> QED BY <1>4, <2>2, <2>3, LocalEarned DEF End
<1>5. CASE Breach(m)
  <2> DEFINE j == Job("breach", Nobody)
  <2>1. j.prior = NoRec /\ j.start = Nobody
    BY DEF Job
  <2>2. Set(m, j) /\ UNCHANGED Evidence /\ cache' = cache
    BY <1>5 DEF Breach, Evidence, files, runs
  <2> HIDE DEF j
  <2> QED BY <2>1, <2>2, JobCleared, ManagerEarned DEF SuccessInv
<1>6. CASE Wave(m) \/ Finish(m) \/ Quit(m)
  BY <1>4, <1>6 DEF Wave, Finish, Quit
<1> QED BY <1>1, <1>2, <1>5, <1>6

LEMMA BeginEarned ==
  ASSUME TypeOK, SuccessInv, NEW m \in Managers, BeginSome(m)
  PROVE  SuccessInv'
<1>1. PICK d, t : Begin(m, d, t)
  BY DEF BeginSome, BeginAdd, BeginWatch, BeginTeam, BeginOne
<1>2. /\ Set(m, Job(d, t))
      /\ UNCHANGED <<disk, launches, log, exit, won, resumed, cache>>
  BY <1>1 DEF Begin, runs
<1>3. Job(d, t).prior = NoRec /\ Job(d, t).start = Nobody
  BY DEF Job
<1>4. JobEarned(Job(d, t)) /\ CacheEarned(cache'[m])
  BY <1>2, <1>3, JobCleared DEF SuccessInv
<1> QED BY <1>2, <1>4, QuietEarned DEF JobEarned

LEMMA ProcessEarned ==
  ASSUME TypeOK, SuccessInv, NEW t \in Teammates,
         Ends(t) \/ \E r \in Results, torn \in BOOLEAN : Emit(t, r, torn)
  PROVE  SuccessInv'
<1>1. UNCHANGED <<disk, launches, cache, mgr, resumed>> /\ won \subseteq won'
  BY DEF Ends, Emit, Exit, Die, files
<1>2. \A u \in Teammates :
        /\ log'[u].result = "ok" => log[u].result = "ok" \/ u \in won'
        /\ exit'[u] = "ok" => exit[u] = "ok" \/ u \in won'
  BY DEF Ends, Emit, Exit, Die, TypeOK, Event
<1>3. CompletedIsEarned' /\ TracesEarned' /\ DepsFirst'
  BY <1>1, <1>2 DEF SuccessInv, CompletedIsEarned, TracesEarned, DepsFirst
<1>4. \A m \in Managers : (JobEarned(mgr[m]) /\ CacheEarned(cache[m]))'
  BY <1>1 DEF SuccessInv, JobEarned, CacheEarned
<1> QED BY <1>3, <1>4 DEF SuccessInv

LEMMA SuccessCorrect == Spec => []SuccessInv
<1>1. Init => SuccessInv
  <2> SUFFICES ASSUME Init PROVE SuccessInv
    OBVIOUS
  <2>1. CompletedIsEarned /\ TracesEarned /\ DepsFirst
    BY DEF Init, NoCache, NoRec, Rec, NoEvent, Event, CompletedIsEarned, TracesEarned,
           DepsFirst
  <2>2. ASSUME NEW m \in Managers PROVE JobEarned(mgr[m]) /\ CacheEarned(cache[m])
    BY NobodyOut
    DEF Init, NoCache, NoRec, Rec, Off, Job, JobEarned, CacheEarned
  <2> QED BY <2>1, <2>2 DEF SuccessInv
<1>2. TypeOK /\ SuccessInv /\ [Next]_vars => SuccessInv'
  <2> SUFFICES ASSUME TypeOK, SuccessInv, [Next]_vars PROVE SuccessInv'
    OBVIOUS
  <2>1. CASE UNCHANGED vars
    BY <2>1 DEF vars, SuccessInv, CompletedIsEarned, TracesEarned, DepsFirst,
                JobEarned, CacheEarned
  <2>2. ASSUME NEW m \in Managers, Continue(m) PROVE SuccessInv'
    <3>1. ASSUME NEW t \in Teammates, Work(m, t) PROVE SuccessInv'
      BY <3>1, LookEarned, ReadyEarned, AddEarned, StopEarned, ResumeEarned, PurgeEarned
         DEF Work
    <3> QED BY <2>2, <3>1, SavesEarned, LaunchEarned, KillEarned, TeamEarned DEF Continue
  <2>3. ASSUME NEW m \in Managers, BeginSome(m) \/ Breach(m) \/ Quit(m) PROVE SuccessInv'
    BY <2>3, BeginEarned, TeamEarned
  <2>4. ASSUME NEW t \in Teammates,
               Ends(t) \/ \E r \in Results, torn \in BOOLEAN : Emit(t, r, torn)
        PROVE  SuccessInv'
    BY <2>4, ProcessEarned
  <2> QED BY <2>1, <2>2, <2>3, <2>4 DEF Next
<1> QED BY <1>1, <1>2, TypeCorrect, PTL DEF Spec

\* Whatever the managers race for, a record says completed only of a teammate
\* that reported success or exited with 0: any number of watches and commands,
\* with stopped, killed and relaunched processes in between.
THEOREM EarnedSafe == Spec => []CompletedIsEarned
BY SuccessCorrect, PTL DEF SuccessInv

\* A dependant is launched only once every teammate it was staged --after has
\* succeeded, unless somebody resumed it: for every graph, even one with cycles,
\* and any number of watches that launch at once.
THEOREM DepsSafe == Spec => []DepsFirst
BY SuccessCorrect, PTL DEF SuccessInv
=============================================================================
