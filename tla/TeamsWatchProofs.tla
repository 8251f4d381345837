------------------------- MODULE TeamsWatchProofs --------------------------
(* StopFinds and TerminalLatch of Teams, for any teammates, graph, watches   *)
(* and commands.                                                             *)
EXTENDS TeamsProofs

-----------------------------------------------------------------------------
(* Where a command is in its script.                                         *)

JobOK(m, j) ==
    /\ j.step <= Len(Script[j.cmd])
    /\ j.step = 0 => j.poll = {} /\ j.todo = {} /\ j.start = Nobody /\ j.at = "go"
    /\ m \in Watchers => j.cmd \in {"off", "watch", "breach"}
    /\ m \in Clis => j.cmd \notin {"watch", "breach"}
    /\ j.cmd = "add" /\ j.step < 4 => j.tgt \in Teammates /\ j.todo = {}

JobInv == \A m \in Managers : JobOK(m, mgr[m])

LEMMA ScriptLen ==
  /\ Len(Script["off"]) = 0 /\ Len(Script["status"]) = 1
  /\ Len(Script["add"]) = 4 /\ Len(Script["stop"]) = 2 /\ Len(Script["resume"]) = 2
  /\ Len(Script["disband"]) = 6 /\ Len(Script["watch"]) = 3
  /\ Len(Script["breach"]) = 1
BY DEF Script

\* Which commands take a step, and at which place of their script.
LEMMA ScriptStep ==
  ASSUME NEW c \in Commands, NEW k \in 1 .. Len(Script[c]), NEW s, Script[c][k] = s
  PROVE  /\ c # "off"
         /\ s = "load" => (c # "add" /\ k = 1) \/ (c = "add" /\ k = 3)
         /\ s = "ready" => c = "watch" /\ k = 2
         /\ s = "drain" => c = "watch" /\ k = 3
         /\ s = "ensure" => c = "add" /\ k = 1
         /\ s = "clear" => c = "add" /\ k = 2
         /\ s = "add" => c = "add" /\ k = 4
         /\ s = "stop" => c \in {"stop", "disband", "breach"}
         /\ s = "resume" => c = "resume"
         /\ s \in {"list", "unregister", "tomb", "purge"} => c = "disband"
<1>1. CASE c = "off"
  BY <1>1, ScriptLen
<1>2. CASE c = "status"
  BY <1>2, ScriptLen DEF Script
<1>3. CASE c = "add"
  BY <1>3, ScriptLen DEF Script
<1>4. CASE c = "stop"
  BY <1>4, ScriptLen DEF Script
<1>5. CASE c = "resume"
  BY <1>5, ScriptLen DEF Script
<1>6. CASE c = "disband"
  BY <1>6, ScriptLen DEF Script
<1>7. CASE c = "watch"
  BY <1>7, ScriptLen DEF Script
<1>8. CASE c = "breach"
  BY <1>8, ScriptLen DEF Script
<1> QED BY <1>1, <1>2, <1>3, <1>4, <1>5, <1>6, <1>7, <1>8, CommandsAre

LEMMA LenType == \A c \in Commands : Len(Script[c]) \in Nat
BY ScriptLen, CommandsAre

LEMMA AtWork ==
  ASSUME TypeOK, NEW m \in Managers, JobOK(m, mgr[m]), NEW s, NEW t, Working(m, s, t)
  PROVE  /\ mgr[m].step > 0
         /\ s = "ready" => mgr[m].cmd = "watch"
         /\ s = "add" => mgr[m].cmd = "add" /\ mgr[m].step = 4
         /\ s = "stop" => mgr[m].cmd \in {"stop", "disband", "breach"}
         /\ s = "resume" => mgr[m].cmd = "resume"
         /\ s = "purge" => mgr[m].cmd = "disband"
<1>1. mgr[m].cmd \in Commands /\ mgr[m].step \in Nat
  BY MgrType DEF Jobs
<1>2. t \in mgr[m].todo /\ Script[mgr[m].cmd][mgr[m].step] = s
  BY WorkingDue DEF Working, Current
<1>3. mgr[m].step \in 1 .. Len(Script[mgr[m].cmd])
  BY <1>1, <1>2, LenType DEF JobOK
<1> QED BY <1>1, <1>2, <1>3, ScriptStep

LEMMA AtNext ==
  ASSUME TypeOK, NEW m \in Managers, NEW s, Upcoming(m, s)
  PROVE  /\ mgr[m].step \in Nat
         /\ mgr[m].step + 1 \in 1 .. Len(Script[mgr[m].cmd])
         /\ s = "load" => mgr[m].cmd # "add" \/ mgr[m].step = 2
         /\ s = "ready" => mgr[m].cmd = "watch" /\ mgr[m].step = 1
         /\ s = "drain" => mgr[m].cmd = "watch" /\ mgr[m].step = 2
         /\ s = "ensure" => mgr[m].cmd = "add" /\ mgr[m].step = 0
         /\ s = "clear" => mgr[m].cmd = "add" /\ mgr[m].step = 1
         /\ s = "add" => mgr[m].cmd = "add" /\ mgr[m].step = 3
         /\ s \in {"stop", "resume"} => mgr[m].cmd \in {"stop", "disband", "breach", "resume"}
         /\ s \in {"list", "unregister", "tomb", "purge"} => mgr[m].cmd = "disband"
<1>1. mgr[m].cmd \in Commands /\ mgr[m].step \in Nat
  BY MgrType DEF Jobs
<1>2. /\ mgr[m].step + 1 \in 1 .. Len(Script[mgr[m].cmd])
      /\ Script[mgr[m].cmd][mgr[m].step + 1] = s
  BY <1>1, LenType DEF Upcoming
<1> QED BY <1>1, <1>2, ScriptStep

LEMMA JobStep ==
  ASSUME TypeOK, JobInv, NEW m \in Managers, NEW j, Set(m, j), JobOK(m, j)
  PROVE  JobInv'
<1>1. mgr' = [mgr EXCEPT ![m] = j] /\ mgr \in [Managers -> Jobs]
  BY DEF Set, TypeOK
<1>2. ASSUME NEW n \in Managers PROVE JobOK(n, mgr'[n])
  BY <1>1 DEF JobInv
<1>3. \A n \in Managers : JobOK(n, mgr[n])'
  BY <1>2 DEF JobOK
<1> QED BY <1>3 DEF JobInv

\* The same place of the same script.
SamePlace(j, k) ==
    /\ j.cmd = k.cmd /\ j.step = k.step /\ j.tgt = k.tgt
    /\ j.todo \subseteq k.todo

LEMMA JobWorks ==
  ASSUME TypeOK, JobInv, NEW m \in Managers, NEW j, Set(m, j), SamePlace(j, mgr[m]),
         mgr[m].step > 0
  PROVE  JobInv'
<1>1. JobOK(m, j)
  BY DEF JobInv, JobOK, SamePlace
<1> QED BY <1>1, JobStep

\* Another place of it.
LEMMA JobEnters ==
  ASSUME TypeOK, JobInv, NEW m \in Managers, NEW k \in 1 .. Len(Script[mgr[m].cmd]),
         NEW ps, NEW ts, Enter(m, k, ps, ts),
         mgr[m].cmd = "add" => mgr[m].step < k /\ ts = {}
  PROVE  JobInv'
<1> DEFINE j == [mgr[m] EXCEPT !.step = k, !.poll = ps, !.todo = ts]
<1>1. mgr[m].step \in Nat /\ mgr[m].cmd \in Commands
  BY MgrType DEF Jobs
<1>2. j.cmd = mgr[m].cmd /\ j.step = k /\ j.tgt = mgr[m].tgt /\ j.todo = ts /\ Set(m, j)
  BY MgrType DEF Jobs, Enter
<1>3. k \in Nat /\ k > 0 /\ k <= Len(Script[mgr[m].cmd])
  BY <1>1, LenType
<1> HIDE DEF j
<1>4. JobOK(m, j)
  BY <1>1, <1>2, <1>3 DEF JobInv, JobOK
<1> QED BY <1>2, <1>4, JobStep

LEMMA JobEnds ==
  ASSUME TypeOK, JobInv, NEW m \in Managers, NEW d \in Commands,
         NEW t \in Teammates \cup {Nobody}, Set(m, Job(d, t)),
         m \in Watchers => d \in {"off", "watch", "breach"},
         m \in Clis => d \notin {"watch", "breach"}, d = "add" => t \in Teammates
  PROVE  JobInv'
<1>1. JobOK(m, Job(d, t))
  BY LenType DEF Job, JobOK
<1> QED BY <1>1, JobStep

\* A manager that is doing something has begun its script.
LEMMA Begun ==
  ASSUME TypeOK, JobInv, NEW m \in Managers,
         \/ mgr[m].at # "go" \/ mgr[m].poll # {} \/ mgr[m].start # Nobody
         \/ mgr[m].todo # {}
  PROVE  mgr[m].step > 0
<1>1. mgr[m].step \in Nat
  BY MgrType DEF Jobs
<1> QED BY <1>1 DEF JobInv, JobOK

\* What may become of the manager's job when it works on teammate u.
InHand(m, u) ==
    { Past(m, u), Saving(m, u), [Saving(m, u) EXCEPT !.at = "grace"],
      Launching(m, u), [Launching(m, u) EXCEPT !.poll = Known(m)],
      [Launching(m, u) EXCEPT !.prior = cache[m][u]] }

LEMMA WorkViews ==
  ASSUME TypeOK, NEW m \in Managers, NEW u \in Teammates
  PROVE  /\ \A j \in InHand(m, u) :
              /\ j.cmd = mgr[m].cmd /\ j.step = mgr[m].step /\ j.tgt = mgr[m].tgt
              /\ j.todo = {x \in mgr[m].todo : x > u}
         /\ \A j \in { Past(m, u), Saving(m, u),
                       [Saving(m, u) EXCEPT !.at = "grace"] } : j.start = mgr[m].start
         /\ \A j \in { Launching(m, u), [Launching(m, u) EXCEPT !.poll = Known(m)],
                       [Launching(m, u) EXCEPT !.prior = cache[m][u]] } :
              j.start = u /\ j.at = mgr[m].at
         /\ Past(m, u).at = mgr[m].at
         /\ Saving(m, u).at = "save" /\ Saving(m, u).who = u
         /\ [Saving(m, u) EXCEPT !.at = "grace"].at = "grace"
         /\ [Saving(m, u) EXCEPT !.at = "grace"].who = u
<1>1. mgr[m] \in Jobs
  BY MgrType
<1>2. /\ Past(m, u) \in [ cmd : Commands, step : Nat, tgt : Teammates \cup {Nobody},
           poll : SUBSET Teammates, todo : SUBSET Teammates,
           start : Teammates \cup {Nobody}, prior : Records,
           at : {"go", "save", "write", "grace"}, who : Teammates \cup {Nobody} ]
      /\ Past(m, u).cmd = mgr[m].cmd /\ Past(m, u).step = mgr[m].step
      /\ Past(m, u).tgt = mgr[m].tgt /\ Past(m, u).start = mgr[m].start
      /\ Past(m, u).at = mgr[m].at
      /\ Past(m, u).todo = {x \in mgr[m].todo : x > u}
  BY <1>1 DEF Past, Jobs
<1>3. ASSUME NEW j \in { Saving(m, u), [Saving(m, u) EXCEPT !.at = "grace"],
                       Launching(m, u), [Launching(m, u) EXCEPT !.poll = Known(m)],
                       [Launching(m, u) EXCEPT !.prior = cache[m][u]] }
      PROVE  /\ j.cmd = Past(m, u).cmd /\ j.step = Past(m, u).step
             /\ j.tgt = Past(m, u).tgt /\ j.todo = Past(m, u).todo
  BY <1>2 DEF Saving, Launching
<1>4. /\ \A j \in { Saving(m, u), [Saving(m, u) EXCEPT !.at = "grace"] } :
              j.start = Past(m, u).start
      /\ \A j \in { Launching(m, u), [Launching(m, u) EXCEPT !.poll = Known(m)],
                    [Launching(m, u) EXCEPT !.prior = cache[m][u]] } :
              j.start = u /\ j.at = Past(m, u).at
      /\ Saving(m, u).at = "save" /\ Saving(m, u).who = u
      /\ [Saving(m, u) EXCEPT !.at = "grace"].at = "grace"
      /\ [Saving(m, u) EXCEPT !.at = "grace"].who = u
  BY <1>2 DEF Saving, Launching
<1>5. ASSUME NEW j \in InHand(m, u)
      PROVE  /\ j.cmd = Past(m, u).cmd /\ j.step = Past(m, u).step
             /\ j.tgt = Past(m, u).tgt /\ j.todo = Past(m, u).todo
  BY <1>3 DEF InHand
<1> QED BY <1>2, <1>4, <1>5

LEMMA JobsKept ==
  ASSUME TypeOK, JobInv, Next
  PROVE  JobInv'
<1>1. ASSUME NEW m \in Managers, NEW t \in Teammates, Work(m, t)
      PROVE  JobInv'
  <2>0. mgr[m] \in Jobs
    BY MgrType
  <2>1. PICK j : Set(m, j) /\ SamePlace(j, mgr[m])
    <3>1. CASE Look(m, t)
      <4>1. ASSUME NEW j, j \in { [mgr[m] EXCEPT !.poll = @ \ {t}],
                     [[mgr[m] EXCEPT !.poll = @ \ {t}] EXCEPT !.who = t, !.at = "save"] }
            PROVE  SamePlace(j, mgr[m])
        BY <2>0, <4>1 DEF SamePlace, Jobs
      <4>2. \/ Set(m, [mgr[m] EXCEPT !.poll = @ \ {t}])
            \/ Set(m, [[mgr[m] EXCEPT !.poll = @ \ {t}] EXCEPT !.who = t, !.at = "save"])
        BY <3>1, Zenon DEF Look
      <4> QED BY <4>1, <4>2
    <3>2. CASE ~Look(m, t)
      <4>1. PICK j \in InHand(m, t) : Set(m, j)
        <5>1. \/ Set(m, Past(m, t)) \/ Set(m, Saving(m, t)) \/ Set(m, Launching(m, t))
              \/ Set(m, [Saving(m, t) EXCEPT !.at = "grace"])
              \/ Set(m, [Launching(m, t) EXCEPT !.poll = Known(m)])
              \/ Set(m, [Launching(m, t) EXCEPT !.prior = cache[m][t]])
          BY <1>1, <3>2 DEF Work, ReadyFails, ReadyLaunches, AddRejects, Add, Stop,
                            Resume, Purge, Done
        <5> QED BY <5>1 DEF InHand
      <4>2. /\ j.cmd = mgr[m].cmd /\ j.step = mgr[m].step /\ j.tgt = mgr[m].tgt
            /\ j.todo = {x \in mgr[m].todo : x > t}
        BY <4>1, WorkViews
      <4> QED BY <4>1, <4>2 DEF SamePlace
    <3> QED BY <3>1, <3>2
  <2>2. mgr[m].poll # {} \/ mgr[m].todo # {}
    <3>1. CASE Look(m, t)
      BY <3>1 DEF Look, First
    <3>2. CASE ~Look(m, t)
      <4>1. PICK s : Working(m, s, t)
        BY <1>1, <3>2 DEF Work, ReadyFails, ReadyLaunches, AddRejects, Add, Stop, Resume,
                          Purge
      <4> QED BY <4>1, WorkingDue
    <3> QED BY <3>1, <3>2
  <2> QED BY <2>1, <2>2, Begun, JobWorks
<1>2. ASSUME NEW m \in Managers,
             SaveChecks(m) \/ SaveWrites(m) \/ Spawn(m) \/ SpawnFails(m) \/ StopKills(m)
      PROVE  JobInv'
  <2>0. mgr[m] \in Jobs
    BY MgrType
  <2>1. PICK j : Set(m, j) /\ SamePlace(j, mgr[m])
    <3>1. ASSUME NEW j, j \in { [mgr[m] EXCEPT !.at = IF tomb THEN "go" ELSE "write",
                                    !.who = IF tomb THEN Nobody ELSE @],
                   [mgr[m] EXCEPT !.at = "go", !.who = Nobody], Started(m),
                   [mgr[m] EXCEPT !.at = "save"] }
          PROVE  SamePlace(j, mgr[m])
      BY <2>0, <3>1 DEF SamePlace, Started, Jobs
    <3> QED BY <1>2, <3>1 DEF SaveChecks, SaveWrites, Spawn, SpawnFails, StopKills
  <2>2. mgr[m].at # "go" \/ mgr[m].start # Nobody
    BY <1>2 DEF SaveChecks, SaveWrites, Spawn, SpawnFails, StopKills, Starting
  <2> QED BY <2>1, <2>2, Begun, JobWorks
<1>3. ASSUME NEW m \in Managers,
             \/ Load(m) \/ List(m) \/ Drain(m) \/ Clear(m) \/ Disband(m) \/ Bury(m)
             \/ PurgeAll(m)
      PROVE  JobInv'
  <2>1. PICK s, ps, ts :
          /\ Upcoming(m, s) /\ Enter(m, mgr[m].step + 1, ps, ts)
          /\ ts = {} \/ s = "purge"
    BY <1>3 DEF Load, List, Drain, Clear, Disband, Bury, PurgeAll, Advance
  <2>2. /\ mgr[m].step \in Nat /\ mgr[m].step + 1 \in 1 .. Len(Script[mgr[m].cmd])
        /\ mgr[m].cmd = "add" => mgr[m].step < mgr[m].step + 1 /\ ts = {}
    BY <2>1, AtNext
  <2> QED BY <2>1, <2>2, JobEnters
<1>4. ASSUME NEW m \in Managers, Ensure(m) PROVE JobInv'
  <2> DEFINE k == mgr[m].step + (IF reg THEN 2 ELSE 1)
  <2>1. mgr[m].cmd = "add" /\ mgr[m].step = 0 /\ Enter(m, k, {}, {})
    BY <1>4, AtNext DEF Ensure
  <2>2. k \in 1 .. Len(Script[mgr[m].cmd]) /\ mgr[m].step < k
    BY <2>1, ScriptLen
  <2> HIDE DEF k
  <2> QED BY <2>1, <2>2, JobEnters
<1>5. ASSUME NEW m \in Managers, Ready(m) PROVE JobInv'
  <2>1. mgr[m].cmd = "watch" /\ Enter(m, 2, Seen(m), Seen(m))
    BY <1>5, AtNext DEF Ready, WaveOver
  <2>2. 2 \in 1 .. Len(Script[mgr[m].cmd])
    BY <2>1, ScriptLen
  <2> QED BY <2>1, <2>2, JobEnters
<1>6. ASSUME NEW m \in Managers, Target(m) PROVE JobInv'
  <2>0. mgr[m] \in Jobs
    BY MgrType
  <2>1. PICK ts : Set(m, [mgr[m] EXCEPT !.step = @ + 1, !.tgt = Nobody,
                            !.todo = ts, !.poll = ts \cap Known(m)])
    BY <1>6 DEF Target
  <2> DEFINE j == [mgr[m] EXCEPT !.step = @ + 1, !.tgt = Nobody,
                            !.todo = ts, !.poll = ts \cap Known(m)]
  <2>2. PICK s \in {"add", "stop", "resume"} : Upcoming(m, s)
    BY <1>6 DEF Target
  <2>3. Set(m, j) /\ j.cmd = mgr[m].cmd /\ j.step = mgr[m].step + 1
    BY <2>0, <2>1 DEF Jobs
  <2>4. /\ mgr[m].step \in Nat /\ mgr[m].step + 1 \in 1 .. Len(Script[mgr[m].cmd])
        /\ mgr[m].cmd = "add" => mgr[m].step = 3
    BY <2>2, AtNext
  <2>5. mgr[m].step + 1 <= Len(Script[mgr[m].cmd])
    <3>1. mgr[m].cmd \in Commands
      BY <2>0 DEF Jobs
    <3> QED BY <2>4, <3>1, LenType
  <2> HIDE DEF j
  <2>6. JobOK(m, j)
    BY <2>3, <2>4, <2>5 DEF JobInv, JobOK
  <2> QED BY <2>3, <2>6, JobStep
<1>7. ASSUME NEW m \in Managers, Wave(m) \/ Finish(m) \/ Quit(m) PROVE JobInv'
  BY <1>7, JobEnds, CommandsAre DEF Wave, Finish, Quit, End, Off
<1>8. ASSUME NEW m \in Managers, BeginSome(m) PROVE JobInv'
  BY <1>8, JobEnds, CommandsAre, ManagersAssumption
     DEF BeginSome, BeginAdd, BeginWatch, BeginTeam, BeginOne, Begin, TypeOK
<1>9. ASSUME NEW m \in Managers, Breach(m) PROVE JobInv'
  <2>1. m \notin Clis
    BY <1>9, AtNext DEF Breach, JobInv, JobOK
  <2> QED BY <1>9, <2>1, JobEnds, CommandsAre DEF Breach
<1>10. ASSUME NEW t \in Teammates,
              Ends(t) \/ \E r \in Results, torn \in BOOLEAN : Emit(t, r, torn)
       PROVE  JobInv'
  BY <1>10 DEF Ends, Emit, Exit, Die, JobInv
<1> QED
  BY <1>1, <1>2, <1>3, <1>4, <1>5, <1>6, <1>7, <1>8, <1>9, <1>10 DEF Next, Continue

LEMMA JobsCorrect == Spec => []JobInv
<1>1. Init => JobInv
  <2> SUFFICES ASSUME Init, NEW m \in Managers PROVE JobOK(m, mgr[m])
    BY DEF JobInv
  <2>1. mgr[m] = Off
    BY DEF Init
  <2> QED BY <2>1, ScriptLen DEF Off, Job, JobOK
<1>2. TypeOK /\ JobInv /\ [Next]_vars => JobInv'
  BY JobsKept DEF vars, JobInv
<1> QED BY <1>1, <1>2, TypeCorrect, PTL DEF Spec

-----------------------------------------------------------------------------
(* One undisturbed teammate.                                                 *)

Saves(m, t) == mgr[m].who = t /\ mgr[m].at \in {"save", "write"}
Kills(m, t) == mgr[m].who = t /\ mgr[m].at = "grace"
Starts(m, t) == mgr[m].start = t
Adds(m, t) ==
    /\ mgr[m].cmd = "add"
    /\ t \in mgr[m].todo \/ (mgr[m].step < 4 /\ mgr[m].tgt = t)

Idle(m, t) == ~Saves(m, t) /\ ~Kills(m, t) /\ ~Starts(m, t) /\ ~Adds(m, t)

\* Nobody but manager m knows of the teammate, which is not on disk yet.
Private(m, t) ==
    /\ disk[t] = NoRec /\ t \notin fresh /\ launches[t] = 0
    /\ \A n \in Managers : n # m => cache[n][t] = NoRec /\ Idle(n, t)

RecordOK(t, r) ==
    /\ r.pid \in {0, launches[t]}
    /\ r.st \in {"none", "pending"} => r.pid = 0
    /\ r.st = "running" => r.pid = 1
    /\ taken[t] = {} => r.st \in {"none", "pending"}
    /\ launches[t] = 0 => r.st \in {"none", "pending", "failed"}

\* It is launched once at most, by a manager that took it up, and leaves nothing
\* behind before.
ProcessPart(t) ==
    /\ launches[t] \in {0, 1} /\ live[t] \subseteq {1}
    /\ launches[t] = 0 => live[t] = {} /\ log[t] = NoEvent /\ exit[t] = "none"
    /\ taken[t] = {} => launches[t] = 0

RecordPart(t) ==
    /\ RecordOK(t, disk[t]) /\ \A m \in Managers : RecordOK(t, cache[m][t])

FreshPart(t) ==
    t \in fresh => /\ disk[t] = NoRec /\ taken[t] = {}
                   /\ \A m \in Managers : cache[m][t] = NoRec /\ Idle(m, t)

AddPart(t) ==
    \A m \in Managers : Adds(m, t) =>
        /\ Private(m, t) /\ cache[m][t] = NoRec /\ taken[t] = {}
        /\ ~Saves(m, t) /\ ~Starts(m, t) /\ ~Kills(m, t)

\* Whoever launches it holds it as pending, is the only one to have taken it up,
\* and is alone to do anything about it.
StartPart(t) ==
    \A m \in Managers : Starts(m, t) =>
        /\ launches[t] = 0 /\ cache[m][t] = Rec("pending", 0)
        /\ mgr[m].cmd \in {"add", "watch"} /\ taken[t] = {m}
        /\ disk[t].st \in {"none", "pending"} /\ t \notin fresh
        /\ m \in Clis => Private(m, t)
        /\ \A n \in Managers : ~Saves(n, t) /\ (n # m => ~Starts(n, t))

\* What is about to be saved: the record of an addition, of a launch, or one
\* that is final, of a process that is gone.
SavePart(t) ==
    \A m \in Managers : Saves(m, t) =>
        /\ cache[m][t].st # "none"
        /\ cache[m][t].st = "pending" => Private(m, t) /\ taken[t] = {}
        /\ cache[m][t].st = "running" =>
             /\ launches[t] = 1 /\ disk[t].st \in {"none", "pending"}
             /\ \A n \in Managers : n # m => cache[n][t].pid = 0 /\ ~Saves(n, t)
        /\ cache[m][t].st \in Terminal => live[t] = {}

\* Whoever took it up never takes it for pending again, nor reads so on disk.
TakenPart(t) ==
    \A m \in taken[t] :
        \/ Starts(m, t) \/ Saves(m, t)
        \/ cache[m][t].st # "pending" /\ disk[t].st # "pending"

KillPart(t) ==
    \A m \in Managers : Kills(m, t) => cache[m][t].st = "running"

FindPart(t) ==
    \A p \in live[t] :
        \/ disk[t] = Rec("running", p)
        \/ \E m \in Managers : Recording(m, t, p)

Tracked(t) ==
    /\ ProcessPart(t) /\ RecordPart(t) /\ FreshPart(t) /\ AddPart(t) /\ StartPart(t)
    /\ SavePart(t) /\ TakenPart(t) /\ KillPart(t) /\ FindPart(t)

\* A step in which a manager does nothing about the teammate, or ends.
Stays(m, t) ==
    /\ cache'[m][t] = cache[m][t]
    /\ mgr'[m].cmd = mgr[m].cmd \/ ~Starts(m, t)
    /\ (Saves(m, t)' <=> Saves(m, t)) /\ (Kills(m, t)' <=> Kills(m, t))
    /\ (Starts(m, t)' <=> Starts(m, t)) /\ (Adds(m, t)' <=> Adds(m, t))

Leaves(m, t) ==
    cache'[m][t] = NoRec /\ Idle(m, t)' /\ ~Saves(m, t) /\ ~Starts(m, t)

LEMMA NoRecIs ==
  /\ NoRec.st = "none" /\ NoRec.pid = 0
  /\ Rec("pending", 0).st = "pending" /\ Rec("pending", 0).pid = 0
BY DEF NoRec, Rec

LEMMA TakenType ==
  ASSUME TypeOK, NEW t \in Teammates
  PROVE  taken[t] \subseteq Managers
BY DEF TypeOK

LEMMA Away ==
  ASSUME TypeOK, NEW t \in Teammates, Tracked(t),
         \A n \in Managers : Stays(n, t) \/ Leaves(n, t),
         disk'[t] = disk[t], launches'[t] = launches[t], live'[t] \subseteq live[t],
         taken'[t] = taken[t],
         launches[t] = 0 => log'[t] = NoEvent /\ exit'[t] = "none",
         t \in fresh' <=> t \in fresh
  PROVE  Tracked(t)'
<1>1. ProcessPart(t)'
  BY DEF Tracked, ProcessPart
<1>2. RecordPart(t)'
  BY NoRecIs DEF Tracked, RecordPart, RecordOK, Stays, Leaves
<1>3. FreshPart(t)'
  BY DEF Tracked, FreshPart, Stays, Leaves, Idle
<1>4. AddPart(t)'
  BY DEF Tracked, AddPart, Private, Stays, Leaves, Idle
<1>5. StartPart(t)'
  BY DEF Tracked, StartPart, Private, Stays, Leaves, Idle
<1>6. SavePart(t)'
  BY NoRecIs DEF Tracked, SavePart, Private, Stays, Leaves, Idle
<1>7. TakenPart(t)'
  BY NoRecIs, TakenType DEF Tracked, TakenPart, Stays, Leaves, Idle
<1>9. KillPart(t)'
  BY DEF Tracked, KillPart, Stays, Leaves, Idle
<1>10. FindPart(t)'
  BY DEF Tracked, FindPart, Stays, Leaves, Idle, Recording, Saves
<1> QED BY <1>1, <1>2, <1>3, <1>4, <1>5, <1>6, <1>7, <1>9, <1>10 DEF Tracked

\* What the other managers do about the teammate is unchanged.
LEMMA OthersStay ==
  ASSUME TypeOK, NEW m \in Managers, NEW j, Set(m, j), NEW t \in Teammates,
         \A n \in Managers : n # m => cache'[n][t] = cache[n][t]
  PROVE  \A n \in Managers : n # m => Stays(n, t)
<1>1. mgr' = [mgr EXCEPT ![m] = j] /\ mgr \in [Managers -> Jobs]
  BY DEF Set, TypeOK
<1>2. \A n \in Managers : n # m => mgr'[n] = mgr[n]
  BY <1>1
<1> QED BY <1>2 DEF Stays, Saves, Kills, Starts, Adds

\* What the job of m says of the teammate after the step.
LEMMA JobAfter ==
  ASSUME TypeOK, NEW m \in Managers, NEW j, Set(m, j), NEW t \in Teammates
  PROVE  /\ mgr'[m] = j
         /\ Saves(m, t)' <=> j.who = t /\ j.at \in {"save", "write"}
         /\ Kills(m, t)' <=> j.who = t /\ j.at = "grace"
         /\ Starts(m, t)' <=> j.start = t
         /\ Adds(m, t)' <=> j.cmd = "add" /\ (t \in j.todo \/ (j.step < 4 /\ j.tgt = t))
<1>1. mgr' = [mgr EXCEPT ![m] = j] /\ mgr \in [Managers -> Jobs]
  BY DEF Set, TypeOK
<1>2. mgr'[m] = j
  BY <1>1
<1> QED BY <1>2 DEF Saves, Kills, Starts, Adds

\* A step about no teammate, or about another one: the record stays, and so
\* does all that the job says of this one.
LEMMA StepsAside ==
  ASSUME TypeOK, NEW m \in Managers, NEW j, Set(m, j), NEW t \in Teammates, Tracked(t),
         \A n \in Managers : cache'[n][t] = cache[n][t],
         j.cmd = mgr[m].cmd \/ ~Starts(m, t),
         j.start = t <=> mgr[m].start = t,
         j.who = t /\ j.at \in {"save", "write"} <=> Saves(m, t),
         j.who = t /\ j.at = "grace" <=> Kills(m, t),
         (j.cmd = "add" /\ (t \in j.todo \/ (j.step < 4 /\ j.tgt = t))) <=> Adds(m, t),
         disk'[t] = disk[t], launches'[t] = launches[t], live'[t] = live[t],
         taken'[t] = taken[t],
         launches[t] = 0 => log'[t] = NoEvent /\ exit'[t] = "none",
         t \in fresh' <=> t \in fresh
  PROVE  Tracked(t)'
<1>1. \A n \in Managers : n # m => Stays(n, t)
  BY OthersStay
<1>2. Stays(m, t)
  BY JobAfter DEF Stays, Starts
<1> QED BY <1>1, <1>2, Away

LEMMA ProcessTracked ==
  ASSUME TypeOK, NEW t \in Teammates, Tracked(t), NEW u \in Teammates,
         Ends(u) \/ \E r \in Results, torn \in BOOLEAN : Emit(u, r, torn)
  PROVE  Tracked(t)'
<1>1. UNCHANGED <<disk, fresh, launches, cache, mgr, taken>>
  BY DEF Ends, Emit, Exit, Die, files
<1>2. \A n \in Managers : Stays(n, t)
  BY <1>1 DEF Stays, Saves, Kills, Starts, Adds
<1>3. live'[t] \subseteq live[t]
  BY DEF Ends, Emit, Exit, Die, TypeOK
<1>4. live[u] # {}
  BY DEF Ends, Emit
<1>5. launches[t] = 0 => log'[t] = NoEvent /\ exit'[t] = "none"
  <2>1. ASSUME launches[t] = 0 PROVE log[t] = NoEvent /\ exit[t] = "none" /\ t # u
    BY <1>4, <2>1 DEF Tracked, ProcessPart
  <2>2. t # u => log'[t] = log[t] /\ exit'[t] = exit[t]
    BY DEF Ends, Emit, Exit, Die, TypeOK
  <2> QED BY <2>1, <2>2
<1> QED BY <1>1, <1>2, <1>3, <1>5, Away

\* The same for a step that writes no record and concerns no process, or only
\* the record of another teammate in the cache.
LEMMA LocalAside ==
  ASSUME TypeOK, NEW m \in Managers, NEW j, Set(m, j), NEW t \in Teammates, Tracked(t),
         \A n \in Managers : cache'[n][t] = cache[n][t],
         UNCHANGED <<disk, fresh, runs, taken>>,
         j.cmd = mgr[m].cmd \/ ~Starts(m, t),
         j.start = t <=> mgr[m].start = t,
         j.who = t /\ j.at \in {"save", "write"} <=> Saves(m, t),
         j.who = t /\ j.at = "grace" <=> Kills(m, t),
         (j.cmd = "add" /\ (t \in j.todo \/ (j.step < 4 /\ j.tgt = t))) <=> Adds(m, t)
  PROVE  Tracked(t)'
<1>1. UNCHANGED <<live, launches, log, exit>>
  BY DEF runs
<1>2. launches[t] = 0 => log'[t] = NoEvent /\ exit'[t] = "none"
  BY <1>1 DEF Tracked, ProcessPart
<1> QED BY <1>1, <1>2, StepsAside

LEMMA FreeAt == ASSUME NEW m, NEW s, NEW t,
                       Upcoming(m, s) \/ Free(m) \/ \E u : Working(m, s, u)
                PROVE  /\ mgr[m].at = "go" /\ mgr[m].start = Nobody
                       /\ ~Saves(m, t) /\ ~Kills(m, t)
                       /\ mgr[m].poll = {}
BY DEF Working, Upcoming, Free, Saves, Kills

\* What an addition has in hand stays the same while it goes on in its script.
LEMMA AddsEnter ==
  ASSUME TypeOK, JobInv, NEW m \in Managers, NEW t \in Teammates, NEW k, NEW ts,
         mgr[m].cmd = "add" => mgr[m].step < 4 /\ k < 4 /\ ts = {}
  PROVE  (mgr[m].cmd = "add" /\ (t \in ts \/ (k < 4 /\ mgr[m].tgt = t))) <=> Adds(m, t)
BY DEF Adds, JobInv, JobOK

LEMMA EnterAside ==
  ASSUME TypeOK, JobInv, NEW t \in Teammates, Tracked(t), NEW m \in Managers, Free(m),
         NEW k, NEW ps, NEW ts, Enter(m, k, ps, ts),
         mgr[m].cmd = "add" => mgr[m].step < 4 /\ k < 4 /\ ts = {},
         \A n \in Managers : cache'[n][t] = cache[n][t],
         UNCHANGED <<disk, fresh, runs, taken>>
  PROVE  Tracked(t)'
<1> DEFINE j == [mgr[m] EXCEPT !.step = k, !.poll = ps, !.todo = ts]
<1>1. mgr[m].at = "go" /\ ~Saves(m, t) /\ ~Kills(m, t)
  BY FreeAt
<1>2. /\ Set(m, j) /\ j.cmd = mgr[m].cmd /\ j.step = k /\ j.start = mgr[m].start
      /\ j.at = "go" /\ j.todo = ts /\ j.tgt = mgr[m].tgt
  BY <1>1, MgrType DEF Jobs, Enter
<1>3. (j.cmd = "add" /\ (t \in j.todo \/ (j.step < 4 /\ j.tgt = t))) <=> Adds(m, t)
  BY <1>2, AddsEnter
<1> HIDE DEF j
<1> QED BY <1>1, <1>2, <1>3, LocalAside

\* Going on to the next step of the script.
LEMMA AdvancesTracked ==
  ASSUME TypeOK, JobInv, NEW t \in Teammates, Tracked(t), NEW m \in Managers,
         \/ List(m) \/ PurgeAll(m) \/ Ensure(m) \/ Clear(m) \/ Disband(m) \/ Bury(m)
         \/ Target(m) \/ Breach(m)
  PROVE  Tracked(t)'
<1>0. mgr[m] \in Jobs /\ UNCHANGED <<disk, fresh, runs, taken, cache>>
  BY MgrType DEF List, PurgeAll, Ensure, Clear, Disband, Bury, Target, Breach, files, procs
<1>1. CASE List(m) \/ PurgeAll(m) \/ Clear(m) \/ Disband(m) \/ Bury(m)
  <2>1. PICK s, ps, ts :
          /\ Upcoming(m, s) /\ Enter(m, mgr[m].step + 1, ps, ts)
          /\ s \in {"list", "purge", "unregister", "tomb"} \/ (s = "clear" /\ ts = {})
    BY <1>1 DEF List, PurgeAll, Clear, Disband, Bury, Advance
  <2>2. /\ Free(m)
        /\ mgr[m].cmd = "add" => mgr[m].step = 1 /\ mgr[m].step + 1 < 4 /\ ts = {}
    BY <2>1, AtNext DEF Upcoming
  <2> QED BY <1>0, <2>1, <2>2, EnterAside
<1>2. CASE Ensure(m)
  <2> DEFINE k == mgr[m].step + (IF reg THEN 2 ELSE 1)
  <2>1. Enter(m, k, {}, {}) /\ Free(m) /\ mgr[m].step = 0
    BY <1>2, AtNext DEF Ensure, Upcoming
  <2>2. k < 4 /\ mgr[m].step < 4
    BY <2>1
  <2> HIDE DEF k
  <2> QED BY <1>0, <2>1, <2>2, EnterAside
<1>3. CASE Target(m)
  <2>1. PICK s \in {"add", "stop", "resume"} : Upcoming(m, s)
    BY <1>3 DEF Target
  <2> DEFINE ts == IF mgr[m].tgt = Nobody THEN Known(m) ELSE {mgr[m].tgt}
             j == [mgr[m] EXCEPT !.step = @ + 1, !.tgt = Nobody,
                            !.todo = ts, !.poll = ts \cap Known(m)]
  <2>2. Set(m, j)
    BY <1>3 DEF Target
  <2>3. /\ mgr[m].at = "go" /\ ~Saves(m, t) /\ ~Kills(m, t)
        /\ mgr[m].cmd = "add" => mgr[m].step = 3
    BY <2>1, FreeAt, AtNext
  <2>4. /\ j.cmd = mgr[m].cmd /\ j.step = mgr[m].step + 1 /\ j.start = mgr[m].start
        /\ j.at = "go" /\ j.todo = ts
    BY <1>0, <2>3 DEF Jobs
  <2>5. (j.cmd = "add" /\ (t \in j.todo \/ (j.step < 4 /\ j.tgt = t))) <=> Adds(m, t)
    <3>1. CASE mgr[m].cmd # "add"
      BY <2>4, <3>1 DEF Adds
    <3>2. CASE mgr[m].cmd = "add"
      <4>1. mgr[m].step = 3 /\ mgr[m].tgt \in Teammates /\ mgr[m].todo = {}
        BY <2>3, <3>2 DEF JobInv, JobOK
      <4>2. ts = {mgr[m].tgt} /\ j.step = 4
        BY <2>4, <4>1, NobodyOut
      <4> QED BY <2>4, <3>2, <4>1, <4>2 DEF Adds
    <3> QED BY <3>1, <3>2
  <2> HIDE DEF ts, j
  <2> QED BY <1>0, <2>2, <2>3, <2>4, <2>5, LocalAside
<1>4. CASE Breach(m)
  <2> DEFINE j == Job("breach", Nobody)
  <2>1. Set(m, j) /\ mgr[m].cmd = "watch"
    BY <1>4, AtNext DEF Breach
  <2>2. mgr[m].start = Nobody /\ ~Saves(m, t) /\ ~Kills(m, t)
    BY <1>4, FreeAt DEF Breach
  <2>3. j.cmd = "breach" /\ j.start = Nobody /\ j.at = "go"
    BY DEF Job
  <2> HIDE DEF j
  <2> QED BY <1>0, <2>1, <2>2, <2>3, NobodyOut, LocalAside DEF Adds, Starts
<1> QED BY <1>1, <1>2, <1>3, <1>4

\* The end of a command.
LEMMA EndsTracked ==
  ASSUME TypeOK, JobInv, NEW t \in Teammates, Tracked(t), NEW m \in Managers,
         Wave(m) \/ Finish(m) \/ Quit(m)
  PROVE  Tracked(t)'
<1>1. mgr[m].start = Nobody /\ ~Saves(m, t)
  BY FreeAt DEF Wave, Finish, Quit, WaveOver
<1>2. /\ Set(m, Off) /\ cache' = [cache EXCEPT ![m] = NoCache]
      /\ UNCHANGED <<disk, fresh, runs, taken>>
  BY DEF Wave, Finish, Quit, End, files, procs
<1>3. cache'[m][t] = NoRec /\ \A n \in Managers : n # m => cache'[n][t] = cache[n][t]
  BY <1>2 DEF NoCache, TypeOK
<1>4. Idle(m, t)'
  <2>1. /\ Off.cmd = "off" /\ Off.start = Nobody /\ Off.at = "go"
    BY DEF Off, Job
  <2> QED BY <1>2, <2>1, JobAfter, NobodyOut DEF Idle
<1>5. \A n \in Managers : Stays(n, t) \/ Leaves(n, t)
  BY <1>1, <1>2, <1>3, <1>4, OthersStay, NobodyOut DEF Leaves, Starts
<1>6. launches[t] = 0 => log'[t] = NoEvent /\ exit'[t] = "none"
  BY <1>2 DEF Tracked, ProcessPart, runs
<1> QED BY <1>2, <1>5, <1>6, Away DEF runs

\* A manager decides that the teammate is over, and is to save it: if nobody else
\* launches it, adds it, or is about to save what is not final.
LEMMA FinalSave ==
  ASSUME TypeOK, NEW t \in Teammates, Tracked(t), NEW m \in Managers, NEW r,
         \A n \in Managers : n # m => Stays(n, t),
         cache'[m][t] = r, r.st \in Terminal, r.pid \in {0, launches[t]},
         launches[t] = 0 => r.st = "failed",
         Saves(m, t)', ~Kills(m, t)', ~Starts(m, t)', ~Adds(m, t)',
         t \notin fresh,
         \A n \in Managers : n # m => /\ ~Starts(n, t) /\ ~Adds(n, t)
                                      /\ Saves(n, t) => cache[n][t].st \in Terminal,
         UNCHANGED <<disk, fresh, launches>>, live'[t] = {},
         m \in taken'[t] \/ taken[t] # {}, taken'[t] \in {taken[t], taken[t] \cup {m}},
         launches[t] = 0 => log'[t] = NoEvent /\ exit'[t] = "none"
  PROVE  Tracked(t)'
<1>0. r.st \notin {"none", "pending", "running"}
  BY DEF Terminal
<1>1. ProcessPart(t)'
  BY DEF Tracked, ProcessPart
<1>2. RecordPart(t)'
  BY <1>0 DEF Tracked, RecordPart, RecordOK, Stays
<1>3. FreshPart(t)'
  BY DEF FreshPart
<1>4. AddPart(t)'
  BY DEF AddPart, Stays
<1>5. StartPart(t)'
  BY DEF StartPart, Stays
<1>6. SavePart(t)'
  <2> SUFFICES ASSUME NEW n \in Managers, Saves(n, t)'
               PROVE  cache'[n][t].st \in Terminal
    BY DEF SavePart, Terminal
  <2> QED BY DEF Stays
<1>7. TakenPart(t)'
  <2> SUFFICES ASSUME NEW n \in taken'[t], n # m
               PROVE  \/ Saves(n, t)'
                      \/ cache'[n][t].st # "pending" /\ disk'[t].st # "pending"
    BY DEF TakenPart
  <2>1. n \in taken[t] /\ n \in Managers
    BY TakenType
  <2> QED BY <2>1 DEF Tracked, TakenPart, Stays
<1>9. KillPart(t)'
  BY DEF Tracked, KillPart, Stays
<1>10. FindPart(t)'
  BY DEF FindPart
<1> QED BY <1>1, <1>2, <1>3, <1>4, <1>5, <1>6, <1>7, <1>9, <1>10 DEF Tracked

\* So it is when the manager has seen its process, which is gone.
LEMMA SaveOfLaunched ==
  ASSUME TypeOK, NEW t \in Teammates, Tracked(t), NEW m \in Managers, NEW r,
         \A n \in Managers : n # m => Stays(n, t),
         cache'[m][t] = r, r.st \in Terminal, r.pid = 1, cache[m][t].pid = 1,
         Saves(m, t)', ~Kills(m, t)', ~Starts(m, t)', ~Adds(m, t)',
         UNCHANGED <<disk, fresh, launches, log, exit, taken>>, live'[t] = {}
  PROVE  Tracked(t)'
<1>1. launches[t] = 1 /\ taken[t] # {}
  BY DEF Tracked, RecordPart, RecordOK, ProcessPart
<1>2. t \notin fresh
  BY <1>1 DEF Tracked, FreshPart
<1>3. ASSUME NEW n \in Managers, n # m
      PROVE  /\ ~Starts(n, t) /\ ~Adds(n, t)
             /\ Saves(n, t) => cache[n][t].st \in Terminal
  <2>1. ~Starts(n, t)
    BY <1>1 DEF Tracked, StartPart
  <2>2. ~Adds(n, t)
    BY <1>1 DEF Tracked, AddPart
  <2>3. Saves(n, t) => cache[n][t].st \in Terminal
    <3>1. Saves(n, t) => cache[n][t].st \notin {"none", "pending", "running"}
      BY <1>1, <1>3 DEF Tracked, SavePart
    <3>2. cache[n][t].st \in Statuses
      BY CacheType
    <3> QED BY <3>1, <3>2 DEF Statuses
  <2> QED BY <2>1, <2>2, <2>3
<1> QED BY <1>1, <1>2, <1>3, FinalSave

\* A poll that saves nothing.
LEMMA PollKept ==
  ASSUME TypeOK, NEW t \in Teammates, Tracked(t), NEW m \in Managers, NEW r,
         \A n \in Managers : n # m => Stays(n, t),
         cache'[m][t] = r, r.pid = cache[m][t].pid, r \in Records,
         r.st \in {"none", "pending", "running"} => r.st = cache[m][t].st,
         r = cache[m][t] \/ launches[t] = 1 \/ disk[t].st \in Terminal,
         r = cache[m][t] \/ launches[t] = 1 \/ r.st = "failed",
         mgr'[m].cmd = mgr[m].cmd,
         ~Saves(m, t), ~Saves(m, t)', ~Kills(m, t), ~Kills(m, t)',
         Starts(m, t)' <=> Starts(m, t), Adds(m, t)' <=> Adds(m, t),
         UNCHANGED <<files, procs>>
  PROVE  Tracked(t)'
<1>0. UNCHANGED <<disk, fresh, live, launches, log, exit, taken>>
  BY DEF files, procs, runs
<1>1. ProcessPart(t)'
  BY <1>0 DEF Tracked, ProcessPart
<1>2. RecordPart(t)'
  BY <1>0 DEF Tracked, ProcessPart, RecordPart, RecordOK, Stays, Terminal
<1>3. FreshPart(t)'
  BY <1>0, NoRecIs DEF Tracked, ProcessPart, FreshPart, Stays, Idle, Terminal
<1>4. AddPart(t)'
  BY <1>0, NoRecIs DEF Tracked, AddPart, Private, Stays, Idle, Terminal
<1>5. StartPart(t)'
  <2> SUFFICES ASSUME NEW n \in Managers, Starts(n, t)'
               PROVE  /\ launches[t] = 0 /\ cache'[n][t] = Rec("pending", 0)
                      /\ mgr'[n].cmd \in {"add", "watch"} /\ taken[t] = {n}
                      /\ disk[t].st \in {"none", "pending"} /\ t \notin fresh
                      /\ n \in Clis => Private(n, t)'
                      /\ \A k \in Managers : ~Saves(k, t)' /\ (k # n => ~Starts(k, t)')
    BY <1>0 DEF StartPart
  <2>1. Starts(n, t)
    BY DEF Stays
  <2>2. /\ launches[t] = 0 /\ cache[n][t] = Rec("pending", 0)
        /\ mgr[n].cmd \in {"add", "watch"} /\ taken[t] = {n}
        /\ disk[t].st \in {"none", "pending"} /\ t \notin fresh
        /\ n \in Clis => Private(n, t)
        /\ \A k \in Managers : ~Saves(k, t) /\ (k # n => ~Starts(k, t))
    BY <2>1 DEF Tracked, StartPart
  <2>3. r = cache[m][t]
    BY <2>2 DEF Terminal
  <2>4. n \in Clis => Private(n, t)'
    BY <1>0, <2>2, <2>3 DEF Private, Stays, Idle
  <2> QED BY <2>1, <2>2, <2>3, <2>4 DEF Stays
<1>6. SavePart(t)'
  BY <1>0, NoRecIs DEF Tracked, SavePart, Private, Stays, Idle, Terminal
<1>7. TakenPart(t)'
  BY <1>0, TakenType DEF Tracked, TakenPart, Stays, Terminal
<1>9. KillPart(t)'
  BY DEF Tracked, KillPart, Stays
<1>10. FindPart(t)'
  BY <1>0 DEF Tracked, FindPart, Stays, Recording, Saves
<1> QED BY <1>1, <1>2, <1>3, <1>4, <1>5, <1>6, <1>7, <1>9, <1>10 DEF Tracked

LEMMA LookTracked ==
  ASSUME TypeOK, JobInv, NEW t \in Teammates, Tracked(t), NEW m \in Managers,
         NEW u \in Teammates, Look(m, u)
  PROVE  Tracked(t)'
<1> DEFINE j1 == [mgr[m] EXCEPT !.poll = @ \ {u}]
           j2 == [[mgr[m] EXCEPT !.poll = @ \ {u}] EXCEPT !.who = u, !.at = "save"]
           p == cache[m][u].pid
<1>0. mgr[m] \in Jobs /\ mgr[m].at = "go" /\ UNCHANGED <<files, procs>>
  BY MgrType DEF Look
<1>01. UNCHANGED <<disk, fresh, runs, taken>>
  BY <1>0 DEF files, procs
<1>1. PICK s \in Reads(m, u) :
        LET adopt == s \notin Terminal /\ disk[u].st \in Terminal
            rest == p \in live[u] \/ (p = 0 /\ s # "running")
        IN  \/ /\ adopt \/ rest
               /\ Keep(m, u, Rec(IF adopt THEN disk[u].st ELSE s, p))
               /\ Set(m, j1)
            \/ /\ ~adopt /\ ~rest
               /\ Keep(m, u, Rec(Verdict(u, s), p))
               /\ Set(m, j2)
  BY Zenon DEF Look
<1>2. /\ j1.cmd = mgr[m].cmd /\ j1.step = mgr[m].step /\ j1.start = mgr[m].start
      /\ j1.todo = mgr[m].todo /\ j1.tgt = mgr[m].tgt /\ j1.at = "go"
      /\ j2.cmd = mgr[m].cmd /\ j2.step = mgr[m].step /\ j2.start = mgr[m].start
      /\ j2.todo = mgr[m].todo /\ j2.tgt = mgr[m].tgt /\ j2.at = "save" /\ j2.who = u
  BY <1>0 DEF Jobs
<1>3. ~Saves(m, t) /\ ~Kills(m, t)
  BY <1>0 DEF Saves, Kills
<1>4. PICK r : Keep(m, u, r)
  BY <1>1
<1>5. \A n \in Managers, x \in Teammates : n # m \/ x # u => cache'[n][x] = cache[n][x]
  BY <1>4 DEF Keep, TypeOK
<1>6. CASE t # u
  <2>1. \A n \in Managers : cache'[n][t] = cache[n][t]
    BY <1>5, <1>6
  <2>2. CASE Set(m, j1)
    <3> HIDE DEF j1, j2, p
    <3> QED BY <1>01, <1>2, <1>3, <2>1, <2>2, LocalAside DEF Adds
  <2>3. CASE Set(m, j2)
    <3> HIDE DEF j1, j2, p
    <3> QED BY <1>01, <1>2, <1>3, <1>6, <2>1, <2>3, LocalAside DEF Adds
  <2> QED BY <1>1, <2>2, <2>3
<1>7. CASE t = u
  <2>0. /\ cache[m][t] \in Records /\ disk[t] \in Records
        /\ cache[m][t] = Rec(cache[m][t].st, p) /\ p \in Nat /\ cache[m][t].st \in Statuses
    BY <1>7, CacheType DEF Records, Rec
  <2>1. /\ p \in {0, launches[t]} /\ launches[t] \in {0, 1}
        /\ cache[m][t].st \in {"none", "pending"} => p = 0
        /\ cache[m][t].st = "running" => p = 1
    BY <1>7 DEF Tracked, RecordPart, RecordOK, ProcessPart
  <2>2. /\ s \in Statuses
        /\ s = cache[m][t].st \/ (s \in {"completed", "failed"} /\ launches[t] = 1)
    <3>1. log[t].result # "none" => launches[t] = 1
      BY <2>1 DEF Tracked, ProcessPart, NoEvent, Event
    <3>2. s = cache[m][t].st \/ (s \in {"completed", "failed"} /\ log[t].result # "none")
      BY <1>7 DEF Reads
    <3> QED BY <1>7, <3>1, <3>2, ReadsType
  <2>3. \A n \in Managers : n # m => cache'[n][t] = cache[n][t]
    BY <1>5
  <2>4. CASE /\ s \notin Terminal /\ disk[t].st \in Terminal
             /\ Keep(m, t, Rec(disk[t].st, p)) /\ Set(m, j1)
    <3> DEFINE q == Rec(disk[t].st, p)
    <3>1. q \in Records /\ q.pid = p /\ q.st = disk[t].st
      BY <2>0, RecType, CacheType DEF Rec
    <3>2. cache'[m][t] = q
      BY <2>4 DEF Keep, TypeOK
    <3>3. q = cache[m][t] \/ launches[t] = 1 \/ q.st = "failed"
      BY <2>1, <2>4, <3>1 DEF Tracked, RecordPart, RecordOK, Terminal
    <3>4. q.st \notin {"none", "pending", "running"}
      BY <2>4, <3>1 DEF Terminal
    <3> HIDE DEF q, j1, j2, p
    <3>5. \A n \in Managers : n # m => Stays(n, t)
      BY <2>3, <2>4, OthersStay
    <3>6. /\ mgr'[m] = j1 /\ ~Saves(m, t)' /\ ~Kills(m, t)'
          /\ (Starts(m, t)' <=> Starts(m, t)) /\ (Adds(m, t)' <=> Adds(m, t))
      BY <1>2, <2>4, JobAfter DEF Starts, Adds
    <3>7. q.pid = cache[m][t].pid
      BY <1>7, <3>1 DEF p
    <3> QED BY <1>0, <1>2, <1>3, <2>4, <3>1, <3>2, <3>3, <3>4, <3>5, <3>6, <3>7, PollKept
  <2>5. CASE Keep(m, t, Rec(s, p)) /\ Set(m, j1)
    <3> DEFINE q == Rec(s, p)
    <3>1. q \in Records /\ q.pid = p /\ q.st = s
      BY <2>0, <2>2, RecType DEF Rec
    <3>2. cache'[m][t] = q
      BY <2>5 DEF Keep, TypeOK
    <3>3. q = cache[m][t] \/ (launches[t] = 1 /\ q.st \in {"completed", "failed"})
      BY <2>0, <2>2, <3>1
    <3> HIDE DEF q, j1, j2, p
    <3>5. \A n \in Managers : n # m => Stays(n, t)
      BY <2>3, <2>5, OthersStay
    <3>6. /\ mgr'[m] = j1 /\ ~Saves(m, t)' /\ ~Kills(m, t)'
          /\ (Starts(m, t)' <=> Starts(m, t)) /\ (Adds(m, t)' <=> Adds(m, t))
      BY <1>2, <2>5, JobAfter DEF Starts, Adds
    <3>7. q.pid = cache[m][t].pid
      BY <1>7, <3>1 DEF p
    <3> QED BY <1>0, <1>2, <1>3, <3>1, <3>2, <3>3, <3>5, <3>6, <3>7, PollKept
  <2>6. CASE /\ ~(p \in live[t] \/ (p = 0 /\ s # "running"))
             /\ ~(s \notin Terminal /\ disk[t].st \in Terminal)
             /\ Keep(m, t, Rec(Verdict(t, s), p)) /\ Set(m, j2)
    <3> DEFINE q == Rec(Verdict(t, s), p)
    <3>1. p = 1 /\ launches[t] = 1 /\ s \in Terminal \cup {"running"}
      BY <2>1, <2>2, <2>6 DEF Statuses, Terminal
    <3>2. live[t] = {} /\ live'[t] = {}
      BY <1>0, <2>6, <3>1 DEF Tracked, ProcessPart, procs, runs
    <3>3. q.pid = p /\ q.st \in Terminal
      BY <3>1 DEF Rec, Verdict, Terminal
    <3>4. cache'[m][t] = q
      BY <2>6 DEF Keep, TypeOK
    <3>5. cache[m][t].pid = 1
      BY <1>7, <3>1
    <3>6. ~Starts(m, t) /\ ~Adds(m, t)
      BY <3>1 DEF Tracked, StartPart, AddPart, Private
    <3> HIDE DEF q, j1, j2, p
    <3>7. \A n \in Managers : n # m => Stays(n, t)
      BY <2>3, <2>6, OthersStay
    <3>8. Saves(m, t)' /\ ~Kills(m, t)' /\ ~Starts(m, t)' /\ ~Adds(m, t)'
      BY <1>2, <1>7, <2>6, <3>6, JobAfter DEF Starts, Adds
    <3>9. UNCHANGED <<disk, fresh, launches, log, exit, taken>>
      BY <1>0 DEF files, procs, runs
    <3> QED BY <3>1, <3>2, <3>3, <3>4, <3>5, <3>7, <3>8, <3>9, SaveOfLaunched
  <2> QED BY <1>1, <1>7, <2>4, <2>5, <2>6
<1> QED BY <1>6, <1>7

LEMMA SaveChecksTracked ==
  ASSUME TypeOK, JobInv, NEW t \in Teammates, Tracked(t), NEW m \in Managers,
         SaveChecks(m), t \in Undisturbed'
  PROVE  Tracked(t)'
<1>0. mgr[m] \in Jobs /\ mgr[m].at = "save"
  BY MgrType DEF SaveChecks
<1> DEFINE j == [mgr[m] EXCEPT !.at = IF tomb THEN "go" ELSE "write",
                               !.who = IF tomb THEN Nobody ELSE @]
<1>1. /\ Set(m, j) /\ UNCHANGED <<disk, fresh, runs, taken, cache>>
      /\ j.cmd = mgr[m].cmd /\ j.step = mgr[m].step /\ j.start = mgr[m].start
      /\ j.todo = mgr[m].todo /\ j.tgt = mgr[m].tgt
      /\ ~tomb => j.at = "write" /\ j.who = mgr[m].who
      /\ tomb => j.at = "go"
  BY <1>0 DEF SaveChecks, Jobs, files
<1>2. ~Kills(m, t) /\ (Saves(m, t) <=> mgr[m].who = t)
  BY <1>0 DEF Kills, Saves
\* Where the team is gone the teammate is disowned.
<1>3. ~tomb \/ mgr[m].who # t
  BY DEF SaveChecks, Undisturbed
<1> HIDE DEF j
<1> QED BY <1>1, <1>2, <1>3, LocalAside DEF Adds

LEMMA SaveWritesTracked ==
  ASSUME TypeOK, JobInv, NEW t \in Teammates, Tracked(t), NEW m \in Managers,
         SaveWrites(m)
  PROVE  Tracked(t)'
<1>0. mgr[m] \in Jobs /\ mgr[m].at = "write"
  BY MgrType DEF SaveWrites
<1> DEFINE j == [mgr[m] EXCEPT !.at = "go", !.who = Nobody]
<1>1. /\ Set(m, j) /\ UNCHANGED <<fresh, live, launches, log, exit, taken, cache>>
      /\ disk' = [disk EXCEPT ![mgr[m].who] = cache[m][mgr[m].who]]
      /\ j.cmd = mgr[m].cmd /\ j.step = mgr[m].step /\ j.start = mgr[m].start
      /\ j.todo = mgr[m].todo /\ j.tgt = mgr[m].tgt /\ j.at = "go"
  BY <1>0 DEF SaveWrites, procs, runs, Jobs
<1>2. ~Kills(m, t) /\ (Saves(m, t) <=> mgr[m].who = t)
  BY <1>0 DEF Kills, Saves
<1>3. \A n \in Managers : n # m => Stays(n, t)
  BY <1>1, OthersStay
<1>4. /\ mgr'[m] = j /\ ~Saves(m, t)' /\ ~Kills(m, t)'
      /\ (Starts(m, t)' <=> Starts(m, t)) /\ (Adds(m, t)' <=> Adds(m, t))
  <2> HIDE DEF j
  <2> QED BY <1>1, JobAfter DEF Starts, Adds
<1> HIDE DEF j
<1>5. CASE mgr[m].who # t
  <2>1. disk'[t] = disk[t]
    BY <1>1, <1>5 DEF TypeOK
  <2>2. launches[t] = 0 => log'[t] = NoEvent /\ exit'[t] = "none"
    BY <1>1 DEF Tracked, ProcessPart
  <2> QED BY <1>1, <1>2, <1>5, <2>1, <2>2, StepsAside DEF Adds
<1>6. CASE mgr[m].who = t
  <2>1. Saves(m, t) /\ ~Starts(m, t) /\ ~Adds(m, t) /\ t \notin fresh
    BY <1>2, <1>6 DEF Tracked, StartPart, AddPart, FreshPart, Idle
  <2>2. disk'[t] = cache[m][t]
    BY <1>1, <1>6 DEF TypeOK
  <2>3. cache[m][t].st \in Statuses /\ cache[m][t] = Rec(cache[m][t].st, cache[m][t].pid)
    BY CacheType DEF Records, Rec
  <2>4. \A n \in Managers : ~Adds(n, t) /\ ~Starts(n, t)
    BY <2>1 DEF Tracked, AddPart, StartPart, Private, Idle
  <2>5. \A n \in Managers : n # m /\ Saves(n, t) =>
          cache[n][t].st \notin {"none", "pending", "running"}
    BY <2>1 DEF Tracked, SavePart, Private, Idle
  <2>6. ProcessPart(t)' /\ RecordPart(t)' /\ FreshPart(t)'
    BY <1>1, <2>1, <2>2 DEF Tracked, ProcessPart, RecordPart, RecordOK, FreshPart
  <2>7. AddPart(t)' /\ StartPart(t)'
    BY <1>3, <1>4, <2>4 DEF AddPart, StartPart, Stays
  <2>8. SavePart(t)'
    <3> SUFFICES ASSUME NEW n \in Managers, Saves(n, t)'
                 PROVE  /\ cache'[n][t].st \notin {"none", "pending", "running"}
                        /\ cache'[n][t].st \in Terminal => live'[t] = {}
      BY DEF SavePart
    <3>1. n # m /\ Saves(n, t)
      BY <1>3, <1>4 DEF Stays
    <3> QED BY <1>1, <2>5, <3>1 DEF Tracked, SavePart
  <2>9. TakenPart(t)'
    <3> SUFFICES ASSUME NEW n \in taken[t]
                 PROVE  \/ Saves(n, t)'
                        \/ cache[n][t].st # "pending" /\ cache[m][t].st # "pending"
      BY <1>1, <2>2 DEF TakenPart
    <3>1. cache[m][t].st # "pending" /\ n \in Managers
      BY <2>1, TakenType DEF Tracked, SavePart
    <3> QED BY <1>3, <2>4, <3>1 DEF Tracked, TakenPart, Stays
  <2>11. KillPart(t)'
    BY <1>1, <1>3, <1>4 DEF Tracked, KillPart, Stays
  <2>12. FindPart(t)'
    <3>1. CASE cache[m][t].st = "running"
      BY <1>1, <2>2, <2>3, <3>1 DEF Tracked, RecordPart, RecordOK, ProcessPart, FindPart
    <3>2. CASE cache[m][t].st # "running"
      <4>1. live[t] = {}
        BY <2>1, <2>3, <3>2 DEF Tracked, SavePart, Private, ProcessPart, Statuses
      <4> QED BY <1>1, <4>1 DEF FindPart
    <3> QED BY <3>1, <3>2
  <2> QED BY <2>6, <2>7, <2>8, <2>9, <2>11, <2>12 DEF Tracked
<1> QED BY <1>5, <1>6

\* A manager takes over the record on disk.
LEMMA TakesRecord ==
  ASSUME TypeOK, JobInv, NEW t \in Teammates, Tracked(t), NEW m \in Managers,
         \A n \in Managers : n # m => Stays(n, t),
         cache'[m][t] = disk[t], UNCHANGED <<disk, fresh, runs, taken>>,
         ~Saves(m, t), ~Kills(m, t), ~Starts(m, t),
         ~Saves(m, t)', ~Kills(m, t)', ~Starts(m, t)', Adds(m, t)' <=> Adds(m, t)
  PROVE  Tracked(t)'
<1>0. UNCHANGED <<live, launches, log, exit>>
  BY DEF runs
<1>1. ProcessPart(t)'
  BY <1>0 DEF Tracked, ProcessPart
<1>2. RecordPart(t)'
  BY <1>0 DEF Tracked, RecordPart, RecordOK, Stays
<1>3. FreshPart(t)'
  BY <1>0 DEF Tracked, FreshPart, Stays, Idle
<1>4. AddPart(t)'
  BY <1>0 DEF Tracked, AddPart, Private, Stays, Idle
<1>5. StartPart(t)'
  BY <1>0 DEF Tracked, StartPart, Private, Stays, Idle
<1>6. SavePart(t)'
  BY <1>0 DEF Tracked, SavePart, RecordPart, RecordOK, Private, Stays, Idle
<1>7. TakenPart(t)'
  BY <1>0, TakenType DEF Tracked, TakenPart, Stays
<1>9. KillPart(t)'
  BY DEF Tracked, KillPart, Stays
<1>10. FindPart(t)'
  BY <1>0 DEF Tracked, FindPart, Stays, Recording, Saves
<1> QED BY <1>1, <1>2, <1>3, <1>4, <1>5, <1>6, <1>7, <1>9, <1>10 DEF Tracked

LEMMA ReadsDiskTracked ==
  ASSUME TypeOK, JobInv, NEW t \in Teammates, Tracked(t), NEW m \in Managers,
         Load(m) \/ Ready(m) \/ Drain(m)
  PROVE  Tracked(t)'
<1>1. PICK k, ps, ts :
        /\ Free(m) /\ Enter(m, k, ps, ts)
        /\ mgr[m].cmd = "add" => mgr[m].step < 4 /\ k < 4 /\ ts = {}
  <2>1. CASE Load(m)
    <3>1. mgr[m].cmd # "add" \/ mgr[m].step = 2
      BY <2>1, AtNext DEF Load
    <3> QED BY <2>1, <3>1 DEF Load, Upcoming
  <2>2. CASE Ready(m) \/ Drain(m)
    <3>1. mgr[m].cmd = "watch"
      BY <2>2, AtNext DEF Ready, Drain, WaveOver
    <3> QED BY <2>2, <3>1 DEF Ready, Drain, Upcoming, WaveOver
  <2> QED BY <2>1, <2>2
<1>2. UNCHANGED <<disk, fresh, runs, taken>>
  BY DEF Load, Ready, Drain, files, procs
<1>3. /\ \A n \in Managers : n # m => cache'[n][t] = cache[n][t]
      /\ cache'[m][t] \in {cache[m][t], disk[t]}
  BY DEF Load, Ready, Drain, Rescan, TypeOK
<1>4. CASE cache'[m][t] = cache[m][t]
  BY <1>1, <1>2, <1>3, <1>4, EnterAside
<1>5. CASE cache'[m][t] = disk[t]
  <2> DEFINE j == [mgr[m] EXCEPT !.step = k, !.poll = ps, !.todo = ts]
  <2>1. /\ mgr[m].at = "go" /\ mgr[m].start = Nobody
        /\ ~Saves(m, t) /\ ~Kills(m, t) /\ ~Starts(m, t)
    BY <1>1, FreeAt, NobodyOut DEF Starts
  <2>2. /\ Set(m, j) /\ j.cmd = mgr[m].cmd /\ j.step = k /\ j.start = Nobody
        /\ j.at = "go" /\ j.todo = ts /\ j.tgt = mgr[m].tgt
    BY <1>1, <2>1, MgrType DEF Jobs, Enter
  <2> HIDE DEF j
  <2>3. \A n \in Managers : n # m => Stays(n, t)
    BY <1>3, <2>2, OthersStay
  <2>4. ~Saves(m, t)' /\ ~Kills(m, t)' /\ ~Starts(m, t)'
    BY <2>2, JobAfter, NobodyOut
  <2>5. Adds(m, t)' <=> Adds(m, t)
    BY <1>1, <2>2, AddsEnter, JobAfter
  <2> QED BY <1>2, <1>5, <2>1, <2>3, <2>4, <2>5, TakesRecord
<1> QED BY <1>3, <1>4, <1>5

\* A manager that takes one teammate in hand does nothing about the others.
LEMMA OtherTeammate ==
  ASSUME TypeOK, JobInv, NEW t \in Teammates, Tracked(t), NEW m \in Managers,
         NEW u \in Teammates, NEW s, Working(m, s, u), t # u, NEW j, Set(m, j),
         j.cmd = mgr[m].cmd, j.step = mgr[m].step, j.tgt = mgr[m].tgt,
         j.todo = {x \in mgr[m].todo : x > u}, j.start \in {u, Nobody},
         j.at = "go" \/ j.who = u,
         \A n \in Managers : cache'[n][t] = cache[n][t],
         disk'[t] = disk[t], UNCHANGED <<live, launches>>, taken'[t] = taken[t],
         log'[t] \in {log[t], NoEvent}, exit'[t] \in {exit[t], "none"},
         t \in fresh' <=> t \in fresh
  PROVE  Tracked(t)'
<1>1. mgr[m].start = Nobody /\ ~Saves(m, t) /\ ~Kills(m, t)
  BY FreeAt
<1>2. (j.cmd = "add" /\ (t \in j.todo \/ (j.step < 4 /\ j.tgt = t))) <=> Adds(m, t)
  <2>1. CASE mgr[m].cmd # "add"
    BY <2>1 DEF Adds
  <2>2. CASE mgr[m].cmd = "add"
    <3>1. mgr[m].step > 0 /\ mgr[m].step <= 4 /\ mgr[m].step \in Nat
      <4>1. mgr[m].step > 0
        BY AtWork DEF JobInv
      <4>2. mgr[m].step \in Nat
        BY MgrType DEF Jobs
      <4> QED BY <2>2, <4>1, <4>2, ScriptLen DEF JobInv, JobOK
    <3>2. s = "add" /\ mgr[m].step = 4
      <4>1. u \in mgr[m].todo /\ Script["add"][mgr[m].step] = s
        BY <2>2, WorkingDue DEF Working, Current
      <4>2. mgr[m].step = 4
        BY <2>2, <3>1, <4>1 DEF JobInv, JobOK
      <4> QED BY <4>1, <4>2 DEF Script
    <3>3. \A x \in mgr[m].todo : u <= x
      BY <3>2 DEF Working, First, Agenda, Due
    <3>4. t \in mgr[m].todo => t > u
      BY <3>3, GraphAssumption
    <3> QED BY <2>2, <3>2, <3>4 DEF Adds
  <2> QED BY <2>1, <2>2
<1>3. /\ j.start = t <=> mgr[m].start = t
      /\ ~(j.who = t /\ j.at \in {"save", "write", "grace"})
  BY <1>1, NobodyOut
<1>4. launches[t] = 0 => log'[t] = NoEvent /\ exit'[t] = "none"
  BY DEF Tracked, ProcessPart
<1> QED BY <1>1, <1>2, <1>3, <1>4, StepsAside

\* An undisturbed teammate that a watch takes up, holding it as pending: nobody
\* has before, or is about to.
LEMMA TakenUp ==
  ASSUME TypeOK, JobInv, NEW t \in Teammates, Tracked(t), NEW m \in Managers,
         Free(m), cache[m][t].st = "pending", Takes(m, t), t \in Undisturbed'
  PROVE  /\ taken[t] = {} /\ taken'[t] = {m} /\ launches[t] = 0
         /\ live[t] = {} /\ log[t] = NoEvent /\ exit[t] = "none"
         /\ cache[m][t] = Rec("pending", 0) /\ t \notin fresh
         /\ disk[t].st \in {"none", "pending"}
         /\ \A n \in Managers : ~Saves(n, t) /\ (n # m => ~Starts(n, t) /\ ~Adds(n, t))
<1>1. taken'[t] = taken[t] \cup {m}
  BY DEF Takes, TypeOK
<1>2. ~Starts(m, t) /\ ~Saves(m, t)
  BY FreeAt, NobodyOut DEF Starts
<1>3. m \notin taken[t]
  BY <1>2 DEF Tracked, TakenPart
<1>4. taken[t] = {}
  BY <1>1, <1>3, TakenType DEF Undisturbed, Contested
<1>5. /\ launches[t] = 0 /\ live[t] = {} /\ log[t] = NoEvent /\ exit[t] = "none"
      /\ disk[t].st \in {"none", "pending"}
      /\ \A n \in Managers : cache[n][t].st \in {"none", "pending"}
  BY <1>4 DEF Tracked, ProcessPart, RecordPart, RecordOK
<1>6. cache[m][t] = Rec("pending", 0) /\ cache[m][t] # NoRec
  <2>1. cache[m][t].pid = 0 /\ cache[m][t] \in Records
    BY CacheType DEF Tracked, RecordPart, RecordOK
  <2> QED BY <2>1, NoRecIs DEF Rec, Records
<1>7. t \notin fresh
  BY <1>6 DEF Tracked, FreshPart
<1>8. ASSUME NEW n \in Managers, n # m PROVE ~Saves(n, t) /\ ~Starts(n, t) /\ ~Adds(n, t)
  <2>1. ~Private(n, t)
    BY <1>6, <1>8 DEF Private
  <2>2. ~Saves(n, t)
    BY <1>5, <2>1 DEF Tracked, SavePart
  <2>3. ~Starts(n, t)
    BY <1>4 DEF Tracked, StartPart
  <2> QED BY <2>1, <2>2, <2>3 DEF Tracked, AddPart
<1> QED BY <1>1, <1>2, <1>4, <1>5, <1>6, <1>7, <1>8

LEMMA TakesElse ==
  ASSUME TypeOK, NEW m, NEW t \in Teammates, NEW u \in Teammates, t # u, Takes(m, u)
  PROVE  taken'[t] = taken[t]
BY DEF Takes, TypeOK

LEMMA ReadyFailsTracked ==
  ASSUME TypeOK, JobInv, NEW t \in Teammates, Tracked(t), NEW m \in Managers,
         NEW u \in Teammates, ReadyFails(m, u), t \in Undisturbed'
  PROVE  Tracked(t)'
<1> DEFINE j == Saving(m, u)
           r == Rec("failed", cache[m][u].pid)
<1>1. /\ Working(m, "ready", u) /\ cache[m][u].st = "pending" /\ Free(m)
      /\ Keep(m, u, r) /\ Set(m, j) /\ Takes(m, u)
      /\ UNCHANGED <<disk, fresh, live, launches, log, exit>>
  BY DEF ReadyFails, Blocked, Waiting, Takes, files, runs, Working
<1>2. mgr[m].start = Nobody
  BY <1>1, FreeAt
<1>3. mgr[m].cmd = "watch"
  BY <1>1, AtWork DEF JobInv
<1>4. \A n \in Managers, x \in Teammates : n # m \/ x # u => cache'[n][x] = cache[n][x]
  BY <1>1 DEF Keep, TypeOK
<1>5. /\ j.cmd = mgr[m].cmd /\ j.step = mgr[m].step /\ j.tgt = mgr[m].tgt
      /\ j.todo = {x \in mgr[m].todo : x > u}
      /\ j.start = Nobody /\ j.at = "save" /\ j.who = u
  BY <1>2, WorkViews DEF InHand
<1>7. CASE t # u
  <2>1. taken'[t] = taken[t] /\ \A n \in Managers : cache'[n][t] = cache[n][t]
    BY <1>1, <1>4, <1>7, TakesElse
  <2> HIDE DEF j, r
  <2> QED BY <1>1, <1>5, <1>7, <2>1, OtherTeammate
<1>8. CASE t = u
  <2>1. /\ taken[t] = {} /\ taken'[t] = {m} /\ launches[t] = 0
        /\ live[t] = {} /\ log[t] = NoEvent /\ exit[t] = "none"
        /\ cache[m][t] = Rec("pending", 0) /\ t \notin fresh
        /\ \A n \in Managers : ~Saves(n, t) /\ (n # m => ~Starts(n, t) /\ ~Adds(n, t))
    BY <1>1, <1>8, TakenUp
  <2>2. r.st = "failed" /\ r.pid = 0 /\ r.st \in Terminal
    BY <1>8, <2>1 DEF Rec, Terminal
  <2>3. cache'[m][t] = r
    BY <1>1, <1>8 DEF Keep, TypeOK
  <2> HIDE DEF j, r
  <2>8. \A n \in Managers : n # m => Stays(n, t)
    BY <1>1, <1>4, OthersStay
  <2>9. Saves(m, t)' /\ ~Kills(m, t)' /\ ~Starts(m, t)' /\ ~Adds(m, t)'
    BY <1>1, <1>3, <1>5, <1>8, JobAfter, NobodyOut
  <2> QED BY <1>1, <2>1, <2>2, <2>3, <2>8, <2>9, FinalSave
<1> QED BY <1>7, <1>8

LEMMA ReadyLaunchesTracked ==
  ASSUME TypeOK, JobInv, NEW t \in Teammates, Tracked(t), NEW m \in Managers,
         NEW u \in Teammates, ReadyLaunches(m, u), t \in Undisturbed'
  PROVE  Tracked(t)'
<1> DEFINE j == [Launching(m, u) EXCEPT !.poll = Known(m)]
<1>1. /\ Working(m, "ready", u) /\ cache[m][u].st = "pending" /\ Free(m)
      /\ cache' = cache /\ Set(m, j) /\ Takes(m, u)
      /\ UNCHANGED <<disk, fresh, live, launches, log, exit>>
  BY DEF ReadyLaunches, Launchable, Waiting, Takes, files, runs, Working
<1>2. mgr[m].at = "go" /\ mgr[m].start = Nobody
  BY <1>1, FreeAt
<1>3. mgr[m].cmd = "watch" /\ m \notin Clis
  BY <1>1, AtWork DEF JobInv, JobOK
<1>5. /\ j.cmd = mgr[m].cmd /\ j.step = mgr[m].step /\ j.tgt = mgr[m].tgt
      /\ j.todo = {x \in mgr[m].todo : x > u} /\ j.start = u /\ j.at = "go"
  BY <1>2, WorkViews DEF InHand
<1>7. CASE t # u
  <2>1. taken'[t] = taken[t] /\ \A n \in Managers : cache'[n][t] = cache[n][t]
    BY <1>1, <1>7, TakesElse
  <2> HIDE DEF j
  <2> QED BY <1>1, <1>5, <1>7, <2>1, OtherTeammate
<1>8. CASE t = u
  <2>1. /\ taken[t] = {} /\ taken'[t] = {m} /\ launches[t] = 0
        /\ live[t] = {} /\ log[t] = NoEvent /\ exit[t] = "none"
        /\ cache[m][t] = Rec("pending", 0) /\ t \notin fresh
        /\ disk[t].st \in {"none", "pending"}
        /\ \A n \in Managers : ~Saves(n, t) /\ (n # m => ~Starts(n, t) /\ ~Adds(n, t))
    BY <1>1, <1>8, TakenUp
  <2> HIDE DEF j
  <2>6. \A n \in Managers : n # m => Stays(n, t)
    BY <1>1, OthersStay
  <2>7. ~Saves(m, t)' /\ ~Kills(m, t)' /\ Starts(m, t)' /\ ~Adds(m, t)' /\ mgr'[m].cmd = "watch"
    BY <1>1, <1>3, <1>5, <1>8, JobAfter
  <2>8. ProcessPart(t)' /\ RecordPart(t)' /\ FreshPart(t)'
    BY <1>1, <2>1 DEF Tracked, ProcessPart, RecordPart, RecordOK, FreshPart
  <2>9. AddPart(t)'
    BY <2>1, <2>6, <2>7 DEF AddPart, Stays
  <2>10. StartPart(t)'
    BY <1>1, <1>3, <2>1, <2>6, <2>7 DEF StartPart, Stays
  <2>11. SavePart(t)' /\ KillPart(t)'
    BY <1>1, <2>1, <2>6, <2>7 DEF Tracked, SavePart, KillPart, Stays
  <2>12. TakenPart(t)'
    BY <2>1, <2>7 DEF TakenPart
  <2>14. FindPart(t)'
    BY <1>1, <2>1 DEF FindPart
  <2> QED BY <2>8, <2>9, <2>10, <2>11, <2>12, <2>14 DEF Tracked
<1> QED BY <1>7, <1>8

\* The manager that launches the teammate: what is known of it then.
LEMMA AtLaunch ==
  ASSUME TypeOK, NEW t \in Teammates, Tracked(t), NEW m \in Managers, Starts(m, t)
  PROVE  /\ launches[t] = 0 /\ live[t] = {} /\ log[t] = NoEvent /\ exit[t] = "none"
         /\ cache[m][t].pid = 0 /\ t \notin fresh
         /\ mgr[m].cmd \in {"add", "watch"} /\ taken[t] = {m}
         /\ \A n \in Managers : ~Saves(n, t) /\ ~Adds(n, t) /\ cache[n][t].pid = 0
         /\ \A n \in Managers : n # m => ~Starts(n, t)
         /\ disk[t].st \in {"none", "pending"}
<1>1. /\ launches[t] = 0 /\ cache[m][t] = Rec("pending", 0) /\ t \notin fresh
      /\ mgr[m].cmd \in {"add", "watch"} /\ disk[t].st \in {"none", "pending"}
      /\ taken[t] = {m}
      /\ \A n \in Managers : ~Saves(n, t) /\ (n # m => ~Starts(n, t))
  BY DEF Tracked, StartPart
<1>2. cache[m][t].pid = 0
  BY <1>1, NoRecIs
<1>3. live[t] = {} /\ log[t] = NoEvent /\ exit[t] = "none"
  BY <1>1 DEF Tracked, ProcessPart
<1>4. \A n \in Managers : ~Adds(n, t) /\ cache[n][t].pid = 0
  BY <1>1 DEF Tracked, AddPart, RecordPart, RecordOK
<1> QED BY <1>1, <1>2, <1>3, <1>4

LEMMA SpawnTracked ==
  ASSUME TypeOK, JobInv, NEW t \in Teammates, Tracked(t), NEW m \in Managers, Spawn(m)
  PROVE  Tracked(t)'
<1> DEFINE u == mgr[m].start
           p == launches[u] + 1
<1>0. mgr[m] \in Jobs /\ mgr[m].at = "go" /\ u \in Teammates
  BY MgrType DEF Spawn, Starting, Jobs
<1>1. /\ launches' = [launches EXCEPT ![u] = p]
      /\ live' = [live EXCEPT ![u] = @ \cup {p}]
      /\ log' = [log EXCEPT ![u] = NoEvent] /\ exit' = [exit EXCEPT ![u] = "none"]
      /\ Keep(m, u, Rec("running", p)) /\ Set(m, Started(m))
      /\ UNCHANGED <<disk, fresh, taken>>
  BY DEF Spawn, files
<1>2. /\ Started(m).cmd = mgr[m].cmd /\ Started(m).step = mgr[m].step
      /\ Started(m).todo = mgr[m].todo /\ Started(m).tgt = mgr[m].tgt
      /\ Started(m).start = Nobody /\ Started(m).at = "save" /\ Started(m).who = u
  BY <1>0 DEF Started, Jobs
<1>3. ~Saves(m, t) /\ ~Kills(m, t)
  BY <1>0 DEF Saves, Kills
<1>4. \A n \in Managers, x \in Teammates : n # m \/ x # u => cache'[n][x] = cache[n][x]
  BY <1>0, <1>1 DEF Keep, TypeOK
<1>5. CASE t # u
  <2>1. /\ launches'[t] = launches[t] /\ live'[t] = live[t] /\ log'[t] = log[t]
        /\ exit'[t] = exit[t]
    BY <1>0, <1>1, <1>5 DEF TypeOK
  <2>2. launches[t] = 0 => log'[t] = NoEvent /\ exit'[t] = "none"
    BY <2>1 DEF Tracked, ProcessPart
  <2>4. mgr[m].start # t
    BY <1>5
  <2> HIDE DEF u, p
  <2> QED BY <1>1, <1>2, <1>3, <1>4, <1>5, <2>1, <2>2, <2>4, NobodyOut, StepsAside DEF Adds
<1>6. CASE t = u
  <2>1. Starts(m, t)
    BY <1>6 DEF Starts
  <2>2. /\ launches[t] = 0 /\ live[t] = {} /\ t \notin fresh /\ taken[t] = {m}
        /\ \A n \in Managers : ~Saves(n, t) /\ ~Adds(n, t) /\ cache[n][t].pid = 0
        /\ \A n \in Managers : n # m => ~Starts(n, t)
        /\ disk[t].st \in {"none", "pending"}
    BY <2>1, AtLaunch
  <2>3. /\ launches'[t] = 1 /\ live'[t] = {1} /\ log'[t] = NoEvent /\ exit'[t] = "none"
        /\ cache'[m][t] = Rec("running", 1)
    BY <1>0, <1>1, <1>6, <2>2 DEF Keep, TypeOK
  <2>4. \A n \in Managers : n # m => Stays(n, t)
    BY <1>1, <1>4, OthersStay
  <2>5. Saves(m, t)' /\ ~Kills(m, t)' /\ ~Starts(m, t)' /\ ~Adds(m, t)'
    BY <1>1, <1>2, <1>6, <2>2, JobAfter, NobodyOut DEF Adds
  <2>6. cache'[m][t].st = "running" /\ cache'[m][t].pid = 1
    BY <2>3 DEF Rec
  <2> HIDE DEF u, p
  <2>7. ProcessPart(t)' /\ FreshPart(t)'
    BY <1>1, <2>2, <2>3 DEF ProcessPart, FreshPart
  <2>8. RecordPart(t)'
    BY <1>1, <2>2, <2>3, <2>4, <2>6 DEF Tracked, RecordPart, RecordOK, Stays
  <2>9. AddPart(t)' /\ StartPart(t)'
    BY <2>2, <2>4, <2>5 DEF AddPart, StartPart, Stays
  <2>10. SavePart(t)'
    <3> SUFFICES ASSUME NEW n \in Managers, Saves(n, t)'
                 PROVE  /\ cache'[n][t].st = "running"
                        /\ launches'[t] = 1 /\ disk'[t].st \in {"none", "pending"}
                        /\ \A k \in Managers : k # n => cache'[k][t].pid = 0 /\ ~Saves(k, t)'
      BY DEF SavePart, Terminal
    <3>1. n = m
      BY <2>2, <2>4 DEF Stays
    <3> QED BY <1>1, <2>2, <2>3, <2>4, <2>6, <3>1 DEF Stays
  <2>11. TakenPart(t)'
    BY <1>1, <2>2, <2>5 DEF TakenPart
  <2>13. KillPart(t)'
    BY <2>4, <2>5 DEF Tracked, KillPart, Stays
  <2>14. FindPart(t)'
    <3>1. Recording(m, t, 1)'
      BY <2>3, <2>5 DEF Recording, Saves
    <3> QED BY <2>3, <3>1 DEF FindPart
  <2> QED BY <2>7, <2>8, <2>9, <2>10, <2>11, <2>13, <2>14 DEF Tracked
<1> QED BY <1>5, <1>6

LEMMA SpawnFailsTracked ==
  ASSUME TypeOK, JobInv, NEW t \in Teammates, Tracked(t), NEW m \in Managers,
         SpawnFails(m)
  PROVE  Tracked(t)'
<1> DEFINE u == mgr[m].start
           r == IF mgr[m].cmd = "resume" THEN mgr[m].prior
                ELSE Rec("failed", cache[m][u].pid)
<1>0. mgr[m] \in Jobs /\ mgr[m].at = "go" /\ u \in Teammates
  BY MgrType DEF SpawnFails, Starting, Jobs
<1>1. /\ UNCHANGED <<disk, fresh, live, launches, log, taken>>
      /\ \E e \in {exit[u], "none"} : exit' = [exit EXCEPT ![u] = e]
      /\ Keep(m, u, r) /\ Set(m, Started(m))
  BY DEF SpawnFails, files
<1>2. /\ Started(m).cmd = mgr[m].cmd /\ Started(m).step = mgr[m].step
      /\ Started(m).todo = mgr[m].todo /\ Started(m).tgt = mgr[m].tgt
      /\ Started(m).start = Nobody /\ Started(m).at = "save" /\ Started(m).who = u
  BY <1>0 DEF Started, Jobs
<1>3. ~Saves(m, t) /\ ~Kills(m, t)
  BY <1>0 DEF Saves, Kills
<1>4. \A n \in Managers, x \in Teammates : n # m \/ x # u => cache'[n][x] = cache[n][x]
  BY <1>0, <1>1 DEF Keep, TypeOK
<1>5. exit'[t] \in {exit[t], "none"}
  BY <1>0, <1>1 DEF TypeOK
<1>6. launches[t] = 0 => log'[t] = NoEvent /\ exit'[t] = "none"
  BY <1>1, <1>5 DEF Tracked, ProcessPart
<1>7. CASE t # u
  <2>2. mgr[m].start # t
    BY <1>7
  <2> HIDE DEF u, r
  <2> QED BY <1>1, <1>2, <1>3, <1>4, <1>6, <1>7, <2>2, NobodyOut, StepsAside DEF Adds
<1>8. CASE t = u
  <2>1. Starts(m, t)
    BY <1>8 DEF Starts
  <2>2. /\ launches[t] = 0 /\ live[t] = {} /\ t \notin fresh /\ cache[m][t].pid = 0
        /\ mgr[m].cmd \in {"add", "watch"} /\ taken[t] = {m}
        /\ \A n \in Managers : ~Saves(n, t) /\ ~Adds(n, t)
        /\ \A n \in Managers : n # m => ~Starts(n, t)
    BY <2>1, AtLaunch
  <2>3. r = Rec("failed", 0)
    BY <1>8, <2>2
  <2>4. r.st = "failed" /\ r.pid = 0 /\ r.st \in Terminal
    BY <2>3 DEF Terminal, Rec
  <2>5. cache'[m][t] = r
    BY <1>1, <1>8 DEF Keep, TypeOK
  <2>6. \A n \in Managers : n # m => Stays(n, t)
    BY <1>1, <1>4, OthersStay
  <2>7. Saves(m, t)' /\ ~Kills(m, t)' /\ ~Starts(m, t)' /\ ~Adds(m, t)'
    BY <1>1, <1>2, <1>8, <2>2, JobAfter, NobodyOut DEF Adds
  <2>8. live'[t] = {}
    BY <1>1, <2>2
  <2> HIDE DEF u, r
  <2> QED BY <1>1, <1>6, <2>2, <2>4, <2>5, <2>6, <2>7, <2>8, FinalSave
<1> QED BY <1>7, <1>8

LEMMA StopTracked ==
  ASSUME TypeOK, JobInv, NEW t \in Teammates, Tracked(t), NEW m \in Managers,
         NEW u \in Teammates, Stop(m, u)
  PROVE  Tracked(t)'
<1> DEFINE j1 == [Saving(m, u) EXCEPT !.at = "grace"]
           j2 == Saving(m, u)
           r == Rec("stopped", cache[m][u].pid)
<1>1. /\ Working(m, "stop", u) /\ cache[m][u].st = "running" /\ UNCHANGED <<files, procs>>
      /\ \/ Set(m, j1) /\ cache' = cache
         \/ cache[m][u].pid \notin live[u] /\ Keep(m, u, r) /\ Set(m, j2)
  BY WorkingDue DEF Stop
<1>2. mgr[m].at = "go" /\ mgr[m].start = Nobody /\ ~Saves(m, t) /\ ~Kills(m, t)
  BY <1>1, FreeAt
<1>3. mgr[m].cmd \in {"stop", "disband", "breach"}
  BY <1>1, AtWork DEF JobInv
<1>4. \A n \in Managers, x \in Teammates : n # m \/ x # u => cache'[n][x] = cache[n][x]
  BY <1>1 DEF Keep, TypeOK
<1>5. /\ j1.cmd = mgr[m].cmd /\ j1.step = mgr[m].step /\ j1.tgt = mgr[m].tgt
      /\ j1.todo = {x \in mgr[m].todo : x > u}
      /\ j1.start = Nobody /\ j1.at = "grace" /\ j1.who = u
      /\ j2.cmd = mgr[m].cmd /\ j2.step = mgr[m].step /\ j2.tgt = mgr[m].tgt
      /\ j2.todo = {x \in mgr[m].todo : x > u}
      /\ j2.start = Nobody /\ j2.at = "save" /\ j2.who = u
  BY <1>2, WorkViews DEF InHand
<1>6. UNCHANGED <<disk, fresh, live, launches, log, exit, taken>>
  BY <1>1 DEF files, procs, runs
<1>7. CASE t # u
  <2>1. \A n \in Managers : cache'[n][t] = cache[n][t]
    BY <1>4, <1>7
  <2> HIDE DEF j1, j2, r
  <2>2. CASE Set(m, j1)
    BY <1>1, <1>5, <1>6, <1>7, <2>1, <2>2, OtherTeammate
  <2>3. CASE Set(m, j2)
    BY <1>1, <1>5, <1>6, <1>7, <2>1, <2>3, OtherTeammate
  <2> QED BY <1>1, <2>2, <2>3
<1>8. CASE t = u
  <2>1. /\ cache[m][t].pid = 1 /\ launches[t] = 1 /\ live[t] \subseteq {1}
    BY <1>1, <1>8 DEF Tracked, RecordPart, RecordOK, ProcessPart
  <2>2. CASE Set(m, j1) /\ cache' = cache
    <3> HIDE DEF j1, j2, r
    <3>1. \A n \in Managers : n # m => Stays(n, t)
      BY <2>2, OthersStay
    <3>2. ~Saves(m, t)' /\ Kills(m, t)' /\ ~Starts(m, t)' /\ ~Adds(m, t)'
      BY <1>3, <1>5, <1>8, <2>2, JobAfter, NobodyOut
    <3>3. ~Starts(m, t) /\ ~Adds(m, t)
      BY <1>2, <1>3, NobodyOut DEF Starts, Adds
    <3>4. ProcessPart(t)' /\ RecordPart(t)' /\ FreshPart(t)'
      BY <1>6, <2>1, <2>2 DEF Tracked, ProcessPart, RecordPart, RecordOK, FreshPart
    <3>5. AddPart(t)' /\ StartPart(t)'
      BY <2>1, <3>1, <3>2 DEF Tracked, AddPart, StartPart, Private, Stays
    <3>6. SavePart(t)'
      BY <1>2, <1>6, <2>1, <2>2, <3>1, <3>2 DEF Tracked, SavePart, Private, Stays
    <3>7. TakenPart(t)'
      BY <1>2, <1>6, <2>2, <3>1, <3>3, TakenType DEF Tracked, TakenPart, Stays
    <3>9. KillPart(t)'
      BY <1>1, <1>8, <2>2, <3>1 DEF Tracked, KillPart, Stays
    <3>10. FindPart(t)'
      BY <1>2, <1>6, <2>2, <3>1 DEF Tracked, FindPart, Recording, Stays, Saves
    <3> QED BY <3>4, <3>5, <3>6, <3>7, <3>9, <3>10 DEF Tracked
  <2>3. CASE cache[m][u].pid \notin live[u] /\ Keep(m, u, r) /\ Set(m, j2)
    <3>1. live'[t] = {}
      BY <1>6, <1>8, <2>1, <2>3
    <3>2. r.st \in Terminal /\ r.pid = 1
      BY <1>8, <2>1 DEF Rec, Terminal
    <3>3. cache'[m][t] = r
      BY <1>8, <2>3 DEF Keep, TypeOK
    <3> HIDE DEF j1, j2, r
    <3>4. \A n \in Managers : n # m => Stays(n, t)
      BY <1>4, <2>3, OthersStay
    <3>5. Saves(m, t)' /\ ~Kills(m, t)' /\ ~Starts(m, t)' /\ ~Adds(m, t)'
      BY <1>3, <1>5, <1>8, <2>3, JobAfter, NobodyOut
    <3> QED BY <1>6, <2>1, <3>1, <3>2, <3>3, <3>4, <3>5, SaveOfLaunched
  <2> QED BY <1>1, <2>2, <2>3
<1> QED BY <1>7, <1>8

LEMMA StopKillsTracked ==
  ASSUME TypeOK, JobInv, NEW t \in Teammates, Tracked(t), NEW m \in Managers,
         StopKills(m)
  PROVE  Tracked(t)'
<1> DEFINE u == mgr[m].who
           p == cache[m][u].pid
           j == [mgr[m] EXCEPT !.at = "save"]
<1>0. mgr[m] \in Jobs /\ mgr[m].at = "grace"
  BY MgrType DEF StopKills
<1>1. /\ live' = [live EXCEPT ![u] = @ \ {p}] /\ Keep(m, u, Rec("stopped", p))
      /\ Set(m, j) /\ UNCHANGED <<disk, fresh, launches, log, exit, taken>>
  BY DEF StopKills, files
<1>2. /\ j.cmd = mgr[m].cmd /\ j.step = mgr[m].step /\ j.tgt = mgr[m].tgt
      /\ j.todo = mgr[m].todo /\ j.start = mgr[m].start /\ j.at = "save" /\ j.who = u
  BY <1>0 DEF Jobs
<1>3. ~Saves(m, t) /\ (Kills(m, t) <=> u = t)
  BY <1>0 DEF Saves, Kills
<1>4. \A n \in Managers, x \in Teammates : n # m \/ x # u => cache'[n][x] = cache[n][x]
  BY <1>1 DEF Keep, TypeOK
<1>5. CASE t # u
  <2>1. live'[t] = live[t] /\ (launches[t] = 0 => log'[t] = NoEvent /\ exit'[t] = "none")
    BY <1>1, <1>5 DEF TypeOK, Tracked, ProcessPart
  <2> HIDE DEF u, p, j
  <2> QED BY <1>1, <1>2, <1>3, <1>4, <1>5, <2>1, StepsAside DEF Adds
<1>6. CASE t = u
  <2>1. cache[m][t].st = "running" /\ cache[m][t].pid = 1 /\ launches[t] = 1
    BY <1>3, <1>6 DEF Tracked, KillPart, RecordPart, RecordOK, ProcessPart
  <2>2. live'[t] = {}
    BY <1>1, <1>6, <2>1 DEF Tracked, ProcessPart, TypeOK
  <2>3. ~Starts(m, t) /\ ~Adds(m, t)
    BY <2>1 DEF Tracked, StartPart, AddPart, Private
  <2>4. cache'[m][t] = Rec("stopped", 1)
    BY <1>1, <1>6, <2>1 DEF Keep, TypeOK
  <2>5. Rec("stopped", 1).st \in Terminal /\ Rec("stopped", 1).pid = 1
    BY DEF Rec, Terminal
  <2> HIDE DEF u, p, j
  <2>6. \A n \in Managers : n # m => Stays(n, t)
    BY <1>1, <1>4, OthersStay
  <2>7. Saves(m, t)' /\ ~Kills(m, t)' /\ ~Starts(m, t)' /\ ~Adds(m, t)'
    BY <1>1, <1>2, <1>6, <2>3, JobAfter DEF Starts, Adds
  <2> QED BY <1>1, <2>1, <2>2, <2>4, <2>5, <2>6, <2>7, SaveOfLaunched
<1> QED BY <1>5, <1>6

LEMMA AddRejectsTracked ==
  ASSUME TypeOK, JobInv, NEW t \in Teammates, Tracked(t), NEW m \in Managers,
         NEW u \in Teammates, AddRejects(m, u)
  PROVE  Tracked(t)'
<1> DEFINE j == Past(m, u)
<1>1. /\ Working(m, "add", u) /\ fresh' = fresh \cup {u} /\ Set(m, j)
      /\ UNCHANGED <<disk, live, launches, log, exit, taken, cache>>
  BY DEF AddRejects, Done, procs, runs
<1>2. mgr[m].at = "go" /\ mgr[m].start = Nobody
  BY <1>1, FreeAt
<1>3. mgr[m].cmd = "add" /\ mgr[m].step = 4 /\ u \in mgr[m].todo
  BY <1>1, AtWork, WorkingDue DEF JobInv
<1>5. /\ j.cmd = mgr[m].cmd /\ j.step = mgr[m].step /\ j.tgt = mgr[m].tgt
      /\ j.todo = {x \in mgr[m].todo : x > u} /\ j.start = Nobody /\ j.at = "go"
  BY <1>2, WorkViews DEF InHand
<1>7. CASE t # u
  <2>1. t \in fresh' <=> t \in fresh
    BY <1>1, <1>7
  <2> HIDE DEF j
  <2> QED BY <1>1, <1>5, <1>7, <2>1, OtherTeammate
<1>8. CASE t = u
  <2>1. Adds(m, t)
    BY <1>3, <1>8 DEF Adds
  <2>2. /\ disk[t] = NoRec /\ launches[t] = 0 /\ cache[m][t] = NoRec /\ taken[t] = {}
        /\ \A n \in Managers : n # m => cache[n][t] = NoRec /\ Idle(n, t)
    BY <2>1 DEF Tracked, AddPart, Private
  <2> HIDE DEF j
  <2>3. \A n \in Managers : n # m => Stays(n, t)
    BY <1>1, OthersStay
  <2>4. Idle(m, t)'
    <3>1. ~(t > t)
      BY GraphAssumption
    <3> QED BY <1>1, <1>3, <1>5, <1>8, <3>1, JobAfter, NobodyOut DEF Idle
  <2>5. \A n \in Managers : cache'[n][t] = NoRec /\ Idle(n, t)'
    BY <1>1, <2>2, <2>3, <2>4 DEF Stays, Idle
  <2>7. ProcessPart(t)' /\ RecordPart(t)' /\ FreshPart(t)'
    BY <1>1, <2>2, <2>5 DEF Tracked, ProcessPart, RecordPart, RecordOK, FreshPart
  <2>8. AddPart(t)' /\ StartPart(t)' /\ SavePart(t)' /\ KillPart(t)'
    BY <2>5 DEF AddPart, StartPart, SavePart, KillPart, Idle
  <2>9. TakenPart(t)' /\ FindPart(t)'
    BY <1>1, <2>2 DEF Tracked, ProcessPart, TakenPart, FindPart
  <2> QED BY <2>7, <2>8, <2>9 DEF Tracked
<1> QED BY <1>7, <1>8

LEMMA AddTracked ==
  ASSUME TypeOK, JobInv, NEW t \in Teammates, Tracked(t), NEW m \in Managers,
         NEW u \in Teammates, Add(m, u)
  PROVE  Tracked(t)'
<1> DEFINE j == IF After[u] = {} THEN Launching(m, u) ELSE Saving(m, u)
<1>1. /\ Working(m, "add", u) /\ Keep(m, u, Rec("pending", 0)) /\ Set(m, j)
      /\ UNCHANGED <<disk, fresh, live, launches, log, exit>>
      /\ IF After[u] = {} THEN Takes(m, u) ELSE taken' = taken
  BY DEF Add, files, procs, runs, Takes
<1>2. mgr[m].at = "go" /\ mgr[m].start = Nobody
  BY <1>1, FreeAt
<1>3. mgr[m].cmd = "add" /\ mgr[m].step = 4 /\ u \in mgr[m].todo
  BY <1>1, AtWork, WorkingDue DEF JobInv
<1>4. \A n \in Managers, x \in Teammates : n # m \/ x # u => cache'[n][x] = cache[n][x]
  BY <1>1 DEF Keep, TypeOK
<1>5. /\ j.cmd = mgr[m].cmd /\ j.step = mgr[m].step /\ j.tgt = mgr[m].tgt
      /\ j.todo = {x \in mgr[m].todo : x > u}
      /\ IF After[u] = {} THEN j.start = u /\ j.at = "go"
         ELSE j.start = Nobody /\ j.at = "save" /\ j.who = u
  BY <1>2, WorkViews DEF InHand
<1>7. CASE t # u
  <2>1. taken'[t] = taken[t] /\ \A n \in Managers : cache'[n][t] = cache[n][t]
    BY <1>1, <1>4, <1>7, TakesElse
  <2> HIDE DEF j
  <2> QED BY <1>1, <1>5, <1>7, <2>1, OtherTeammate
<1>8. CASE t = u
  <2>1. Adds(m, t)
    BY <1>3, <1>8 DEF Adds
  <2>2. /\ disk[t] = NoRec /\ launches[t] = 0 /\ t \notin fresh /\ taken[t] = {}
        /\ \A n \in Managers : n # m => cache[n][t] = NoRec /\ Idle(n, t)
    BY <2>1 DEF Tracked, AddPart, Private
  <2>3. cache'[m][t] = Rec("pending", 0)
    BY <1>1, <1>8 DEF Keep, TypeOK
  <2>4. taken'[t] = IF After[t] = {} THEN {m} ELSE {}
    BY <1>1, <1>8, <2>2 DEF Takes, TypeOK
  <2> HIDE DEF j
  <2>5. \A n \in Managers : n # m => Stays(n, t)
    BY <1>1, <1>4, OthersStay
  <2>6. \A n \in Managers : n # m => cache'[n][t] = NoRec /\ Idle(n, t)'
    BY <2>2, <2>5 DEF Stays, Idle
  <2>7. ~Kills(m, t)' /\ ~Adds(m, t)' /\ mgr'[m].cmd = "add"
    <3>1. ~(t > t)
      BY GraphAssumption
    <3> QED BY <1>1, <1>3, <1>5, <1>8, <3>1, JobAfter, NobodyOut
  <2>16. IF After[t] = {} THEN Starts(m, t)' /\ ~Saves(m, t)'
         ELSE ~Starts(m, t)' /\ Saves(m, t)'
    BY <1>1, <1>5, <1>8, JobAfter, NobodyOut
  <2>8. Private(m, t)'
    BY <1>1, <2>2, <2>6 DEF Private
  <2>9. ProcessPart(t)' /\ RecordPart(t)' /\ FreshPart(t)'
    BY <1>1, <2>2, <2>3, <2>6, NoRecIs
       DEF Tracked, ProcessPart, RecordPart, RecordOK, FreshPart
  <2>10. AddPart(t)'
    BY <2>6, <2>7 DEF AddPart, Idle
  <2>11. StartPart(t)'
    <3> SUFFICES ASSUME NEW n \in Managers, Starts(n, t)'
                 PROVE  /\ n = m /\ taken'[t] = {n}
                        /\ \A k \in Managers : ~Saves(k, t)' /\ (k # n => ~Starts(k, t)')
      BY <1>1, <2>2, <2>3, <2>7, <2>8, NoRecIs DEF StartPart
    <3> QED BY <2>4, <2>6, <2>16 DEF Idle
  <2>12. SavePart(t)'
    <3> SUFFICES ASSUME NEW n \in Managers, Saves(n, t)' PROVE n = m /\ taken'[t] = {}
      BY <2>3, <2>8, NoRecIs DEF SavePart, Terminal
    <3> QED BY <2>4, <2>6, <2>16 DEF Idle
  <2>13. TakenPart(t)'
    BY <2>4, <2>16 DEF TakenPart
  <2>14. KillPart(t)'
    BY <2>6, <2>7 DEF KillPart, Idle
  <2>15. FindPart(t)'
    BY <1>1, <2>2 DEF Tracked, ProcessPart, FindPart
  <2> QED BY <2>9, <2>10, <2>11, <2>12, <2>13, <2>14, <2>15 DEF Tracked
<1> QED BY <1>7, <1>8

\* A teammate that is resumed or purged is no longer tracked; the others are.
LEMMA ResumeTracked ==
  ASSUME TypeOK, JobInv, NEW t \in Teammates, Tracked(t), NEW m \in Managers,
         NEW u \in Teammates, Resume(m, u), t \in Undisturbed'
  PROVE  Tracked(t)'
<1> DEFINE j == [Launching(m, u) EXCEPT !.prior = cache[m][u]]
<1>1. /\ Working(m, "resume", u) /\ Keep(m, u, Rec("running", cache[m][u].pid))
      /\ Set(m, j) /\ resumed' = resumed \cup {u}
      /\ UNCHANGED <<disk, fresh, live, launches, log, exit, taken>>
  BY DEF Resume, files, runs
<1>2. mgr[m].at = "go"
  BY <1>1, FreeAt
<1>3. t # u
  BY <1>1 DEF Undisturbed
<1>4. \A n \in Managers : cache'[n][t] = cache[n][t]
  BY <1>1, <1>3 DEF Keep, TypeOK
<1>5. /\ j.cmd = mgr[m].cmd /\ j.step = mgr[m].step /\ j.tgt = mgr[m].tgt
      /\ j.todo = {x \in mgr[m].todo : x > u} /\ j.start = u /\ j.at = "go"
  BY <1>2, WorkViews DEF InHand
<1> HIDE DEF j
<1> QED BY <1>1, <1>3, <1>4, <1>5, OtherTeammate

LEMMA PurgeTracked ==
  ASSUME TypeOK, JobInv, NEW t \in Teammates, Tracked(t), NEW m \in Managers,
         NEW u \in Teammates, Purge(m, u), t \in Undisturbed'
  PROVE  Tracked(t)'
<1> DEFINE j == Past(m, u)
<1>1. /\ Working(m, "purge", u) /\ disk' = [disk EXCEPT ![u] = NoRec]
      /\ \E l \in {log[u], NoEvent} : log' = [log EXCEPT ![u] = l]
      /\ \E e \in {exit[u], "none"} : exit' = [exit EXCEPT ![u] = e]
      /\ Keep(m, u, NoRec) /\ Set(m, j) /\ disowned' = disowned \cup {u}
      /\ UNCHANGED <<fresh, live, launches, taken>>
  BY DEF Purge, Done, TypeOK
<1>2. mgr[m].at = "go" /\ mgr[m].start = Nobody
  BY <1>1, FreeAt
<1>3. t # u
  BY <1>1 DEF Undisturbed
<1>4. \A n \in Managers : cache'[n][t] = cache[n][t]
  BY <1>1, <1>3 DEF Keep, TypeOK
<1>5. /\ j.cmd = mgr[m].cmd /\ j.step = mgr[m].step /\ j.tgt = mgr[m].tgt
      /\ j.todo = {x \in mgr[m].todo : x > u} /\ j.start = Nobody /\ j.at = "go"
  BY <1>2, WorkViews DEF InHand
<1>6. /\ log'[t] \in {log[t], NoEvent} /\ exit'[t] \in {exit[t], "none"}
      /\ disk'[t] = disk[t]
  BY <1>1, <1>3 DEF TypeOK
<1> HIDE DEF j
<1> QED BY <1>1, <1>3, <1>4, <1>5, <1>6, OtherTeammate

LEMMA BeginTracked ==
  ASSUME TypeOK, JobInv, NEW t \in Teammates, Tracked(t), NEW m \in Managers,
         BeginSome(m)
  PROVE  Tracked(t)'
<1>1. PICK d, u : Begin(m, d, u) /\ (d = "add" => u \in fresh)
  BY DEF BeginSome, BeginAdd, BeginWatch, BeginTeam, BeginOne
<1> DEFINE j == Job(d, u)
<1>2. /\ mgr[m].cmd = "off" /\ Set(m, j)
      /\ fresh' = IF d = "add" THEN fresh \ {u} ELSE fresh
      /\ UNCHANGED <<disk, live, launches, log, exit, taken, cache>>
  BY <1>1 DEF Begin, runs
<1>3. mgr[m].todo = {} /\ mgr[m].start = Nobody /\ mgr[m].at = "go"
  <2>1. mgr[m].step \in Nat
    BY MgrType DEF Jobs
  <2> QED BY <1>2, <2>1, ScriptLen DEF JobInv, JobOK
<1>4. ~Saves(m, t) /\ ~Kills(m, t) /\ ~Starts(m, t) /\ ~Adds(m, t)
  BY <1>2, <1>3, NobodyOut DEF Saves, Kills, Starts, Adds
<1>5. /\ j.cmd = d /\ j.step = 0 /\ j.tgt = u /\ j.todo = {} /\ j.start = Nobody
      /\ j.at = "go"
  BY DEF Job
<1> HIDE DEF j
<1>6. \A n \in Managers : n # m => Stays(n, t)
  BY <1>2, OthersStay
<1>7. /\ mgr'[m] = j /\ ~Saves(m, t)' /\ ~Kills(m, t)' /\ ~Starts(m, t)'
      /\ Adds(m, t)' <=> d = "add" /\ u = t
  BY <1>2, <1>5, JobAfter, NobodyOut
<1>8. launches[t] = 0 => log'[t] = NoEvent /\ exit'[t] = "none"
  BY <1>2 DEF Tracked, ProcessPart
<1>10. CASE ~(d = "add" /\ u = t)
  <2>1. Stays(m, t)
    BY <1>2, <1>4, <1>7, <1>10 DEF Stays
  <2>2. t \in fresh' <=> t \in fresh
    BY <1>2, <1>10
  <2> QED BY <1>2, <1>6, <1>8, <2>1, <2>2, Away
\* An addition takes a teammate nobody knows.
<1>11. CASE d = "add" /\ u = t
  <2>1. /\ t \in fresh /\ disk[t] = NoRec /\ taken[t] = {}
        /\ \A n \in Managers : cache[n][t] = NoRec /\ Idle(n, t)
    BY <1>1, <1>11 DEF Tracked, FreshPart
  <2>2. /\ t \notin fresh' /\ \A n \in Managers : cache'[n][t] = NoRec
        /\ \A n \in Managers : n # m => Idle(n, t)'
    BY <1>2, <1>6, <1>11, <2>1 DEF Stays, Idle
  <2>3. launches[t] = 0 /\ live[t] = {}
    BY <2>1 DEF Tracked, ProcessPart
  <2>4. ProcessPart(t)' /\ RecordPart(t)' /\ FreshPart(t)'
    BY <1>2, <2>1, <2>2 DEF Tracked, ProcessPart, RecordPart, RecordOK, FreshPart
  <2>5. AddPart(t)'
    BY <1>2, <1>7, <2>1, <2>2, <2>3 DEF AddPart, Private, Idle
  <2>6. StartPart(t)' /\ SavePart(t)' /\ KillPart(t)'
    BY <1>7, <2>2 DEF StartPart, SavePart, KillPart, Idle
  <2>7. TakenPart(t)' /\ FindPart(t)'
    BY <1>2, <2>1, <2>3 DEF TakenPart, FindPart
  <2> QED BY <2>4, <2>5, <2>6, <2>7 DEF Tracked
<1> QED BY <1>10, <1>11

-----------------------------------------------------------------------------
WatchInv == \A t \in Undisturbed : Tracked(t)

\* What has been disturbed stays so.
LEMMA DisturbedStays ==
  ASSUME TypeOK, [Next]_vars
  PROVE  Undisturbed' \subseteq Undisturbed
<1>1. /\ resumed \subseteq resumed' /\ disowned \subseteq disowned'
      /\ \A t \in Teammates : taken[t] \subseteq taken'[t]
  <2>1. ASSUME NEW m \in Managers, NEW t \in Teammates, Takes(m, t)
        PROVE  /\ UNCHANGED <<resumed, disowned>>
               /\ \A u \in Teammates : taken[u] \subseteq taken'[u]
    BY <2>1 DEF Takes, TypeOK
  <2>2. ASSUME NEW m \in Managers, Continue(m)
        PROVE  \/ resumed \subseteq resumed' /\ disowned \subseteq disowned' /\ taken' = taken
               \/ \E t \in Teammates : Takes(m, t)
    BY <2>2 DEF Continue, Work, Look, ReadyFails, ReadyLaunches, AddRejects, Add, Stop,
         Resume, Purge, SaveChecks, SaveWrites, Load, List, Ready, Drain, Spawn, SpawnFails,
         Ensure, Clear, Disband, Bury, PurgeAll, Target, StopKills, Wave, Finish, procs
  <2>3. ASSUME NEW m \in Managers, BeginSome(m) \/ Breach(m) \/ Quit(m)
        PROVE  UNCHANGED <<resumed, disowned, taken>>
    BY <2>3 DEF BeginSome, BeginAdd, BeginWatch, BeginTeam, BeginOne, Begin, Breach, Quit,
         procs
  <2>4. ASSUME NEW u \in Teammates,
               Ends(u) \/ \E r \in Results, torn \in BOOLEAN : Emit(u, r, torn)
        PROVE  UNCHANGED <<resumed, disowned, taken>>
    BY <2>4 DEF Ends, Emit, Exit, Die
  <2> QED BY <2>1, <2>2, <2>3, <2>4 DEF Next, vars
<1> QED BY <1>1 DEF Undisturbed, Contested

LEMMA WatchKept ==
  ASSUME TypeOK, JobInv, WatchInv, [Next]_vars
  PROVE  WatchInv'
<1> SUFFICES ASSUME NEW t \in Teammates, t \in Undisturbed' PROVE Tracked(t)'
  BY DEF WatchInv, Undisturbed
<1>1. t \in Undisturbed
  BY DisturbedStays
<1>2. Tracked(t)
  BY <1>1 DEF WatchInv
<1>3. CASE UNCHANGED vars
  <2>1. UNCHANGED <<disk, fresh, live, launches, log, exit, taken, cache, mgr>>
    BY <1>3 DEF vars
  <2>2. \A n \in Managers : Stays(n, t)
    BY <2>1 DEF Stays, Saves, Kills, Starts, Adds
  <2>3. launches[t] = 0 => log'[t] = NoEvent /\ exit'[t] = "none"
    BY <1>2, <2>1 DEF Tracked, ProcessPart
  <2>4. /\ disk'[t] = disk[t] /\ launches'[t] = launches[t] /\ taken'[t] = taken[t]
        /\ live'[t] \subseteq live[t]
        /\ t \in fresh' <=> t \in fresh
    BY <2>1
  <2> QED BY <1>2, <2>2, <2>3, <2>4, Away
<1>4. ASSUME NEW m \in Managers, Continue(m) PROVE Tracked(t)'
  <2>1. ASSUME NEW u \in Teammates, Work(m, u) PROVE Tracked(t)'
    BY <1>2, <2>1, LookTracked, ReadyFailsTracked, ReadyLaunchesTracked,
       AddRejectsTracked, AddTracked, StopTracked, ResumeTracked, PurgeTracked DEF Work
  <2> QED BY <1>2, <1>4, <2>1, SaveChecksTracked, SaveWritesTracked, ReadsDiskTracked,
             AdvancesTracked, SpawnTracked, SpawnFailsTracked, StopKillsTracked,
             EndsTracked DEF Continue
<1>5. ASSUME NEW m \in Managers, BeginSome(m) \/ Breach(m) \/ Quit(m) PROVE Tracked(t)'
  BY <1>2, <1>5, BeginTracked, AdvancesTracked, EndsTracked
<1>6. ASSUME NEW u \in Teammates,
             Ends(u) \/ \E r \in Results, torn \in BOOLEAN : Emit(u, r, torn)
      PROVE  Tracked(t)'
  BY <1>2, <1>6, ProcessTracked
<1> QED BY <1>3, <1>4, <1>5, <1>6 DEF Next

LEMMA WatchInit ==
  ASSUME Init
  PROVE  WatchInv
<1> SUFFICES ASSUME NEW t \in Teammates PROVE Tracked(t)
  BY DEF WatchInv, Undisturbed
<1>1. /\ disk[t] = NoRec /\ launches[t] = 0 /\ live[t] = {} /\ log[t] = NoEvent
      /\ exit[t] = "none" /\ taken[t] = {}
  BY DEF Init, NoCache
<1>2. ASSUME NEW m \in Managers PROVE cache[m][t] = NoRec /\ Idle(m, t)
  BY <1>2, NobodyOut
     DEF Init, NoCache, Off, Job, Idle, Saves, Kills, Starts, Adds
<1>3. ProcessPart(t) /\ RecordPart(t) /\ FreshPart(t)
  BY <1>1, <1>2, NoRecIs DEF ProcessPart, RecordPart, RecordOK, FreshPart
<1>4. AddPart(t) /\ StartPart(t) /\ SavePart(t) /\ KillPart(t)
  BY <1>2 DEF AddPart, StartPart, SavePart, KillPart, Idle
<1>5. TakenPart(t) /\ FindPart(t)
  BY <1>1 DEF TakenPart, FindPart
<1> QED BY <1>3, <1>4, <1>5 DEF Tracked

LEMMA WatchCorrect == Spec => []WatchInv
<1>1. TypeOK /\ JobInv /\ WatchInv /\ [Next]_vars => WatchInv'
  BY WatchKept
<1>2. Init => WatchInv
  BY WatchInit
<1> QED BY <1>1, <1>2, TypeCorrect, JobsCorrect, PTL DEF Spec

\* `teams stop` can find every undisturbed teammate that runs, and it has one
\* process at a time: for any number of watches, and of commands that add, poll,
\* reap, stop, resume, disband and create the team again at once.
THEOREM StopFindsSafe == Spec => []StopFinds
<1>1. WatchInv => StopFinds
  BY DEF WatchInv, Undisturbed, Tracked, FindPart, StopFinds
<1> QED BY <1>1, WatchCorrect, PTL

\* And no save of what a manager remembers revives an undisturbed teammate that
\* is over.
THEOREM LatchSafe == Spec => TerminalLatch
<1> DEFINE Latch == \A t \in Undisturbed :
                      disk[t].st \in Terminal /\ disk'[t].st # "none"
                        => disk'[t].st \in Terminal
<1>1. TypeOK /\ WatchInv /\ [Next]_vars => [Latch]_vars
  <2> SUFFICES ASSUME TypeOK, WatchInv, Next, NEW t \in Teammates, t \in Undisturbed,
                      disk[t].st \in Terminal, disk'[t].st # "none"
               PROVE  disk'[t].st \in Terminal
    BY DEF Latch, Undisturbed
  <2>1. ASSUME NEW m \in Managers, SaveWrites(m) PROVE disk'[t].st \in Terminal
    <3>1. disk' = [disk EXCEPT ![mgr[m].who] = cache[m][mgr[m].who]] /\ mgr[m].at = "write"
      BY <2>1 DEF SaveWrites
    <3>2. CASE mgr[m].who # t
      BY <3>1, <3>2 DEF TypeOK
    <3>3. CASE mgr[m].who = t
      <4>1. Saves(m, t) /\ disk'[t] = cache[m][t]
        BY <3>1, <3>3 DEF Saves, TypeOK
      <4>2. cache[m][t].st \in Statuses /\ disk[t].st \notin {"none", "pending"}
        BY CacheType DEF Terminal
      <4>3. cache[m][t].st \notin {"none", "pending", "running"}
        BY <4>1, <4>2, NoRecIs DEF WatchInv, Tracked, SavePart, Private
      <4> QED BY <4>1, <4>2, <4>3 DEF Statuses
    <3> QED BY <3>2, <3>3
  <2>2. ASSUME NEW m \in Managers, NEW u \in Teammates, Purge(m, u)
        PROVE  disk'[t].st \in Terminal
    BY <2>2, NoRecIs DEF Purge, TypeOK
  <2>3. ASSUME UNCHANGED disk PROVE disk'[t].st \in Terminal
    BY <2>3
  <2>4. ASSUME NEW m \in Managers, Continue(m) PROVE disk'[t].st \in Terminal
    BY <2>1, <2>2, <2>3, <2>4
       DEF Continue, Work, Look, ReadyFails, ReadyLaunches, AddRejects, Add, Stop, Resume,
           Takes, SaveChecks, Load, List, Ready, Drain, Spawn, SpawnFails, Ensure, Clear,
           Disband, Bury, PurgeAll, Target, StopKills, Wave, Finish, files
  <2>5. ASSUME NEW m \in Managers, BeginSome(m) \/ Breach(m) \/ Quit(m)
        PROVE  UNCHANGED disk
    BY <2>5 DEF BeginSome, BeginAdd, BeginWatch, BeginTeam, BeginOne, Begin, Breach, Quit,
         files
  <2>6. ASSUME NEW u \in Teammates,
               Ends(u) \/ \E r \in Results, torn \in BOOLEAN : Emit(u, r, torn)
        PROVE  UNCHANGED disk
    BY <2>6 DEF Ends, Emit, Exit, Die, files
  <2> QED BY <2>3, <2>4, <2>5, <2>6 DEF Next
<1> QED BY <1>1, TypeCorrect, WatchCorrect, PTL DEF Spec, TerminalLatch, Latch
==============================================================================
