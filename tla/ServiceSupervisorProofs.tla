----------------------- MODULE ServiceSupervisorProofs -----------------------
(***************************************************************************)
(* Proofs about ServiceSupervisor, for every set of services and every     *)
(* sequence of signals.                                                    *)
(*                                                                         *)
(* Every action but the daemon's own moves one entry by a composition of   *)
(* the private methods.  The proofs follow that structure: one lemma per   *)
(* method says that it maps an entry that is well typed and satisfies the  *)
(* three entry invariants to another one; the actions then follow.         *)
(***************************************************************************)
EXTENDS ServiceSupervisor, TLAPS

BaseOK(e)  == e \in Entry /\ GuardOK(e) /\ EdgesOK(e)
EntryOK(e) == BaseOK(e) /\ RetryOK(e)

LEMMA FreshTickType ==
  ASSUME NEW e
  PROVE  FreshTick(e) \in TickIds /\ FreshTick(e) # e.orphan
BY TickIdsAssumption DEF FreshTick

LEMMA RecordFailureOK ==
  ASSUME NEW e, BaseOK(e)
  PROVE  /\ BaseOK(RecordFailure(e))
         /\ RetryOK(e) => EntryOK(RecordFailure(e))
         /\ RecordFailure(e).inFlight = e.inFlight
         /\ RecordFailure(e).activeTick = e.activeTick
<1> DEFINE f == IF e.failures < ParkAfter THEN e.failures + 1 ELSE e.failures
<1>1. e \in Entry /\ f \in 0 .. ParkAfter
  BY BoundsAssumption DEF BaseOK, Entry
<1>2. RecordFailure(e) = [e EXCEPT !.failures = f]
  BY DEF RecordFailure
<1> HIDE DEF f
<1>3. RecordFailure(e) \in Entry
  BY <1>1, <1>2 DEF Entry
<1> QED BY <1>1, <1>2, <1>3 DEF BaseOK, EntryOK, Entry, GuardOK, EdgesOK, RetryOK, Pending

\* Whatever the entry was, after scheduleRestart() a retry is pending.
LEMMA ScheduleRestartOK ==
  ASSUME NEW e, BaseOK(e)
  PROVE  EntryOK(ScheduleRestart(e))
<1> DEFINE n == IF e.restartTimer = "armed" THEN e.strayRestart + 1 ELSE e.strayRestart
<1>1. e \in Entry /\ n \in Nat
  BY DEF BaseOK, Entry
<1>2. ScheduleRestart(e) = [e EXCEPT !.restartTimer = "armed", !.strayRestart = n]
  BY DEF ScheduleRestart
<1> HIDE DEF n
<1>3. ScheduleRestart(e) \in Entry
  BY <1>1, <1>2 DEF Entry
<1> QED BY <1>1, <1>2, <1>3 DEF BaseOK, EntryOK, Entry, GuardOK, EdgesOK, RetryOK, Pending

LEMMA RetryIfParkedOK ==
  ASSUME NEW e, BaseOK(e)
  PROVE  EntryOK(RetryIfParked(e))
<1>1. CASE e.state = "parked" /\ e.restartTimer = "none"
  BY <1>1, ScheduleRestartOK DEF RetryIfParked
<1>2. CASE ~(e.state = "parked" /\ e.restartTimer = "none")
  <2>1. RetryIfParked(e) = e
    BY <1>2 DEF RetryIfParked
  <2> QED BY <1>2, <2>1 DEF BaseOK, EntryOK, Entry, RetryOK, Pending
<1> QED BY <1>1, <1>2

LEMMA ScheduleTimerOK ==
  ASSUME NEW e, EntryOK(e)
  PROVE  EntryOK(ScheduleTimer(e)) /\ ScheduleTimer(e).resumed = e.resumed
<1> DEFINE n == IF e.timer THEN e.leaked + 1 ELSE e.leaked
<1>1. e \in Entry /\ n \in Nat
  BY DEF BaseOK, EntryOK, Entry
<1>2. ScheduleTimer(e) = [e EXCEPT !.timer = TRUE, !.leaked = n]
  BY DEF ScheduleTimer
<1> HIDE DEF n
<1>3. ScheduleTimer(e) \in Entry
  BY <1>1, <1>2 DEF Entry
<1> QED BY <1>1, <1>2, <1>3 DEF BaseOK, EntryOK, Entry, GuardOK, EdgesOK, RetryOK, Pending

LEMMA ParkOK ==
  ASSUME NEW e, EntryOK(e)
  PROVE  /\ EntryOK(Park(e))
         /\ Park(e).inFlight = e.inFlight
         /\ Park(e).activeTick = e.activeTick
<1> DEFINE p == [e EXCEPT !.state = "parked", !.timer = FALSE]
<1>1. CASE e.state \in {"parked", "stopped"}
  BY <1>1 DEF Park
<1>2. CASE e.state \notin {"parked", "stopped"}
  <2>1. BaseOK(p) /\ p.inFlight = e.inFlight /\ p.activeTick = e.activeTick
    BY <1>2 DEF BaseOK, EntryOK, Entry, States, GuardOK, EdgesOK
  <2>2. CASE e.inFlight
    <3>1. Park(e) = p
      BY <1>2, <2>2 DEF Park
    <3> QED BY <2>1, <2>2, <3>1 DEF EntryOK, RetryOK
  <2>3. CASE ~e.inFlight
    <3>1. Park(e) = ScheduleRestart(p)
      BY <1>2, <2>3 DEF Park
    <3>2. EntryOK(Park(e))
      BY <2>1, <3>1, ScheduleRestartOK
    <3>3. ScheduleRestart(p).inFlight = p.inFlight
          /\ ScheduleRestart(p).activeTick = p.activeTick
      BY <2>1 DEF ScheduleRestart, BaseOK, Entry
    <3> QED BY <2>1, <3>1, <3>2, <3>3
  <2> QED BY <2>2, <2>3
<1> QED BY <1>1, <1>2

LEMMA RunTickOK ==
  ASSUME NEW e, EntryOK(e), e.resumed = <<>>
  PROVE  EntryOK(RunTick(e))
<1>1. CASE e.state # "running" \/ e.inFlight
  BY <1>1 DEF RunTick
<1>2. CASE e.state = "running" /\ ~e.inFlight
  <2> DEFINE t == FreshTick(e)
  <2>1. t \in TickIds /\ t # e.orphan /\ t # NoTick
    BY FreshTickType, TickIdsAssumption
  <2>2. RunTick(e) = [e EXCEPT !.inFlight = TRUE, !.activeTick = t,
                               !.aborted = e.aborted \ {t}]
    BY <1>2 DEF RunTick
  <2> HIDE DEF t
  <2>3. RunTick(e) \in Entry
    BY <2>1, <2>2 DEF BaseOK, EntryOK, Entry
  <2> QED BY <1>2, <2>1, <2>2, <2>3 DEF BaseOK, EntryOK, Entry, GuardOK, EdgesOK, RetryOK
<1> QED BY <1>1, <1>2

LEMMA SeqTypes ==
  ASSUME NEW q \in Seq(Ops), NEW r \in Seq(Ops)
  PROVE  /\ q \o r \in Seq(Ops) /\ <<>> \in Seq(Ops)
         /\ q # <<>> => Tail(q) \in Seq(Ops) /\ Head(q) \in Ops
         /\ q \o <<>> = q /\ <<>> \o q = q
OBVIOUS

\* Dropping the active tick and the guard together, whatever the signals.
LEMMA ReleaseOK ==
  ASSUME NEW e, BaseOK(e), NEW ab \in SUBSET TickIds, NEW o \in TickIds \cup {NoTick},
         o # NoTick => o \in ab
  PROVE  BaseOK(ClearInFlight([e EXCEPT !.aborted = ab, !.orphan = o, !.activeTick = NoTick]))
<1> DEFINE w == e.resumed \o e.waiters
           c == [e EXCEPT !.aborted = ab, !.orphan = o, !.activeTick = NoTick]
           r == [e EXCEPT !.aborted = ab, !.orphan = o, !.activeTick = NoTick,
                          !.inFlight = FALSE, !.resumed = w, !.waiters = <<>>]
<1>1. e \in Entry /\ w \in Seq(Ops) /\ <<>> \in Seq(Ops)
  BY SeqTypes DEF BaseOK, Entry
<1>2. ClearInFlight(c) = r
  BY <1>1 DEF ClearInFlight, Entry
<1> HIDE DEF w
<1>3. r \in Entry
  BY <1>1 DEF Entry
<1>4. BaseOK(r)
  BY <1>1, <1>3, TickIdsAssumption DEF BaseOK, Entry, GuardOK, EdgesOK
<1> QED BY <1>2, <1>4

LEMMA FinishTickOK ==
  ASSUME NEW e, BaseOK(e), e.inFlight
  PROVE  EntryOK(FinishTick(e, e.activeTick))
<1> DEFINE c == [e EXCEPT !.aborted = e.aborted, !.orphan = e.orphan, !.activeTick = NoTick]
<1>1. e \in Entry
  BY DEF BaseOK
<1>2. BaseOK(ClearInFlight(c))
  <2>1. e.aborted \in SUBSET TickIds /\ e.orphan \in TickIds \cup {NoTick}
        /\ (e.orphan # NoTick => e.orphan \in e.aborted)
    BY <1>1 DEF BaseOK, Entry, GuardOK
  <2> QED BY <2>1, ReleaseOK
<1>3. c = [e EXCEPT !.activeTick = NoTick]
  BY <1>1 DEF Entry
<1>4. FinishTick(e, e.activeTick) = RetryIfParked(ClearInFlight(c))
  BY <1>3 DEF FinishTick
<1> QED BY <1>2, <1>4, RetryIfParkedOK

LEMMA AbandonTickOK ==
  ASSUME NEW e, BaseOK(e), e.inFlight
  PROVE  EntryOK(AbandonTick(e))
<1> DEFINE ab == e.aborted \cup {e.activeTick}
           c == [e EXCEPT !.aborted = ab, !.orphan = e.activeTick, !.activeTick = NoTick]
<1>1. ab \in SUBSET TickIds /\ e.activeTick \in TickIds \cup {NoTick} /\ e.activeTick \in ab
  BY DEF BaseOK, Entry, GuardOK
<1>2. BaseOK(ClearInFlight(c))
  <2> HIDE DEF ab
  <2> QED BY <1>1, ReleaseOK
<1>3. AbandonTick(e) = RetryIfParked(ClearInFlight(c))
  BY DEF AbandonTick
<1> QED BY <1>2, <1>3, RetryIfParkedOK

LEMMA StartupElapsedOK ==
  ASSUME NEW s, NEW e, EntryOK(e), e.resumed = <<>>
  PROVE  EntryOK(StartupElapsed(s, e)) /\ EntryOK(BeginTicking(s, e))
BY ScheduleTimerOK, RunTickOK DEF StartupElapsed, BeginTicking

LEMMA StartedOK ==
  ASSUME NEW s, NEW e, EntryOK(e), e.resumed = <<>>
  PROVE  EntryOK(Started(s, e))
<1> DEFINE up == [e EXCEPT !.everStarted = TRUE, !.state = "running"]
           n  == IF e.startupTimer THEN e.strayStartup + 1 ELSE e.strayStartup
           d  == [up EXCEPT !.startupTimer = TRUE, !.strayStartup = n]
<1>1. e \in Entry /\ n \in Nat
  BY DEF BaseOK, EntryOK, Entry
<1>2. EntryOK(up) /\ up.resumed = <<>>
  BY DEF BaseOK, EntryOK, Entry, States, GuardOK, EdgesOK, RetryOK
<1>3. CASE s \in Delayed
  <2>1. Started(s, e) = d
    BY <1>3, <1>1 DEF Started, Entry
  <2>2. EntryOK(d)
    <3> HIDE DEF n, up
    <3>1. up \in Entry
      BY <1>2 DEF BaseOK, EntryOK
    <3>2. d \in Entry
      BY <3>1, <1>1 DEF Entry
    <3> QED BY <1>2, <3>1, <3>2 DEF BaseOK, EntryOK, Entry, GuardOK, EdgesOK, RetryOK, Pending
  <2> QED BY <2>1, <2>2
<1>4. CASE s \notin Delayed
  <2>1. Started(s, e) = BeginTicking(s, up)
    BY <1>4 DEF Started
  <2> HIDE DEF up
  <2> QED BY <1>2, <2>1, StartupElapsedOK
<1> QED BY <1>3, <1>4

LEMMA StopOneOK ==
  ASSUME NEW e, EntryOK(e)
  PROVE  EntryOK(StopOne(e))
<1> DEFINE ab == e.aborted \cup ({e.activeTick} \ {NoTick})
           w  == e.resumed \o e.waiters
           q  == [e EXCEPT !.timer = FALSE, !.restartTimer = "none",
                           !.startupTimer = FALSE, !.state = "stopped",
                           !.revived = FALSE, !.aborted = ab]
           r  == [e EXCEPT !.timer = FALSE, !.restartTimer = "none",
                           !.startupTimer = FALSE, !.state = "stopped",
                           !.revived = FALSE, !.aborted = ab,
                           !.resumed = w, !.waiters = <<>>]
<1>1. e \in Entry /\ ab \in SUBSET TickIds /\ w \in Seq(Ops) /\ <<>> \in Seq(Ops)
  BY SeqTypes DEF BaseOK, EntryOK, Entry
<1>2. e.aborted \subseteq ab /\ (e.activeTick # NoTick => e.activeTick \in ab)
  OBVIOUS
<1>3. StopOne(e) = IF e.inFlight THEN r ELSE q
  BY <1>1 DEF StopOne, Entry
<1> HIDE DEF ab, w
<1>4. q \in Entry /\ r \in Entry
  BY <1>1 DEF Entry, States
<1>5. GuardOK(q) /\ GuardOK(r) /\ RetryOK(q) /\ RetryOK(r)
  BY <1>1, <1>2 DEF BaseOK, EntryOK, Entry, GuardOK, RetryOK
<1>6. CASE e.inFlight
  <2>1. EdgesOK(r)
    BY <1>1, <1>6 DEF Entry, EdgesOK
  <2> QED BY <1>3, <1>4, <1>5, <1>6, <2>1 DEF BaseOK, EntryOK
<1>7. CASE ~e.inFlight
  <2>1. EdgesOK(q)
    BY <1>1, <1>7 DEF BaseOK, EntryOK, Entry, EdgesOK
  <2> QED BY <1>3, <1>4, <1>5, <1>7, <2>1 DEF BaseOK, EntryOK
<1> QED BY <1>6, <1>7

\* attemptRestart() on a stopped entry is a no-op; otherwise a restart is
\* pending, so nothing is asked of RetryOK.
LEMMA AttemptRestartOK ==
  ASSUME NEW e, BaseOK(e)
  PROVE  EntryOK(AttemptRestart(e))
<1>1. CASE e.state = "stopped"
  BY <1>1 DEF AttemptRestart, EntryOK, RetryOK
<1>2. CASE e.state # "stopped"
  <2>1. e \in Entry /\ e.restarting + 1 \in Nat /\ e.restarting + 1 > 0
    BY DEF BaseOK, Entry
  <2>2. AttemptRestart(e) = [e EXCEPT !.restarting = e.restarting + 1]
    BY <1>2 DEF AttemptRestart
  <2>3. AttemptRestart(e) \in Entry
    BY <2>1, <2>2 DEF Entry
  <2> QED BY <2>1, <2>2, <2>3 DEF BaseOK, EntryOK, Entry, GuardOK, EdgesOK, RetryOK, Pending
<1> QED BY <1>1, <1>2

LEMMA RestartOneOK ==
  ASSUME NEW e, EntryOK(e), ~e.inFlight
  PROVE  EntryOK(RestartOne(e))
<1> DEFINE p == [e EXCEPT !.timer = FALSE, !.startupTimer = FALSE,
                          !.restartTimer = "none", !.state = "parked"]
<1>1. BaseOK(p)
  BY DEF BaseOK, EntryOK, Entry, States, GuardOK, EdgesOK
<1>2. RestartOne(e) = AttemptRestart(p)
  BY DEF RestartOne
<1> HIDE DEF p
<1> QED BY <1>1, <1>2, AttemptRestartOK

-----------------------------------------------------------------------------
(* The actions. *)

EntriesOK == entry \in [Services -> Entry] /\ \A s \in Services : EntryOK(entry[s])

LEMMA ResumeOK ==
  ASSUME NEW s \in Services, EntryOK(entry[s]), entry[s].resumed # <<>>
  PROVE  EntryOK(Resume(s))
<1> DEFINE tl == Tail(entry[s].resumed)
           op == Head(entry[s].resumed)
           e  == [entry[s] EXCEPT !.resumed = tl]
           n  == IF e.everStarted THEN e.stopping + 1 ELSE e.stopping
<1>1. tl \in Seq(Ops) /\ op \in Ops /\ entry[s] \in Entry
  BY SeqTypes DEF BaseOK, EntryOK, Entry
<1>2. EntryOK(e)
  <2> HIDE DEF tl
  <2>1. e \in Entry
    BY <1>1 DEF Entry
  <2> QED BY <1>1, <2>1 DEF BaseOK, EntryOK, Entry, GuardOK, EdgesOK, RetryOK, Pending
<1>3. e \in Entry /\ e.starting + 1 \in Nat /\ n \in Nat
  <2>1. e \in Entry
    BY <1>2 DEF EntryOK, BaseOK
  <2> HIDE DEF e
  <2> QED BY <2>1 DEF Entry
<1>4. CASE op = "start"
  <2>1. CASE e.state = "running" \/ e.inFlight
    <3>1. Resume(s) = e
      BY <1>4, <2>1 DEF Resume
    <3> QED BY <1>2, <3>1
  <2>2. CASE ~(e.state = "running" \/ e.inFlight)
    <3>1. Resume(s) = [e EXCEPT !.starting = e.starting + 1]
      BY <1>4, <2>2 DEF Resume
    <3> HIDE DEF e
    <3>2. Resume(s) \in Entry
      BY <1>3, <3>1 DEF Entry
    <3> QED BY <1>2, <1>3, <3>1, <3>2
            DEF BaseOK, EntryOK, Entry, GuardOK, EdgesOK, RetryOK, Pending
  <2> QED BY <2>1, <2>2
<1>5. CASE op = "stop"
  <2>1. CASE e.state = "stopped" \/ e.inFlight
    <3>1. Resume(s) = e
      BY <1>5, <2>1 DEF Resume
    <3> QED BY <1>2, <3>1
  <2>2. CASE ~(e.state = "stopped" \/ e.inFlight)
    <3>1. Resume(s) = StopOne([e EXCEPT !.stopping = n])
      BY <1>5, <2>2 DEF Resume
    <3>2. EntryOK([e EXCEPT !.stopping = n])
      <4> HIDE DEF e, n
      <4>1. [e EXCEPT !.stopping = n] \in Entry
        BY <1>3 DEF Entry
      <4> QED BY <1>2, <1>3, <4>1 DEF BaseOK, EntryOK, Entry, GuardOK, EdgesOK, RetryOK, Pending
    <3> HIDE DEF e, n
    <3> QED BY <3>1, <3>2, StopOneOK
  <2> QED BY <2>1, <2>2
<1>6. CASE op = "restart"
  <2>1. CASE e.inFlight
    <3>1. Resume(s) = e
      BY <1>6, <2>1 DEF Resume
    <3> QED BY <1>2, <3>1
  <2>2. CASE ~e.inFlight
    <3>1. Resume(s) = RestartOne(e)
      BY <1>6, <2>2 DEF Resume
    <3> HIDE DEF e
    <3> QED BY <1>2, <2>2, <3>1, RestartOneOK
  <2> QED BY <2>1, <2>2
<1> QED BY <1>1, <1>4, <1>5, <1>6 DEF Ops

LEMMA StepOK ==
  ASSUME EntriesOK, NEW s \in Services, NEW e, EntryOK(e), Step(s, e)
  PROVE  EntriesOK'
<1>1. e \in Entry
  BY DEF EntryOK, BaseOK
<1>2. entry' \in [Services -> Entry]
  BY <1>1 DEF EntriesOK, Step
<1>3. ASSUME NEW u \in Services PROVE EntryOK(entry'[u])
  BY DEF EntriesOK, Step
<1> QED BY <1>2, <1>3 DEF EntriesOK

LEMMA InitOK == Init => EntriesOK
<1> SUFFICES ASSUME Init, NEW s \in Services PROVE EntryOK(NewEntry(s))
  BY DEF Init, EntriesOK, EntryOK, BaseOK
<1>1. NewEntry(s) \in Entry
  BY BoundsAssumption, SeqTypes DEF NewEntry, Entry, States
<1> QED BY <1>1 DEF NewEntry, EntryOK, BaseOK, GuardOK, EdgesOK, RetryOK

\* A continuation runs first: elsewhere the queue of s is empty.
LEMMA TurnOK ==
  ASSUME EntriesOK, NEW s \in Services
  PROVE  /\ EntryOK(entry[s]) /\ entry[s] \in Entry
         /\ Turn => entry[s].resumed = <<>>
BY DEF EntriesOK, EntryOK, BaseOK, Turn, Drained

LEMMA CountersOK ==
  ASSUME NEW e, EntryOK(e), NEW n \in Nat, NEW b \in BOOLEAN
  PROVE  /\ EntryOK([e EXCEPT !.starting = n])
         /\ EntryOK([e EXCEPT !.stopping = n])
         /\ EntryOK([e EXCEPT !.startupTimer = b])
         /\ \A v \in BOOLEAN :
              EntryOK([e EXCEPT !.startupTimer = b, !.strayStartup = n, !.revived = v])
<1>1. /\ [e EXCEPT !.starting = n] \in Entry
      /\ [e EXCEPT !.stopping = n] \in Entry
      /\ [e EXCEPT !.startupTimer = b] \in Entry
      /\ \A v \in BOOLEAN :
           [e EXCEPT !.startupTimer = b, !.strayStartup = n, !.revived = v] \in Entry
  BY DEF EntryOK, BaseOK, Entry
<1>2. EntryOK([e EXCEPT !.starting = n]) /\ EntryOK([e EXCEPT !.stopping = n])
  BY <1>1 DEF BaseOK, EntryOK, Entry, GuardOK, EdgesOK, RetryOK, Pending
<1>3. EntryOK([e EXCEPT !.startupTimer = b])
  BY <1>1 DEF BaseOK, EntryOK, Entry, GuardOK, EdgesOK, RetryOK, Pending
<1>4. ASSUME NEW v \in BOOLEAN
      PROVE  EntryOK([e EXCEPT !.startupTimer = b, !.strayStartup = n, !.revived = v])
  <2> DEFINE z == [e EXCEPT !.startupTimer = b, !.strayStartup = n, !.revived = v]
  <2>1. z \in Entry
    BY <1>1
  <2> QED BY <2>1 DEF BaseOK, EntryOK, Entry, GuardOK, EdgesOK, RetryOK, Pending
<1> QED BY <1>2, <1>3, <1>4

LEMMA StartEndsOK ==
  ASSUME EntriesOK, NEW s \in Services, StartEnds(s)
  PROVE  EntriesOK'
<1>1. entry[s].starting - 1 \in Nat /\ entry[s].resumed = <<>>
  BY TurnOK DEF StartEnds, StartSucceeds, StartFails, StartSettles, Entry
<1>2. EntryOK(Returned(s)) /\ Returned(s).resumed = <<>>
  BY <1>1, TurnOK, CountersOK DEF Returned, Entry
<1>3. EntryOK(Started(s, Returned(s)))
  BY <1>2, StartedOK
<1>4. EntryOK(Park(RecordFailure(Returned(s))))
  BY <1>2, RecordFailureOK, ParkOK DEF EntryOK
<1> QED BY <1>3, <1>4, StepOK DEF StartEnds, StartSucceeds, StartFails, StartSettles

LEMMA TickEndsOK ==
  ASSUME EntriesOK, NEW s \in Services, TickEnds(s)
  PROVE  EntriesOK'
<1> USE TurnOK
<1>0. EntryOK(entry[s]) /\ entry[s] \in Entry /\ entry[s].inFlight
  BY DEF TickEnds, TickSucceeds, TickThrows, TickDeadline, Guarded
<1> DEFINE failed == RecordFailure(entry[s])
<1>1. CASE TickSucceeds(s)
  <2> DEFINE e == [entry[s] EXCEPT !.failures = 0]
  <2>1. e \in Entry
    <3>1. 0 \in 0 .. ParkAfter
      BY BoundsAssumption
    <3> QED BY <1>0, <3>1 DEF Entry
  <2>2. BaseOK(e) /\ e.inFlight /\ e.activeTick = entry[s].activeTick
    BY <1>0, <2>1 DEF EntryOK, BaseOK, Entry, GuardOK, EdgesOK
  <2>3. EntryOK(FinishTick(e, entry[s].activeTick))
    <3> HIDE DEF e
    <3> QED BY <2>2, FinishTickOK
  <2> QED BY <1>1, <2>3, StepOK DEF TickSucceeds
<1>2. CASE TickThrows(s)
  <2> DEFINE e == IF failed.failures >= ParkAfter THEN Park(failed) ELSE failed
  <2>1. EntryOK(failed) /\ failed.inFlight /\ failed.activeTick = entry[s].activeTick
    BY <1>0, RecordFailureOK DEF EntryOK
  <2> HIDE DEF failed
  <2>2. EntryOK(e) /\ e.inFlight /\ e.activeTick = entry[s].activeTick
    BY <2>1, ParkOK
  <2> HIDE DEF e
  <2>3. EntryOK(FinishTick(e, entry[s].activeTick))
    BY <2>2, FinishTickOK DEF EntryOK
  <2> USE DEF e, failed
  <2> QED BY <1>2, <2>3, StepOK DEF TickThrows
<1>3. CASE TickDeadline(s)
  <2>1. EntryOK(Park(failed)) /\ Park(failed).inFlight
    BY <1>0, RecordFailureOK, ParkOK DEF EntryOK
  <2>2. EntryOK(AbandonTick(Park(failed)))
    BY <2>1, AbandonTickOK DEF EntryOK
  <2> QED BY <1>3, <2>2, StepOK DEF TickDeadline
<1> QED BY <1>1, <1>2, <1>3 DEF TickEnds

LEMMA TimerFiresOK ==
  ASSUME EntriesOK, NEW s \in Services, TimerFires(s)
  PROVE  EntriesOK'
<1> USE TurnOK
<1>0. EntryOK(entry[s]) /\ entry[s] \in Entry /\ entry[s].resumed = <<>>
  BY DEF TimerFires, StartupTimerFires, StrayStartupFires, RestartTimerFires, StrayRestartFires
<1>1. CASE StartupTimerFires(s)
  <2> DEFINE e == [entry[s] EXCEPT !.startupTimer = FALSE]
  <2>1. EntryOK(e) /\ e.resumed = <<>>
    BY <1>0, CountersOK DEF Entry
  <2>2. EntryOK(StartupElapsed(s, e))
    <3> HIDE DEF e
    <3> QED BY <2>1, StartupElapsedOK
  <2> QED BY <1>1, <2>2, StepOK DEF StartupTimerFires
<1>2. CASE StrayStartupFires(s)
  <2> DEFINE n == IF entry[s].startupTimer THEN entry[s].strayStartup
                  ELSE entry[s].strayStartup - 1
             v == entry[s].revived \/ entry[s].state = "stopped"
             e == [entry[s] EXCEPT !.startupTimer = FALSE, !.strayStartup = n,
                                   !.revived = v]
  <2>1. n \in Nat /\ v \in BOOLEAN
    BY <1>0, <1>2 DEF StrayStartupFires, Entry
  <2>2. EntryOK(e) /\ e.resumed = <<>>
    <3> HIDE DEF n, v
    <3> QED BY <1>0, <2>1, CountersOK DEF Entry
  <2>3. EntryOK(StartupElapsed(s, e))
    <3> HIDE DEF e
    <3> QED BY <2>2, StartupElapsedOK
  <2>4. Step(s, StartupElapsed(s, e))
    BY <1>2 DEF StrayStartupFires
  <2> QED BY <2>3, <2>4, StepOK
<1>3. CASE RestartTimerFires(s)
  <2> DEFINE e == [entry[s] EXCEPT !.restartTimer = "fired"]
  <2>1. BaseOK(e)
    BY <1>0 DEF EntryOK, BaseOK, Entry, GuardOK, EdgesOK
  <2>2. EntryOK(AttemptRestart(e))
    <3> HIDE DEF e
    <3> QED BY <2>1, AttemptRestartOK
  <2> QED BY <1>3, <2>2, StepOK DEF RestartTimerFires
<1>4. CASE StrayRestartFires(s)
  <2> DEFINE e == [entry[s] EXCEPT !.strayRestart = entry[s].strayRestart - 1]
  <2>1. BaseOK(e)
    <3>1. entry[s].strayRestart - 1 \in Nat
      BY <1>0, <1>4 DEF StrayRestartFires, Entry
    <3>2. e \in Entry
      BY <1>0, <3>1 DEF Entry
    <3> QED BY <1>0, <3>2 DEF EntryOK, BaseOK, Entry, GuardOK, EdgesOK
  <2>2. EntryOK(AttemptRestart(e))
    <3> HIDE DEF e
    <3> QED BY <2>1, AttemptRestartOK
  <2> QED BY <1>4, <2>2, StepOK DEF StrayRestartFires
<1> QED BY <1>1, <1>2, <1>3, <1>4 DEF TimerFires

LEMMA RestartEndsOK ==
  ASSUME EntriesOK, NEW s \in Services, RestartEnds(s)
  PROVE  EntriesOK'
<1> USE TurnOK
<1>0. /\ EntryOK(entry[s]) /\ entry[s] \in Entry /\ entry[s].resumed = <<>>
      /\ entry[s].restarting - 1 \in Nat
  BY DEF RestartEnds, RestartSucceeds, RestartFails, Entry
<1>1. CASE RestartSucceeds(s)
  <2> DEFINE e == [entry[s] EXCEPT !.restarting = entry[s].restarting - 1,
                                   !.everStarted = TRUE, !.state = "running",
                                   !.failures = 0]
  <2>1. e \in Entry
    <3>1. 0 \in 0 .. ParkAfter
      BY BoundsAssumption
    <3> QED BY <1>0, <3>1 DEF Entry, States
  <2>2. EntryOK(e) /\ e.resumed = <<>>
    BY <1>0, <2>1 DEF EntryOK, BaseOK, Entry, GuardOK, EdgesOK, RetryOK
  <2>3. EntryOK(BeginTicking(s, e))
    <3> HIDE DEF e
    <3> QED BY <2>2, StartupElapsedOK
  <2> QED BY <1>1, <2>3, StepOK DEF RestartSucceeds
<1>2. CASE RestartFails(s)
  <2> DEFINE e == [entry[s] EXCEPT !.restarting = entry[s].restarting - 1,
                                   !.state = "parked"]
  <2>1. e \in Entry
    BY <1>0 DEF Entry, States
  <2>2. BaseOK(e)
    BY <1>0, <2>1 DEF EntryOK, BaseOK, Entry, GuardOK, EdgesOK
  <2>3. EntryOK(ScheduleRestart(RecordFailure(e)))
    <3> HIDE DEF e
    <3> QED BY <2>2, RecordFailureOK, ScheduleRestartOK
  <2> QED BY <1>2, <2>3, StepOK DEF RestartFails
<1> QED BY <1>1, <1>2 DEF RestartEnds

LEMMA ServiceStepOK ==
  ASSUME EntriesOK, NEW s \in Services, ServiceStep(s)
  PROVE  EntriesOK'
<1> USE TurnOK
<1>1. CASE BootStart(s)
  BY <1>1, CountersOK, StepOK DEF BootStart
<1>2. CASE IntervalFires(s) \/ RunNow(s)
  BY <1>2, RunTickOK, StepOK DEF IntervalFires, RunNow
<1>3. CASE OrphanSettles(s)
  <2> DEFINE e == [entry[s] EXCEPT !.orphan = NoTick]
  <2>1. e \in Entry
    BY DEF Entry
  <2>2. EntryOK(e)
    BY <2>1 DEF EntryOK, BaseOK, Entry, GuardOK, EdgesOK, RetryOK, Pending
  <2> QED BY <1>3, <2>2, StepOK DEF OrphanSettles
<1>4. CASE RunResumed(s)
  BY <1>4, ResumeOK, StepOK DEF RunResumed
<1>5. CASE StopSettles(s)
  <2>1. entry[s].stopping - 1 \in Nat
    BY <1>5 DEF StopSettles, Entry
  <2> QED BY <1>5, <2>1, CountersOK, StepOK DEF StopSettles
<1>6. CASE ShutdownStop(s)
  BY <1>6, StopOneOK, StepOK DEF ShutdownStop
<1> QED BY <1>1, <1>2, <1>3, <1>4, <1>5, <1>6,
           StartEndsOK, TickEndsOK, TimerFiresOK, RestartEndsOK DEF ServiceStep

LEMMA ReloadOK ==
  ASSUME EntriesOK, NEW toggled, NEW restarts, Reload(toggled, restarts)
  PROVE  EntriesOK'
<1> DEFINE ask(s) == Asks(s, toggled, restarts)
           wait(s) == [entry[s] EXCEPT !.waiters = entry[s].waiters \o ask(s)]
           due(s)  == [entry[s] EXCEPT !.resumed = entry[s].resumed \o ask(s)]
<1>1. entry' = [s \in Services |-> IF entry[s].inFlight THEN wait(s) ELSE due(s)]
  BY DEF Reload
<1>2. ASSUME NEW s \in Services
      PROVE  EntryOK(IF entry[s].inFlight THEN wait(s) ELSE due(s))
  <2> DEFINE w == entry[s].waiters \o ask(s)
             r == entry[s].resumed \o ask(s)
  <2>1. EntryOK(entry[s]) /\ entry[s] \in Entry
    BY TurnOK
  <2>2. ask(s) \in Seq(Ops)
    <3>1. \A op \in Ops : <<op>> \in Seq(Ops)
      OBVIOUS
    <3>2. /\ "stop" \in Ops /\ "start" \in Ops /\ "restart" \in Ops
          /\ <<>> \in Seq(Ops)
      BY SeqTypes DEF Ops
    <3> DEFINE toggle == IF s \notin toggled THEN <<>>
                         ELSE IF enabled[s] THEN <<"stop">> ELSE <<"start">>
               again  == IF s \in restarts THEN <<"restart">> ELSE <<>>
    <3>3. toggle \in Seq(Ops) /\ again \in Seq(Ops)
      BY <3>1, <3>2
    <3>4. ask(s) = toggle \o again
      BY DEF Asks
    <3> HIDE DEF toggle, again, ask
    <3> QED BY <3>3, <3>4, SeqTypes
  <2>3. w \in Seq(Ops) /\ r \in Seq(Ops)
    <3> HIDE DEF ask
    <3> QED BY <2>1, <2>2, SeqTypes DEF Entry
  <2>4. CASE entry[s].inFlight
    <3> HIDE DEF w
    <3>1. [entry[s] EXCEPT !.waiters = w] \in Entry
      BY <2>1, <2>3 DEF Entry
    <3>2. EntryOK([entry[s] EXCEPT !.waiters = w])
      BY <2>1, <2>4, <3>1 DEF EntryOK, BaseOK, Entry, GuardOK, EdgesOK, RetryOK, Pending
    <3> USE DEF w
    <3> QED BY <2>4, <3>2
  <2>5. CASE ~entry[s].inFlight
    <3> HIDE DEF r
    <3>1. [entry[s] EXCEPT !.resumed = r] \in Entry
      BY <2>1, <2>3 DEF Entry
    <3>2. EntryOK([entry[s] EXCEPT !.resumed = r])
      BY <2>1, <2>5, <3>1 DEF EntryOK, BaseOK, Entry, GuardOK, EdgesOK, RetryOK, Pending
    <3> USE DEF r
    <3> QED BY <2>5, <3>2
  <2> QED BY <2>4, <2>5
<1> HIDE DEF wait, due
<1>3. \A s \in Services : EntryOK(entry'[s])
  BY <1>1, <1>2
<1>4. entry' \in [Services -> Entry]
  BY <1>1, <1>2 DEF EntryOK, BaseOK
<1> QED BY <1>3, <1>4 DEF EntriesOK

LEMMA NextOK == EntriesOK /\ [Next]_vars => EntriesOK'
<1> SUFFICES ASSUME EntriesOK, [Next]_vars PROVE EntriesOK'
  OBVIOUS
<1>1. CASE \E s \in Services : ServiceStep(s)
  BY <1>1, ServiceStepOK
<1>2. CASE DaemonStep
  BY <1>2 DEF DaemonStep, BootSkip, BootDone, Shutdown, ShutdownStopSettles, Exit, EntriesOK
<1>3. CASE \E toggled, restarts \in SUBSET Services : Reload(toggled, restarts)
  BY <1>3, ReloadOK
<1>4. CASE UNCHANGED vars
  BY <1>4 DEF vars, EntriesOK
<1> QED BY <1>1, <1>2, <1>3, <1>4 DEF Next

LEMMA EntriesInvariant == Spec => []EntriesOK
<1> QED BY InitOK, NextOK, PTL DEF Spec

-----------------------------------------------------------------------------
(* The theorems. *)

DaemonOK ==
    /\ enabled \in [Services -> BOOLEAN]
    /\ phase \in {"boot", "up", "down", "exited"}
    /\ loop \in Seq(Services)
    /\ closing \in BOOLEAN
    /\ reloads \in 0 .. MaxReloads
    /\ closing => loop # <<>> /\ phase = "down"

LEMMA DaemonInvariant == Spec => []DaemonOK
<1>1. Init => DaemonOK
  <2> SUFFICES ASSUME Init PROVE DaemonOK
    OBVIOUS
  <2>1. enabled \in [Services -> BOOLEAN]
    BY DEF Init
  <2>2. 0 \in 0 .. MaxReloads
    BY BoundsAssumption
  <2> QED BY <2>1, <2>2, BootOrderAssumption DEF Init, DaemonOK
<1>2. DaemonOK /\ [Next]_vars => DaemonOK'
  <2> SUFFICES ASSUME DaemonOK, [Next]_vars PROVE DaemonOK'
    OBVIOUS
  <2>0. loop # <<>> => Tail(loop) \in Seq(Services)
    BY DEF DaemonOK
  <2>1. ASSUME NEW s \in Services, ServiceStep(s) PROVE DaemonOK'
    <3>1. CASE StartEnds(s)
      <4>1. loop' = IF Booting(s) THEN Tail(loop) ELSE loop
        BY <3>1 DEF StartEnds, StartSucceeds, StartFails, StartSettles
      <4>2. UNCHANGED <<enabled, phase, closing, reloads>>
        BY <3>1 DEF StartEnds, StartSucceeds, StartFails, StartSettles
      <4> QED BY <2>0, <4>1, <4>2 DEF DaemonOK, Booting
    <3>2. CASE ShutdownStop(s)
      BY <2>0, <3>2 DEF ShutdownStop, DaemonOK
    <3>3. CASE ~StartEnds(s) /\ ~ShutdownStop(s)
      <4>1. UNCHANGED <<enabled, phase, loop, closing, reloads>>
        BY <2>1, <3>3 DEF ServiceStep, BootStart, IntervalFires, RunNow, TickEnds,
             TickSucceeds, TickThrows, TickDeadline, OrphanSettles, TimerFires,
             StartupTimerFires, StrayStartupFires, RestartTimerFires, StrayRestartFires,
             RestartEnds, RestartSucceeds, RestartFails, RunResumed, StopSettles,
             DaemonUnchanged
      <4> QED BY <4>1 DEF DaemonOK
    <3> QED BY <3>1, <3>2, <3>3
  <2>2. CASE DaemonStep
    <3>1. CASE BootSkip
      BY <2>0, <3>1 DEF BootSkip, DaemonOK
    <3>2. CASE BootDone
      BY <3>2 DEF BootDone, DaemonOK
    <3>3. CASE Shutdown
      BY <3>3, BootOrderAssumption DEF Shutdown, DaemonOK
    <3>4. CASE ShutdownStopSettles
      BY <2>0, <3>4 DEF ShutdownStopSettles, DaemonOK
    <3>5. CASE Exit
      BY <3>5 DEF Exit, DaemonOK
    <3> QED BY <2>2, <3>1, <3>2, <3>3, <3>4, <3>5 DEF DaemonStep
  <2>3. ASSUME NEW toggled, NEW restarts, Reload(toggled, restarts) PROVE DaemonOK'
    <3>1. /\ reloads' = reloads + 1 /\ reloads < MaxReloads
          /\ enabled' = [s \in Services |-> IF s \in toggled THEN ~enabled[s] ELSE enabled[s]]
          /\ UNCHANGED <<phase, loop, closing>>
      BY <2>3 DEF Reload
    <3>2. reloads' \in 0 .. MaxReloads
      BY <3>1, BoundsAssumption DEF DaemonOK
    <3>3. enabled' \in [Services -> BOOLEAN]
      BY <3>1 DEF DaemonOK
    <3> QED BY <3>1, <3>2, <3>3 DEF DaemonOK
  <2>4. CASE UNCHANGED vars
    BY <2>4 DEF vars, DaemonOK
  <2> QED BY <2>1, <2>2, <2>3, <2>4 DEF Next
<1> QED BY <1>1, <1>2, PTL DEF Spec

\* Every reachable state of the supervisor and its daemon is well typed.
THEOREM TypeCorrect == Spec => []TypeOK
<1>1. EntriesOK /\ DaemonOK => TypeOK
  BY DEF EntriesOK, DaemonOK, TypeOK
<1> QED BY <1>1, EntriesInvariant, DaemonInvariant, PTL

\* The in-flight guard always has an owner that a deadline can dispossess;
\* abandoned ticks own nothing and were told to unwind.
THEOREM GuardSafe == Spec => []GuardHasOwner
<1>1. EntriesOK => GuardHasOwner
  BY DEF EntriesOK, EntryOK, BaseOK, GuardHasOwner
<1> QED BY <1>1, EntriesInvariant, PTL

\* A control edge waits for a tick only, and finds the guard down.
THEOREM EdgesSafe == Spec => []EdgesResumeIdle
<1>1. EntriesOK => EdgesResumeIdle
  BY DEF EntriesOK, EntryOK, BaseOK, EdgesResumeIdle
<1> QED BY <1>1, EntriesInvariant, PTL

\* A parked service loses its retry only to a stale restartTimer handle.
THEOREM ParkedSafe == Spec => []ParkedIsRetriedOnce
<1>1. EntriesOK => ParkedIsRetriedOnce
  BY DEF EntriesOK, EntryOK, ParkedIsRetriedOnce
<1> QED BY <1>1, EntriesInvariant, PTL

-----------------------------------------------------------------------------
(* A stopped service, whatever the daemon is asked to do.  What arms a     *)
(* backoff or a start-up delay has left the state "stopped" behind, and an *)
(* interval needs a start-up delay too, which must then be a lost one.     *)

Quiet(e) ==
    e.state = "stopped" =>
        e.restartTimer # "armed" /\ ~e.startupTimer /\ (e.timer => e.revived)

AllQuiet == \A s \in Services : Quiet(entry[s])

\* The fields Quiet speaks of, by method.
LEMMA TickKeepsTimers ==
  ASSUME NEW e \in Entry
  PROVE  LET r == RunTick(e)  f == RecordFailure(e) IN
         /\ r \in Entry /\ f \in Entry
         /\ r.state = e.state /\ f.state = e.state
         /\ r.timer = e.timer /\ f.timer = e.timer
         /\ r.restartTimer = e.restartTimer /\ f.restartTimer = e.restartTimer
         /\ r.startupTimer = e.startupTimer /\ f.startupTimer = e.startupTimer
         /\ r.revived = e.revived /\ f.revived = e.revived
<1> DEFINE t == FreshTick(e)
           n == IF e.failures < ParkAfter THEN e.failures + 1 ELSE e.failures
<1>1. t \in TickIds /\ n \in 0 .. ParkAfter
  BY FreshTickType, BoundsAssumption DEF Entry
<1> DEFINE a == [e EXCEPT !.inFlight = TRUE, !.activeTick = t, !.aborted = e.aborted \ {t}]
           b == [e EXCEPT !.failures = n]
<1>2. (RunTick(e) = e \/ RunTick(e) = a) /\ RecordFailure(e) = b
  BY DEF RunTick, RecordFailure
<1> HIDE DEF t, n
<1>3. /\ a \in Entry /\ a.state = e.state /\ a.timer = e.timer
      /\ a.restartTimer = e.restartTimer /\ a.startupTimer = e.startupTimer
      /\ a.revived = e.revived
  BY <1>1 DEF Entry
<1>4. /\ b \in Entry /\ b.state = e.state /\ b.timer = e.timer
      /\ b.restartTimer = e.restartTimer /\ b.startupTimer = e.startupTimer
      /\ b.revived = e.revived
  BY <1>1 DEF Entry
<1> HIDE DEF a, b
<1> QED BY <1>2, <1>3, <1>4

\* What arming an interval or a backoff leaves of them.
LEMMA ScheduledFields ==
  ASSUME NEW e \in Entry
  PROVE  LET t == ScheduleTimer(e)  r == ScheduleRestart(e) IN
         /\ t \in Entry /\ r \in Entry
         /\ t.state = e.state /\ r.state = e.state
         /\ r.timer = e.timer /\ t.restartTimer = e.restartTimer
         /\ t.startupTimer = e.startupTimer /\ r.startupTimer = e.startupTimer
         /\ t.revived = e.revived /\ r.revived = e.revived
<1> DEFINE n == IF e.timer THEN e.leaked + 1 ELSE e.leaked
           k == IF e.restartTimer = "armed" THEN e.strayRestart + 1 ELSE e.strayRestart
<1>1. n \in Nat /\ k \in Nat
  BY DEF Entry
<1> DEFINE a == [e EXCEPT !.timer = TRUE, !.leaked = n]
           b == [e EXCEPT !.restartTimer = "armed", !.strayRestart = k]
<1>2. ScheduleTimer(e) = a /\ ScheduleRestart(e) = b
  BY DEF ScheduleTimer, ScheduleRestart
<1> HIDE DEF n, k
<1>3. /\ a \in Entry /\ a.state = e.state /\ a.restartTimer = e.restartTimer
      /\ a.startupTimer = e.startupTimer /\ a.revived = e.revived
  BY <1>1 DEF Entry
<1>4. /\ b \in Entry /\ b.state = e.state /\ b.timer = e.timer
      /\ b.startupTimer = e.startupTimer /\ b.revived = e.revived
  BY <1>1 DEF Entry
<1> HIDE DEF a, b
<1> QED BY <1>2, <1>3, <1>4

LEMMA QuietStops ==
  ASSUME NEW e \in Entry, Quiet(e)
  PROVE  Quiet(StopOne(e))
<1> DEFINE ab == e.aborted \cup ({e.activeTick} \ {NoTick})
           w  == e.resumed \o e.waiters
<1>1. StopOne(e) \in
        {[e EXCEPT !.timer = FALSE, !.restartTimer = "none",
                   !.startupTimer = FALSE, !.state = "stopped",
                   !.revived = FALSE, !.aborted = ab],
         [e EXCEPT !.timer = FALSE, !.restartTimer = "none",
                   !.startupTimer = FALSE, !.state = "stopped",
                   !.revived = FALSE, !.aborted = ab,
                   !.resumed = w, !.waiters = <<>>]}
  BY DEF StopOne, Entry
<1> HIDE DEF ab, w
<1> QED BY <1>1 DEF Quiet, Entry

\* Park() and the ends of a tick arm a backoff of a parked service only.
LEMMA QuietParks ==
  ASSUME NEW e \in Entry, Quiet(e)
  PROVE  Quiet(Park(e)) /\ Quiet(RetryIfParked(e))
BY DEF Park, RetryIfParked, ScheduleRestart, Quiet, Entry, States

LEMMA QuietReleases ==
  ASSUME NEW e \in Entry, Quiet(e), NEW ab, NEW o
  PROVE  Quiet(RetryIfParked(ClearInFlight(
            [e EXCEPT !.aborted = ab, !.orphan = o, !.activeTick = NoTick])))
<1> DEFINE w == e.resumed \o e.waiters
           r == [e EXCEPT !.aborted = ab, !.orphan = o, !.activeTick = NoTick,
                          !.inFlight = FALSE, !.resumed = w, !.waiters = <<>>]
<1>1. ClearInFlight([e EXCEPT !.aborted = ab, !.orphan = o, !.activeTick = NoTick]) = r
  BY DEF ClearInFlight, Entry
<1> HIDE DEF w
<1>2. Quiet(RetryIfParked(r))
  BY DEF RetryIfParked, ScheduleRestart, Quiet, Entry, States
<1> QED BY <1>1, <1>2

LEMMA QuietStep ==
  ASSUME EntriesOK, NEW s \in Services, Quiet(entry[s]), ServiceStep(s)
  PROVE  Quiet(entry'[s])
<1>0. /\ entry[s] \in Entry /\ EntryOK(entry[s])
      /\ \A x : Step(s, x) => entry'[s] = x
  BY DEF EntriesOK, Step
<1>1. CASE BootStart(s) \/ OrphanSettles(s) \/ StopSettles(s)
  <2> DEFINE a == [entry[s] EXCEPT !.starting = 1]
             b == [entry[s] EXCEPT !.orphan = NoTick]
             c == [entry[s] EXCEPT !.stopping = entry[s].stopping - 1]
  <2>1. Quiet(a) /\ Quiet(b) /\ Quiet(c)
    BY <1>0 DEF Quiet, Entry
  <2>2. Step(s, a) \/ Step(s, b) \/ Step(s, c)
    BY <1>1 DEF BootStart, OrphanSettles, StopSettles
  <2> HIDE DEF a, b, c
  <2> QED BY <1>0, <2>1, <2>2
<1>2. CASE StartEnds(s)
  <2> DEFINE e == Returned(s)
  <2>1. e \in Entry /\ Quiet(e)
    <3>1. entry[s].starting - 1 \in Nat
      BY <1>0, <1>2 DEF StartEnds, StartSucceeds, StartFails, StartSettles, Entry
    <3> QED BY <1>0, <3>1 DEF Returned, Quiet, Entry
  <2> HIDE DEF e
  <2>2. RecordFailure(e) \in Entry /\ Quiet(RecordFailure(e))
    BY <2>1, TickKeepsTimers DEF Quiet
  <2>3. Quiet(Park(RecordFailure(e)))
    BY <2>2, QuietParks
  <2>4. Quiet(Started(s, e))
    <3> DEFINE up == [e EXCEPT !.everStarted = TRUE, !.state = "running"]
    <3>1. CASE s \in Delayed
      BY <2>1, <3>1 DEF Started, Quiet, Entry, States
    <3>2. CASE s \notin Delayed
      <4>1. up \in Entry /\ ScheduleTimer(up) \in Entry
        <5>1. up \in Entry
          BY <2>1 DEF Entry, States
        <5> QED BY <5>1, ScheduledFields
      <4>2. Started(s, e) \in {up, RunTick(ScheduleTimer(up))}
        BY <3>2 DEF Started, BeginTicking
      <4>3. up.state = "running"
        BY <2>1 DEF Entry
      <4>4. ScheduleTimer(up).state = "running"
        BY <4>1, <4>3, ScheduledFields
      <4> HIDE DEF up
      <4> QED BY <4>1, <4>2, <4>3, <4>4, TickKeepsTimers DEF Quiet
    <3> QED BY <3>1, <3>2
  <2> USE DEF e
  <2> QED BY <1>0, <1>2, <2>3, <2>4 DEF StartEnds, StartSucceeds, StartFails, StartSettles
<1>3. CASE IntervalFires(s) \/ RunNow(s)
  BY <1>0, <1>3, TickKeepsTimers DEF IntervalFires, RunNow, Quiet
<1>4. CASE TickEnds(s)
  <2> DEFINE z == [entry[s] EXCEPT !.failures = 0]
             f == RecordFailure(entry[s])
  <2>1. z \in Entry /\ Quiet(z)
    <3>1. 0 \in 0 .. ParkAfter
      BY BoundsAssumption
    <3> QED BY <1>0, <3>1 DEF Quiet, Entry
  <2>2. f \in Entry /\ Quiet(f)
    BY <1>0, TickKeepsTimers DEF Quiet
  <2> HIDE DEF z, f
  <2>3. Park(f) \in Entry /\ Quiet(Park(f))
    <3> DEFINE p == [f EXCEPT !.state = "parked", !.timer = FALSE]
    <3>1. p \in Entry
      BY <2>2 DEF Entry, States
    <3>2. Park(f) = f \/ Park(f) = p \/ Park(f) = ScheduleRestart(p)
      BY DEF Park
    <3> HIDE DEF p
    <3> QED BY <2>2, <3>1, <3>2, ScheduledFields, QuietParks
  <2>4. ASSUME NEW x \in Entry, Quiet(x)
        PROVE  Quiet(FinishTick(x, entry[s].activeTick)) /\ Quiet(AbandonTick(x))
    <3>1. /\ [x EXCEPT !.activeTick = NoTick] =
                [x EXCEPT !.aborted = x.aborted, !.orphan = x.orphan, !.activeTick = NoTick]
      BY <2>4 DEF Entry
    <3>2. Quiet(AbandonTick(x))
      BY <2>4, QuietReleases DEF AbandonTick
    <3>3. Quiet(RetryIfParked(ClearInFlight([x EXCEPT !.activeTick = NoTick])))
      <4>1. Quiet(RetryIfParked(ClearInFlight(
               [x EXCEPT !.aborted = x.aborted, !.orphan = x.orphan, !.activeTick = NoTick])))
        BY <2>4, QuietReleases
      <4> QED BY <3>1, <4>1
    <3> QED BY <2>4, <3>2, <3>3 DEF FinishTick
  <2> USE DEF z, f
  <2> QED BY <1>0, <1>4, <2>1, <2>2, <2>3, <2>4
          DEF TickEnds, TickSucceeds, TickThrows, TickDeadline
<1>5. CASE TimerFires(s)
  <2>1. CASE StartupTimerFires(s) \/ StrayStartupFires(s)
    <3> DEFINE n == IF entry[s].startupTimer THEN entry[s].strayStartup
                    ELSE entry[s].strayStartup - 1
               a == [entry[s] EXCEPT !.startupTimer = FALSE]
               v == entry[s].revived \/ entry[s].state = "stopped"
               b == [entry[s] EXCEPT !.startupTimer = FALSE, !.strayStartup = n,
                                     !.revived = v]
    <3>1. StrayStartupFires(s) => n \in Nat
      BY <1>0 DEF StrayStartupFires, Entry
    <3>2. StartupTimerFires(s) => entry[s].state # "stopped"
      BY <1>0 DEF StartupTimerFires, Quiet
    <3>3. ASSUME NEW x \in Entry, x.restartTimer = entry[s].restartTimer,
                 x.state = entry[s].state, ~x.startupTimer,
                 x.state = "stopped" => x.revived
          PROVE  Quiet(StartupElapsed(s, x))
      <4>1. /\ ScheduleTimer(x) \in Entry /\ ~ScheduleTimer(x).startupTimer
            /\ ScheduleTimer(x).restartTimer = x.restartTimer
            /\ ScheduleTimer(x).state = x.state
            /\ ScheduleTimer(x).revived = x.revived
        BY <3>3, ScheduledFields
      <4> QED BY <1>0, <3>3, <4>1, TickKeepsTimers DEF StartupElapsed, Quiet
    <3>4. CASE StartupTimerFires(s)
      <4>1. a \in Entry /\ Quiet(StartupElapsed(s, a))
        BY <1>0, <3>2, <3>3, <3>4 DEF Entry
      <4> QED BY <1>0, <3>4, <4>1 DEF StartupTimerFires
    <3>5. CASE StrayStartupFires(s)
      <4>1. b \in Entry /\ Quiet(StartupElapsed(s, b))
        <5>1. n \in Nat /\ v \in BOOLEAN /\ (entry[s].state = "stopped" => v)
          BY <1>0, <3>1, <3>5 DEF Entry
        <5> HIDE DEF n, v
        <5> QED BY <1>0, <5>1, <3>3 DEF Entry
      <4>2. Step(s, StartupElapsed(s, b))
        BY <3>5 DEF StrayStartupFires
      <4> QED BY <1>0, <4>1, <4>2
    <3> QED BY <2>1, <3>4, <3>5
  <2>2. CASE RestartTimerFires(s)
    <3> DEFINE x == [entry[s] EXCEPT !.restartTimer = "fired"]
    <3>1. x \in Entry /\ Quiet(x)
      BY <1>0 DEF Quiet, Entry
    <3>2. entry'[s] = AttemptRestart(x)
      BY <1>0, <2>2 DEF RestartTimerFires
    <3> HIDE DEF x
    <3> QED BY <3>1, <3>2 DEF AttemptRestart, Quiet, Entry
  <2>3. CASE StrayRestartFires(s)
    <3> DEFINE x == [entry[s] EXCEPT !.strayRestart = entry[s].strayRestart - 1]
    <3>1. x \in Entry /\ Quiet(x)
      <4>1. entry[s].strayRestart - 1 \in Nat
        BY <1>0, <2>3 DEF StrayRestartFires, Entry
      <4> QED BY <1>0, <4>1 DEF Quiet, Entry
    <3>2. entry'[s] = AttemptRestart(x)
      BY <1>0, <2>3 DEF StrayRestartFires
    <3> HIDE DEF x
    <3> QED BY <3>1, <3>2 DEF AttemptRestart, Quiet, Entry
  <2> QED BY <1>5, <2>1, <2>2, <2>3 DEF TimerFires
<1>6. CASE RestartEnds(s)
  <2>1. entry[s].restarting - 1 \in Nat
    BY <1>0, <1>6 DEF RestartEnds, RestartSucceeds, RestartFails, Entry
  <2>2. CASE RestartSucceeds(s)
    <3> DEFINE up == [entry[s] EXCEPT !.restarting = entry[s].restarting - 1,
                          !.everStarted = TRUE, !.state = "running", !.failures = 0]
    <3>1. up \in Entry
      <4>1. 0 \in 0 .. ParkAfter
        BY BoundsAssumption
      <4> QED BY <1>0, <2>1, <4>1 DEF Entry, States
    <3>2. up.state = "running"
      BY <1>0 DEF Entry
    <3>3. entry'[s] = BeginTicking(s, up)
      BY <1>0, <2>2 DEF RestartSucceeds
    <3> HIDE DEF up
    <3>4. ScheduleTimer(up) \in Entry /\ ScheduleTimer(up).state = "running"
      BY <3>1, <3>2, ScheduledFields
    <3> QED BY <1>0, <3>1, <3>2, <3>3, <3>4, TickKeepsTimers DEF BeginTicking, Quiet
  <2>3. CASE RestartFails(s)
    <3> DEFINE p == [entry[s] EXCEPT !.restarting = entry[s].restarting - 1,
                                     !.state = "parked"]
    <3>1. p \in Entry /\ p.state = "parked"
      BY <1>0, <2>1 DEF Entry, States
    <3>2. entry'[s] = ScheduleRestart(RecordFailure(p))
      BY <1>0, <2>3 DEF RestartFails
    <3> HIDE DEF p
    <3>3. RecordFailure(p) \in Entry /\ RecordFailure(p).state = "parked"
      BY <3>1, TickKeepsTimers
    <3> QED BY <3>2, <3>3 DEF ScheduleRestart, Quiet, Entry
  <2> QED BY <1>6, <2>2, <2>3 DEF RestartEnds
<1>7. CASE RunResumed(s)
  <2> DEFINE e  == [entry[s] EXCEPT !.resumed = Tail(entry[s].resumed)]
             n  == IF e.everStarted THEN e.stopping + 1 ELSE e.stopping
             st == [e EXCEPT !.stopping = n]
  <2>1. /\ entry'[s] = Resume(s) /\ Head(entry[s].resumed) \in Ops
        /\ Tail(entry[s].resumed) \in Seq(Ops)
    BY <1>0, <1>7, SeqTypes DEF RunResumed, Entry
  <2>2. e \in Entry /\ Quiet(e)
    <3> DEFINE tl == Tail(entry[s].resumed)
    <3>1. e = [entry[s] EXCEPT !.resumed = tl] /\ tl \in Seq(Ops)
      BY <2>1
    <3> HIDE DEF e, tl
    <3>2. e \in Entry
      <4>1. entry[s] \in Entry
        BY <1>0
      <4> QED BY <3>1, <4>1 DEF Entry
    <3>3. /\ e.state = entry[s].state /\ e.restartTimer = entry[s].restartTimer
          /\ e.startupTimer = entry[s].startupTimer /\ e.timer = entry[s].timer
          /\ e.revived = entry[s].revived
      BY <1>0, <3>1 DEF Entry
    <3> QED BY <3>2, <3>3 DEF Quiet
  <2>3. st \in Entry /\ Quiet(st)
    <3> HIDE DEF e
    <3>1. n \in Nat
      BY <2>2 DEF Entry
    <3> HIDE DEF n
    <3>2. st \in Entry
      BY <2>2, <3>1 DEF Entry
    <3>3. /\ st.state = e.state /\ st.restartTimer = e.restartTimer
          /\ st.startupTimer = e.startupTimer /\ st.timer = e.timer
          /\ st.revived = e.revived
      BY <2>2 DEF Entry
    <3> QED BY <2>2, <3>2, <3>3 DEF Quiet
  <2>4. Quiet(RestartOne(e))
    <3> HIDE DEF e
    <3> QED BY <2>2 DEF RestartOne, AttemptRestart, Quiet, Entry, States
  <2>5. Quiet([e EXCEPT !.starting = e.starting + 1])
    <3> HIDE DEF e
    <3> QED BY <2>2 DEF Quiet, Entry
  <2>6. Resume(s) \in {e, [e EXCEPT !.starting = e.starting + 1], StopOne(st), RestartOne(e)}
    BY <2>1 DEF Resume, Ops
  <2>7. Quiet(StopOne(st))
    BY <2>3, QuietStops
  <2> HIDE DEF e, st, n
  <2> QED BY <2>1, <2>2, <2>4, <2>5, <2>6, <2>7
<1>8. CASE ShutdownStop(s)
  BY <1>0, <1>8, QuietStops DEF ShutdownStop
<1> QED BY <1>1, <1>2, <1>3, <1>4, <1>5, <1>6, <1>7, <1>8 DEF ServiceStep

LEMMA QuietReload ==
  ASSUME EntriesOK, AllQuiet, NEW toggled, NEW restarts, Reload(toggled, restarts)
  PROVE  AllQuiet'
<1> SUFFICES ASSUME NEW s \in Services PROVE Quiet(entry'[s])
  BY DEF AllQuiet
<1> DEFINE w == entry[s].waiters \o Asks(s, toggled, restarts)
           r == entry[s].resumed \o Asks(s, toggled, restarts)
<1>1. entry'[s] \in {[entry[s] EXCEPT !.waiters = w], [entry[s] EXCEPT !.resumed = r]}
  BY DEF Reload
<1> HIDE DEF w, r
<1>2. entry[s] \in Entry /\ Quiet(entry[s])
  BY DEF EntriesOK, EntryOK, BaseOK, AllQuiet
<1>3. /\ entry'[s].state = entry[s].state
      /\ entry'[s].restartTimer = entry[s].restartTimer
      /\ entry'[s].startupTimer = entry[s].startupTimer
      /\ entry'[s].timer = entry[s].timer /\ entry'[s].revived = entry[s].revived
  BY <1>1, <1>2 DEF Entry
<1> QED BY <1>2, <1>3 DEF Quiet

LEMMA QuietInvariant == Spec => []AllQuiet
<1>1. Init => AllQuiet
  BY DEF Init, AllQuiet, NewEntry, Quiet
<1>2. EntriesOK /\ AllQuiet /\ [Next]_vars => AllQuiet'
  <2> SUFFICES ASSUME EntriesOK, AllQuiet, [Next]_vars PROVE AllQuiet'
    OBVIOUS
  <2>1. ASSUME NEW s \in Services, ServiceStep(s) PROVE AllQuiet'
    <3>1. \E x : Step(s, x)
      BY <2>1 DEF ServiceStep, BootStart, StartEnds, StartSucceeds, StartFails, StartSettles,
           IntervalFires, RunNow, TickEnds, TickSucceeds, TickThrows, TickDeadline,
           OrphanSettles, TimerFires, StartupTimerFires, StrayStartupFires,
           RestartTimerFires, StrayRestartFires, RestartEnds, RestartSucceeds,
           RestartFails, RunResumed, StopSettles, ShutdownStop
    <3>2. \A u \in Services : u # s => entry'[u] = entry[u]
      BY <3>1 DEF Step, EntriesOK
    <3>3. Quiet(entry'[s])
      BY <2>1, QuietStep DEF AllQuiet
    <3> QED BY <3>2, <3>3 DEF AllQuiet
  <2>2. CASE DaemonStep
    BY <2>2 DEF DaemonStep, BootSkip, BootDone, Shutdown, ShutdownStopSettles, Exit, AllQuiet
  <2>3. CASE \E toggled, restarts \in SUBSET Services : Reload(toggled, restarts)
    BY <2>3, QuietReload
  <2>4. CASE UNCHANGED vars
    BY <2>4 DEF vars, AllQuiet
  <2> QED BY <2>1, <2>2, <2>3, <2>4 DEF Next
<1> QED BY <1>1, <1>2, EntriesInvariant, PTL DEF Spec

-----------------------------------------------------------------------------
(* Without a reload there is one chain of recovery per service.  The       *)
(* invariant says where each timer may be armed: an interval only while    *)
(* running, a tick only while running or stopped under it, a start-up      *)
(* delay only before the first tick, and a recovery only when none of them *)
(* is.                                                                     *)

Alone(s, e) ==
    /\ e.waiters = <<>> /\ e.resumed = <<>>
    /\ e.leaked = 0 /\ e.strayRestart = 0 /\ e.strayStartup = 0
    /\ e.starting + e.restarting <= 1
    /\ e.starting + e.restarting = 1 => e.restartTimer # "armed"
    /\ (e.starting + e.restarting = 1 \/ e.restartTimer = "armed") =>
         e.state # "running" /\ ~e.inFlight /\ ~e.timer /\ ~e.startupTimer
    /\ e.inFlight => e.state \in {"running", "stopped"} /\ ~e.startupTimer
    /\ e.timer => e.state = "running" /\ ~e.startupTimer
    /\ e.startupTimer => e.state = "running" /\ s \in Delayed
    /\ e.starting > 0 => e.state \in {"idle", "stopped"}
    /\ e.state = "idle" => e.restarting = 0 /\ e.restartTimer = "none"

AllAlone == \A s \in Services : Alone(s, entry[s])

LEMMA AloneFresh ==
  ASSUME NEW s, NEW e \in Entry, Alone(s, e), e.starting + e.restarting = 0,
         e.restartTimer # "armed", ~e.timer, ~e.inFlight, ~e.startupTimer,
         e.state = "running"
  PROVE  Alone(s, RunTick(ScheduleTimer(e)))
<1> DEFINE t == FreshTick(ScheduleTimer(e))
           r == [e EXCEPT !.timer = TRUE, !.leaked = 0, !.inFlight = TRUE,
                          !.activeTick = t, !.aborted = e.aborted \ {t}]
<1>1. ScheduleTimer(e) = [e EXCEPT !.timer = TRUE, !.leaked = 0]
  BY DEF ScheduleTimer, Alone
<1>2. RunTick(ScheduleTimer(e)) = r
  <2> HIDE DEF t
  <2>1. t = FreshTick(ScheduleTimer(e))
    BY DEF t
  <2> QED BY <1>1, <2>1 DEF RunTick, Entry
<1> HIDE DEF t
<1> QED BY <1>2 DEF Alone, Entry

\* Nothing armed, nothing outstanding.
Bare(e) == /\ e.starting + e.restarting = 0 /\ e.restartTimer # "armed"
           /\ ~e.timer /\ ~e.inFlight /\ ~e.startupTimer

LEMMA AloneStarted ==
  ASSUME NEW s \in Services, NEW e \in Entry, Alone(s, e), Bare(e)
  PROVE  Alone(s, Started(s, e))
<1> DEFINE up == [e EXCEPT !.everStarted = TRUE, !.state = "running"]
<1>1. up \in Entry
  BY DEF Entry, States
<1>2. Alone(s, up) /\ Bare(up) /\ up.state = "running"
  BY DEF Alone, Bare, Entry
<1>3. CASE s \in Delayed
  <2>1. Started(s, e) = [up EXCEPT !.startupTimer = TRUE, !.strayStartup = up.strayStartup]
    BY <1>3 DEF Started, Bare, Entry
  <2> HIDE DEF up
  <2> QED BY <1>1, <1>2, <1>3, <2>1 DEF Alone, Bare, Entry
<1>4. CASE s \notin Delayed /\ s \notin Periodic
  BY <1>2, <1>4 DEF Started, BeginTicking
<1>5. CASE s \notin Delayed /\ s \in Periodic
  <2>1. Started(s, e) = RunTick(ScheduleTimer(up))
    BY <1>5 DEF Started, BeginTicking
  <2> HIDE DEF up
  <2> QED BY <1>1, <1>2, <2>1, AloneFresh DEF Bare
<1> QED BY <1>3, <1>4, <1>5

\* Park() of an entry with nothing armed leaves exactly one retry, and of a
\* stopped one none.
LEMMA AloneFailed ==
  ASSUME NEW s \in Services, NEW e \in Entry, Alone(s, e), Bare(e)
  PROVE  Alone(s, Park(RecordFailure(e)))
<1> DEFINE f == RecordFailure(e)
           p == [f EXCEPT !.state = "parked", !.timer = FALSE]
           r == [p EXCEPT !.restartTimer = "armed", !.strayRestart = p.strayRestart]
<1>1. f \in Entry /\ Alone(s, f) /\ Bare(f)
  <2> DEFINE n == IF e.failures < ParkAfter THEN e.failures + 1 ELSE e.failures
  <2>1. n \in 0 .. ParkAfter
    BY BoundsAssumption DEF Entry
  <2>2. f = [e EXCEPT !.failures = n]
    BY DEF RecordFailure
  <2> HIDE DEF n, f
  <2>3. f \in Entry
    BY <2>1, <2>2 DEF Entry
  <2> QED BY <2>2, <2>3 DEF Alone, Bare, Entry
<1>2. Park(f) = IF f.state \in {"parked", "stopped"} THEN f ELSE ScheduleRestart(p)
  BY <1>1 DEF Park, Bare, Entry
<1> HIDE DEF f
<1>3. p \in Entry
  BY <1>1 DEF Entry, States
<1>4. ScheduleRestart(p) = r
  BY <1>1 DEF ScheduleRestart, Bare, Entry
<1>5. Alone(s, r)
  <2> HIDE DEF p
  <2>1. /\ p.state = "parked" /\ ~p.timer /\ Bare(p)
        /\ p.waiters = <<>> /\ p.resumed = <<>> /\ p.leaked = 0
        /\ p.strayRestart = 0 /\ p.strayStartup = 0
    BY <1>1 DEF p, Alone, Bare, Entry
  <2> QED BY <1>3, <2>1 DEF Alone, Bare, Entry
<1>6. Alone(s, Park(f))
  BY <1>1, <1>2, <1>4, <1>5
<1> QED BY <1>6 DEF f

LEMMA AloneTickEnds ==
  ASSUME AllAlone, EntriesOK, NEW s \in Services, TickEnds(s)
  PROVE  Alone(s, entry'[s])
<1> DEFINE e == entry[s]
           g(n, st, tm) == [e EXCEPT !.failures = n, !.state = st, !.timer = tm]
<1>1. /\ e \in Entry /\ Alone(s, e) /\ e.inFlight
      /\ e.state \in {"running", "stopped"} /\ (e.state = "stopped" => ~e.timer)
      /\ e.starting = 0 /\ e.restarting = 0 /\ e.restartTimer # "armed"
      /\ ~e.startupTimer
  BY TurnOK DEF AllAlone, TickEnds, TickSucceeds, TickThrows, TickDeadline, Guarded, Alone, Entry
<1>2. ASSUME NEW d, d \in Entry, d.state \in {"running", "parked", "stopped"},
             ~d.startupTimer, d.state # "running" => ~d.timer,
             d.starting = 0, d.restarting = 0, d.restartTimer # "armed",
             d.waiters = <<>>, d.resumed = <<>>, d.leaked = 0,
             d.strayRestart = 0, d.strayStartup = 0
      PROVE  Alone(s, RetryIfParked(ClearInFlight(d)))
  <2> DEFINE c == [d EXCEPT !.inFlight = FALSE]
  <2>1. ClearInFlight(d) = c
    BY <1>2, SeqTypes DEF ClearInFlight, Entry
  <2>2. c \in Entry
    BY <1>2 DEF Entry
  <2>3. CASE c.state = "parked" /\ c.restartTimer = "none"
    <3>1. RetryIfParked(c) = [c EXCEPT !.restartTimer = "armed", !.strayRestart = c.strayRestart]
      BY <2>3 DEF RetryIfParked, ScheduleRestart
    <3>2. /\ c.state = "parked" /\ ~c.inFlight /\ ~c.timer /\ ~c.startupTimer
          /\ c.starting = 0 /\ c.restarting = 0
          /\ c.waiters = <<>> /\ c.resumed = <<>> /\ c.leaked = 0
          /\ c.strayRestart = 0 /\ c.strayStartup = 0
      BY <1>2, <2>3 DEF Entry
    <3> HIDE DEF c
    <3> QED BY <2>1, <2>2, <3>1, <3>2 DEF Alone, Entry
  <2>4. CASE ~(c.state = "parked" /\ c.restartTimer = "none")
    <3>1. RetryIfParked(c) = c
      BY <2>4 DEF RetryIfParked
    <3> QED BY <1>2, <2>1, <3>1 DEF Alone, Entry
  <2> QED BY <2>3, <2>4
<1>3. ASSUME NEW n \in 0 .. ParkAfter, NEW st \in {"running", "parked", "stopped"},
             NEW tm \in BOOLEAN, st # "running" => ~tm
      PROVE  LET d == [e EXCEPT !.failures = n, !.state = st, !.timer = tm, !.activeTick = NoTick]
             IN  Alone(s, RetryIfParked(ClearInFlight(d)))
  <2> DEFINE d == [e EXCEPT !.failures = n, !.state = st, !.timer = tm, !.activeTick = NoTick]
  <2>1. d \in Entry
    BY <1>1, <1>3 DEF Entry, States
  <2>2. /\ d.state \in {"running", "parked", "stopped"} /\ ~d.startupTimer
        /\ (d.state # "running" => ~d.timer)
        /\ d.starting = 0 /\ d.restarting = 0 /\ d.restartTimer # "armed"
        /\ d.waiters = <<>> /\ d.resumed = <<>> /\ d.leaked = 0
        /\ d.strayRestart = 0 /\ d.strayStartup = 0
    BY <1>1, <1>3 DEF Alone, Entry
  <2> HIDE DEF d
  <2>3. Alone(s, RetryIfParked(ClearInFlight(d)))
    BY <1>2, <2>1, <2>2
  <2> USE DEF d
  <2> QED BY <2>3
<1>4. CASE TickSucceeds(s)
  <2>1. 0 \in 0 .. ParkAfter
    BY BoundsAssumption
  <2>2. entry'[s] = RetryIfParked(ClearInFlight(
          [e EXCEPT !.failures = 0, !.state = e.state, !.timer = e.timer, !.activeTick = NoTick]))
    BY <1>1, <1>4 DEF TickSucceeds, Step, FinishTick, EntriesOK, Entry
  <2>3. e.timer \in BOOLEAN /\ e.state \in {"running", "parked", "stopped"}
        /\ (e.state # "running" => ~e.timer)
    BY <1>1 DEF Entry
  <2> HIDE DEF e
  <2> QED BY <1>3, <2>1, <2>2, <2>3
<1> DEFINE n == IF e.failures < ParkAfter THEN e.failures + 1 ELSE e.failures
           failed == [e EXCEPT !.failures = n]
           st == IF e.state = "stopped" THEN "stopped" ELSE "parked"
           parked == [e EXCEPT !.failures = n, !.state = st, !.timer = FALSE]
<1>5. n \in 0 .. ParkAfter
  BY <1>1, BoundsAssumption DEF Entry
<1>6. RecordFailure(e) = failed
  BY DEF RecordFailure
<1> HIDE DEF n
<1>7. Park(failed) = parked
  <2>1. CASE e.state = "stopped"
    <3>1. Park(failed) = failed /\ ~e.timer
      BY <1>1, <2>1 DEF Park, Entry
    <3>2. failed = parked
      BY <1>1, <2>1, <3>1 DEF Entry
    <3> QED BY <3>1, <3>2
  <2>2. CASE e.state = "running"
    BY <1>1, <2>2 DEF Park, Entry
  <2> QED BY <1>1, <2>1, <2>2
<1>10. st \in {"parked", "stopped"}
  OBVIOUS
<1> HIDE DEF st
<1>8. CASE TickThrows(s)
  <2>1. CASE failed.failures >= ParkAfter
    <3>1. entry'[s] = FinishTick(parked, e.activeTick)
      BY <1>6, <1>7, <1>8, <2>1 DEF TickThrows, Step, EntriesOK
    <3>2. parked.activeTick = e.activeTick
          /\ [parked EXCEPT !.activeTick = NoTick] =
               [e EXCEPT !.failures = n, !.state = st, !.timer = FALSE, !.activeTick = NoTick]
      BY <1>1 DEF Entry
    <3>3. entry'[s] = RetryIfParked(ClearInFlight(
               [e EXCEPT !.failures = n, !.state = st, !.timer = FALSE, !.activeTick = NoTick]))
      BY <3>1, <3>2 DEF FinishTick
    <3> HIDE DEF e
    <3> QED BY <1>3, <1>5, <1>10, <3>3
  <2>2. CASE ~(failed.failures >= ParkAfter)
    <3>1. entry'[s] = FinishTick(failed, e.activeTick)
      BY <1>6, <1>8, <2>2 DEF TickThrows, Step, EntriesOK
    <3>2. failed.activeTick = e.activeTick
          /\ [failed EXCEPT !.activeTick = NoTick] =
               [e EXCEPT !.failures = n, !.state = e.state, !.timer = e.timer, !.activeTick = NoTick]
      BY <1>1 DEF Entry
    <3>3. entry'[s] = RetryIfParked(ClearInFlight(
               [e EXCEPT !.failures = n, !.state = e.state, !.timer = e.timer, !.activeTick = NoTick]))
      BY <3>1, <3>2 DEF FinishTick
    <3>4. e.timer \in BOOLEAN /\ e.state \in {"running", "parked", "stopped"}
          /\ (e.state # "running" => ~e.timer)
      BY <1>1 DEF Entry
    <3> HIDE DEF e
    <3> QED BY <1>3, <1>5, <3>3, <3>4
  <2> QED BY <2>1, <2>2
<1>9. CASE TickDeadline(s)
  <2> DEFINE ab == e.aborted \cup {e.activeTick}
             d == [parked EXCEPT !.aborted = ab, !.orphan = e.activeTick, !.activeTick = NoTick]
  <2>1. entry'[s] = RetryIfParked(ClearInFlight(d))
    <3>1. entry'[s] = AbandonTick(parked)
      BY <1>6, <1>7, <1>9 DEF TickDeadline, Step, EntriesOK
    <3>2. parked.aborted = e.aborted /\ parked.activeTick = e.activeTick
      BY <1>1 DEF Entry
    <3> HIDE DEF parked
    <3> QED BY <3>1, <3>2 DEF AbandonTick
  <2>2. ab \in SUBSET TickIds /\ e.activeTick \in TickIds
    BY <1>1, TurnOK DEF EntryOK, BaseOK, GuardOK, Entry
  <2>3. d \in Entry
    <3> HIDE DEF ab
    <3> QED BY <1>1, <1>5, <1>10, <2>2 DEF Entry, States
  <2>4. /\ d.state \in {"running", "parked", "stopped"} /\ ~d.startupTimer
        /\ (d.state # "running" => ~d.timer)
        /\ d.starting = 0 /\ d.restarting = 0 /\ d.restartTimer # "armed"
        /\ d.waiters = <<>> /\ d.resumed = <<>> /\ d.leaked = 0
        /\ d.strayRestart = 0 /\ d.strayStartup = 0
    BY <1>1, <1>10 DEF Alone, Entry
  <2> HIDE DEF d
  <2> QED BY <1>2, <2>1, <2>3, <2>4
<1> QED BY <1>4, <1>8, <1>9 DEF TickEnds

LEMMA AloneRestartEnds ==
  ASSUME AllAlone, EntriesOK, NEW s \in Services, RestartEnds(s)
  PROVE  Alone(s, entry'[s])
<1> DEFINE e == entry[s]
           d == [e EXCEPT !.restarting = 0, !.everStarted = TRUE, !.state = "running",
                          !.failures = 0]
           p == [e EXCEPT !.restarting = 0, !.state = "parked"]
<1>1. /\ e \in Entry /\ Alone(s, e) /\ e.restarting = 1 /\ e.starting = 0
      /\ e.restartTimer # "armed" /\ ~e.timer /\ ~e.inFlight /\ ~e.startupTimer
      /\ e.restarting - 1 = 0
  BY TurnOK DEF AllAlone, RestartEnds, RestartSucceeds, RestartFails, Alone, Entry
<1>2. CASE RestartSucceeds(s)
  <2>1. entry'[s] = BeginTicking(s, d)
    BY <1>1, <1>2 DEF RestartSucceeds, Step, EntriesOK
  <2>2. d \in Entry
    <3>1. 0 \in 0 .. ParkAfter
      BY BoundsAssumption
    <3> QED BY <1>1, <3>1 DEF Entry, States
  <2>3. Alone(s, d) /\ Bare(d) /\ d.state = "running"
    BY <1>1 DEF Alone, Bare, Entry
  <2> HIDE DEF d
  <2>4. CASE s \in Periodic
    BY <2>1, <2>2, <2>3, <2>4, AloneFresh DEF BeginTicking, Bare
  <2>5. CASE s \notin Periodic
    BY <2>1, <2>3, <2>5 DEF BeginTicking
  <2> QED BY <2>4, <2>5
<1>3. CASE RestartFails(s)
  <2> DEFINE n == IF p.failures < ParkAfter THEN p.failures + 1 ELSE p.failures
             f == [p EXCEPT !.failures = n]
  <2>1. p \in Entry /\ n \in 0 .. ParkAfter
    <3>1. p \in Entry
      BY <1>1 DEF Entry, States
    <3>2. p.failures \in 0 .. ParkAfter
      <4> HIDE DEF p
      <4> QED BY <3>1 DEF Entry
    <3> HIDE DEF p
    <3> QED BY <3>1, <3>2, BoundsAssumption
  <2>2. entry'[s] = ScheduleRestart(RecordFailure(p))
    BY <1>1, <1>3 DEF RestartFails, Step, EntriesOK
  <2>3. RecordFailure(p) = f
    BY DEF RecordFailure
  <2>4. p.restartTimer # "armed" /\ ~p.timer /\ ~p.inFlight /\ ~p.startupTimer
        /\ p.state = "parked" /\ p.starting = 0 /\ p.restarting = 0
        /\ p.waiters = <<>> /\ p.resumed = <<>> /\ p.leaked = 0
        /\ p.strayRestart = 0 /\ p.strayStartup = 0
    BY <1>1 DEF Alone, Entry
  <2> HIDE DEF p, n
  <2>5. f.restartTimer # "armed" /\ f.strayRestart = 0
    BY <2>1, <2>4 DEF Entry
  <2>6. ScheduleRestart(f) = [f EXCEPT !.restartTimer = "armed", !.strayRestart = 0]
    <3> HIDE DEF f
    <3> QED BY <2>5 DEF ScheduleRestart
  <2>7. ScheduleRestart(f) = [p EXCEPT !.failures = n, !.restartTimer = "armed", !.strayRestart = 0]
    BY <2>1, <2>6 DEF Entry
  <2> HIDE DEF f
  <2> QED BY <2>1, <2>2, <2>3, <2>4, <2>7 DEF Alone, Entry
<1> QED BY <1>2, <1>3 DEF RestartEnds

LEMMA AloneTimerFires ==
  ASSUME AllAlone, EntriesOK, NEW s \in Services, TimerFires(s)
  PROVE  Alone(s, entry'[s])
<1> DEFINE e == entry[s]
<1>1. e \in Entry /\ Alone(s, e)
  BY TurnOK DEF AllAlone
<1>2. CASE StartupTimerFires(s)
  <2> DEFINE d == [e EXCEPT !.startupTimer = FALSE]
  <2>1. e.startupTimer /\ entry'[s] = RunTick(ScheduleTimer(d))
    BY <1>2 DEF StartupTimerFires, Step, StartupElapsed, EntriesOK
  <2>2. /\ e.state = "running" /\ ~e.timer /\ ~e.inFlight
        /\ e.starting = 0 /\ e.restarting = 0 /\ e.restartTimer # "armed"
    <3>1. e.startupTimer
      BY <2>1
    <3>2. e.state = "running" /\ ~e.timer /\ ~e.inFlight
      BY <1>1, <3>1 DEF Alone
    <3>3. e.starting + e.restarting # 1 /\ e.restartTimer # "armed"
      BY <1>1, <3>1 DEF Alone
    <3>4. e.starting \in Nat /\ e.restarting \in Nat /\ e.starting + e.restarting <= 1
      BY <1>1 DEF Alone, Entry
    <3>5. e.starting = 0 /\ e.restarting = 0
      BY <3>3, <3>4
    <3> QED BY <3>2, <3>3, <3>5
  <2>3. d \in Entry
    BY <1>1 DEF Entry
  <2>4. Bare(d) /\ d.state = "running"
    BY <1>1, <2>2 DEF Bare, Entry
  <2>5. Alone(s, d)
    BY <1>1, <2>2 DEF Alone, Entry
  <2> HIDE DEF d
  <2> QED BY <2>1, <2>3, <2>4, <2>5, AloneFresh DEF Bare
<1>3. CASE RestartTimerFires(s)
  <2> DEFINE d == [e EXCEPT !.restartTimer = "fired", !.restarting = 1]
  <2>1. e.restartTimer = "armed" /\ e.starting = 0 /\ e.restarting = 0
    BY <1>1, <1>3 DEF RestartTimerFires, Alone, Entry
  <2>2. entry'[s] = AttemptRestart([e EXCEPT !.restartTimer = "fired"])
    BY <1>3 DEF RestartTimerFires, Step, EntriesOK
  <2>3. CASE e.state = "stopped"
    <3>1. entry'[s] = [e EXCEPT !.restartTimer = "fired"]
      BY <1>1, <2>2, <2>3 DEF AttemptRestart, Entry
    <3> QED BY <1>1, <2>1, <3>1 DEF Alone, Entry
  <2>4. CASE e.state # "stopped"
    <3> DEFINE q == [e EXCEPT !.restartTimer = "fired"]
    <3>1. entry'[s] = d
      <4>1. q.state # "stopped" /\ q.restarting = 0
        BY <1>1, <2>1, <2>4 DEF Entry
      <4>2. [q EXCEPT !.restarting = 1] = d
        BY <1>1 DEF Entry
      <4>3. entry'[s] = AttemptRestart(q)
        BY <2>2
      <4> HIDE DEF q, d
      <4>4. AttemptRestart(q) = [q EXCEPT !.restarting = 1]
        BY <4>1 DEF AttemptRestart
      <4> QED BY <4>2, <4>3, <4>4
    <3> QED BY <1>1, <2>1, <3>1 DEF Alone, Entry
  <2> QED BY <2>3, <2>4
<1>4. ~StrayStartupFires(s) /\ ~StrayRestartFires(s)
  BY <1>1 DEF StrayStartupFires, StrayRestartFires, Alone
<1> QED BY <1>2, <1>3, <1>4 DEF TimerFires

LEMMA AloneStep ==
  ASSUME AllAlone, EntriesOK, NEW s \in Services, ServiceStep(s)
  PROVE  AllAlone'
<1> DEFINE e == entry[s]
<1>1. e \in Entry /\ Alone(s, e)
  BY TurnOK DEF AllAlone
<1>2. \A u \in Services \ {s} : entry'[u] = entry[u]
  BY DEF ServiceStep, BootStart, StartEnds, StartSucceeds, StartFails, StartSettles,
       IntervalFires, RunNow, TickEnds, TickSucceeds, TickThrows, TickDeadline,
       OrphanSettles, TimerFires, StartupTimerFires, StrayStartupFires,
       RestartTimerFires, StrayRestartFires, RestartEnds, RestartSucceeds, RestartFails,
       RunResumed, StopSettles, ShutdownStop, DaemonUnchanged, Step, EntriesOK
<1>3. SUFFICES Alone(s, entry'[s])
  BY <1>1, <1>2 DEF AllAlone
<1>4. CASE BootStart(s)
  <2>1. entry'[s] = [e EXCEPT !.starting = 1] /\ e.state = "idle" /\ e.starting = 0
    BY <1>4 DEF BootStart, Step, EntriesOK
  <2> QED BY <1>1, <2>1 DEF Alone, Entry
<1>5. CASE StartEnds(s)
  <2>1. e.starting > 0
    BY <1>5 DEF StartEnds, StartSucceeds, StartFails, StartSettles
  <2>2. e.starting = 1 /\ e.restarting = 0 /\ e.starting - 1 = 0
    BY <1>1, <2>1 DEF Alone, Entry
  <2>3. Returned(s) = [e EXCEPT !.starting = 0]
    BY <2>2 DEF Returned
  <2>4. Returned(s) \in Entry /\ Alone(s, Returned(s)) /\ Bare(Returned(s))
    BY <1>1, <2>2, <2>3 DEF Alone, Bare, Entry
  <2>5. entry'[s] \in {Started(s, Returned(s)), Park(RecordFailure(Returned(s)))}
    BY <1>5 DEF StartEnds, StartSucceeds, StartFails, StartSettles, Step, EntriesOK
  <2> QED BY <2>4, <2>5, AloneStarted, AloneFailed
<1>6. CASE IntervalFires(s) \/ RunNow(s)
  <2>1. entry'[s] = RunTick(e)
    BY <1>6 DEF IntervalFires, RunNow, Step, EntriesOK
  <2>2. CASE e.state # "running" \/ e.inFlight
    BY <1>1, <2>1, <2>2 DEF RunTick
  <2>3. CASE e.state = "running" /\ ~e.inFlight
    <3> DEFINE t == FreshTick(e)
    <3>1. entry'[s] = [e EXCEPT !.inFlight = TRUE, !.activeTick = t, !.aborted = e.aborted \ {t}]
      BY <2>1, <2>3 DEF RunTick
    <3>2. ~e.startupTimer
      BY <1>1, <1>6, SetsAssumption DEF IntervalFires, RunNow, Alone
    <3> HIDE DEF t
    <3> QED BY <1>1, <2>3, <3>1, <3>2 DEF Alone, Entry
  <2> QED BY <2>2, <2>3
<1>7. CASE OrphanSettles(s)
  <2>1. entry'[s] = [e EXCEPT !.orphan = NoTick]
    BY <1>7 DEF OrphanSettles, Step, EntriesOK
  <2> QED BY <1>1, <2>1 DEF Alone, Entry
<1>8. CASE StopSettles(s)
  <2>1. entry'[s] = [e EXCEPT !.stopping = e.stopping - 1]
    BY <1>8 DEF StopSettles, Step, EntriesOK
  <2> QED BY <1>1, <2>1 DEF Alone, Entry
<1>9. ~RunResumed(s)
  BY <1>1 DEF RunResumed, Alone
<1>10. CASE ShutdownStop(s)
  <2> DEFINE ab == e.aborted \cup ({e.activeTick} \ {NoTick})
             q == [e EXCEPT !.timer = FALSE, !.restartTimer = "none", !.startupTimer = FALSE,
                            !.state = "stopped", !.revived = FALSE, !.aborted = ab]
  <2>1. entry'[s] = StopOne(e)
    BY <1>10 DEF ShutdownStop, Step, EntriesOK
  <2> HIDE DEF ab
  <2>2. StopOne(e) = IF e.inFlight
                     THEN [q EXCEPT !.resumed = q.resumed \o e.waiters, !.waiters = <<>>]
                     ELSE q
    BY DEF StopOne, ab
  <2>3. q.resumed = <<>> /\ q.waiters = <<>> /\ e.waiters = <<>>
    BY <1>1 DEF Alone, Entry
  <2>4. [q EXCEPT !.resumed = <<>>, !.waiters = <<>>] = q
    BY <1>1, <2>3 DEF Entry
  <2>5. entry'[s] = q
    <3> HIDE DEF q
    <3>1. q.resumed \o e.waiters = <<>>
      BY <2>3
    <3> QED BY <2>1, <2>2, <2>4, <3>1
  <2> QED BY <1>1, <2>5 DEF Alone, Entry
<1> QED BY <1>4, <1>5, <1>6, <1>7, <1>8, <1>9, <1>10,
           AloneTickEnds, AloneTimerFires, AloneRestartEnds DEF ServiceStep

LEMMA AloneInvariant ==
  ASSUME "reload" \notin Signals
  PROVE  Spec => []AllAlone
<1>1. Init => AllAlone
  <2> SUFFICES ASSUME Init, NEW s \in Services PROVE Alone(s, NewEntry(s))
    BY DEF Init, AllAlone
  <2> QED BY DEF NewEntry, Alone
<1>2. AllAlone /\ EntriesOK /\ [Next]_vars => AllAlone'
  <2> SUFFICES ASSUME AllAlone, EntriesOK, [Next]_vars PROVE AllAlone'
    OBVIOUS
  <2>1. CASE \E s \in Services : ServiceStep(s)
    BY <2>1, AloneStep
  <2>2. CASE DaemonStep
    BY <2>2 DEF DaemonStep, BootSkip, BootDone, Shutdown, ShutdownStopSettles, Exit, AllAlone
  <2>3. ASSUME NEW toggled, NEW restarts, Reload(toggled, restarts) PROVE AllAlone'
    BY <2>3 DEF Reload
  <2>4. CASE UNCHANGED vars
    BY <2>4 DEF vars, AllAlone
  <2> QED BY <2>1, <2>2, <2>3, <2>4 DEF Next
<1> QED BY <1>1, <1>2, EntriesInvariant, PTL DEF Spec

\* Without a reload, and through a shutdown, the supervisor never has two
\* recoveries of one service, nor one while the service is up: no restart()
\* pulls the resources from under a tick.
THEOREM AloneSafe ==
  ASSUME "reload" \notin Signals
  PROVE  Spec => []OneRecovery
<1>1. EntriesOK /\ AllAlone => OneRecovery
  <2> SUFFICES ASSUME EntriesOK, AllAlone, NEW s \in Services
               PROVE  /\ Recoveries(entry[s]) <= 1
                      /\ Recoveries(entry[s]) = 1 =>
                           entry[s].state # "running" /\ ~entry[s].inFlight /\ ~entry[s].timer
    BY DEF OneRecovery
  <2>1. entry[s] \in Entry /\ Alone(s, entry[s])
    BY TurnOK DEF AllAlone
  <2>2. entry[s].strayRestart = 0
    BY <2>1 DEF Alone
  <2>3. CASE entry[s].restartTimer = "armed"
    <3>1. entry[s].starting = 0 /\ entry[s].restarting = 0
      <4>1. /\ entry[s].starting + entry[s].restarting <= 1
            /\ entry[s].starting + entry[s].restarting # 1
        BY <2>1, <2>3 DEF Alone
      <4>2. entry[s].starting \in Nat /\ entry[s].restarting \in Nat
        BY <2>1 DEF Entry
      <4> QED BY <4>1, <4>2
    <3>2. Recoveries(entry[s]) = 1
      BY <2>2, <2>3, <3>1 DEF Recoveries
    <3> QED BY <2>1, <2>2, <2>3, <3>2 DEF Alone
  <2>4. CASE entry[s].restartTimer # "armed"
    <3>1. Recoveries(entry[s]) = entry[s].starting + entry[s].restarting
      BY <2>1, <2>2, <2>4 DEF Recoveries, Entry
    <3> QED BY <2>1, <2>2, <3>1 DEF Alone, Entry
  <2> QED BY <2>3, <2>4
<1> QED BY <1>1, EntriesInvariant, AloneInvariant, PTL

\* Without a reload scheduleTimer() never overwrites the handle of a live
\* interval: every interval is one that a park, a restart or a stop clears.
THEOREM IntervalSafe ==
  ASSUME "reload" \notin Signals
  PROVE  Spec => []OneInterval
<1>1. AllAlone => OneInterval
  BY DEF AllAlone, Alone, OneInterval
<1> QED BY <1>1, AloneInvariant, PTL

\* A stopped service keeps no timer that would bring it back on the handles
\* that stopOne() clears, but the interval of a start-up delay that was lost
\* before and elapses after the stop; and without a reload it keeps no timer
\* at all, held or lost.
THEOREM QuietSafe == Spec => []StoppedIsQuiet
<1>1. CASE "reload" \in Signals
  <2>1. AllQuiet => StoppedIsQuiet
    BY <1>1 DEF AllQuiet, Quiet, StoppedIsQuiet, QuietOK
  <2> QED BY <2>1, QuietInvariant, PTL
<1>2. CASE "reload" \notin Signals
  <2>1. EntriesOK /\ AllQuiet /\ AllAlone => StoppedIsQuiet
    BY DEF EntriesOK, AllQuiet, Quiet, AllAlone, Alone, StoppedIsQuiet, QuietOK
  <2>2. Spec => []AllAlone
    BY <1>2, AloneInvariant
  <2> QED BY <2>1, <2>2, EntriesInvariant, QuietInvariant, PTL
<1> QED BY <1>1, <1>2
=============================================================================
