-------------------------- MODULE ServiceSupervisor --------------------------
(***************************************************************************)
(* The daemon's ServiceSupervisor (src/cli/src/lib/daemon/supervisor.ts)   *)
(* and the control edges that drive it (daemon.ts: boot, SIGHUP reload,    *)
(* shutdown).                                                              *)
(*                                                                         *)
(* The supervisor is one JavaScript object on one event loop: everything   *)
(* between two awaits is atomic, so an action is the code from one await   *)
(* (or timer callback) to the next.  entry[s] is the RegisteredService of  *)
(* s, extended with the part of the event loop that belongs to s: timers   *)
(* the supervisor armed and lost the handle of, lifecycle calls it is      *)
(* awaiting, and continuations of awaitIdle that are due to run.  Time is  *)
(* abstract: an armed timer may fire at any moment.                        *)
(***************************************************************************)
EXTENDS Naturals, Sequences, FiniteSets

CONSTANTS
    Services,       \* ids of the registered services
    BootOrder,      \* the registry in insertion order
    Periodic,       \* services with tick/intervalMs/deadlineMs
    Delayed,        \* periodic services with startupDelayMs > 0
    Poked,          \* services something calls runNow() for
    BootDisabled,   \* registered with { enabled: false }
    TickIds,        \* identities of tick promises
    NoTick,         \* activeTick = undefined
    ParkAfter,      \* parkAfterFailures
    Signals,        \* what the environment sends: "reload", "shutdown"
    MaxReloads      \* bound: SIGHUP reloads handled

ASSUME SetsAssumption ==
    /\ Delayed \subseteq Periodic /\ Periodic \subseteq Services
    /\ Poked \subseteq Periodic \ Delayed
    /\ BootDisabled \subseteq Services
ASSUME BootOrderAssumption ==
    /\ BootOrder \in Seq(Services)
    /\ \A s \in Services : \E i \in 1 .. Len(BootOrder) : BootOrder[i] = s
ASSUME TickIdsAssumption ==
    /\ NoTick \notin TickIds
    /\ \E t, u \in TickIds : t # u
ASSUME BoundsAssumption ==
    /\ ParkAfter \in Nat \ {0} /\ MaxReloads \in Nat
    /\ Signals \subseteq {"reload", "shutdown"}

VARIABLES
    entry,      \* [Services -> RegisteredService and its event-loop share]
    enabled,    \* servicesConfig.services: the toggles of the last reload
    phase,      \* "boot" | "up" | "down" | "exited"
    loop,       \* services startAll()/stopAll() has still to visit
    closing,    \* stopAll() is awaiting the service.stop() of Head(loop)
    reloads     \* SIGHUPs handled so far

vars == <<entry, enabled, phase, loop, closing, reloads>>

Ops == {"start", "stop", "restart"}
States == {"idle", "running", "parked", "stopped"}

Entry == [ state        : States,
           failures     : 0 .. ParkAfter,      \* consecutiveFailures, saturated
           inFlight     : BOOLEAN,
           activeTick   : TickIds \cup {NoTick},
           everStarted  : BOOLEAN,
           timer        : BOOLEAN,             \* the held interval is live
           restartTimer : {"none", "armed", "fired"},
           startupTimer : BOOLEAN,
           waiters      : Seq(Ops),            \* control edges in awaitIdle()
           \* event loop
           resumed      : Seq(Ops),            \* released edges, due to run
           orphan       : TickIds \cup {NoTick}, \* latest abandoned tick
           aborted      : SUBSET TickIds,      \* ticks whose signal fired
           starting     : Nat,                 \* service.start() awaited
           restarting   : Nat,                 \* service.restart() awaited
           stopping     : Nat,                 \* stop(id)'s service.stop()
           leaked       : Nat,                 \* live intervals without handle
           strayRestart : Nat,                 \* armed backoffs without handle
           strayStartup : Nat,                 \* armed delays without handle
           revived      : BOOLEAN ]            \* history: one of those elapsed
                                               \* while the service was stopped

-----------------------------------------------------------------------------
(* Private methods, as functions of the entry they mutate.                 *)

\* recordFailure(): the counter is only compared with ParkAfter.
RecordFailure(e) ==
    [e EXCEPT !.failures = IF @ < ParkAfter THEN @ + 1 ELSE @]

\* Mutant: the waiters are released while the guard is still up.
MutReleaseEarly(e) ==
    [e EXCEPT !.resumed = @ \o e.waiters, !.waiters = <<>>]

\* clearInFlight(): drop the guard and release every waiter in one step.
ClearInFlight(e) ==
    [e EXCEPT !.inFlight = FALSE,
              !.resumed  = @ \o e.waiters,
              !.waiters  = <<>>]

\* scheduleTimer(): overwrites entry.timer without clearing it.
ScheduleTimer(e) ==
    [e EXCEPT !.timer = TRUE, !.leaked = IF e.timer THEN @ + 1 ELSE @]

\* scheduleRestart(): overwrites entry.restartTimer without clearing it.
ScheduleRestart(e) ==
    [e EXCEPT !.restartTimer = "armed",
              !.strayRestart = IF e.restartTimer = "armed" THEN @ + 1 ELSE @]

\* Mutant: the interval is kept.
MutParkKeepsTimer(e) ==
    IF e.state \in {"parked", "stopped"} THEN e
    ELSE LET parked == [e EXCEPT !.state = "parked"]
         IN  IF e.inFlight THEN parked ELSE ScheduleRestart(parked)

\* park(): stops the interval; the backoff waits for an in-flight tick.
Park(e) ==
    IF e.state \in {"parked", "stopped"} THEN e
    ELSE LET parked == [e EXCEPT !.state = "parked", !.timer = FALSE]
         IN  IF e.inFlight THEN parked ELSE ScheduleRestart(parked)

\* Mutant: the backoff is armed whatever the state.
MutRetryAlways(e) ==
    IF e.restartTimer = "none" THEN ScheduleRestart(e) ELSE e

\* The tail of finishTick() and of the deadline branch.
RetryIfParked(e) ==
    IF e.state = "parked" /\ e.restartTimer = "none" THEN ScheduleRestart(e) ELSE e

\* runTick() up to its race.  A fresh promise is never the abandoned one.
FreshTick(e) == CHOOSE t \in TickIds : t # e.orphan

RunTick(e) ==
    IF e.state # "running" \/ e.inFlight THEN e
    ELSE [e EXCEPT !.inFlight   = TRUE,
                   !.activeTick = FreshTick(e),
                   !.aborted    = @ \ {FreshTick(e)}]

\* Mutant: finishTick() leaves the backoff to park().
MutFinishNoRetry(e, t) ==
    IF e.activeTick # t THEN e
    ELSE ClearInFlight([e EXCEPT !.activeTick = NoTick])

\* finishTick(): version-guarded on activeTick.
FinishTick(e, t) ==
    IF e.activeTick # t THEN e
    ELSE RetryIfParked(ClearInFlight([e EXCEPT !.activeTick = NoTick]))

\* Mutants: the signal is not aborted; the waiters are forgotten.
MutAbandonSilently(e) ==
    RetryIfParked(ClearInFlight(
        [e EXCEPT !.orphan = e.activeTick, !.activeTick = NoTick]))

MutAbandonWaiters(e) ==
    RetryIfParked(
        [e EXCEPT !.aborted    = @ \cup {e.activeTick},
                  !.orphan     = e.activeTick,
                  !.activeTick = NoTick,
                  !.inFlight   = FALSE])

\* The deadline branch of runTick()'s finally.
AbandonTick(e) ==
    RetryIfParked(ClearInFlight(
        [e EXCEPT !.aborted    = @ \cup {e.activeTick},
                  !.orphan     = e.activeTick,
                  !.activeTick = NoTick]))

\* The first tick and the interval, after a start or a restart.
BeginTicking(s, e) ==
    IF s \in Periodic THEN RunTick(ScheduleTimer(e)) ELSE e

StartupElapsed(s, e) == RunTick(ScheduleTimer(e))

\* startOne() after service.start() resolved.
Started(s, e) ==
    LET up == [e EXCEPT !.everStarted = TRUE, !.state = "running"]
    IN  IF s \in Delayed
        THEN [up EXCEPT !.startupTimer = TRUE,
                        !.strayStartup = IF e.startupTimer THEN @ + 1 ELSE @]
        ELSE BeginTicking(s, up)

\* Mutants: the interval survives a stop; abort() without a tick.
MutStopKeepsInterval(e) ==
    LET quiet == [e EXCEPT !.restartTimer = "none", !.startupTimer = FALSE,
                           !.state = "stopped", !.revived = FALSE,
                           !.aborted = @ \cup ({e.activeTick} \ {NoTick})]
    IN  IF e.inFlight
        THEN [quiet EXCEPT !.resumed = @ \o e.waiters, !.waiters = <<>>]
        ELSE quiet

MutStopAbortsNothing(e) ==
    LET quiet == [e EXCEPT !.timer = FALSE, !.restartTimer = "none",
                           !.startupTimer = FALSE, !.state = "stopped",
                           !.revived = FALSE,
                           !.aborted = @ \cup {e.activeTick}]
    IN  IF e.inFlight
        THEN [quiet EXCEPT !.resumed = @ \o e.waiters, !.waiters = <<>>]
        ELSE quiet

\* stopOne() up to its await: timers cleared, tick signalled.  A forced stop
\* of a ticking service only releases the waiters and leaves the guard.
StopOne(e) ==
    LET quiet == [e EXCEPT !.timer = FALSE, !.restartTimer = "none",
                           !.startupTimer = FALSE, !.state = "stopped",
                           !.revived = FALSE,
                           !.aborted = @ \cup ({e.activeTick} \ {NoTick})]
    IN  IF e.inFlight
        THEN [quiet EXCEPT !.resumed = @ \o e.waiters, !.waiters = <<>>]
        ELSE quiet

\* attemptRestart() up to its await.
AttemptRestart(e) ==
    IF e.state = "stopped" THEN e ELSE [e EXCEPT !.restarting = @ + 1]

\* restartOne(): every held timer cleared before the restart.
RestartOne(e) ==
    AttemptRestart([e EXCEPT !.timer = FALSE, !.startupTimer = FALSE,
                             !.restartTimer = "none", !.state = "parked"])

-----------------------------------------------------------------------------
(* Microtasks run before any timer or I/O callback.                        *)
Drained == \A s \in Services : entry[s].resumed = <<>>

Turn == phase # "exited" /\ Drained

Step(s, e) == entry' = [entry EXCEPT ![s] = e]
DaemonUnchanged == UNCHANGED <<enabled, phase, loop, closing, reloads>>

NewEntry(s) ==
    [state |-> IF s \in BootDisabled THEN "stopped" ELSE "idle",
     failures |-> 0, inFlight |-> FALSE, activeTick |-> NoTick,
     everStarted |-> FALSE, timer |-> FALSE, restartTimer |-> "none",
     startupTimer |-> FALSE, waiters |-> <<>>, resumed |-> <<>>,
     orphan |-> NoTick, aborted |-> {}, starting |-> 0, restarting |-> 0,
     stopping |-> 0, leaked |-> 0, strayRestart |-> 0, strayStartup |-> 0,
     revived |-> FALSE]

Init ==
    /\ entry = [s \in Services |-> NewEntry(s)]
    /\ enabled = [s \in Services |-> s \notin BootDisabled]
    /\ phase = "boot"
    /\ loop = BootOrder
    /\ closing = FALSE
    /\ reloads = 0

(* startAll(): one startOne() at a time. *)
Booting(s) == phase = "boot" /\ loop # <<>> /\ s = Head(loop)

BootStart(s) ==
    /\ Turn /\ Booting(s)
    /\ entry[s].state = "idle" /\ entry[s].starting = 0
    /\ Step(s, [entry[s] EXCEPT !.starting = 1])
    /\ DaemonUnchanged

BootSkip ==
    /\ Turn /\ phase = "boot" /\ loop # <<>>
    /\ entry[Head(loop)].state = "stopped"
    /\ loop' = Tail(loop)
    /\ UNCHANGED <<entry, enabled, phase, closing, reloads>>

BootDone ==
    /\ Turn /\ phase = "boot" /\ loop = <<>>
    /\ phase' = "up"
    /\ UNCHANGED <<entry, enabled, loop, closing, reloads>>

\* service.start() settled; startAll() moves on to the next service.
StartSettles(s, e) ==
    /\ Turn /\ entry[s].starting > 0
    /\ Step(s, e)
    /\ loop' = IF Booting(s) THEN Tail(loop) ELSE loop
    /\ UNCHANGED <<enabled, phase, closing, reloads>>

Returned(s) == [entry[s] EXCEPT !.starting = @ - 1]

StartSucceeds(s) == StartSettles(s, Started(s, Returned(s)))

\* Mutant: a failed start() propagates out of startAll().
MutStartFailsBoot(s) ==
    /\ Turn /\ entry[s].starting > 0
    /\ Step(s, Park(RecordFailure(Returned(s))))
    /\ DaemonUnchanged

\* A throw or the lifecycle deadline.
StartFails(s) == StartSettles(s, Park(RecordFailure(Returned(s))))

-----------------------------------------------------------------------------
(* Ticks. *)
IntervalFires(s) ==
    /\ Turn /\ (entry[s].timer \/ entry[s].leaked > 0)
    /\ Step(s, RunTick(entry[s])) /\ DaemonUnchanged

RunNow(s) ==
    /\ Turn /\ s \in Poked
    /\ Step(s, RunTick(entry[s])) /\ DaemonUnchanged

StartupTimerFires(s) ==
    /\ Turn /\ entry[s].startupTimer
    /\ Step(s, StartupElapsed(s, [entry[s] EXCEPT !.startupTimer = FALSE]))
    /\ DaemonUnchanged

\* A lost startup timer clears the handle of the one that replaced it.
StrayStartupFires(s) ==
    /\ Turn /\ entry[s].strayStartup > 0
    /\ Step(s, StartupElapsed(s,
           [entry[s] EXCEPT !.startupTimer = FALSE,
                            !.strayStartup = IF entry[s].startupTimer THEN @ ELSE @ - 1,
                            !.revived = @ \/ entry[s].state = "stopped"]))
    /\ DaemonUnchanged

Guarded(s) == Turn /\ entry[s].inFlight

TickSucceeds(s) ==
    /\ Guarded(s)
    /\ Step(s, FinishTick([entry[s] EXCEPT !.failures = 0], entry[s].activeTick))
    /\ DaemonUnchanged

TickThrows(s) ==
    LET failed == RecordFailure(entry[s]) IN
    /\ Guarded(s)
    /\ Step(s, FinishTick(IF failed.failures >= ParkAfter THEN Park(failed) ELSE failed,
                          entry[s].activeTick))
    /\ DaemonUnchanged

\* Mutant: the guard is held until the real promise settles.
MutDeadlineHolds(s) ==
    /\ Guarded(s)
    /\ Step(s, Park(RecordFailure(entry[s])))
    /\ DaemonUnchanged

TickDeadline(s) ==
    /\ Guarded(s)
    /\ Step(s, AbandonTick(Park(RecordFailure(entry[s]))))
    /\ DaemonUnchanged

\* The abandoned promise settles; its result is discarded.
OrphanSettles(s) ==
    /\ Turn /\ entry[s].orphan # NoTick
    /\ Step(s, [entry[s] EXCEPT !.orphan = NoTick])
    /\ DaemonUnchanged

-----------------------------------------------------------------------------
(* Backoff restarts. *)
RestartTimerFires(s) ==
    /\ Turn /\ entry[s].restartTimer = "armed"
    /\ Step(s, AttemptRestart([entry[s] EXCEPT !.restartTimer = "fired"]))
    /\ DaemonUnchanged

StrayRestartFires(s) ==
    /\ Turn /\ entry[s].strayRestart > 0
    /\ Step(s, AttemptRestart([entry[s] EXCEPT !.strayRestart = @ - 1]))
    /\ DaemonUnchanged

RestartSucceeds(s) ==
    /\ Turn /\ entry[s].restarting > 0
    /\ Step(s, BeginTicking(s, [entry[s] EXCEPT !.restarting = @ - 1,
                                                !.everStarted = TRUE,
                                                !.state = "running",
                                                !.failures = 0]))
    /\ DaemonUnchanged

RestartFails(s) ==
    /\ Turn /\ entry[s].restarting > 0
    /\ Step(s, ScheduleRestart(RecordFailure(
           [entry[s] EXCEPT !.restarting = @ - 1, !.state = "parked"])))
    /\ DaemonUnchanged

-----------------------------------------------------------------------------
(* The daemon's control edges. *)

\* What a reload asks of s: the toggle first, then the drained restart queue.
Asks(s, toggled, restarts) ==
    (IF s \notin toggled THEN <<>> ELSE IF enabled[s] THEN <<"stop">> ELSE <<"start">>)
    \o (IF s \in restarts THEN <<"restart">> ELSE <<>>)

\* handleReload(): every request goes through awaitIdle(id).then(...).
Reload(toggled, restarts) ==
    /\ Turn /\ phase \in {"up", "down"} /\ "reload" \in Signals
    /\ reloads < MaxReloads
    /\ reloads' = reloads + 1
    /\ enabled' = [s \in Services |-> IF s \in toggled THEN ~enabled[s] ELSE enabled[s]]
    /\ entry' = [s \in Services |->
                   IF entry[s].inFlight
                   THEN [entry[s] EXCEPT !.waiters = @ \o Asks(s, toggled, restarts)]
                   ELSE [entry[s] EXCEPT !.resumed = @ \o Asks(s, toggled, restarts)]]
    /\ UNCHANGED <<phase, loop, closing>>

\* start(id), stop(id), restartOne(id): the calls that throw change nothing.
Resume(s) ==
    LET op == Head(entry[s].resumed)
        e  == [entry[s] EXCEPT !.resumed = Tail(@)]
    IN  CASE op = "start" ->
               IF e.state = "running" \/ e.inFlight THEN e
               ELSE [e EXCEPT !.starting = @ + 1]
          [] op = "stop" ->
               IF e.state = "stopped" \/ e.inFlight THEN e
               ELSE StopOne([e EXCEPT !.stopping = IF e.everStarted THEN @ + 1 ELSE @])
          [] op = "restart" ->
               IF e.inFlight THEN e ELSE RestartOne(e)

RunResumed(s) ==
    /\ phase # "exited" /\ entry[s].resumed # <<>>
    /\ Step(s, Resume(s)) /\ DaemonUnchanged

\* service.stop() settled or exceeded the lifecycle deadline: only logged.
StopSettles(s) ==
    /\ Turn /\ entry[s].stopping > 0
    /\ Step(s, [entry[s] EXCEPT !.stopping = @ - 1])
    /\ DaemonUnchanged

\* handleShutdown() is single-shot: stopAll(), then exit.
Shutdown ==
    /\ Turn /\ phase = "up" /\ "shutdown" \in Signals
    /\ phase' = "down" /\ loop' = BootOrder
    /\ UNCHANGED <<entry, enabled, closing, reloads>>

\* Mutant: shutdown waits for the tick in flight.
MutShutdownWaits(s) ==
    /\ Turn /\ phase = "down" /\ ~closing /\ loop # <<>> /\ s = Head(loop)
    /\ ~entry[s].inFlight
    /\ Step(s, StopOne(entry[s]))
    /\ IF ~entry[s].everStarted
       THEN loop' = Tail(loop) /\ UNCHANGED closing
       ELSE closing' = TRUE /\ UNCHANGED loop
    /\ UNCHANGED <<enabled, phase, reloads>>

ShutdownStop(s) ==
    /\ Turn /\ phase = "down" /\ ~closing /\ loop # <<>> /\ s = Head(loop)
    /\ Step(s, StopOne(entry[s]))
    /\ IF entry[s].inFlight \/ ~entry[s].everStarted
       THEN loop' = Tail(loop) /\ UNCHANGED closing
       ELSE closing' = TRUE /\ UNCHANGED loop
    /\ UNCHANGED <<enabled, phase, reloads>>

ShutdownStopSettles ==
    /\ Turn /\ closing
    /\ closing' = FALSE /\ loop' = Tail(loop)
    /\ UNCHANGED <<entry, enabled, phase, reloads>>

Exit ==
    /\ Turn /\ phase = "down" /\ ~closing /\ loop = <<>>
    /\ phase' = "exited"
    /\ UNCHANGED <<entry, enabled, loop, closing, reloads>>

-----------------------------------------------------------------------------
StartEnds(s)   == StartSucceeds(s) \/ StartFails(s)
TickEnds(s)    == TickSucceeds(s) \/ TickThrows(s) \/ TickDeadline(s)
RestartEnds(s) == RestartSucceeds(s) \/ RestartFails(s)
TimerFires(s)  == StartupTimerFires(s) \/ StrayStartupFires(s)
                  \/ RestartTimerFires(s) \/ StrayRestartFires(s)

ServiceStep(s) ==
    \/ BootStart(s) \/ StartEnds(s)
    \/ IntervalFires(s) \/ RunNow(s) \/ TickEnds(s) \/ OrphanSettles(s)
    \/ TimerFires(s) \/ RestartEnds(s)
    \/ RunResumed(s) \/ StopSettles(s) \/ ShutdownStop(s)

DaemonStep == BootSkip \/ BootDone \/ Shutdown \/ ShutdownStopSettles \/ Exit

Next ==
    \/ \E s \in Services : ServiceStep(s)
    \/ DaemonStep
    \/ \E toggled, restarts \in SUBSET Services : Reload(toggled, restarts)

\* The event loop runs what is due, every armed timer fires and every awaited
\* call races a deadline.  Nothing is assumed of the services: a start, tick,
\* restart or stop may never settle.  Nothing is assumed of signals either.
Fairness ==
    /\ WF_vars(BootSkip) /\ WF_vars(BootDone)
    /\ WF_vars(ShutdownStopSettles) /\ WF_vars(Exit)
    /\ \A s \in Services :
         /\ WF_vars(BootStart(s)) /\ WF_vars(ShutdownStop(s)) /\ WF_vars(RunResumed(s))
         /\ WF_vars(StartFails(s)) /\ WF_vars(TickDeadline(s)) /\ WF_vars(RestartFails(s))
         /\ WF_vars(StartupTimerFires(s)) /\ WF_vars(RestartTimerFires(s))
         /\ WF_vars(IntervalFires(s))

Spec == Init /\ [][Next]_vars
FairSpec == Spec /\ Fairness

-----------------------------------------------------------------------------
(* Type invariant. *)
TypeOK ==
    /\ entry \in [Services -> Entry]
    /\ enabled \in [Services -> BOOLEAN]
    /\ phase \in {"boot", "up", "down", "exited"}
    /\ loop \in Seq(Services)
    /\ closing \in BOOLEAN
    /\ reloads \in 0 .. MaxReloads

(* Safety of the in-flight guard. *)

GuardOK(e) ==
    /\ e.inFlight <=> e.activeTick # NoTick
    /\ e.orphan # NoTick => e.orphan # e.activeTick /\ e.orphan \in e.aborted
    /\ e.inFlight /\ e.state = "stopped" => e.activeTick \in e.aborted

\* The guard is never latched without a tick promise to release it (the
\* silent freeze of the header comment), no abandoned tick owns it, and every
\* tick the supervisor gave up on, or stopped under, had its signal aborted.
GuardHasOwner == \A s \in Services : GuardOK(entry[s])

EdgesOK(e) ==
    /\ e.waiters # <<>> => e.inFlight
    /\ e.resumed # <<>> => ~e.inFlight \/ e.state = "stopped"

\* A control edge waits in awaitIdle() only while there is a tick to wait for,
\* and when its continuation runs the guard is down, so that stop(), start()
\* and restartOne() do not refuse it; only a forced stop resumes it otherwise.
EdgesResumeIdle == \A s \in Services : EdgesOK(entry[s])

(* Safety of the circuit breaker. *)
Pending(e) == e.restarting > 0 \/ e.restartTimer = "armed" \/ e.strayRestart > 0

\* The header's promise: a parked service is retried on backoff.
ParkedIsRetried ==
    \A s \in Services :
        entry[s].state = "parked" /\ ~entry[s].inFlight => Pending(entry[s])

RetryOK(e) ==
    e.state = "parked" => e.inFlight \/ Pending(e) \/ e.restartTimer = "fired"

\* What the code does guarantee: a parked service is left without a retry
\* only when restartTimer still holds the handle of a backoff that has fired.
ParkedIsRetriedOnce == \A s \in Services : RetryOK(entry[s])

\* Left to itself, the supervisor never has two recoveries of one service
\* going, nor one while the service is up: no restart() pulls the resources
\* from under a tick and no second interval doubles the tick rate.
Recoveries(e) ==
    e.starting + e.restarting + e.strayRestart
    + (IF e.restartTimer = "armed" THEN 1 ELSE 0)

OneRecovery ==
    \A s \in Services : LET e == entry[s] IN
        /\ Recoveries(e) <= 1
        /\ Recoveries(e) = 1 => e.state # "running" /\ ~e.inFlight /\ ~e.timer

\* Every live interval is one that stopOne(), park() and restartOne() can clear.
OneInterval == \A s \in Services : entry[s].leaked = 0

QuietOK(e) ==
    e.state = "stopped" =>
        /\ e.restartTimer # "armed" /\ ~e.startupTimer
        /\ e.timer => e.revived
        /\ "reload" \notin Signals =>
             ~e.timer /\ e.leaked + e.strayRestart + e.strayStartup = 0

\* stopOne() leaves no backoff, no start-up delay and no interval on the
\* handles it clears, and none comes back while the service is stopped, except
\* the interval of a start-up delay whose handle an earlier start() had
\* overwritten.  Without a reload nothing is overwritten: a stopped service
\* then has no timer at all, held or lost.
StoppedIsQuiet == \A s \in Services : QuietOK(entry[s])

(* Liveness. *)

\* A tick that never settles does not hold the guard forever.
GuardReleased ==
    \A s \in Services : entry[s].inFlight ~> ~entry[s].inFlight \/ phase = "exited"

\* A reload's request reaches the supervisor even if the tick it waits for hangs.
EdgesAct ==
    \A s \in Services :
        entry[s].waiters # <<>> ~>
            \/ entry[s].waiters = <<>> /\ entry[s].resumed = <<>>
            \/ phase = "exited"

\* Wedged start() and stop() calls stall neither boot nor shutdown.
BootCompletes == <>(phase # "boot")
ShutdownCompletes == phase = "down" ~> phase = "exited"
=============================================================================
