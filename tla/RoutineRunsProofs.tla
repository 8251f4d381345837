------------------------- MODULE RoutineRunsProofs -------------------------
(***************************************************************************)
(* Proofs about RoutineRuns, for any set of attempts, any number of slots, *)
(* versions and faults: the types, that a slot is launched at most once,   *)
(* that children overlap only when one of them is adrift or had a record   *)
(* that could not be read, and that an ended attempt left a terminal       *)
(* record.                                                                 *)
(***************************************************************************)
EXTENDS RoutineRuns, TLAPS

Early == {"idle", "overdue", "missing", "waiting", "claimed", "clear"}
Unspawned == Early \cup {"dispatch", "prepared"}
InLock == {"claimed", "clear"}

\* The attempt has claimed the slot it is for: the slot's run directory is
\* its own, or it won the catch-up.
Owns(a) ==
    /\ att[a].slot > 0
    /\ \/ RunOf(a) # None
       \/ att[a].kind = "catchup" /\ Stage(a) \in {"missing", "waiting"}

\* Its child is running or about to be.
Held(a) == Stage(a) \in {"dispatch", "prepared", "spawned"} \/ child[a] = "alive"

CallOK(a) ==
    /\ att[a].kind # "manual" => att[a].slot \in Slots
    /\ att[a].kind = "manual" => att[a].slot = 0
    /\ Stage(a) = "overdue" => att[a].kind = "catchup" /\ RunOf(a) = None
    /\ Stage(a) = "missing" => att[a].kind = "catchup"
    /\ Stage(a) \in {"idle", "missing", "waiting"} => RunOf(a) = None
    /\ Stage(a) \notin {"idle", "overdue", "missing", "waiting", "done", "dead"}
          => RunOf(a) # None
    /\ RunOf(a) # None => RunOf(a) = IF att[a].kind = "schedule"
                                     THEN att[a].slot ELSE a
    /\ child[a] # "none" => RunOf(a) # None
    /\ Stage(a) \in Unspawned => child[a] = "none"
    /\ Stage(a) \in InLock => lock = a

SlotPart(a) ==
    /\ Owns(a) => rec[att[a].slot].status # "absent"
    /\ RunOf(a) # None => rec[RunOf(a)].status # "absent"
    /\ \A b \in Attempts :
          Owns(a) /\ Owns(b) /\ att[a].slot = att[b].slot => a = b

\* What a record, or a sweep's copy of one, tells of the attempt it is by.
Told(m) ==
    /\ m.pid = "launcher" => att[m.by].cli
    /\ m.pid = "child" => Stage(m.by) \notin Unspawned \cup {"spawned"}
    /\ m.pid = "gone" => m.by \in adrift

RecPart(r) ==
    /\ rec[r].by # None => RunOf(rec[r].by) = r /\ Told(rec[r])
    /\ rec[r].status = "running" => rec[r].by # None

CopyPart(x) ==
    reaper[x] # None =>
        /\ reaper[x].copy.by # None
        /\ RunOf(reaper[x].copy.by) = reaper[x].run
        /\ Told(reaper[x].copy)

\* The record of a held attempt that is not adrift keeps others out.
SeenPart(a) ==
    Held(a) /\ a \notin adrift =>
        LET m == rec[RunOf(a)]
        IN  /\ m.status = "running" /\ m.by = a /\ age[a] = 0
            /\ m.pid = "launcher" => Stage(a) \in {"dispatch", "spawned"}
            /\ m.pid = "child" => child[a] = "alive"

\* No two of them at once, nor one beside an attempt that found none, unless
\* the record of one was torn when the other looked.
AlonePart(a) ==
    \A b \in Attempts \ {a} :
        Held(b) /\ b \notin adrift /\ <<a, b>> \notin unread =>
            /\ Stage(a) # "clear"
            /\ Held(a) => a \in adrift \/ <<b, a>> \in unread

\* An attempt that is over, or waits for its child to go, left its verdict.
EndPart(a) ==
    Stage(a) \in {"dying", "done"} /\ RunOf(a) # None
    => rec[RunOf(a)].status \notin {"absent", "empty", "running"}

\* The inductive invariant.
RunsInv ==
    /\ TypeOK /\ (armed => due > 0)
    /\ \A a \in Attempts : /\ CallOK(a) /\ SlotPart(a) /\ SeenPart(a)
                           /\ AlonePart(a) /\ EndPart(a)
    /\ \A r \in Runs : RecPart(r)
    /\ \A x \in Reapers : CopyPart(x)
-----------------------------------------------------------------------------
(* Types.                                                                  *)

Pids == {"null", "launcher", "child", "gone"}
Ends == {"completed", "failed", "timeout", "missed", "skipped", "blocked"}

LEMMA MetaTypes ==
  /\ Absent \in Metas /\ Empty \in Metas /\ Torn \in Metas
  /\ Torn.status = "torn" /\ Torn.by = None
  /\ \A s \in Statuses, p \in Pids, t \in BOOLEAN, a \in Attempts \cup {None} :
        /\ Meta(s, p, t, a) \in Metas
        /\ Meta(s, p, t, a).status = s /\ Meta(s, p, t, a).pid = p
        /\ Meta(s, p, t, a).by = a
  /\ \A m \in Metas, s \in Statuses :
        /\ [m EXCEPT !.status = s] \in Metas
        /\ [m EXCEPT !.status = s].status = s
        /\ [m EXCEPT !.status = s].pid = m.pid
        /\ [m EXCEPT !.status = s].by = m.by
BY DEF Metas, Meta, Absent, Empty, Torn, Statuses, Pids

LEMMA Literals ==
  /\ Ends \cup {"running"} \subseteq Statuses
  /\ Ends \cap {"absent", "empty", "running"} = {}
  /\ {"null", "launcher", "child", "gone"} \subseteq Pids
  /\ \A a \in Attempts :
        ClaimPid(a) \in Pids /\ ChildPid(a) \in Pids /\ Outcome(a) \in Ends
  /\ {"missing", "done", "waiting", "claimed", "clear", "dispatch", "prepared",
      "spawned", "watched", "dying", "dead", "overdue"} \subseteq Stages
BY DEF Statuses, Ends, Pids, ClaimPid, ChildPid, Outcome, Stages, Sync

LEMMA InitTypes ==
  ASSUME Init PROVE TypeOK
<1>1. [stage |-> "idle", cli |-> FALSE, kind |-> "manual", slot |-> 0,
       run |-> None, born |-> 0, tries |-> 0] \in Calls
  BY SlotsAssumption, BoundsAssumption DEF Calls, Stages
<1>2. att \in [Attempts -> Calls]
  BY <1>1 DEF Init
<1>3. rec \in [Runs -> Metas] /\ era \in [Runs -> 0 .. NumSlots]
  BY MetaTypes, SlotsAssumption DEF Init
<1>4. /\ due \in 0 .. NumSlots /\ faults \in 0 .. MaxFaults
      /\ age \in [Attempts -> 0 .. 2]
      /\ child \in [Attempts -> {"none", "failed", "alive", "ok", "bad"}]
  BY SlotsAssumption, BoundsAssumption DEF Init
<1>6. /\ armed \in BOOLEAN /\ daemonUp \in BOOLEAN
      /\ lock \in Attempts \cup {Free} /\ adrift \subseteq Attempts
      /\ unread \subseteq Attempts \X Attempts
  BY DEF Init
<1>5. reaper \in [Reapers -> {None} \cup
                      [run : Runs, copy : Metas, aged : BOOLEAN]]
  BY DEF Init
<1> QED BY <1>2, <1>3, <1>4, <1>5, <1>6 DEF TypeOK

LEMMA RunTypes ==
  ASSUME TypeOK, NEW a \in Attempts
  PROVE  /\ att[a] \in Calls /\ RunOf(a) \in Runs \cup {None}
         /\ RunOf(a) # None => RunOf(a) \in Runs
         /\ a \in Runs /\ (att[a].slot > 0 => att[a].slot \in Runs)
BY SlotsAssumption DEF TypeOK, Calls, RunOf, Runs, Slots

LEMMA GotoTypes ==
  ASSUME TypeOK, NEW a \in Attempts, NEW s \in Stages, Goto(a, s)
  PROVE  /\ att' \in [Attempts -> Calls]
         /\ \A b \in Attempts \ {a} : att'[b] = att[b]
         /\ att'[a].stage = s /\ att'[a].run = att[a].run
         /\ att'[a].cli = att[a].cli /\ att'[a].kind = att[a].kind
         /\ att'[a].slot = att[a].slot
<1>1. [att[a] EXCEPT !.stage = s] \in Calls
  BY DEF Calls, TypeOK
<1>2. att' = [b \in Attempts |-> IF b = a THEN [att[a] EXCEPT !.stage = s]
                                 ELSE att[b]]
  BY DEF Goto, TypeOK
<1>3. att[a] \in Calls
  BY DEF TypeOK
<1>4. LET c == [att[a] EXCEPT !.stage = s]
      IN  c.stage = s /\ c.run = att[a].run /\ c.cli = att[a].cli
          /\ c.kind = att[a].kind /\ c.slot = att[a].slot
  BY <1>3 DEF Calls
<1> QED BY <1>1, <1>2, <1>4 DEF TypeOK

LEMMA WriteTypes ==
  ASSUME TypeOK, NEW r \in Runs, NEW m \in Metas, Write(r, m)
  PROVE  /\ rec' \in [Runs -> Metas] /\ rec'[r] = m
         /\ \A q \in Runs \ {r} : rec'[q] = rec[q]
BY DEF Write, TypeOK

LEMMA StampTypes ==
  ASSUME TypeOK, NEW r, Stamp(r)
  PROVE  era' \in [Runs -> 0 .. NumSlots]
BY DEF Stamp, TypeOK

LEMMA AgeTypes ==
  ASSUME TypeOK, NEW a \in Attempts, age' = [age EXCEPT ![a] = 0]
  PROVE  /\ age' \in [Attempts -> 0 .. 2] /\ age'[a] = 0
         /\ \A b \in Attempts \ {a} : age'[b] = age[b]
BY DEF TypeOK

LEMMA ChildTypes ==
  ASSUME TypeOK, NEW a \in Attempts, NEW c \in {"failed", "alive", "ok", "bad"},
         child' = [child EXCEPT ![a] = c]
  PROVE  /\ child' \in [Attempts -> {"none", "failed", "alive", "ok", "bad"}]
         /\ child'[a] = c /\ \A b \in Attempts \ {a} : child'[b] = child[b]
BY DEF TypeOK
-----------------------------------------------------------------------------
(* A step of one attempt.                                                  *)

\* Nothing but attempt a and the record r changes.
Apart(a, r) ==
    /\ \A b \in Attempts \ {a} :
          /\ att'[b] = att[b] /\ child'[b] = child[b] /\ age'[b] = age[b]
          /\ b \in adrift' <=> b \in adrift
    /\ \A q \in Runs \ {r} : rec'[q] = rec[q]
    /\ \A x \in Reapers : reaper'[x] \in {reaper[x], None}
    /\ adrift \subseteq adrift' /\ unread \subseteq unread'
    /\ lock' = lock \/ lock \in {a, Free}
    /\ armed' => due' > 0

\* What was known of a run of a stays known.
Steady(a) ==
    RunOf(a) # None =>
        /\ att'[a].run = RunOf(a) /\ att'[a].cli = att[a].cli
        /\ Stage(a) \notin Unspawned \cup {"spawned"}
              => att'[a].stage \notin Unspawned \cup {"spawned"}

\* The step does not make a a second held attempt.
StaysAlone(a) ==
    \/ /\ Held(a)' /\ a \notin adrift' => Held(a) /\ a \notin adrift
       /\ Stage(a)' = "clear" => Stage(a) = "clear"
    \/ \A b \in Attempts \ {a} :
          /\ Held(b) => b \in adrift \/ <<a, b>> \in unread'
          /\ Stage(b) # "clear"

\* The invariant, as far as it is about a and r.
SelfPart(a, r) ==
    /\ CallOK(a) /\ SeenPart(a) /\ EndPart(a) /\ RecPart(r)
    /\ Owns(a) => rec[att[a].slot].status # "absent"
    /\ RunOf(a) # None => rec[RunOf(a)].status # "absent"

\* The slot is not another attempt's.
OwnSlot(a) ==
    Owns(a)' => \/ Owns(a) /\ att'[a].slot = att[a].slot
                \/ \A b \in Attempts \ {a} :
                      ~(Owns(b) /\ att[b].slot = att'[a].slot)

LEMMA OneRun ==
  ASSUME RunsInv, NEW a \in Attempts, NEW b \in Attempts,
         RunOf(a) # None, RunOf(a) = RunOf(b)
  PROVE  a = b
<1>1. CallOK(a) /\ CallOK(b) /\ SlotPart(a)
  BY DEF RunsInv
<1>2. att[a].kind = "schedule" <=> att[b].kind = "schedule"
  BY <1>1, SlotsAssumption DEF CallOK
<1>3. CASE att[a].kind = "schedule"
  <2>1. att[a].slot = att[b].slot /\ att[a].slot \in Slots
    BY <1>1, <1>2, <1>3 DEF CallOK
  <2>2. Owns(a) /\ Owns(b)
    BY <2>1, SlotsAssumption DEF Owns, Slots
  <2> QED BY <1>1, <2>1, <2>2 DEF SlotPart
<1> QED BY <1>1, <1>2, <1>3 DEF CallOK

LEMMA OneStep ==
  ASSUME RunsInv, NEW a \in Attempts, NEW r \in Runs, TypeOK',
         Apart(a, r), Steady(a), StaysAlone(a), SelfPart(a, r)', OwnSlot(a),
         rec[r].status # "absent" => rec'[r].status # "absent",
         rec'[r] = rec[r] \/ \A b \in Attempts \ {a} : RunOf(b) # r
  PROVE  RunsInv'
<1> USE DEF RunOf, Stage
<1>1. ASSUME NEW b \in Attempts \ {a} PROVE CallOK(b)'
  BY <1>1, SentinelAssumption DEF RunsInv, Apart, CallOK, InLock
<1>2. ASSUME NEW b \in Attempts \ {a}, att[b].run # None
      PROVE  att[b].run \in Runs /\ rec'[att[b].run] = rec[att[b].run]
  <2>1. att[b].run \in Runs
    BY <1>2, RunTypes DEF RunsInv
  <2> QED BY <2>1, <1>2 DEF Apart
<1>3. ASSUME NEW q \in Runs, rec[q].status # "absent"
      PROVE  rec'[q].status # "absent"
  BY <1>3 DEF Apart
<1>4. ASSUME NEW b \in Attempts PROVE SlotPart(b)'
  <2>1. Owns(b)' => rec'[att'[b].slot].status # "absent"
    <3>1. CASE b = a
      BY <3>1 DEF SelfPart
    <3>2. CASE b # a
      <4>1. Owns(b)' => Owns(b) /\ att'[b].slot = att[b].slot
        BY <3>2 DEF Owns, Apart
      <4>2. Owns(b) => att[b].slot \in Runs /\ rec[att[b].slot].status # "absent"
        BY RunTypes DEF RunsInv, Owns, SlotPart
      <4> QED BY <4>1, <4>2, <1>3
    <3> QED BY <3>1, <3>2
  <2>2. att'[b].run # None => rec'[att'[b].run].status # "absent"
    <3>1. CASE b = a
      BY <3>1 DEF SelfPart
    <3>2. CASE b # a
      BY <3>2, <1>2 DEF Apart, RunsInv, SlotPart
    <3> QED BY <3>1, <3>2
  <2>3. ASSUME NEW c \in Attempts, Owns(b)', Owns(c)',
               att'[b].slot = att'[c].slot
        PROVE  b = c
    <3>1. \A d \in Attempts \ {a} :
             (Owns(d)' <=> Owns(d)) /\ att'[d].slot = att[d].slot
      BY DEF Owns, Apart
    <3>2. CASE b # a /\ c # a
      BY <3>1, <3>2, <2>3 DEF RunsInv, SlotPart
    <3>3. CASE b = a /\ c # a
      BY <3>1, <3>3, <2>3 DEF RunsInv, SlotPart, OwnSlot
    <3>4. CASE b # a /\ c = a
      BY <3>1, <3>4, <2>3 DEF RunsInv, SlotPart, OwnSlot
    <3> QED BY <3>2, <3>3, <3>4
  <2> QED BY <2>1, <2>2, <2>3 DEF SlotPart
<1>5. ASSUME NEW b \in Attempts \ {a}
      PROVE  SeenPart(b)' /\ (Held(b)' <=> Held(b))
  <2>1. Held(b)' <=> Held(b)
    BY DEF Held, Apart
  <2>2. Held(b) => att[b].run # None
    BY DEF RunsInv, CallOK, Held
  <2> QED BY <2>1, <2>2, <1>2 DEF RunsInv, SeenPart, Apart
<1>6. ASSUME NEW b \in Attempts PROVE AlonePart(b)'
  <2>1. \A c \in Attempts \ {a} :
           /\ Held(c)' <=> Held(c)
           /\ c \in adrift' <=> c \in adrift
           /\ Stage(c)' = Stage(c)
    BY <1>5 DEF Apart
  <2>2. \A c \in Attempts : AlonePart(c)
    BY DEF RunsInv
  <2>4. \A c, d \in Attempts : <<c, d>> \in unread => <<c, d>> \in unread'
    BY DEF Apart
  <2>3. ASSUME NEW c \in Attempts \ {b}, Held(c)', c \notin adrift',
               <<b, c>> \notin unread'
        PROVE  /\ Stage(b)' # "clear"
               /\ Held(b)' => b \in adrift' \/ <<c, b>> \in unread'
    <3>1. CASE b # a /\ c # a
      BY <2>1, <2>2, <2>3, <2>4, <3>1 DEF AlonePart
    <3>2. CASE b = a
      BY <2>1, <2>2, <2>3, <2>4, <3>2 DEF AlonePart, StaysAlone
    <3>3. CASE c = a
      BY <2>1, <2>2, <2>3, <2>4, <3>3 DEF AlonePart, StaysAlone
    <3> QED BY <3>1, <3>2, <3>3
  <2> QED BY <2>3 DEF AlonePart
<1>7. ASSUME NEW b \in Attempts, att[b].run # None
      PROVE  /\ att'[b].run = att[b].run /\ att'[b].cli = att[b].cli
             /\ b \in adrift => b \in adrift'
             /\ Stage(b) \notin Unspawned \cup {"spawned"}
                   => Stage(b)' \notin Unspawned \cup {"spawned"}
  BY <1>7 DEF Apart, Steady
<1>8. ASSUME NEW q \in Runs PROVE RecPart(q)'
  <2>1. CASE rec'[q] = rec[q]
    <3>1. RecPart(q) /\ rec[q].by \in Attempts \cup {None}
      BY DEF RunsInv, TypeOK, Metas
    <3> QED BY <2>1, <3>1, <1>7, SentinelAssumption DEF RecPart, Told
  <2> QED BY <2>1 DEF Apart, SelfPart
<1>9. ASSUME NEW x \in Reapers PROVE CopyPart(x)'
  <2>1. CASE reaper'[x] # None
    <3>1. reaper'[x] = reaper[x] /\ reaper[x] # None
      BY <2>1 DEF Apart
    <3>2. /\ reaper[x].copy.by \in Attempts /\ reaper[x].run \in Runs
      BY <3>1 DEF RunsInv, TypeOK, Metas, CopyPart
    <3>3. att[reaper[x].copy.by].run # None
      BY <3>1, <3>2, SentinelAssumption DEF RunsInv, CopyPart
    <3> QED BY <3>1, <3>2, <3>3, <1>7 DEF RunsInv, CopyPart, Told
  <2> QED BY <2>1 DEF CopyPart
<1>10. ASSUME NEW b \in Attempts PROVE EndPart(b)'
  BY <1>2 DEF EndPart, RunsInv, Apart, SelfPart
<1>11. CallOK(a)' /\ SeenPart(a)'
  BY DEF SelfPart
<1> QED BY <1>1, <1>4, <1>5, <1>6, <1>8, <1>9, <1>10, <1>11
        DEF RunsInv, Apart
-----------------------------------------------------------------------------
(* Steps of an attempt that has a run.                                     *)

LEMMA InitInv ==
  ASSUME Init PROVE RunsInv
<1>1. \A a \in Attempts : /\ Stage(a) = "idle" /\ RunOf(a) = None
                          /\ att[a].kind = "manual" /\ att[a].slot = 0
                          /\ child[a] = "none"
  BY DEF Init, Stage, RunOf
<1>2. \A a \in Attempts : CallOK(a)
  BY <1>1, SlotsAssumption DEF CallOK, InLock
<1>3. \A a \in Attempts : SlotPart(a)
  BY <1>1 DEF SlotPart, Owns
<1>4. \A a \in Attempts : SeenPart(a) /\ AlonePart(a)
  BY <1>1 DEF SeenPart, AlonePart, Held
<1>5. \A r \in Runs : rec[r].by = None /\ rec[r].status = "absent"
  BY DEF Init, Absent, Meta
<1>6. \A r \in Runs : RecPart(r)
  BY <1>5 DEF RecPart
<1>7. \A x \in Reapers : CopyPart(x)
  BY DEF Init, CopyPart
<1>8. \A a \in Attempts : EndPart(a)
  BY <1>1 DEF EndPart
<1>9. armed => due > 0
  BY DEF Init
<1> QED BY <1>2, <1>3, <1>4, <1>6, <1>7, <1>8, <1>9, InitTypes DEF RunsInv

\* An attempt that goes on with the run it has.
LEMMA RunStep ==
  ASSUME RunsInv, NEW a \in Attempts, NEW r \in Runs, RunOf(a) = r, TypeOK',
         Apart(a, r), Steady(a), StaysAlone(a),
         att'[a].run = att[a].run, att'[a].cli = att[a].cli,
         att'[a].kind = att[a].kind, att'[a].slot = att[a].slot,
         Stage(a)' \notin {"idle", "overdue", "missing", "waiting"},
         Stage(a)' \in Unspawned => child'[a] = "none",
         Stage(a)' \in InLock => lock' = a,
         SeenPart(a)', RecPart(r)', rec'[r].status # "absent",
         Stage(a)' \in {"dying", "done"}
             => rec'[r].status \notin {"absent", "empty", "running"}
  PROVE  RunsInv'
<1> USE DEF RunOf, Stage
<1>1. CallOK(a) /\ SlotPart(a) /\ r # None
  BY SentinelAssumption DEF RunsInv
<1>2. CallOK(a)'
  BY <1>1 DEF CallOK
<1>3. Owns(a)' => rec'[att'[a].slot].status # "absent"
  <2>1. Owns(a)' => Owns(a)
    BY <1>1 DEF Owns
  <2>2. Owns(a) => att[a].slot \in Runs /\ rec[att[a].slot].status # "absent"
    BY <1>1, RunTypes DEF RunsInv, Owns, SlotPart
  <2> QED BY <2>1, <2>2 DEF Apart
<1>4. SelfPart(a, r)'
  BY <1>1, <1>2, <1>3 DEF SelfPart, EndPart, RunOf
<1>5. OwnSlot(a)
  BY <1>1 DEF OwnSlot, Owns
<1>6. \A b \in Attempts \ {a} : RunOf(b) # r
  BY <1>1, OneRun
<1> QED BY <1>4, <1>5, <1>6, OneStep

\* What the invariant says of an attempt that has a run.
LEMMA OwnFacts ==
  ASSUME RunsInv, NEW a \in Attempts, RunOf(a) # None
  PROVE  /\ TypeOK /\ RunOf(a) \in Runs /\ rec[RunOf(a)] \in Metas
         /\ CallOK(a) /\ SlotPart(a) /\ SeenPart(a) /\ AlonePart(a)
         /\ RecPart(RunOf(a)) /\ rec[RunOf(a)].status # "absent"
         /\ rec[RunOf(a)].by \in Attempts => rec[RunOf(a)].by = a
         /\ a \in Attempts \cup {None} /\ a # None /\ Free # a
<1>1. RunOf(a) \in Runs /\ rec[RunOf(a)] \in Metas
  BY RunTypes DEF RunsInv, TypeOK
<1>2. rec[RunOf(a)].by \in Attempts => rec[RunOf(a)].by = a
  <2>1. ASSUME NEW b \in Attempts, rec[RunOf(a)].by = b PROVE a = b
    BY <1>1, <2>1, OneRun, SentinelAssumption DEF RunsInv, RecPart, Runs
  <2> QED BY <2>1
<1> QED BY <1>1, <1>2, SentinelAssumption DEF RunsInv, SlotPart, Runs

\* Before its child is started.
LEMMA TurnedKeeps ==
  ASSUME RunsInv, NEW a \in Attempts, NEW s \in Ends, Turned(a, s),
         Stage(a) \in InLock,
         UNCHANGED <<due, armed, daemonUp, child, age, reaper, adrift, unread,
                     faults>>
  PROVE  RunsInv'
<1>1. RunOf(a) # None
  BY DEF RunsInv, CallOK, InLock
<1>2. PICK r \in Runs : r = RunOf(a)
  BY <1>1, OwnFacts
<1>3. TypeOK /\ CallOK(a) /\ a # None
  BY <1>1, OwnFacts
<1>4. Meta(s, "null", FALSE, None) \in Metas
  BY MetaTypes, Literals
<1>5. /\ rec' \in [Runs -> Metas] /\ rec'[r] = Meta(s, "null", FALSE, None)
      /\ \A q \in Runs \ {r} : rec'[q] = rec[q]
  BY <1>2, <1>3, <1>4, WriteTypes DEF Turned
<1>6. rec'[r].status = s /\ rec'[r].pid = "null" /\ rec'[r].by = None
  BY <1>5 DEF Meta
<1>7. /\ att' \in [Attempts -> Calls]
      /\ \A b \in Attempts \ {a} : att'[b] = att[b]
      /\ att'[a].stage = "done" /\ att'[a].run = att[a].run
      /\ att'[a].cli = att[a].cli /\ att'[a].kind = att[a].kind
      /\ att'[a].slot = att[a].slot
  BY <1>3, GotoTypes, Literals DEF Turned
<1>8. era' \in [Runs -> 0 .. NumSlots]
  BY <1>3, StampTypes DEF Turned
<1>9. TypeOK'
  BY <1>3, <1>5, <1>7, <1>8 DEF TypeOK, Turned
<1>10. child[a] = "none" /\ lock = a
  BY <1>3 DEF CallOK, InLock, Unspawned, Early
<1>11. Apart(a, r)
  BY <1>5, <1>7, <1>10 DEF Apart, Turned, RunsInv
<1>12. ~Held(a)' /\ Stage(a)' = "done"
  BY <1>7, <1>10 DEF Held, Stage
<1>13. Steady(a) /\ StaysAlone(a) /\ SeenPart(a)'
  BY <1>7, <1>12 DEF Steady, StaysAlone, SeenPart, RunOf, Stage, Unspawned, Early
<1>14. RecPart(r)' /\ rec'[r].status \notin {"absent", "empty", "running"}
  BY <1>6, Literals DEF RecPart
<1> QED BY <1>2, <1>7, <1>9, <1>10, <1>11, <1>12, <1>13, <1>14, RunStep
        DEF Unspawned, Early, InLock

LEMMA LookKeeps ==
  ASSUME RunsInv, NEW a \in Attempts, Look(a) PROVE RunsInv'
<1>1. RunOf(a) # None /\ Stage(a) = "claimed"
  BY DEF RunsInv, CallOK, Look
<1>2. PICK r \in Runs : r = RunOf(a)
  BY <1>1, OwnFacts
<1>3. TypeOK /\ CallOK(a) /\ RecPart(r) /\ rec[r].status # "absent"
  BY <1>1, <1>2, OwnFacts
<1>4. CASE Turned(a, "skipped") /\ UNCHANGED unread
  BY <1>1, <1>4, TurnedKeeps DEF Look, Ends, InLock
<1>5. ASSUME NEW blank \in SUBSET {q \in Runs : Rewritten(q, att[a].cli)},
             ~\E q \in Runs \ (blank \cup {RunOf(a)}) : Active(q),
             Goto(a, "clear"), UNCHANGED <<rec, era, lock>>,
             unread' = unread \cup {<<a, rec[q].by>> :
                            q \in {w \in blank : Active(w)}}
      PROVE  RunsInv'
  <2>1. /\ att' \in [Attempts -> Calls]
        /\ \A b \in Attempts \ {a} : att'[b] = att[b]
        /\ att'[a].stage = "clear" /\ att'[a].run = att[a].run
        /\ att'[a].cli = att[a].cli /\ att'[a].kind = att[a].kind
        /\ att'[a].slot = att[a].slot
    BY <1>3, <1>5, GotoTypes, Literals
  <2>10. unread' \subseteq Attempts \X Attempts
    <3>1. ASSUME NEW q \in blank, Active(q) PROVE rec[q].by \in Attempts
      <4>1. RecPart(q) /\ rec[q].by \in Attempts \cup {None}
        BY <3>1, <1>5 DEF RunsInv, TypeOK, Metas
      <4> QED BY <3>1, <4>1 DEF RecPart, Active
    <3> QED BY <1>3, <1>5, <3>1 DEF TypeOK
  <2>2. TypeOK'
    BY <1>3, <1>5, <2>1, <2>10 DEF TypeOK, Look
  <2>3. child[a] = "none" /\ lock = a
    BY <1>1, <1>3 DEF CallOK, InLock, Unspawned, Early
  <2>4. Apart(a, r)
    BY <1>5, <2>1, <2>3 DEF Apart, Look, RunsInv
  <2>5. ASSUME NEW b \in Attempts \ {a}
        PROVE  /\ Held(b) => b \in adrift \/ <<a, b>> \in unread'
               /\ Stage(b) # "clear"
    <3>1. ASSUME Held(b), b \notin adrift, <<a, b>> \notin unread' PROVE FALSE
      <4>1. RunOf(b) # None
        BY <3>1 DEF RunsInv, CallOK, Held
      <4>2. RunOf(b) # RunOf(a)
        BY <4>1, <1>1, OneRun
      <4>3. SeenPart(b) /\ RunOf(b) \in Runs
        BY <4>1, OwnFacts
      <4>4. /\ rec[RunOf(b)].status = "running" /\ rec[RunOf(b)].by = b
            /\ age[b] = 0
            /\ rec[RunOf(b)].pid = "launcher" => Stage(b) \in {"dispatch", "spawned"}
            /\ rec[RunOf(b)].pid = "child" => child[b] = "alive"
        BY <3>1, <4>3 DEF SeenPart
      <4>5. RecPart(RunOf(b)) /\ b # None
        BY <4>1, OwnFacts
      <4>6. rec[RunOf(b)].pid # "gone"
        BY <4>4, <4>5, <3>1 DEF RecPart, Told
      <4>7. rec[RunOf(b)].pid \in {"null", "launcher", "child", "gone"}
        BY <4>1, OwnFacts DEF Metas
      <4>8. Active(RunOf(b))
        BY <4>4, <4>6, <4>7 DEF Active, Ours, Running
      <4>9. RunOf(b) \notin blank
        BY <1>5, <3>1, <4>4, <4>8
      <4> QED BY <1>5, <4>2, <4>3, <4>8, <4>9
    <3>2. Stage(b) # "clear"
      BY <2>3 DEF RunsInv, CallOK, InLock
    <3> QED BY <3>1, <3>2
  <2>6. Steady(a) /\ StaysAlone(a)
    BY <1>1, <2>1, <2>5 DEF Steady, StaysAlone, RunOf, Stage, Unspawned, Early
  <2>7. ~Held(a)' /\ Stage(a)' = "clear"
    BY <2>1, <2>3 DEF Held, Stage, Look
  <2>8. SeenPart(a)'
    BY <2>7 DEF SeenPart
  <2>9. RecPart(r)'
    <3>1. rec[r].by \in Attempts => rec[r].by = a
      BY <1>1, <1>2, OwnFacts
    <3>2. rec[r].by \in Attempts \cup {None}
      BY <1>3 DEF TypeOK, Metas
    <3> QED BY <1>1, <1>3, <1>5, <2>1, <3>1, <3>2
            DEF RecPart, Told, RunOf, Stage, Look, Unspawned, Early
  <2> QED BY <1>2, <1>3, <1>5, <2>1, <2>2, <2>3, <2>4, <2>6, <2>7, <2>8, <2>9,
             RunStep DEF InLock, Look
<1> QED BY <1>4, <1>5 DEF Look

LEMMA BlockKeeps ==
  ASSUME RunsInv, NEW a \in Attempts, Block(a) PROVE RunsInv'
BY TurnedKeeps DEF Block, Ends, InLock

LEMMA AdmitKeeps ==
  ASSUME RunsInv, NEW a \in Attempts, Admit(a) PROVE RunsInv'
<1>1. RunOf(a) # None /\ Stage(a) = "clear"
  BY DEF RunsInv, CallOK, Admit
<1>2. PICK r \in Runs : r = RunOf(a)
  BY <1>1, OwnFacts
<1>3. TypeOK /\ CallOK(a) /\ AlonePart(a) /\ a # None
  BY <1>1, OwnFacts
<1>4. Meta("running", ClaimPid(a), TRUE, a) \in Metas
  BY MetaTypes, Literals
<1>5. /\ rec' \in [Runs -> Metas]
      /\ rec'[r] = Meta("running", ClaimPid(a), TRUE, a)
      /\ \A q \in Runs \ {r} : rec'[q] = rec[q]
  BY <1>2, <1>3, <1>4, WriteTypes DEF Admit
<1>6. rec'[r].status = "running" /\ rec'[r].pid = ClaimPid(a) /\ rec'[r].by = a
  BY <1>5 DEF Meta
<1>7. /\ att' \in [Attempts -> Calls]
      /\ \A b \in Attempts \ {a} : att'[b] = att[b]
      /\ att'[a].stage = "dispatch" /\ att'[a].run = att[a].run
      /\ att'[a].cli = att[a].cli /\ att'[a].kind = att[a].kind
      /\ att'[a].slot = att[a].slot
  BY <1>3, GotoTypes, Literals DEF Admit
<1>8. era' \in [Runs -> 0 .. NumSlots]
  BY <1>3, StampTypes DEF Admit
<1>9. /\ age' \in [Attempts -> 0 .. 2] /\ age'[a] = 0
      /\ \A b \in Attempts \ {a} : age'[b] = age[b]
  BY <1>3, AgeTypes DEF Admit
<1>10. TypeOK'
  BY <1>3, <1>5, <1>7, <1>8, <1>9 DEF TypeOK, Admit
<1>11. child[a] = "none" /\ lock = a
  BY <1>1, <1>3 DEF CallOK, InLock, Unspawned, Early
<1>12. Apart(a, r)
  BY <1>5, <1>7, <1>9, <1>11 DEF Apart, Admit, RunsInv
<1>13. ASSUME NEW b \in Attempts \ {a}
       PROVE  /\ Held(b) => b \in adrift \/ <<a, b>> \in unread'
              /\ Stage(b) # "clear"
  BY <1>1, <1>3, <1>11 DEF AlonePart, RunsInv, CallOK, InLock, Admit
<1>14. Steady(a) /\ StaysAlone(a)
  BY <1>1, <1>7, <1>13 DEF Steady, StaysAlone, RunOf, Stage, Unspawned, Early
<1>15. rec'[r].pid = "null" \/ (rec'[r].pid = "launcher" /\ att[a].cli)
  BY <1>6 DEF ClaimPid
<1>16. SeenPart(a)'
  BY <1>2, <1>6, <1>7, <1>9, <1>15 DEF SeenPart, RunOf, Stage
<1>17. RecPart(r)'
  BY <1>2, <1>3, <1>6, <1>7, <1>15 DEF RecPart, Told, RunOf
<1>18. Stage(a)' = "dispatch" /\ child'[a] = "none"
  BY <1>7, <1>11 DEF Stage, Admit
<1> QED BY <1>2, <1>6, <1>7, <1>10, <1>12, <1>14, <1>16, <1>17, <1>18, RunStep
        DEF InLock

LEMMA PrepareKeeps ==
  ASSUME RunsInv, NEW a \in Attempts, Prepare(a) PROVE RunsInv'
<1>1. RunOf(a) # None /\ Stage(a) = "dispatch"
  BY DEF RunsInv, CallOK, Prepare
<1>2. PICK r \in Runs : r = RunOf(a)
  BY <1>1, OwnFacts
<1>3. TypeOK /\ CallOK(a) /\ SeenPart(a) /\ a # None
  BY <1>1, OwnFacts
<1>4. Meta("running", "null", FALSE, a) \in Metas
  BY MetaTypes, Literals
<1>5. /\ rec' \in [Runs -> Metas]
      /\ rec'[r] = Meta("running", "null", FALSE, a)
      /\ \A q \in Runs \ {r} : rec'[q] = rec[q]
  BY <1>2, <1>3, <1>4, WriteTypes DEF Prepare
<1>6. rec'[r].status = "running" /\ rec'[r].pid = "null" /\ rec'[r].by = a
  BY <1>5 DEF Meta
<1>7. /\ att' \in [Attempts -> Calls]
      /\ \A b \in Attempts \ {a} : att'[b] = att[b]
      /\ att'[a].stage = "prepared" /\ att'[a].run = att[a].run
      /\ att'[a].cli = att[a].cli /\ att'[a].kind = att[a].kind
      /\ att'[a].slot = att[a].slot
  BY <1>3, GotoTypes, Literals DEF Prepare
<1>8. era' \in [Runs -> 0 .. NumSlots]
  BY <1>3, StampTypes DEF Prepare
<1>9. /\ age' \in [Attempts -> 0 .. 2] /\ age'[a] = 0
      /\ \A b \in Attempts \ {a} : age'[b] = age[b]
  BY <1>3, AgeTypes DEF Prepare
<1>10. TypeOK'
  BY <1>3, <1>5, <1>7, <1>8, <1>9 DEF TypeOK, Prepare
<1>11. child[a] = "none" /\ child' = child /\ adrift' = adrift
  BY <1>1, <1>3 DEF CallOK, Unspawned, Prepare
<1>12. Apart(a, r)
  BY <1>5, <1>7, <1>9 DEF Apart, Prepare, RunsInv
<1>13. Stage(a)' = "prepared"
  BY <1>7 DEF Stage
<1>14. Steady(a) /\ StaysAlone(a)
  BY <1>1, <1>7, <1>11, <1>13
     DEF Steady, StaysAlone, Held, RunOf, Unspawned, Early
<1>15. SeenPart(a)'
  BY <1>2, <1>6, <1>7, <1>9 DEF SeenPart, RunOf
<1>16. RecPart(r)'
  BY <1>2, <1>3, <1>6, <1>7 DEF RecPart, Told, RunOf
<1> QED BY <1>2, <1>6, <1>7, <1>10, <1>11, <1>12, <1>13, <1>14, <1>15, <1>16,
           RunStep DEF InLock

LEMMA RefuseKeeps ==
  ASSUME RunsInv, NEW a \in Attempts, Refuse(a) PROVE RunsInv'
<1>1. RunOf(a) # None /\ Stage(a) \in {"dispatch", "prepared"}
  BY DEF RunsInv, CallOK, Refuse
<1>2. PICK r \in Runs : r = RunOf(a)
  BY <1>1, OwnFacts
<1>3. TypeOK /\ CallOK(a) /\ RecPart(r) /\ a # None /\ rec[r] \in Metas
  BY <1>1, <1>2, OwnFacts
<1>4. PICK m \in Metas : /\ Write(r, m) /\ m.status \in Ends
                         /\ \/ m.by = rec[r].by /\ m.pid = rec[r].pid
                            \/ m.by = a /\ m.pid = "null"
  <2>1. CASE Write(r, [rec[r] EXCEPT !.status = "failed"])
    <3>1. LET m == [rec[r] EXCEPT !.status = "failed"]
          IN  /\ m \in Metas /\ m.status = "failed"
              /\ m.by = rec[r].by /\ m.pid = rec[r].pid
      BY <1>3, MetaTypes, Literals DEF Ends
    <3> QED BY <2>1, <3>1 DEF Ends
  <2>2. CASE Write(r, Meta("blocked", "null", ~Foreground(a), a))
    <3>1. Foreground(a) \in BOOLEAN
      BY DEF Foreground
    <3>2. Meta("blocked", "null", ~Foreground(a), a) \in Metas
      BY <3>1, MetaTypes, Literals DEF Ends
    <3>3. LET m == Meta("blocked", "null", ~Foreground(a), a)
          IN  m.status = "blocked" /\ m.by = a /\ m.pid = "null"
      BY DEF Meta
    <3> QED BY <2>2, <3>2, <3>3 DEF Ends
  <2> QED BY <1>2, <2>1, <2>2 DEF Refuse
<1>5. /\ rec' \in [Runs -> Metas] /\ rec'[r] = m
      /\ \A q \in Runs \ {r} : rec'[q] = rec[q]
  BY <1>3, <1>4, WriteTypes
<1>6. /\ att' \in [Attempts -> Calls]
      /\ \A b \in Attempts \ {a} : att'[b] = att[b]
      /\ att'[a].stage = "done" /\ att'[a].run = att[a].run
      /\ att'[a].cli = att[a].cli /\ att'[a].kind = att[a].kind
      /\ att'[a].slot = att[a].slot
  BY <1>3, GotoTypes, Literals DEF Refuse
<1>7. /\ age' \in [Attempts -> 0 .. 2]
      /\ \A b \in Attempts \ {a} : age'[b] = age[b]
  BY <1>3, AgeTypes DEF Refuse
<1>8. TypeOK'
  BY <1>3, <1>5, <1>6, <1>7 DEF TypeOK, Refuse
<1>9. child'[a] = "none" /\ child' = child /\ adrift' = adrift
  BY <1>1, <1>3 DEF CallOK, Unspawned, Refuse
<1>10. Apart(a, r)
  BY <1>5, <1>6, <1>7 DEF Apart, Refuse, RunsInv
<1>11. Stage(a)' = "done" /\ ~Held(a)'
  BY <1>6, <1>9 DEF Stage, Held
<1>12. Steady(a) /\ StaysAlone(a) /\ SeenPart(a)'
  BY <1>1, <1>6, <1>11
     DEF Steady, StaysAlone, SeenPart, RunOf, Stage, Unspawned, Early
<1>13. RecPart(r)' /\ rec'[r].status \notin {"absent", "empty", "running"}
  <2>1. rec[r].by \in Attempts => rec[r].by = a
    BY <1>1, <1>2, OwnFacts
  <2>2. rec[r].by \in Attempts \cup {None}
    BY <1>3 DEF Metas
  <2>3. m.status \notin {"absent", "empty", "running"}
    BY <1>4, Literals
  <2>4. m.by = a => (m.pid = "null" \/ (rec[r].by = a /\ m.pid = rec[r].pid))
    BY <1>4
  <2>5. rec[r].by = a => /\ rec[r].pid = "launcher" => att[a].cli
                         /\ rec[r].pid # "child"
                         /\ rec[r].pid = "gone" => a \in adrift
    BY <1>1, <1>3 DEF RecPart, Told, Unspawned
  <2> QED BY <1>2, <1>4, <1>5, <1>6, <1>9, <2>1, <2>2, <2>3, <2>4, <2>5
          DEF RecPart, Told, RunOf
<1> QED BY <1>2, <1>6, <1>8, <1>9, <1>10, <1>11, <1>12, <1>13, RunStep
        DEF Unspawned, Early, InLock

LEMMA SpawnKeeps ==
  ASSUME RunsInv, NEW a \in Attempts, Spawn(a) PROVE RunsInv'
<1>1. /\ \/ Stage(a) = "prepared" /\ Foreground(a)
         \/ Stage(a) = "dispatch" /\ ~Foreground(a)
      /\ RunOf(a) # None
  <2>1. \/ Stage(a) = "prepared" /\ Foreground(a)
        \/ Stage(a) = "dispatch" /\ ~Foreground(a)
    BY DEF Spawn, Ready
  <2> QED BY <2>1 DEF RunsInv, CallOK
<1>2. PICK r \in Runs : r = RunOf(a)
  BY <1>1, OwnFacts
<1>3. /\ TypeOK /\ CallOK(a) /\ RecPart(r) /\ SeenPart(a) /\ a # None
      /\ rec[r].status # "absent"
  BY <1>1, <1>2, OwnFacts
<1>4. PICK s \in {"watched", "spawned"} :
         Goto(a, s) /\ (s = "watched" <=> Foreground(a))
  BY DEF Spawn
<1>5. /\ att' \in [Attempts -> Calls]
      /\ \A b \in Attempts \ {a} : att'[b] = att[b]
      /\ att'[a].stage = s /\ att'[a].run = att[a].run
      /\ att'[a].cli = att[a].cli /\ att'[a].kind = att[a].kind
      /\ att'[a].slot = att[a].slot
  BY <1>3, <1>4, GotoTypes, Literals
<1>6. /\ child' \in [Attempts -> {"none", "failed", "alive", "ok", "bad"}]
      /\ child'[a] \in {"alive", "failed"}
      /\ \A b \in Attempts \ {a} : child'[b] = child[b]
  BY <1>3, ChildTypes DEF Spawn
<1>7. TypeOK'
  BY <1>3, <1>5, <1>6 DEF TypeOK, Spawn
<1>8. Apart(a, r)
  BY <1>5, <1>6 DEF Apart, Spawn, RunsInv
<1>9. Stage(a)' = s /\ Held(a) /\ adrift' = adrift /\ rec' = rec /\ age' = age
  BY <1>1, <1>5 DEF Stage, Held, Spawn
<1>10. Steady(a) /\ StaysAlone(a)
  BY <1>1, <1>5, <1>9 DEF Steady, StaysAlone, RunOf, Unspawned
<1>11. rec[r].by = a => rec[r].pid # "child"
  BY <1>1, <1>2, <1>3 DEF RecPart, Told, Unspawned
<1>12. SeenPart(a)'
  <2>1. a \notin adrift =>
           /\ rec[r].status = "running" /\ rec[r].by = a /\ age[a] = 0
           /\ rec[r].pid = "launcher" => Stage(a) = "dispatch"
    BY <1>1, <1>2, <1>3, <1>9 DEF SeenPart
  <2>2. Stage(a) = "dispatch" => s = "spawned"
    BY <1>1, <1>4
  <2>3. r = RunOf(a)'
    BY <1>2, <1>5 DEF RunOf
  <2> QED BY <1>9, <1>11, <2>1, <2>2, <2>3 DEF SeenPart
<1>13. RecPart(r)'
  <2>1. rec[r].by \in Attempts => rec[r].by = a
    BY <1>1, <1>2, OwnFacts
  <2>2. rec[r].by \in Attempts \cup {None}
    BY <1>3 DEF TypeOK, Metas
  <2> QED BY <1>3, <1>5, <1>9, <1>11, <2>1, <2>2 DEF RecPart, Told, RunOf
<1> QED BY <1>2, <1>3, <1>5, <1>7, <1>8, <1>9, <1>10, <1>12, <1>13, RunStep
        DEF Unspawned, Early, InLock

LEMMA WritePidKeeps ==
  ASSUME RunsInv, NEW a \in Attempts, WritePid(a) PROVE RunsInv'
<1>1. RunOf(a) # None /\ Stage(a) = "spawned"
  BY DEF RunsInv, CallOK, WritePid
<1>2. PICK r \in Runs : r = RunOf(a)
  BY <1>1, OwnFacts
<1>3. TypeOK /\ CallOK(a) /\ a # None
  BY <1>1, OwnFacts
<1>4. Meta("running", ChildPid(a), TRUE, a) \in Metas
  BY MetaTypes, Literals
<1>5. /\ rec' \in [Runs -> Metas]
      /\ rec'[r] = Meta("running", ChildPid(a), TRUE, a)
      /\ \A q \in Runs \ {r} : rec'[q] = rec[q]
  BY <1>2, <1>3, <1>4, WriteTypes DEF WritePid
<1>6. /\ rec'[r].status = "running" /\ rec'[r].pid \in {"null", "child"}
      /\ rec'[r].by = a
  BY <1>5 DEF Meta, ChildPid
<1>7. /\ att' \in [Attempts -> Calls]
      /\ \A b \in Attempts \ {a} : att'[b] = att[b]
      /\ att'[a].stage = "watched" /\ att'[a].run = att[a].run
      /\ att'[a].cli = att[a].cli /\ att'[a].kind = att[a].kind
      /\ att'[a].slot = att[a].slot
  BY <1>3, GotoTypes, Literals DEF WritePid
<1>8. era' \in [Runs -> 0 .. NumSlots]
  BY <1>3, StampTypes DEF WritePid
<1>9. /\ age' \in [Attempts -> 0 .. 2] /\ age'[a] = 0
      /\ \A b \in Attempts \ {a} : age'[b] = age[b]
  BY <1>3, AgeTypes DEF WritePid
<1>10. TypeOK'
  BY <1>3, <1>5, <1>7, <1>8, <1>9 DEF TypeOK, WritePid
<1>11. child' = child /\ adrift' = adrift /\ Stage(a)' = "watched"
  BY <1>7 DEF Stage, WritePid
<1>12. Apart(a, r)
  BY <1>5, <1>7, <1>9 DEF Apart, WritePid, RunsInv
<1>13. Held(a) /\ (Held(a)' => child'[a] = "alive")
  BY <1>1, <1>11 DEF Held
<1>14. Steady(a) /\ StaysAlone(a)
  BY <1>1, <1>7, <1>11, <1>13 DEF Steady, StaysAlone, RunOf, Unspawned, Early
<1>15. SeenPart(a)'
  BY <1>2, <1>6, <1>7, <1>9, <1>13 DEF SeenPart, RunOf
<1>16. RecPart(r)'
  BY <1>2, <1>3, <1>6, <1>7, <1>11
     DEF RecPart, Told, RunOf, Unspawned, Early
<1> QED BY <1>2, <1>6, <1>7, <1>10, <1>11, <1>12, <1>14, <1>15, <1>16, RunStep
        DEF InLock, Unspawned, Early

LEMMA WriteFailsKeeps ==
  ASSUME RunsInv, NEW a \in Attempts, WriteFails(a) PROVE RunsInv'
<1>1. RunOf(a) # None /\ Stage(a) = "spawned"
  BY DEF RunsInv, CallOK, WriteFails
<1>2. PICK r \in Runs : r = RunOf(a)
  BY <1>1, OwnFacts
<1>3. TypeOK /\ CallOK(a) /\ RecPart(r) /\ a # None /\ rec[r] \in Metas
  BY <1>1, <1>2, OwnFacts
<1>4. PICK m \in Metas : /\ Write(r, m) /\ m.status \in Ends
                         /\ \/ m.by = rec[r].by /\ m.pid = rec[r].pid
                            \/ m.by = a /\ m.pid = "null"
  <2>1. CASE Write(r, [rec[r] EXCEPT !.status = "failed"])
    <3>1. LET m == [rec[r] EXCEPT !.status = "failed"]
          IN  /\ m \in Metas /\ m.status = "failed"
              /\ m.by = rec[r].by /\ m.pid = rec[r].pid
      BY <1>3, MetaTypes, Literals DEF Ends
    <3> QED BY <2>1, <3>1 DEF Ends
  <2>2. CASE Write(r, Meta("blocked", "null", FALSE, a))
    <3>1. Meta("blocked", "null", FALSE, a) \in Metas
      BY MetaTypes, Literals DEF Ends
    <3>2. LET m == Meta("blocked", "null", FALSE, a)
          IN  m.status = "blocked" /\ m.by = a /\ m.pid = "null"
      BY DEF Meta
    <3> QED BY <2>2, <3>1, <3>2 DEF Ends
  <2> QED BY <1>2, <2>1, <2>2 DEF WriteFails
<1>5. /\ rec' \in [Runs -> Metas] /\ rec'[r] = m
      /\ \A q \in Runs \ {r} : rec'[q] = rec[q]
  BY <1>3, <1>4, WriteTypes
<1>6. /\ att' \in [Attempts -> Calls]
      /\ \A b \in Attempts \ {a} : att'[b] = att[b]
      /\ att'[a].stage = "watched" /\ att'[a].run = att[a].run
      /\ att'[a].cli = att[a].cli /\ att'[a].kind = att[a].kind
      /\ att'[a].slot = att[a].slot
  BY <1>3, GotoTypes, Literals DEF WriteFails
<1>7. faults' \in 0 .. MaxFaults
  BY <1>3, BoundsAssumption DEF TypeOK, WriteFails
<1>8. TypeOK'
  BY <1>3, <1>5, <1>6, <1>7 DEF TypeOK, WriteFails
<1>9. Apart(a, r)
  BY <1>5, <1>6 DEF Apart, WriteFails, RunsInv
<1>10. Stage(a)' = "watched" /\ a \in adrift'
  BY <1>6 DEF Stage, WriteFails
<1>11. Steady(a) /\ StaysAlone(a) /\ SeenPart(a)'
  BY <1>1, <1>6, <1>10
     DEF Steady, StaysAlone, SeenPart, RunOf, Stage, Unspawned, Early
<1>12. RecPart(r)' /\ rec'[r].status \notin {"absent", "empty", "running"}
  <2>1. rec[r].by \in Attempts => rec[r].by = a
    BY <1>1, <1>2, OwnFacts
  <2>2. rec[r].by \in Attempts \cup {None}
    BY <1>3 DEF Metas
  <2>3. m.status \notin {"absent", "empty", "running"}
    BY <1>4, Literals
  <2>4. m.by = a => (m.pid = "null" \/ (rec[r].by = a /\ m.pid = rec[r].pid))
    BY <1>4
  <2>5. rec[r].by = a => /\ rec[r].pid = "launcher" => att[a].cli
                         /\ rec[r].pid # "child"
    BY <1>1, <1>3 DEF RecPart, Told
  <2> QED BY <1>2, <1>4, <1>5, <1>6, <1>10, <2>1, <2>2, <2>3, <2>4, <2>5
          DEF RecPart, Told, RunOf
<1> QED BY <1>2, <1>6, <1>8, <1>9, <1>10, <1>11, <1>12, RunStep
        DEF Unspawned, Early, InLock

\* Once the child was started.
LEMMA ExitsKeeps ==
  ASSUME RunsInv, NEW a \in Attempts, Exits(a) PROVE RunsInv'
<1>1. RunOf(a) # None /\ child[a] = "alive"
  BY DEF RunsInv, CallOK, Exits
<1>2. PICK r \in Runs : r = RunOf(a)
  BY <1>1, OwnFacts
<1>3. /\ TypeOK /\ CallOK(a) /\ RecPart(r) /\ SeenPart(a) /\ a # None
      /\ rec[r].status # "absent"
  BY <1>1, <1>2, OwnFacts
<1>4. /\ child' \in [Attempts -> {"none", "failed", "alive", "ok", "bad"}]
      /\ child'[a] \in {"ok", "bad"}
      /\ \A b \in Attempts \ {a} : child'[b] = child[b]
  BY <1>3, ChildTypes DEF Exits
<1>5. TypeOK'
  BY <1>3, <1>4 DEF TypeOK, Exits
<1>6. Apart(a, r)
  BY <1>4 DEF Apart, Exits, RunsInv
<1>7. Stage(a) \notin Unspawned
  BY <1>1, <1>3 DEF CallOK
<1>8. /\ Stage(a)' = Stage(a) /\ RunOf(a)' = RunOf(a) /\ att' = att
      /\ rec' = rec /\ age' = age /\ adrift' = adrift /\ Held(a)
  BY <1>1 DEF Stage, RunOf, Held, Exits
<1>9. Steady(a) /\ StaysAlone(a)
  BY <1>8 DEF Steady, StaysAlone, RunOf, Stage
<1>10. SeenPart(a)'
  <2>1. rec[r].by = a /\ rec[r].pid = "child" => Stage(a) # "spawned"
    BY <1>2, <1>3 DEF RecPart, Told
  <2>2. Held(a)' => Stage(a) = "spawned"
    BY <1>4, <1>7, <1>8 DEF Held, Unspawned
  <2> QED BY <1>2, <1>3, <1>8, <2>1, <2>2 DEF SeenPart
<1>11. RecPart(r)'
  BY <1>3, <1>8 DEF RecPart, Told, RunOf, Stage
<1>12. Stage(a)' \in {"dying", "done"}
          => rec'[r].status \notin {"absent", "empty", "running"}
  BY <1>1, <1>2, <1>8 DEF RunsInv, EndPart
<1>13. Stage(a) \notin {"idle", "overdue", "missing", "waiting"}
       /\ Stage(a) \notin InLock
  BY <1>7 DEF Unspawned, Early, InLock
<1> QED BY <1>2, <1>3, <1>5, <1>6, <1>7, <1>8, <1>9, <1>10, <1>11, <1>12,
           <1>13, RunStep

\* The attempt has ended or ends with the record it writes, and no child of
\* it is running.
LEMMA OverStep ==
  ASSUME RunsInv, NEW a \in Attempts, NEW r \in Runs, RunOf(a) = r,
         Stage(a) \notin Unspawned \cup {"spawned"},
         TypeOK', Apart(a, r),
         att'[a].run = att[a].run, att'[a].cli = att[a].cli,
         att'[a].kind = att[a].kind, att'[a].slot = att[a].slot,
         Stage(a)' \in {"watched", "dying", "done", "dead"},
         child'[a] = "alive" /\ a \notin adrift' =>
             /\ child[a] = "alive" /\ rec'[r].status = "running"
             /\ rec'[r] = rec[r] /\ age'[a] = age[a],
         RecPart(r)', rec'[r].status # "absent",
         Stage(a)' \in {"dying", "done"}
             => rec'[r].status \notin {"absent", "empty", "running"}
  PROVE  RunsInv'
<1>1. RunOf(a) # None
  BY SentinelAssumption
<1>2. TypeOK /\ SeenPart(a) /\ a # None
  BY <1>1, OwnFacts
<1>3. Steady(a)
  BY DEF Steady, RunOf, Stage, Unspawned, Early
<1>4. Held(a)' => child'[a] = "alive"
  BY DEF Held
<1>5. StaysAlone(a)
  BY <1>4 DEF StaysAlone, Held, Apart
<1>6. SeenPart(a)'
  <2>1. ASSUME Held(a)', a \notin adrift'
        PROVE  LET m == rec'[r]
               IN  /\ m.status = "running" /\ m.by = a /\ age'[a] = 0
                   /\ m.pid # "launcher"
                   /\ m.pid = "child" => child'[a] = "alive"
    <3>1. Held(a) /\ a \notin adrift
      BY <1>4, <2>1 DEF Held, Apart
    <3>2. /\ rec[r].status = "running" /\ rec[r].by = a /\ age[a] = 0
          /\ rec[r].pid = "launcher" => Stage(a) \in {"dispatch", "spawned"}
      BY <1>2, <3>1 DEF SeenPart
    <3> QED BY <1>4, <2>1, <3>2 DEF Unspawned
  <2> QED BY <2>1 DEF SeenPart, RunOf
<1> QED BY <1>3, <1>5, <1>6, RunStep DEF Unspawned, Early, InLock

LEMMA SettleKeeps ==
  ASSUME RunsInv, NEW a \in Attempts, Settle(a) PROVE RunsInv'
<1>1. RunOf(a) # None /\ Stage(a) = "watched"
  BY DEF RunsInv, CallOK, Settle
<1>2. PICK r \in Runs : r = RunOf(a)
  BY <1>1, OwnFacts
<1>3. TypeOK
  BY DEF RunsInv
<1>4. Meta(Outcome(a), ChildPid(a), ~Foreground(a), a) \in Metas
  <2>1. Foreground(a) \in BOOLEAN
    BY DEF Foreground
  <2> QED BY <2>1, MetaTypes, Literals
<1>5. /\ rec' \in [Runs -> Metas]
      /\ rec'[r] = Meta(Outcome(a), ChildPid(a), ~Foreground(a), a)
      /\ \A q \in Runs \ {r} : rec'[q] = rec[q]
  BY <1>2, <1>3, <1>4, WriteTypes DEF Settle
<1>6. /\ rec'[r].status \in {"completed", "failed"} /\ rec'[r].by = a
      /\ rec'[r].pid \in {"null", "child"}
  BY <1>5 DEF Meta, Outcome, ChildPid
<1>7. /\ att' \in [Attempts -> Calls]
      /\ \A b \in Attempts \ {a} : att'[b] = att[b]
      /\ att'[a].stage = "done" /\ att'[a].run = att[a].run
      /\ att'[a].cli = att[a].cli /\ att'[a].kind = att[a].kind
      /\ att'[a].slot = att[a].slot
  BY <1>3, GotoTypes, Literals DEF Settle
<1>8. /\ age' \in [Attempts -> 0 .. 2]
      /\ \A b \in Attempts \ {a} : age'[b] = age[b]
  BY <1>3, AgeTypes DEF Settle
<1>9. TypeOK'
  BY <1>3, <1>5, <1>7, <1>8 DEF TypeOK, Settle
<1>10. Apart(a, r)
  BY <1>5, <1>7, <1>8 DEF Apart, Settle, RunsInv
<1>11. Stage(a)' = "done" /\ child'[a] # "alive"
  BY <1>7 DEF Stage, Settle
<1>12. RecPart(r)'
  BY <1>2, <1>6, <1>7, <1>11 DEF RecPart, Told, RunOf, Unspawned, Early
<1> QED BY <1>1, <1>2, <1>6, <1>7, <1>9, <1>10, <1>11, <1>12, OverStep
        DEF Unspawned, Early

LEMMA FailOverKeeps ==
  ASSUME RunsInv, NEW a \in Attempts, FailOver(a) PROVE RunsInv'
<1>1. RunOf(a) # None /\ Stage(a) = "watched"
  BY DEF RunsInv, CallOK, FailOver
<1>2. PICK r \in Runs : r = RunOf(a)
  BY <1>1, OwnFacts
<1>3. TypeOK
  BY DEF RunsInv
<1>4. Meta("running", "gone", FALSE, a) \in Metas
  BY MetaTypes, Literals
<1>5. /\ rec' \in [Runs -> Metas]
      /\ rec'[r] = Meta("running", "gone", FALSE, a)
      /\ \A q \in Runs \ {r} : rec'[q] = rec[q]
  BY <1>2, <1>3, <1>4, WriteTypes DEF FailOver
<1>6. rec'[r].status = "running" /\ rec'[r].by = a /\ rec'[r].pid = "gone"
  BY <1>5 DEF Meta
<1>7. /\ att' \in [Attempts -> Calls]
      /\ \A b \in Attempts \ {a} : att'[b] = att[b]
      /\ att'[a].stage = "watched" /\ att'[a].run = att[a].run
      /\ att'[a].cli = att[a].cli /\ att'[a].kind = att[a].kind
      /\ att'[a].slot = att[a].slot
  <2>1. att' = [att EXCEPT ![a] = [att[a] EXCEPT !.tries = att[a].tries + 1]]
    BY DEF FailOver
  <2>2. att[a] \in Calls
    BY <1>3 DEF TypeOK
  <2>3. /\ [att[a] EXCEPT !.tries = att[a].tries + 1] \in Calls
        /\ LET c == [att[a] EXCEPT !.tries = att[a].tries + 1]
           IN  c.stage = att[a].stage /\ c.run = att[a].run
               /\ c.cli = att[a].cli /\ c.kind = att[a].kind
               /\ c.slot = att[a].slot
    BY <2>2, BoundsAssumption DEF Calls, FailOver
  <2> QED BY <1>1, <1>3, <2>1, <2>3 DEF TypeOK, Stage
<1>8. /\ child' \in [Attempts -> {"none", "failed", "alive", "ok", "bad"}]
      /\ \A b \in Attempts \ {a} : child'[b] = child[b]
  BY <1>3, ChildTypes DEF FailOver
<1>9. TypeOK'
  BY <1>3, <1>5, <1>7, <1>8 DEF TypeOK, FailOver
<1>10. Apart(a, r)
  BY <1>5, <1>7, <1>8 DEF Apart, FailOver, RunsInv
<1>11. Stage(a)' = "watched" /\ a \in adrift'
  BY <1>7 DEF Stage, FailOver
<1>12. RecPart(r)'
  <2>1. a # None
    BY <1>1, OwnFacts
  <2> QED BY <1>2, <1>6, <1>7, <1>11, <2>1 DEF RecPart, Told, RunOf
<1> QED BY <1>1, <1>2, <1>6, <1>7, <1>9, <1>10, <1>11, <1>12, OverStep
        DEF Unspawned, Early

\* SIGKILL of the child of a.
LEMMA KilledTypes ==
  ASSUME RunsInv, NEW a \in Attempts, Killed(a), RunOf(a) # None,
         Stage(a) \notin Unspawned
  PROVE  /\ child' \in [Attempts -> {"none", "failed", "alive", "ok", "bad"}]
         /\ child'[a] # "alive"
         /\ \A b \in Attempts \ {a} : child'[b] = child[b]
         /\ age' \in [Attempts -> 0 .. 2]
         /\ \A b \in Attempts \ {a} : age'[b] = age[b]
         /\ att' \in [Attempts -> Calls]
         /\ \A b \in Attempts \ {a} : att'[b] = att[b]
         /\ att'[a].stage = "done" /\ att'[a].run = att[a].run
         /\ att'[a].cli = att[a].cli /\ att'[a].kind = att[a].kind
         /\ att'[a].slot = att[a].slot
<1>1. TypeOK
  BY DEF RunsInv
<1>2. /\ child' \in [Attempts -> {"none", "failed", "alive", "ok", "bad"}]
      /\ child'[a] # "alive"
      /\ \A b \in Attempts \ {a} : child'[b] = child[b]
  BY <1>1 DEF Killed, TypeOK
<1> QED BY <1>1, <1>2, AgeTypes, GotoTypes, Literals DEF Killed

LEMMA ExpireKeeps ==
  ASSUME RunsInv, NEW a \in Attempts, Expire(a) PROVE RunsInv'
<1>1. /\ Stage(a) = "watched" /\ RunOf(a) # None
      /\ Stage(a) \notin Unspawned \cup {"spawned"}
  BY DEF RunsInv, CallOK, Expire, Unspawned, Early
<1>2. PICK r \in Runs : r = RunOf(a)
  BY <1>1, OwnFacts
<1>3. TypeOK
  BY DEF RunsInv
<1>4. Meta("timeout", ChildPid(a), ~Foreground(a), a) \in Metas
  <2>1. Foreground(a) \in BOOLEAN
    BY DEF Foreground
  <2> QED BY <2>1, MetaTypes, Literals DEF Ends
<1>5. /\ rec' \in [Runs -> Metas]
      /\ rec'[r] = Meta("timeout", ChildPid(a), ~Foreground(a), a)
      /\ \A q \in Runs \ {r} : rec'[q] = rec[q]
  BY <1>2, <1>3, <1>4, WriteTypes DEF Expire
<1>6. /\ rec'[r].status = "timeout" /\ rec'[r].by = a
      /\ rec'[r].pid \in {"null", "child"}
  BY <1>5 DEF Meta, ChildPid
<1>7. age[a] > 0
  BY DEF Expire
<1>8. a \in adrift \/ child[a] # "alive"
  BY <1>1, <1>7, OwnFacts DEF SeenPart, Held
<1>9. /\ child' \in [Attempts -> {"none", "failed", "alive", "ok", "bad"}]
      /\ \A b \in Attempts \ {a} : child'[b] = child[b]
      /\ child'[a] = child[a] \/ child'[a] # "alive"
      /\ age' \in [Attempts -> 0 .. 2]
      /\ \A b \in Attempts \ {a} : age'[b] = age[b]
      /\ att' \in [Attempts -> Calls]
      /\ \A b \in Attempts \ {a} : att'[b] = att[b]
      /\ att'[a].stage \in {"dying", "done"} /\ att'[a].run = att[a].run
      /\ att'[a].cli = att[a].cli /\ att'[a].kind = att[a].kind
      /\ att'[a].slot = att[a].slot
  <2>1. CASE Killed(a)
    BY <1>1, <2>1, KilledTypes
  <2>2. CASE Goto(a, "dying") /\ UNCHANGED <<child, age>>
    <3>1. /\ att' \in [Attempts -> Calls]
          /\ \A b \in Attempts \ {a} : att'[b] = att[b]
          /\ att'[a].stage = "dying" /\ att'[a].run = att[a].run
          /\ att'[a].cli = att[a].cli /\ att'[a].kind = att[a].kind
          /\ att'[a].slot = att[a].slot
      BY <1>3, <2>2, GotoTypes, Literals
    <3> QED BY <1>3, <2>2, <3>1 DEF TypeOK
  <2> QED BY <2>1, <2>2 DEF Expire
<1>10. TypeOK'
  BY <1>3, <1>5, <1>9 DEF TypeOK, Expire
<1>11. Apart(a, r)
  BY <1>5, <1>9 DEF Apart, Expire, RunsInv
<1>12. Stage(a)' \in {"dying", "done"}
  BY <1>9 DEF Stage
<1>13. adrift' = adrift
  BY DEF Expire
<1>14. RecPart(r)'
  BY <1>2, <1>6, <1>9, <1>12 DEF RecPart, Told, RunOf, Unspawned, Early
<1> QED BY <1>1, <1>2, <1>6, <1>8, <1>9, <1>10, <1>11, <1>12, <1>13, <1>14,
           OverStep

LEMMA ForceKillKeeps ==
  ASSUME RunsInv, NEW a \in Attempts, ForceKill(a) PROVE RunsInv'
<1>1. /\ Stage(a) = "dying" /\ RunOf(a) # None
      /\ Stage(a) \notin Unspawned \cup {"spawned"}
  BY DEF RunsInv, CallOK, ForceKill, Unspawned, Early
<1>2. PICK r \in Runs : r = RunOf(a)
  BY <1>1, OwnFacts
<1>3. TypeOK /\ RecPart(r) /\ EndPart(a)
  BY <1>1, <1>2, OwnFacts DEF RunsInv
<1>4. Killed(a) /\ rec' = rec /\ adrift' = adrift
  BY DEF ForceKill
<1>5. /\ child' \in [Attempts -> {"none", "failed", "alive", "ok", "bad"}]
      /\ child'[a] # "alive"
      /\ \A b \in Attempts \ {a} : child'[b] = child[b]
      /\ age' \in [Attempts -> 0 .. 2]
      /\ \A b \in Attempts \ {a} : age'[b] = age[b]
      /\ att' \in [Attempts -> Calls]
      /\ \A b \in Attempts \ {a} : att'[b] = att[b]
      /\ att'[a].stage = "done" /\ att'[a].run = att[a].run
      /\ att'[a].cli = att[a].cli /\ att'[a].kind = att[a].kind
      /\ att'[a].slot = att[a].slot
  BY <1>1, <1>4, KilledTypes
<1>6. TypeOK'
  BY <1>3, <1>5 DEF TypeOK, ForceKill
<1>7. Apart(a, r)
  BY <1>5 DEF Apart, ForceKill, RunsInv
<1>8. Stage(a)' = "done" /\ rec'[r].status \notin {"absent", "empty", "running"}
  BY <1>1, <1>2, <1>3, <1>4, <1>5 DEF Stage, EndPart
<1>9. RecPart(r)'
  <2>1. rec[r].by \in Attempts => rec[r].by = a
    BY <1>1, <1>2, OwnFacts
  <2>2. rec[r].by \in Attempts \cup {None}
    BY <1>3 DEF TypeOK, Metas
  <2> QED BY <1>3, <1>4, <1>5, <1>8, <2>1, <2>2
          DEF RecPart, Told, RunOf, Unspawned, Early
<1> QED BY <1>1, <1>2, <1>5, <1>6, <1>7, <1>8, <1>9, OverStep

LEMMA AgesKeeps ==
  ASSUME RunsInv, NEW a \in Attempts, Ages(a) PROVE RunsInv'
<1>1. RunOf(a) # None
  BY DEF Ages
<1>2. PICK r \in Runs : r = RunOf(a)
  BY <1>1, OwnFacts
<1>3. TypeOK /\ CallOK(a) /\ RecPart(r) /\ rec[r].status # "absent"
  BY <1>1, <1>2, OwnFacts
<1>4. /\ age' \in [Attempts -> 0 .. 2]
      /\ \A b \in Attempts \ {a} : age'[b] = age[b]
  BY <1>3 DEF TypeOK, Ages
<1>5. TypeOK'
  BY <1>3, <1>4 DEF TypeOK, Ages
<1>6. Apart(a, r)
  BY <1>4 DEF Apart, Ages, RunsInv
<1>7. /\ Stage(a)' = Stage(a) /\ RunOf(a)' = RunOf(a) /\ att' = att
      /\ rec' = rec /\ a \in adrift' /\ child' = child /\ lock' = lock
  BY DEF Stage, RunOf, Ages
<1>8. Steady(a) /\ StaysAlone(a) /\ SeenPart(a)'
  BY <1>7 DEF Steady, StaysAlone, SeenPart, RunOf, Stage
<1>9. RecPart(r)'
  <2>1. adrift \subseteq adrift'
    BY DEF Ages
  <2> QED BY <1>3, <1>7, <2>1 DEF RecPart, Told, RunOf, Stage
<1>10. Stage(a) \notin {"idle", "overdue", "missing", "waiting"}
  BY <1>1, <1>3 DEF CallOK
<1>11. Stage(a)' \in {"dying", "done"}
          => rec'[r].status \notin {"absent", "empty", "running"}
  BY <1>1, <1>2, <1>7 DEF RunsInv, EndPart
<1>12. /\ Stage(a) \in Unspawned => child[a] = "none"
       /\ Stage(a) \in InLock => lock = a
  BY <1>3 DEF CallOK
<1> QED BY <1>2, <1>3, <1>5, <1>6, <1>7, <1>8, <1>9, <1>10, <1>11, <1>12, RunStep

LEMMA CommandDiesKeeps ==
  ASSUME RunsInv, NEW a \in Attempts, CommandDies(a) PROVE RunsInv'
<1>1. TypeOK /\ CallOK(a) /\ SlotPart(a) /\ SeenPart(a)
  BY DEF RunsInv
<1>2. PICK r \in Runs : RunOf(a) # None => RunOf(a) = r
  BY <1>1, RunTypes
<1>3. Stage(a) # "idle" /\ Running(a)
  BY DEF CommandDies, Running
<1>4. /\ att' \in [Attempts -> Calls]
      /\ \A b \in Attempts \ {a} : att'[b] = att[b]
      /\ att'[a].stage = "dead" /\ att'[a].run = att[a].run
      /\ att'[a].cli = att[a].cli /\ att'[a].kind = att[a].kind
      /\ att'[a].slot = att[a].slot
  BY <1>1, GotoTypes, Literals DEF CommandDies
<1>5. faults' \in 0 .. MaxFaults
  BY <1>1, BoundsAssumption DEF TypeOK, CommandDies
<1>16. /\ rec' \in [Runs -> Metas] /\ \A q \in Runs \ {r} : rec'[q] = rec[q]
       /\ rec'[r] \in {rec[r], Torn}
       /\ rec'[r] # rec[r] => Writes(a) /\ RunOf(a) = r
  <2>1. CASE UNCHANGED rec
    BY <1>1, <2>1 DEF TypeOK
  <2>2. CASE Writes(a) /\ Write(RunOf(a), Torn)
    <3>1. RunOf(a) = r
      BY <1>1, <1>2, <2>2 DEF Writes, CallOK
    <3> QED BY <1>1, <2>2, <3>1, WriteTypes, MetaTypes
  <2> QED BY <2>1, <2>2 DEF CommandDies
<1>6. TypeOK'
  BY <1>1, <1>4, <1>5, <1>16 DEF TypeOK, CommandDies
<1>7. Apart(a, r)
  BY <1>1, <1>4, <1>16 DEF Apart, CommandDies, RunsInv, TypeOK
<1>8. /\ Stage(a)' = "dead" /\ RunOf(a)' = RunOf(a)
      /\ child' = child /\ age' = age
  BY <1>4 DEF Stage, RunOf, CommandDies
<1>17. Held(a) /\ a \notin adrift => age[a] = 0
  BY <1>1 DEF SeenPart
<1>9. Held(a)' /\ a \notin adrift' =>
         /\ Held(a) /\ a \notin adrift /\ child[a] = "alive"
         /\ Stage(a) \notin Unspawned \cup {"spawned"}
         /\ rec'[r] = rec[r]
  <2>1. Held(a)' /\ a \notin adrift' =>
           /\ Held(a) /\ a \notin adrift /\ child[a] = "alive"
           /\ Stage(a) \notin Unspawned \cup {"spawned"}
    BY <1>1, <1>8 DEF Held, CommandDies, CallOK
  <2> QED BY <1>16, <1>17, <2>1 DEF Writes, Unspawned
<1>10. Steady(a) /\ StaysAlone(a)
  BY <1>8, <1>9, <1>4 DEF Steady, StaysAlone, RunOf, Unspawned, Early
<1>18. \A q \in Runs : rec[q].status # "absent" => rec'[q].status # "absent"
  BY <1>16, MetaTypes
<1>11. CallOK(a)'
  <2>1. att'[a].kind = att[a].kind /\ att'[a].slot = att[a].slot
    BY <1>4
  <2> QED BY <1>1, <1>8, <2>1 DEF CallOK, Unspawned, Early, InLock
<1>12. SeenPart(a)'
  <2>1. Held(a) => RunOf(a) = r
    BY <1>1, <1>2 DEF Held, CallOK
  <2> QED BY <1>1, <1>8, <1>9, <2>1 DEF SeenPart, Unspawned, Early
<1>13. RecPart(r)'
  <2>1. RecPart(r) /\ rec[r].by \in Attempts \cup {None}
    BY <1>1 DEF RunsInv, TypeOK, Metas
  <2>2. CASE rec[r].by = a /\ rec'[r] = rec[r]
    BY <1>4, <1>8, <2>1, <2>2
       DEF RecPart, Told, Unspawned, Early, CommandDies
  <2>3. CASE rec[r].by # a /\ rec'[r] = rec[r]
    BY <1>4, <1>8, <2>1, <2>3
       DEF RecPart, Told, CommandDies, RunOf, Stage
  <2>4. CASE rec'[r] = Torn
    BY <2>4, MetaTypes DEF RecPart
  <2> QED BY <1>16, <2>2, <2>3, <2>4
<1>14. EndPart(a)' /\ (Owns(a)' => Owns(a) /\ att'[a].slot = att[a].slot)
  BY <1>4, <1>8 DEF EndPart, Owns
<1>15. SelfPart(a, r)' /\ OwnSlot(a)
  <2>1. Owns(a) => att[a].slot \in Runs /\ rec[att[a].slot].status # "absent"
    BY <1>1, RunTypes DEF Owns, SlotPart
  <2>2. RunOf(a) # None => rec'[RunOf(a)].status # "absent"
    BY <1>1, <1>2, <1>18 DEF SlotPart
  <2> QED BY <1>1, <1>8, <1>11, <1>12, <1>13, <1>14, <1>18, <2>1, <2>2
          DEF SelfPart, OwnSlot
<1> QED BY <1>6, <1>7, <1>8, <1>10, <1>15, <1>16, <1>18, OneStep, OneRun, SentinelAssumption

LEMMA ReapTerminalKeeps ==
  ASSUME RunsInv, NEW r \in Runs, ReapTerminal(r) PROVE RunsInv'
<1>1. TypeOK /\ RecPart(r) /\ rec[r].status \in {"failed", "timeout"}
  BY DEF RunsInv, ReapTerminal
<1>2. PICK a \in Attempts : a = rec[r].by
  BY <1>1 DEF TypeOK, Metas, ReapTerminal
<1>3. RunOf(a) = r /\ Told(rec[r]) /\ a # None /\ r # None
  BY <1>1, <1>2, SentinelAssumption DEF RecPart, Runs, ReapTerminal
<1>4. CallOK(a) /\ SeenPart(a) /\ EndPart(a)
  BY DEF RunsInv
<1>5. Held(a) => a \in adrift
  BY <1>1, <1>3, <1>4 DEF SeenPart
<1>6. rec' = rec /\ age' = age /\ adrift' = adrift /\ lock' = lock
      /\ reaper' = reaper /\ due' = due /\ armed' = armed
      /\ unread' = unread
  BY DEF ReapTerminal
<1>7. CASE child' = [child EXCEPT ![a] = "bad"] /\ UNCHANGED att
           /\ rec[r].pid = "child"
  <2>1. Stage(a) \notin Unspawned \cup {"spawned"}
    BY <1>2, <1>3, <1>7 DEF Told
  <2>2. /\ child' \in [Attempts -> {"none", "failed", "alive", "ok", "bad"}]
        /\ child'[a] = "bad" /\ \A b \in Attempts \ {a} : child'[b] = child[b]
    BY <1>1, <1>7, ChildTypes
  <2>3. TypeOK'
    BY <1>1, <1>7, <2>2 DEF TypeOK, ReapTerminal
  <2>4. Apart(a, r)
    BY <1>6, <1>7, <2>2 DEF Apart, RunsInv
  <2>5. Stage(a)' = Stage(a)
    BY <1>7 DEF Stage
  <2>6. Stage(a) # "idle" /\ Stage(a) \in Stages
    BY <1>1, <2>1 DEF TypeOK, Calls, Stage, Unspawned, Early
  <2>7. Stage(a) \in {"watched", "dying", "done", "dead"}
    BY <2>1, <2>6 DEF Stages, Sync, Unspawned, Early
  <2>8. RecPart(r)'
    BY <1>1, <1>6, <1>7, <2>5, <1>2 DEF RecPart, Told, RunOf, Stage
  <2> QED BY <1>1, <1>3, <1>6, <1>7, <2>1, <2>2, <2>3, <2>4, <2>5, <2>7, <2>8,
             OverStep
<1>8. CASE Goto(a, "dead") /\ UNCHANGED child
  <2>1. /\ att' \in [Attempts -> Calls]
        /\ \A b \in Attempts \ {a} : att'[b] = att[b]
        /\ att'[a].stage = "dead" /\ att'[a].run = att[a].run
        /\ att'[a].cli = att[a].cli /\ att'[a].kind = att[a].kind
        /\ att'[a].slot = att[a].slot
    BY <1>1, <1>8, GotoTypes, Literals
  <2>2. TypeOK'
    BY <1>1, <1>8, <2>1 DEF TypeOK, ReapTerminal
  <2>3. Apart(a, r)
    BY <1>6, <1>8, <2>1 DEF Apart, RunsInv
  <2>4. Stage(a)' = "dead" /\ (Held(a)' => a \in adrift')
    BY <1>5, <1>6, <1>8, <2>1 DEF Stage, Held
  <2>5. Steady(a) /\ StaysAlone(a) /\ SeenPart(a)'
    BY <2>1, <2>4 DEF Steady, StaysAlone, SeenPart, RunOf, Unspawned, Early
  <2>6. RecPart(r)'
    BY <1>1, <1>2, <1>3, <1>6, <2>1, <2>4 DEF RecPart, Told, RunOf, Unspawned, Early
  <2> QED BY <1>1, <1>3, <1>6, <2>1, <2>2, <2>3, <2>4, <2>5, <2>6, RunStep
          DEF Unspawned, Early, InLock
<1> QED BY <1>2, <1>7, <1>8 DEF ReapTerminal

LEMMA ReapApplyKeeps ==
  ASSUME RunsInv, NEW x \in Reapers, ReapApply(x) PROVE RunsInv'
<1>1. TypeOK /\ CopyPart(x) /\ reaper[x] # None
  BY DEF RunsInv, ReapApply
<1>2. reaper[x] \in [run : Runs, copy : Metas, aged : BOOLEAN]
  BY <1>1 DEF TypeOK
<1>3. PICK m \in Metas, r \in Runs, a \in Attempts :
         m = reaper[x].copy /\ r = reaper[x].run /\ a = m.by
  BY <1>1, <1>2 DEF CopyPart, Metas
<1>4. RunOf(a) = r /\ Told(m) /\ a # None /\ r # None
  BY <1>1, <1>3, SentinelAssumption DEF CopyPart, Runs
<1>5. CallOK(a) /\ SeenPart(a) /\ EndPart(a) /\ RecPart(r)
      /\ rec[r].status # "absent" /\ (rec[r].by \in Attempts => rec[r].by = a)
  BY <1>4, OwnFacts DEF RunsInv
<1>6. /\ reaper' = [reaper EXCEPT ![x] = None]
      /\ age' = age /\ lock' = lock /\ due' = due /\ armed' = armed
      /\ unread' = unread
  BY DEF ReapApply
<1>7. reaper' \in [Reapers -> {None} \cup
                      [run : Runs, copy : Metas, aged : BOOLEAN]]
      /\ \A y \in Reapers : reaper'[y] \in {reaper[y], None}
  BY <1>1, <1>6 DEF TypeOK
<1>8. ASSUME NEW s \in {"completed", "failed", "timeout"},
             Finalize(r, [m EXCEPT !.status = s]),
             adrift' = adrift \cup {a} \/ (adrift' = adrift /\ ~Held(a)),
             UNCHANGED att \/ Goto(a, "dead"),
             \/ UNCHANGED child
             \/ child' = [child EXCEPT ![a] = "bad"] /\ m.pid = "child"
                /\ adrift' = adrift \cup {a}
      PROVE  RunsInv'
  <2>1. LET w == [m EXCEPT !.status = s]
        IN  w \in Metas /\ w.status = s /\ w.by = a /\ w.pid = m.pid
    BY <1>3, <1>8, MetaTypes, Literals DEF Ends
  <2>2. /\ rec' \in [Runs -> Metas]
        /\ \/ rec'[r].status = s /\ rec'[r].by = a /\ rec'[r].pid = m.pid
           \/ rec'[r].status = "torn" /\ rec'[r].by = None
        /\ \A q \in Runs \ {r} : rec'[q] = rec[q]
        /\ faults' \in 0 .. MaxFaults
    <3>1. CASE Write(r, [m EXCEPT !.status = s]) /\ UNCHANGED faults
      BY <1>1, <2>1, <3>1, WriteTypes DEF TypeOK
    <3>2. CASE Write(r, Torn) /\ faults < MaxFaults /\ faults' = faults + 1
      BY <1>1, <3>2, WriteTypes, MetaTypes, BoundsAssumption DEF TypeOK
    <3> QED BY <1>8, <3>1, <3>2 DEF Finalize
  <2>3. /\ att' \in [Attempts -> Calls]
        /\ \A b \in Attempts \ {a} : att'[b] = att[b]
        /\ att'[a].stage \in {att[a].stage, "dead"} /\ att'[a].run = att[a].run
        /\ att'[a].cli = att[a].cli /\ att'[a].kind = att[a].kind
        /\ att'[a].slot = att[a].slot
    <3>1. CASE UNCHANGED att
      BY <1>1, <3>1 DEF TypeOK
    <3>2. CASE Goto(a, "dead")
      BY <1>1, <3>2, GotoTypes, Literals
    <3> QED BY <1>8, <3>1, <3>2
  <2>4. /\ child' \in [Attempts -> {"none", "failed", "alive", "ok", "bad"}]
        /\ \A b \in Attempts \ {a} : child'[b] = child[b]
        /\ child'[a] \in {child[a], "bad"}
        /\ child'[a] = child[a] \/ Stage(a) \notin Unspawned \cup {"spawned"}
    <3>1. CASE UNCHANGED child
      BY <1>1, <3>1 DEF TypeOK
    <3>2. CASE child' = [child EXCEPT ![a] = "bad"] /\ m.pid = "child"
      <4>1. Stage(a) \notin Unspawned \cup {"spawned"}
        BY <1>3, <1>4, <3>2 DEF Told
      <4> QED BY <1>1, <3>2, <4>1, ChildTypes
    <3> QED BY <1>8, <3>1, <3>2
  <2>5. TypeOK'
    BY <1>1, <1>7, <1>8, <2>2, <2>3, <2>4 DEF TypeOK, ReapApply
  <2>6. /\ adrift \subseteq adrift'
        /\ \A b \in Attempts \ {a} : b \in adrift' <=> b \in adrift
    BY <1>8
  <2>7. Apart(a, r)
    BY <1>6, <1>7, <2>2, <2>3, <2>4, <2>6 DEF Apart, RunsInv
  <2>8. Stage(a)' \in {Stage(a), "dead"} /\ RunOf(a)' = RunOf(a)
    BY <2>3 DEF Stage, RunOf
  <2>9. Held(a)' => a \in adrift'
    BY <1>8, <2>4, <2>8 DEF Held
  <2>10. Steady(a) /\ StaysAlone(a) /\ SeenPart(a)'
    BY <2>3, <2>8, <2>9
       DEF Steady, StaysAlone, SeenPart, RunOf, Stage, Unspawned, Early
  <2>11. RecPart(r)'
    <3>1. Told(m)
      BY <1>4
    <3> QED BY <1>3, <1>4, <2>2, <2>3, <2>6, <2>8, <3>1
            DEF RecPart, Told, RunOf, Stage, Unspawned, Early
  <2>12. /\ Stage(a) \notin {"idle", "overdue", "missing", "waiting"}
         /\ Stage(a) \in Unspawned => child[a] = "none"
         /\ Stage(a) \in InLock => lock = a
    BY <1>4, <1>5 DEF CallOK
  <2>13. /\ Stage(a)' \notin {"idle", "overdue", "missing", "waiting"}
         /\ Stage(a)' \in Unspawned => child'[a] = "none"
         /\ Stage(a)' \in InLock => lock' = a
    BY <1>6, <2>4, <2>8, <2>12 DEF Unspawned, Early, InLock
  <2>14. rec'[r].status \notin {"absent", "empty", "running"}
    BY <1>8, <2>2
  <2> QED BY <1>4, <2>3, <2>5, <2>7, <2>10, <2>11, <2>13, <2>14, RunStep
<1>9. CASE /\ Finalize(r, [m EXCEPT !.status = "timeout"])
           /\ IF m.pid = "launcher" /\ Ours(m.pid, a) THEN Goto(a, "dead")
              ELSE UNCHANGED att
           /\ child' = IF m.pid = "child" /\ Ours(m.pid, a)
                       THEN [child EXCEPT ![a] = "bad"] ELSE child
           /\ adrift' = adrift \cup {a}
  BY <1>8, <1>9
<1>10. CASE /\ m.pid # "null" /\ ~Ours(m.pid, a)
            /\ Finalize(r, [m EXCEPT !.status = Outcome(a)])
            /\ adrift' = IF att[a].cli THEN adrift \cup {a} ELSE adrift
            /\ UNCHANGED <<att, child>>
  <2>1. Outcome(a) \in {"completed", "failed", "timeout"}
    BY DEF Outcome
  <2>2. adrift' = adrift \cup {a} \/ (adrift' = adrift /\ ~Held(a))
    <3>1. CASE att[a].cli
      BY <1>10, <3>1
    <3>2. CASE ~att[a].cli
      <4>1. m.pid \in {"child", "gone"}
        BY <1>3, <1>4, <1>10, <3>2 DEF Told, Metas
      <4>2. CASE m.pid = "child"
        BY <1>3, <1>4, <1>10, <3>2, <4>2 DEF Told, Ours, Held, Unspawned
      <4>3. CASE m.pid = "gone"
        BY <1>3, <1>4, <1>10, <3>2, <4>3 DEF Told
      <4> QED BY <4>1, <4>2, <4>3
    <3> QED BY <3>1, <3>2
  <2> QED BY <1>8, <1>10, <2>1, <2>2
<1>11. CASE UNCHANGED <<att, rec, child, adrift, faults>>
  <2>1. TypeOK'
    BY <1>1, <1>7, <1>11 DEF TypeOK, ReapApply
  <2>2. Apart(a, r)
    BY <1>6, <1>7, <1>11 DEF Apart, RunsInv
  <2>3. /\ Stage(a)' = Stage(a) /\ RunOf(a)' = RunOf(a)
        /\ (Held(a)' <=> Held(a))
    BY <1>11 DEF Stage, RunOf, Held
  <2>4. Steady(a) /\ StaysAlone(a)
    BY <1>11, <2>3 DEF Steady, StaysAlone, RunOf, Stage
  <2>5. SeenPart(a)' /\ RecPart(r)'
    BY <1>5, <1>6, <1>11, <2>3 DEF SeenPart, RecPart, Told, RunOf, Stage
  <2>6. /\ Stage(a) \notin {"idle", "overdue", "missing", "waiting"}
        /\ Stage(a) \in Unspawned => child[a] = "none"
        /\ Stage(a) \in InLock => lock = a
        /\ Stage(a) \in {"dying", "done"}
             => rec[r].status \notin {"absent", "empty", "running"}
    BY <1>4, <1>5 DEF CallOK, EndPart
  <2> QED BY <1>4, <1>5, <1>6, <1>11, <2>1, <2>2, <2>3, <2>4, <2>5, <2>6, RunStep
<1> QED BY <1>3, <1>9, <1>10, <1>11 DEF ReapApply

-----------------------------------------------------------------------------
(* Steps of an attempt that has no run yet.                                *)

\* What the invariant says of such an attempt.
LEMMA FreshFacts ==
  ASSUME RunsInv, NEW a \in Attempts,
         Stage(a) \in {"idle", "overdue", "missing", "waiting"}
  PROVE  /\ TypeOK /\ CallOK(a) /\ RunOf(a) = None /\ child[a] = "none"
         /\ ~Held(a) /\ a # None /\ a \in Runs
<1>1. TypeOK /\ CallOK(a)
  BY DEF RunsInv
<1>2. RunOf(a) = None
  BY <1>1 DEF CallOK
<1>3. child[a] = "none"
  BY <1>1 DEF CallOK, Unspawned, Early
<1> QED BY <1>1, <1>2, <1>3, SentinelAssumption DEF Held, Runs

\* No other attempt has a run of that name.
LEMMA FreshRun ==
  ASSUME RunsInv, NEW a \in Attempts, RunOf(a) = None
  PROVE  \A b \in Attempts \ {a} : RunOf(b) # a
<1>1. ASSUME NEW b \in Attempts \ {a}, RunOf(b) = a PROVE FALSE
  <2>1. CallOK(b) /\ RunOf(b) # None
    BY <1>1, SentinelAssumption DEF RunsInv, Runs
  <2> QED BY <1>1, <2>1, SlotsAssumption DEF CallOK
<1> QED BY <1>1

\* Such an attempt takes no run, and is not held, afterwards either.
LEMMA FreshStep ==
  ASSUME RunsInv, NEW a \in Attempts, NEW r \in Runs, TypeOK', Apart(a, r),
         RunOf(a) = None, RunOf(a)' = None, child[a] = "none",
         child'[a] = "none",
         Stage(a)' \in {"overdue", "missing", "waiting", "done"},
         att'[a].kind # "manual" => att'[a].slot \in Slots,
         att'[a].kind = "manual" => att'[a].slot = 0,
         Stage(a)' \in {"overdue", "missing"} => att'[a].kind = "catchup",
         Owns(a)' => rec'[att'[a].slot].status # "absent",
         OwnSlot(a), RecPart(r)',
         rec[r].status # "absent" => rec'[r].status # "absent",
         rec'[r] = rec[r] \/ \A b \in Attempts \ {a} : RunOf(b) # r
  PROVE  RunsInv'
<1>1. CallOK(a)'
  BY DEF CallOK, InLock
<1>2. ~Held(a)'
  BY DEF Held
<1>3. Steady(a) /\ StaysAlone(a) /\ SeenPart(a)' /\ EndPart(a)'
  BY <1>2 DEF Steady, StaysAlone, SeenPart, EndPart
<1>4. SelfPart(a, r)'
  BY <1>1, <1>3 DEF SelfPart
<1> QED BY <1>3, <1>4, OneStep

LEMMA BeginKeeps ==
  ASSUME RunsInv, NEW a \in Attempts, NEW cli \in BOOLEAN,
         NEW kind \in {"schedule", "catchup", "manual"},
         NEW slot \in 0 .. NumSlots, NEW s \in {"waiting", "overdue"},
         Begin(a, cli, kind, slot, s),
         kind # "manual" => slot \in Slots, kind = "manual" => slot = 0,
         s = "overdue" => kind = "catchup", s = "waiting" => kind # "catchup"
  PROVE  RunsInv'
<1>1. TypeOK /\ RunOf(a) = None /\ child[a] = "none" /\ a \in Runs
  BY FreshFacts DEF Begin
<1> DEFINE c == [stage |-> s, cli |-> cli, kind |-> kind, slot |-> slot,
                 run |-> None, born |-> 0, tries |-> 0]
<1>2. c \in Calls
  BY SlotsAssumption, BoundsAssumption, Literals DEF Calls
<1>3. /\ att' \in [Attempts -> Calls] /\ att'[a] = c
      /\ \A b \in Attempts \ {a} : att'[b] = att[b]
  BY <1>1, <1>2 DEF TypeOK, Begin
<1>4. TypeOK'
  BY <1>1, <1>3 DEF TypeOK, Begin
<1>5. Apart(a, a)
  BY <1>3 DEF Apart, Begin, RunsInv
<1>6. /\ Stage(a)' = s /\ RunOf(a)' = None
      /\ att'[a].kind = kind /\ att'[a].slot = slot
  BY <1>3 DEF Stage, RunOf
<1>7. ~Owns(a)'
  BY <1>6 DEF Owns
<1>8. rec' = rec /\ child' = child /\ adrift' = adrift
  BY DEF Begin
<1>9. RecPart(a)'
  <2>1. RecPart(a) /\ rec[a].by \in Attempts \cup {None}
    BY <1>1 DEF RunsInv, TypeOK, Metas
  <2>2. rec[a].by # None => rec[a].by # a
    BY <1>1, <2>1, SentinelAssumption DEF RecPart, Runs
  <2> QED BY <1>3, <1>8, <2>1, <2>2 DEF RecPart, Told, RunOf, Stage
<1> QED BY <1>1, <1>4, <1>5, <1>6, <1>7, <1>8, <1>9, FreshStep DEF OwnSlot

LEMMA FireKeeps ==
  ASSUME RunsInv, NEW a \in Attempts, Fire(a) PROVE RunsInv'
<1>1. due \in Slots
  BY SlotsAssumption DEF RunsInv, TypeOK, Fire, Slots
<1>2. due \in 0 .. NumSlots
  BY DEF RunsInv, TypeOK
<1> QED BY <1>1, <1>2, BeginKeeps DEF Fire

LEMMA AskKeeps ==
  ASSUME RunsInv, NEW a \in Attempts, Ask(a) PROVE RunsInv'
BY BeginKeeps, SlotsAssumption DEF Ask

LEMMA DetectKeeps ==
  ASSUME RunsInv, NEW a \in Attempts, Detect(a) PROVE RunsInv'
<1>1. due \in Slots
  BY SlotsAssumption DEF RunsInv, TypeOK, Detect, Overdue, Slots
<1>2. due \in 0 .. NumSlots
  BY DEF RunsInv, TypeOK
<1> QED BY <1>1, <1>2, BeginKeeps DEF Detect

LEMMA ClaimMissedKeeps ==
  ASSUME RunsInv, NEW a \in Attempts, ClaimMissed(a) PROVE RunsInv'
<1>1. /\ TypeOK /\ CallOK(a) /\ RunOf(a) = None /\ child[a] = "none"
      /\ a \in Runs /\ Stage(a) = "overdue"
  BY FreshFacts DEF ClaimMissed
<1>2. PICK r \in Slots : r = att[a].slot /\ att[a].kind = "catchup"
  BY <1>1 DEF CallOK
<1>3. r \in Runs
  BY DEF Runs
<1>4. child' = child /\ age' = age /\ adrift' = adrift
  BY DEF ClaimMissed
<1>5. ASSUME NEW s \in {"missing", "done"}, Goto(a, s)
      PROVE  /\ att' \in [Attempts -> Calls]
             /\ \A b \in Attempts \ {a} : att'[b] = att[b]
             /\ att'[a].kind = att[a].kind /\ att'[a].slot = att[a].slot
             /\ Stage(a)' = s /\ RunOf(a)' = None
  BY <1>1, <1>5, GotoTypes, Literals DEF Stage, RunOf
<1>6. CASE Unclaimed(r) /\ Write(r, Empty) /\ Goto(a, "missing")
  <2>1. /\ rec' \in [Runs -> Metas] /\ rec'[r] = Empty
        /\ \A q \in Runs \ {r} : rec'[q] = rec[q]
    BY <1>1, <1>3, <1>6, WriteTypes, MetaTypes
  <2>2. rec'[r].status = "empty" /\ rec'[r].by = None
    BY <2>1 DEF Empty, Meta
  <2>3. TypeOK'
    BY <1>1, <1>5, <1>6, <2>1 DEF TypeOK, ClaimMissed
  <2>4. Apart(a, r)
    BY <1>5, <1>6, <2>1 DEF Apart, ClaimMissed, RunsInv
  <2>5. RecPart(r)'
    BY <2>2 DEF RecPart
  <2>6. rec[r].status = "absent"
    BY <1>6 DEF Unclaimed
  <2>7. ASSUME NEW b \in Attempts \ {a}
        PROVE  RunOf(b) # r /\ ~(Owns(b) /\ att[b].slot = r)
    BY <2>6, <1>3, SentinelAssumption DEF RunsInv, SlotPart
  <2>8. OwnSlot(a)
    BY <1>2, <1>5, <1>6, <2>7 DEF OwnSlot
  <2> QED BY <1>1, <1>2, <1>3, <1>4, <1>5, <1>6, <2>2, <2>3, <2>4, <2>5, <2>7,
             <2>8, FreshStep
<1>7. CASE Goto(a, "done") /\ UNCHANGED rec
  <2>1. TypeOK'
    BY <1>1, <1>5, <1>7 DEF TypeOK, ClaimMissed
  <2>2. Apart(a, r)
    BY <1>5, <1>7 DEF Apart, ClaimMissed, RunsInv
  <2>3. ~Owns(a)'
    BY <1>5, <1>7 DEF Owns
  <2>4. RecPart(r)'
    <3>1. RecPart(r) /\ rec[r].by \in Attempts \cup {None}
      BY <1>1, <1>3 DEF RunsInv, TypeOK, Metas
    <3>2. rec[r].by # None => rec[r].by # a
      BY <1>1, <1>3, <3>1, SentinelAssumption DEF RecPart
    <3> QED BY <1>4, <1>5, <1>7, <3>1, <3>2 DEF RecPart, Told, RunOf, Stage
  <2> QED BY <1>1, <1>2, <1>3, <1>4, <1>5, <1>7, <2>1, <2>2, <2>3, <2>4,
             FreshStep DEF OwnSlot
<1> QED BY <1>2, <1>6, <1>7 DEF ClaimMissed

LEMMA RecordMissedKeeps ==
  ASSUME RunsInv, NEW a \in Attempts, RecordMissed(a) PROVE RunsInv'
<1>1. /\ TypeOK /\ CallOK(a) /\ RunOf(a) = None /\ child[a] = "none"
      /\ a \in Runs /\ Stage(a) = "missing"
  BY FreshFacts DEF RecordMissed
<1>2. PICK r \in Slots : r = att[a].slot /\ att[a].kind = "catchup"
  BY <1>1 DEF CallOK
<1>3. r \in Runs /\ r > 0 /\ r \in 0 .. NumSlots
  BY SlotsAssumption DEF Runs, Slots
<1>4. child' = child /\ age' = age /\ adrift' = adrift
  BY DEF RecordMissed
<1>5. PICK s \in {"waiting", "done"} : Goto(a, s)
  BY DEF RecordMissed
<1>6. /\ att' \in [Attempts -> Calls]
      /\ \A b \in Attempts \ {a} : att'[b] = att[b]
      /\ att'[a].kind = att[a].kind /\ att'[a].slot = att[a].slot
      /\ Stage(a)' = s /\ RunOf(a)' = None
  BY <1>1, <1>5, GotoTypes, Literals DEF Stage, RunOf
<1>7. Meta("missed", "null", FALSE, None) \in Metas
  BY MetaTypes, Literals DEF Ends
<1>8. /\ rec' \in [Runs -> Metas]
      /\ rec'[r] = Meta("missed", "null", FALSE, None)
      /\ \A q \in Runs \ {r} : rec'[q] = rec[q]
  BY <1>1, <1>2, <1>3, <1>7, WriteTypes DEF RecordMissed
<1>9. rec'[r].status = "missed" /\ rec'[r].by = None
  BY <1>8 DEF Meta
<1>10. era' \in [Runs -> 0 .. NumSlots]
  BY <1>1, <1>2, <1>3 DEF TypeOK, RecordMissed
<1>11. TypeOK'
  BY <1>1, <1>6, <1>8, <1>10 DEF TypeOK, RecordMissed
<1>12. Apart(a, r)
  BY <1>6, <1>8 DEF Apart, RecordMissed, RunsInv
<1>13. RecPart(r)'
  BY <1>9 DEF RecPart
<1>14. Owns(a)
  BY <1>1, <1>2, <1>3 DEF Owns
<1>15. ASSUME NEW b \in Attempts \ {a} PROVE RunOf(b) # r
  <2>1. CASE RunOf(b) = r
    <3>1. CallOK(b) /\ RunOf(b) # None
      BY <1>3, <2>1, SentinelAssumption DEF RunsInv
    <3>2. att[b].slot = r
      BY <2>1, <3>1, <1>3, SlotsAssumption DEF CallOK
    <3>3. Owns(b)
      BY <1>3, <3>1, <3>2 DEF Owns
    <3> QED BY <1>2, <1>14, <3>2, <3>3 DEF RunsInv, SlotPart
  <2> QED BY <2>1
<1>16. OwnSlot(a)
  BY <1>6, <1>14 DEF OwnSlot
<1> QED BY <1>1, <1>2, <1>3, <1>4, <1>6, <1>9, <1>11, <1>12, <1>13, <1>15, <1>16,
           FreshStep

LEMMA ClaimKeeps ==
  ASSUME RunsInv, NEW a \in Attempts, Claim(a) PROVE RunsInv'
<1>1. /\ TypeOK /\ CallOK(a) /\ RunOf(a) = None /\ child[a] = "none"
      /\ a \in Runs /\ a # None /\ Stage(a) = "waiting" /\ lock = Free
  BY FreshFacts DEF Claim, LockFree
<1>2. PICK r : /\ r = (IF att[a].kind = "schedule" THEN att[a].slot ELSE a)
               /\ Unclaimed(r) /\ Write(r, Empty)
               /\ att' = [att EXCEPT ![a].stage = "claimed", ![a].run = r,
                                     ![a].born = due]
  BY DEF Claim
<1>3. r \in Runs /\ r # None
  BY <1>1, <1>2, SentinelAssumption DEF CallOK, Runs
<1>4. /\ att' \in [Attempts -> Calls]
      /\ \A b \in Attempts \ {a} : att'[b] = att[b]
      /\ att'[a].stage = "claimed" /\ att'[a].run = r
      /\ att'[a].cli = att[a].cli /\ att'[a].kind = att[a].kind
      /\ att'[a].slot = att[a].slot
  <2> DEFINE c == [att[a] EXCEPT !.stage = "claimed", !.run = r, !.born = due]
  <2>1. att[a] \in Calls /\ due \in 0 .. NumSlots
    BY <1>1 DEF TypeOK
  <2>2. /\ c \in Calls /\ c.stage = "claimed" /\ c.run = r
        /\ c.cli = att[a].cli /\ c.kind = att[a].kind /\ c.slot = att[a].slot
    BY <1>3, <2>1, Literals DEF Calls
  <2>3. att' = [att EXCEPT ![a] = c]
    BY <1>2
  <2> HIDE DEF c
  <2> QED BY <1>1, <2>2, <2>3 DEF TypeOK
<1>5. /\ rec' \in [Runs -> Metas] /\ rec'[r] = Empty
      /\ \A q \in Runs \ {r} : rec'[q] = rec[q]
  BY <1>1, <1>2, <1>3, WriteTypes, MetaTypes
<1>6. rec'[r].status = "empty" /\ rec'[r].by = None
  BY <1>5 DEF Empty, Meta
<1>7. TypeOK'
  BY <1>1, <1>4, <1>5 DEF TypeOK, Claim
<1>8. Apart(a, r)
  BY <1>1, <1>4, <1>5 DEF Apart, Claim, RunsInv
<1>9. /\ Stage(a)' = "claimed" /\ RunOf(a)' = r /\ lock' = a
      /\ child' = child /\ adrift' = adrift
  BY <1>4 DEF Stage, RunOf, Claim
<1>10. ~Held(a)'
  BY <1>1, <1>9 DEF Held
<1>11. CallOK(a)'
  <2>1. att[a].kind # "manual" => att[a].slot \in Slots
    BY <1>1 DEF CallOK
  <2>2. att[a].kind = "manual" => att[a].slot = 0
    BY <1>1 DEF CallOK
  <2> QED BY <1>1, <1>2, <1>3, <1>4, <1>9, <2>1, <2>2 DEF CallOK
<1>12. Steady(a) /\ StaysAlone(a) /\ SeenPart(a)' /\ EndPart(a)' /\ RecPart(r)'
  BY <1>1, <1>6, <1>9, <1>10
     DEF Steady, StaysAlone, SeenPart, EndPart, RecPart
<1>13. rec[r].status = "absent"
  BY <1>2 DEF Unclaimed
<1>14. ASSUME NEW b \in Attempts \ {a}
       PROVE  RunOf(b) # r /\ ~(Owns(b) /\ att[b].slot = r)
  BY <1>3, <1>13 DEF RunsInv, SlotPart
<1>15. CASE att[a].kind = "schedule"
  <2>1. att[a].slot = r
    BY <1>2, <1>15
  <2>2. OwnSlot(a)
    BY <1>4, <1>14, <2>1 DEF OwnSlot
  <2>3. SelfPart(a, r)'
    BY <1>4, <1>6, <1>9, <1>11, <1>12, <2>1 DEF SelfPart
  <2> QED BY <1>3, <1>6, <1>7, <1>8, <1>12, <1>14, <2>2, <2>3, OneStep
<1>16. CASE att[a].kind = "catchup"
  <2>1. Owns(a)
    BY <1>1, <1>16, SlotsAssumption DEF Owns, CallOK, Slots
  <2>2. OwnSlot(a)
    BY <1>4, <2>1 DEF OwnSlot
  <2>3. att[a].slot \in Runs /\ rec[att[a].slot].status # "absent"
    BY <1>1, <1>16, <2>1 DEF CallOK, RunsInv, SlotPart, Runs
  <2>4. rec'[att[a].slot].status # "absent"
    BY <1>5, <1>6, <2>3
  <2>5. SelfPart(a, r)'
    BY <1>4, <1>6, <1>9, <1>11, <1>12, <2>4 DEF SelfPart
  <2> QED BY <1>3, <1>6, <1>7, <1>8, <1>12, <1>14, <2>2, <2>5, OneStep
<1>17. CASE att[a].kind = "manual"
  <2>1. ~Owns(a)'
    BY <1>1, <1>4, <1>17 DEF Owns, CallOK
  <2>2. SelfPart(a, r)' /\ OwnSlot(a)
    BY <1>6, <1>9, <1>11, <1>12, <2>1 DEF SelfPart, OwnSlot
  <2> QED BY <1>3, <1>6, <1>7, <1>8, <1>12, <1>14, <2>2, OneStep
<1> QED BY <1>1, <1>15, <1>16, <1>17 DEF TypeOK, Calls

LEMMA DuplicateKeeps ==
  ASSUME RunsInv, NEW a \in Attempts, Duplicate(a) PROVE RunsInv'
<1>1. /\ TypeOK /\ CallOK(a) /\ RunOf(a) = None /\ child[a] = "none"
      /\ a \in Runs /\ a # None /\ att[a].kind = "schedule"
  BY FreshFacts DEF Duplicate
<1>2. /\ att' \in [Attempts -> Calls]
      /\ \A b \in Attempts \ {a} : att'[b] = att[b]
      /\ Stage(a)' = "done" /\ RunOf(a)' = None
      /\ att'[a].kind = att[a].kind /\ att'[a].slot = att[a].slot
  <2> DEFINE c == [att[a] EXCEPT !.stage = "done", !.born = due]
  <2>1. att[a] \in Calls /\ due \in 0 .. NumSlots
    BY <1>1 DEF TypeOK
  <2>2. /\ c \in Calls /\ c.stage = "done" /\ c.run = att[a].run
        /\ c.kind = att[a].kind /\ c.slot = att[a].slot
    BY <2>1, Literals DEF Calls
  <2>3. att' = [att EXCEPT ![a] = c]
    BY DEF Duplicate
  <2> HIDE DEF c
  <2> QED BY <1>1, <2>2, <2>3 DEF TypeOK, Stage, RunOf
<1>3. ~Owns(a)'
  BY <1>1, <1>2 DEF Owns
<1>4. /\ child' = child /\ adrift' = adrift /\ age' = age /\ reaper' = reaper
      /\ lock' = lock /\ due' = due /\ armed' = armed
      /\ unread' = unread
  BY DEF Duplicate
<1>5. CASE UNCHANGED <<rec, era>>
  <2>1. TypeOK'
    BY <1>1, <1>2, <1>5 DEF TypeOK, Duplicate
  <2>2. Apart(a, a)
    BY <1>2, <1>4, <1>5 DEF Apart, RunsInv
  <2>3. RecPart(a)'
    <3>1. RecPart(a) /\ rec[a].by \in Attempts \cup {None}
      BY <1>1 DEF RunsInv, TypeOK, Metas
    <3>2. rec[a].by # None => rec[a].by # a
      BY <1>1, <3>1 DEF RecPart
    <3> QED BY <1>2, <1>4, <1>5, <3>1, <3>2 DEF RecPart, Told, RunOf, Stage
  <2> QED BY <1>1, <1>2, <1>3, <1>4, <1>5, <2>1, <2>2, <2>3, FreshStep
          DEF OwnSlot, CallOK
<1>6. CASE Write(a, Meta("skipped", "null", FALSE, None)) /\ Stamp(a)
  <2>1. Meta("skipped", "null", FALSE, None) \in Metas
    BY MetaTypes, Literals DEF Ends
  <2>2. /\ rec' \in [Runs -> Metas]
        /\ rec'[a] = Meta("skipped", "null", FALSE, None)
        /\ \A q \in Runs \ {a} : rec'[q] = rec[q]
    BY <1>1, <1>6, <2>1, WriteTypes
  <2>3. rec'[a].status = "skipped" /\ rec'[a].by = None
    BY <2>2 DEF Meta
  <2>4. era' \in [Runs -> 0 .. NumSlots]
    BY <1>1, <1>6, StampTypes
  <2>5. TypeOK'
    BY <1>1, <1>2, <2>2, <2>4 DEF TypeOK, Duplicate
  <2>6. Apart(a, a)
    BY <1>2, <1>4, <2>2 DEF Apart, RunsInv
  <2>7. RecPart(a)'
    BY <2>3 DEF RecPart
  <2>8. \A b \in Attempts \ {a} : RunOf(b) # a
    BY <1>1, FreshRun
  <2> QED BY <1>1, <1>2, <1>3, <1>4, <2>3, <2>5, <2>6, <2>7, <2>8, FreshStep
          DEF OwnSlot, CallOK
<1> QED BY <1>5, <1>6 DEF Duplicate

LEMMA GiveUpKeeps ==
  ASSUME RunsInv, NEW a \in Attempts, GiveUp(a) PROVE RunsInv'
<1>1. /\ TypeOK /\ CallOK(a) /\ RunOf(a) = None /\ child[a] = "none"
      /\ a \in Runs /\ a # None
  BY FreshFacts DEF GiveUp
<1>2. /\ att' \in [Attempts -> Calls]
      /\ \A b \in Attempts \ {a} : att'[b] = att[b]
      /\ Stage(a)' = "done" /\ RunOf(a)' = None
      /\ att'[a].kind = att[a].kind /\ att'[a].slot = att[a].slot
  BY <1>1, GotoTypes, Literals DEF Stage, RunOf, GiveUp
<1>3. rec' = rec /\ child' = child /\ adrift' = adrift
  BY DEF GiveUp
<1>4. TypeOK'
  BY <1>1, <1>2 DEF TypeOK, GiveUp
<1>5. Apart(a, a)
  BY <1>2 DEF Apart, GiveUp, RunsInv
<1>6. ~Owns(a)'
  BY <1>2 DEF Owns
<1>7. RecPart(a)'
  <2>1. RecPart(a) /\ rec[a].by \in Attempts \cup {None}
    BY <1>1 DEF RunsInv, TypeOK, Metas
  <2>2. rec[a].by # None => rec[a].by # a
    BY <1>1, <2>1 DEF RecPart
  <2> QED BY <1>2, <1>3, <2>1, <2>2 DEF RecPart, Told, RunOf, Stage
<1> QED BY <1>1, <1>2, <1>3, <1>4, <1>5, <1>6, <1>7, FreshStep
        DEF OwnSlot, CallOK
-----------------------------------------------------------------------------
(* Steps of no attempt.                                                    *)

\* Calls, records and children stay as they are; a lock is taken from the
\* dead only.
LEMMA QuietStep ==
  ASSUME RunsInv, TypeOK', UNCHANGED <<att, rec, child, age, adrift, unread>>,
         lock' = lock \/ \A a \in Attempts : Stage(a) \in InLock => lock # a,
         armed' => due' > 0,
         \A x \in Reapers : reaper'[x] = reaper[x] \/ CopyPart(x)'
  PROVE  RunsInv'
<1>1. ASSUME NEW a \in Attempts PROVE CallOK(a)'
  BY DEF RunsInv, CallOK, RunOf, Stage
<1>2. ASSUME NEW a \in Attempts
      PROVE  SlotPart(a)' /\ SeenPart(a)' /\ AlonePart(a)' /\ EndPart(a)'
  <2>1. SlotPart(a)'
    BY DEF RunsInv, SlotPart, Owns, RunOf, Stage
  <2>2. SeenPart(a)'
    BY DEF RunsInv, SeenPart, Held, RunOf, Stage
  <2>3. AlonePart(a)'
    BY DEF RunsInv, AlonePart, Held, Stage
  <2>4. EndPart(a)'
    BY DEF RunsInv, EndPart, RunOf, Stage
  <2> QED BY <2>1, <2>2, <2>3, <2>4
<1>3. ASSUME NEW r \in Runs PROVE RecPart(r)'
  BY DEF RunsInv, RecPart, Told, RunOf, Stage
<1>4. ASSUME NEW x \in Reapers PROVE CopyPart(x)'
  BY DEF RunsInv, CopyPart, Told, RunOf, Stage
<1> QED BY <1>1, <1>2, <1>3, <1>4 DEF RunsInv

LEMMA OccursKeeps ==
  ASSUME RunsInv, Occurs PROVE RunsInv'
<1>1. due' > 0 /\ due' \in 0 .. NumSlots
  BY SlotsAssumption DEF RunsInv, TypeOK, Occurs
<1>2. TypeOK'
  BY <1>1 DEF RunsInv, TypeOK, Occurs
<1> QED BY <1>1, <1>2, QuietStep DEF Occurs

LEMMA DaemonStartsKeeps ==
  ASSUME RunsInv, DaemonStarts PROVE RunsInv'
<1>1. TypeOK'
  BY DEF RunsInv, TypeOK, DaemonStarts
<1> QED BY <1>1, QuietStep DEF DaemonStarts, RunsInv

LEMMA LockGoesStaleKeeps ==
  ASSUME RunsInv, LockGoesStale PROVE RunsInv'
<1>1. TypeOK'
  BY DEF RunsInv, TypeOK, LockGoesStale
<1> QED BY <1>1, QuietStep DEF LockGoesStale, RunsInv, InLock

LEMMA ReapReadKeeps ==
  ASSUME RunsInv, NEW x \in Reapers, NEW r \in Runs, ReapRead(x, r)
  PROVE  RunsInv'
<1>1. TypeOK /\ RecPart(r) /\ rec[r].status = "running"
  BY DEF RunsInv, ReapRead
<1> DEFINE p == [run |-> r, copy |-> rec[r], aged |-> Overran(rec[r])]
<1>2. p \in [run : Runs, copy : Metas, aged : BOOLEAN]
  <2>1. Overran(rec[r]) \in BOOLEAN
    BY DEF Overran
  <2> QED BY <1>1, <2>1 DEF TypeOK
<1>3. p.run = r /\ p.copy = rec[r]
  OBVIOUS
<1>4. reaper' = [reaper EXCEPT ![x] = p]
  BY DEF ReapRead
<1> HIDE DEF p
<1>5. TypeOK'
  BY <1>1, <1>2, <1>4 DEF TypeOK, ReapRead
<1>6. reaper'[x] = p /\ \A y \in Reapers \ {x} : reaper'[y] = reaper[y]
  BY <1>1, <1>4 DEF TypeOK
<1>7. CopyPart(x)'
  BY <1>1, <1>3, <1>6
     DEF CopyPart, RecPart, Told, RunOf, Stage, ReapRead
<1> QED BY <1>5, <1>6, <1>7, QuietStep DEF ReapRead, RunsInv

LEMMA DaemonDiesKeeps ==
  ASSUME RunsInv, DaemonDies PROVE RunsInv'
<1>1. ASSUME NEW a \in Attempts
      PROVE  /\ att'[a] \in Calls
             /\ Stage(a)' = Stage(a) \/ (Stage(a)' = "dead" /\ ~att[a].cli)
             /\ Stage(a) = "idle" <=> Stage(a)' = "idle"
             /\ Stage(a) = "done" <=> Stage(a)' = "done"
             /\ RunOf(a)' = RunOf(a) /\ att'[a].cli = att[a].cli
             /\ att'[a].kind = att[a].kind /\ att'[a].slot = att[a].slot
  <2>1. att[a] \in Calls
    BY DEF RunsInv, TypeOK
  <2>2. LET c == [att[a] EXCEPT !.stage = "dead"]
        IN  /\ c \in Calls /\ c.stage = "dead" /\ c.run = att[a].run
            /\ c.cli = att[a].cli /\ c.kind = att[a].kind
            /\ c.slot = att[a].slot
    BY <2>1, Literals DEF Calls
  <2>3. CASE Running(a) /\ ~att[a].cli
    <3>1. att'[a] = [att[a] EXCEPT !.stage = "dead"]
      BY <2>3 DEF DaemonDies
    <3> QED BY <2>2, <2>3, <3>1 DEF Stage, RunOf, Running
  <2>4. CASE ~(Running(a) /\ ~att[a].cli)
    <3>1. att'[a] = att[a]
      BY <2>4 DEF DaemonDies
    <3> QED BY <2>1, <3>1 DEF Stage, RunOf
  <2> QED BY <2>3, <2>4
<1>14. /\ rec' \in [Runs -> Metas]
       /\ adrift \subseteq adrift' /\ adrift' \subseteq Attempts
       /\ \A r \in Runs : rec'[r] # rec[r] =>
             /\ rec'[r].status = "torn" /\ rec'[r].by = None
             /\ \A b \in Attempts : RunOf(b) = r => b \in adrift'
  <2>1. CASE UNCHANGED <<rec, adrift>>
    BY <2>1 DEF RunsInv, TypeOK
  <2>2. ASSUME NEW a \in Attempts, Writes(a), Write(RunOf(a), Torn),
               adrift' = adrift \cup {a}
        PROVE  <1>14
    <3>1. RunOf(a) # None
      BY <2>2 DEF RunsInv, CallOK, Writes
    <3>2. RunOf(a) \in Runs /\ TypeOK
      BY <3>1, OwnFacts
    <3>3. /\ rec' \in [Runs -> Metas] /\ rec'[RunOf(a)] = Torn
          /\ \A q \in Runs \ {RunOf(a)} : rec'[q] = rec[q]
      BY <2>2, <3>2, WriteTypes, MetaTypes
    <3>4. \A b \in Attempts : RunOf(b) = RunOf(a) => b = a
      BY <3>1, OneRun
    <3> QED BY <2>2, <3>2, <3>3, <3>4, MetaTypes DEF TypeOK
  <2> QED BY <2>1, <2>2 DEF DaemonDies
<1>2. /\ child' = child /\ age' = age /\ unread' = unread
      /\ lock' = lock /\ ~armed'
      /\ \A x \in Reapers : reaper'[x] \in {reaper[x], None}
  BY DEF DaemonDies
<1>3. TypeOK'
  <2>1. att' \in [Attempts -> Calls]
    BY <1>1 DEF DaemonDies
  <2>2. faults' \in 0 .. MaxFaults
    BY BoundsAssumption DEF RunsInv, TypeOK, DaemonDies
  <2>3. reaper' \in [Reapers -> {None} \cup
                        [run : Runs, copy : Metas, aged : BOOLEAN]]
    BY DEF RunsInv, TypeOK, DaemonDies
  <2> QED BY <1>14, <2>1, <2>2, <2>3 DEF RunsInv, TypeOK, DaemonDies
<1>4. ASSUME NEW a \in Attempts PROVE CallOK(a)'
  <2>1. CallOK(a)
    BY DEF RunsInv
  <2> QED BY <1>1, <1>2, <2>1 DEF CallOK, Unspawned, Early, InLock
<1>5. ASSUME NEW a \in Attempts PROVE Owns(a)' => Owns(a)
  BY <1>1 DEF Owns
<1>6. ASSUME NEW a \in Attempts PROVE SlotPart(a)'
  <2>1. \A b \in Attempts : att'[b].slot = att[b].slot /\ RunOf(b)' = RunOf(b)
    BY <1>1
  <2>2. \A r \in Runs : rec[r].status # "absent" => rec'[r].status # "absent"
    BY <1>14
  <2>3. SlotPart(a) /\ (Owns(a) => att[a].slot \in Runs)
        /\ (RunOf(a) # None => RunOf(a) \in Runs)
    BY RunTypes DEF RunsInv, Owns
  <2>4. Owns(a)' => rec'[att'[a].slot].status # "absent"
    BY <1>5, <2>1, <2>2, <2>3 DEF SlotPart
  <2>5. RunOf(a)' # None => rec'[RunOf(a)'].status # "absent"
    BY <2>1, <2>2, <2>3 DEF SlotPart
  <2>6. \A b \in Attempts :
           Owns(a)' /\ Owns(b)' /\ att'[a].slot = att'[b].slot => a = b
    BY <1>5, <2>1, <2>3 DEF SlotPart
  <2> QED BY <2>4, <2>5, <2>6 DEF SlotPart
<1>7. ASSUME NEW a \in Attempts PROVE Held(a)' => Held(a)
  BY <1>1, <1>2 DEF Held
<1>8. ASSUME NEW a \in Attempts PROVE SeenPart(a)'
  <2>1. CASE Held(a)' /\ a \notin adrift'
    <3>1. Held(a) /\ a \notin adrift
      BY <1>14, <1>7, <2>1
    <3>2. RunOf(a) # None
      BY <3>1 DEF RunsInv, CallOK, Held
    <3>3. rec[RunOf(a)].by = a /\ RecPart(RunOf(a)) /\ a # None
      BY <3>1, <3>2, OwnFacts DEF SeenPart
    <3>4. rec[RunOf(a)].pid = "launcher" => att[a].cli
      BY <3>3 DEF RecPart, Told
    <3>5. rec'[RunOf(a)] = rec[RunOf(a)]
      BY <1>14, <2>1, <3>2, OwnFacts
    <3> QED BY <1>1, <1>2, <3>1, <3>4, <3>5 DEF RunsInv, SeenPart
  <2> QED BY <2>1 DEF SeenPart
<1>9. ASSUME NEW a \in Attempts PROVE AlonePart(a)'
  BY <1>1, <1>2, <1>7, <1>14 DEF RunsInv, AlonePart
<1>10. ASSUME NEW a \in Attempts PROVE EndPart(a)'
  <2>1. RunOf(a) # None => RunOf(a) \in Runs
    BY RunTypes DEF RunsInv
  <2> QED BY <1>1, <1>14, <2>1 DEF RunsInv, EndPart
<1>11. ASSUME NEW m \in Metas, m.by \in Attempts, Told(m)
       PROVE  /\ m.pid = "launcher" => att'[m.by].cli
              /\ m.pid = "child" => Stage(m.by)' \notin Unspawned \cup {"spawned"}
              /\ m.pid = "gone" => m.by \in adrift'
  BY <1>1, <1>14, <1>11 DEF Told, Unspawned, Early
<1>12. ASSUME NEW r \in Runs PROVE RecPart(r)'
  <2>1. RecPart(r) /\ rec[r] \in Metas /\ rec[r].by \in Attempts \cup {None}
    BY DEF RunsInv, TypeOK, Metas
  <2>2. CASE rec[r].by = None /\ rec'[r] = rec[r]
    BY <2>1, <2>2 DEF RecPart
  <2>4. CASE rec'[r] # rec[r]
    BY <1>14, <2>4 DEF RecPart
  <2>3. CASE rec[r].by # None /\ rec'[r] = rec[r]
    <3>1. Told(rec[r]) /\ RunOf(rec[r].by) = r /\ rec[r].by \in Attempts
      BY <2>1, <2>3 DEF RecPart
    <3>2. RunOf(rec[r].by)' = r
      BY <1>1, <2>3, <3>1 DEF RunOf
    <3> QED BY <1>11, <2>1, <2>3, <3>1, <3>2 DEF RecPart, Told, Stage, RunOf
  <2> QED BY <2>2, <2>3, <2>4
<1>13. ASSUME NEW x \in Reapers PROVE CopyPart(x)'
  <2>1. CASE reaper'[x] # None
    <3>1. reaper'[x] = reaper[x] /\ reaper[x] # None
      BY <1>2, <2>1
    <3>2. reaper[x].copy \in Metas /\ reaper[x].copy.by \in Attempts
      BY <3>1 DEF RunsInv, TypeOK, CopyPart, Metas
    <3>3. Told(reaper[x].copy) /\ RunOf(reaper[x].copy.by) = reaper[x].run
          /\ reaper[x].copy.by # None
      BY <3>1 DEF RunsInv, CopyPart
    <3>4. att'[reaper[x].copy.by].run = reaper[x].run
      BY <1>1, <3>2, <3>3 DEF RunOf
    <3> QED BY <1>11, <3>1, <3>2, <3>3, <3>4 DEF CopyPart, Told, Stage, RunOf
  <2> QED BY <2>1 DEF CopyPart
<1> QED BY <1>2, <1>3, <1>4, <1>6, <1>8, <1>9, <1>10, <1>12, <1>13 DEF RunsInv
-----------------------------------------------------------------------------
(* Theorems.                                                               *)

LEMMA NextKeeps ==
  ASSUME RunsInv, [Next]_vars PROVE RunsInv'
<1>1. CASE UNCHANGED vars
  <2>1. TypeOK'
    BY <1>1 DEF RunsInv, TypeOK, vars
  <2> QED BY <1>1, <2>1, QuietStep DEF vars, RunsInv
<1>2. CASE Occurs \/ DaemonDies \/ DaemonStarts \/ LockGoesStale
  BY <1>2, OccursKeeps, DaemonDiesKeeps, DaemonStartsKeeps, LockGoesStaleKeeps
<1>3. ASSUME NEW a \in Attempts,
             \/ Fire(a) \/ Ask(a) \/ Detect(a) \/ Launches(a)
             \/ Exits(a) \/ Ages(a) \/ CommandDies(a)
      PROVE  RunsInv'
  <2>1. CASE Launches(a)
    BY <2>1, ClaimMissedKeeps, RecordMissedKeeps, ClaimKeeps, DuplicateKeeps,
       GiveUpKeeps, LookKeeps, BlockKeeps, AdmitKeeps, PrepareKeeps,
       RefuseKeeps, SpawnKeeps, WritePidKeeps, WriteFailsKeeps, SettleKeeps,
       FailOverKeeps, ExpireKeeps, ForceKillKeeps
       DEF Launches
  <2> QED BY <1>3, <2>1, FireKeeps, AskKeeps, DetectKeeps, ExitsKeeps,
             AgesKeeps, CommandDiesKeeps
<1>4. ASSUME NEW r \in Runs, ReapTerminal(r) PROVE RunsInv'
  BY <1>4, ReapTerminalKeeps
<1>5. ASSUME NEW x \in Reapers, NEW r \in Runs, ReapRead(x, r) PROVE RunsInv'
  BY <1>5, ReapReadKeeps
<1>6. ASSUME NEW x \in Reapers, ReapApply(x) PROVE RunsInv'
  BY <1>6, ReapApplyKeeps
<1> QED BY <1>1, <1>2, <1>3, <1>4, <1>5, <1>6 DEF Next

\* Calls, records, sweeps and children stay within their types.
THEOREM TypeCorrect == Spec => []TypeOK
<1>1. RunsInv => TypeOK
  BY DEF RunsInv
<1> QED BY <1>1, InitInv, NextKeeps, PTL DEF Spec

\* A scheduled occurrence is launched at most once, whichever of its cron
\* callbacks, second deliveries and catch-ups race and whatever crashes: each
\* launch owns the slot, and a slot has one owner (claimRunSlot,
\* claimMissedFire).
THEOREM SlotSafe == Spec => []OncePerSlot
<1>1. RunsInv => OncePerSlot
  <2> SUFFICES ASSUME RunsInv, NEW a \in Attempts, NEW b \in Attempts,
                      a # b, child[a] # "none", child[b] # "none",
                      att[a].slot > 0, att[a].slot = att[b].slot
               PROVE  FALSE
    BY DEF OncePerSlot
  <2>1. Owns(a) /\ Owns(b)
    BY DEF RunsInv, CallOK, Owns
  <2> QED BY <2>1 DEF RunsInv, SlotPart
<1> QED BY <1>1, InitInv, NextKeeps, PTL DEF Spec

\* Two children of a routine are alive at once only if one of them is adrift,
\* or one was checked for while its record was being rewritten: otherwise the
\* active-run check under the launch lock kept the second out
\* (withRoutineLock, activeRoutineRun, writeRunMeta).
THEOREM OverlapSafe == Spec => []NoOverlap
<1>1. RunsInv => NoOverlap
  <2> SUFFICES ASSUME RunsInv, NEW a \in Attempts, NEW b \in Attempts, a # b,
                      child[a] = "alive", child[b] = "alive"
               PROVE  \/ {a, b} \cap adrift # {}
                      \/ {<<a, b>>, <<b, a>>} \cap unread # {}
    BY DEF NoOverlap
  <2>1. Held(a) /\ Held(b) /\ AlonePart(a)
    BY DEF RunsInv, Held
  <2> QED BY <2>1 DEF AlonePart
<1> QED BY <1>1, InitInv, NextKeeps, PTL DEF Spec

\* An attempt that has ended left a terminal record of its run, whichever of
\* settle, timer, failed write and sweep wrote last (finalizeRunMeta,
\* writeTerminalRecord).
THEOREM RecordSafe == Spec => []EndsOnRecord
<1>1. RunsInv => EndsOnRecord
  BY DEF RunsInv, EndPart, EndsOnRecord
<1> QED BY <1>1, InitInv, NextKeeps, PTL DEF Spec
=============================================================================
