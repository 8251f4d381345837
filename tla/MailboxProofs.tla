---------------------------- MODULE MailboxProofs ----------------------------
(* Theorems about Mailbox, for any messages, sweeps, crashes and hook calls. *)
EXTENDS Mailbox, TLAPS

-----------------------------------------------------------------------------
(* Types.                                                                    *)

ProcOK(p, r) ==
    /\ r \in Proc
    /\ r.cur = NoMsg <=> r.pc \in Loops
    /\ r.dir = "consumed" => r.pc = "rmdir"
    /\ p = Agent => r.kind \in {"none", "drain"} /\ r.pc \notin {"rmdir", "block"}
    /\ p # Agent => r.pc \notin DrainPcs

LEMMA ProcsOK ==
  ASSUME TypeOK
  PROVE  \A p \in Procs : ProcOK(p, proc[p])
BY ProcsAssumption DEF TypeOK, ProcOK, Procs

\* The type is kept by a step that changes the state of one process, if the
\* other variables keep theirs.
LEMMA OneProc ==
  ASSUME TypeOK, NEW p \in Procs, NEW r, ProcOK(p, r), proc' = [proc EXCEPT ![p] = r]
  PROVE  /\ proc' \in [Procs -> Proc]
         /\ \A q \in Procs : /\ proc'[q].cur = NoMsg <=> proc'[q].pc \in Loops
                             /\ proc'[q].dir = "consumed" => proc'[q].pc = "rmdir"
         /\ proc'[Agent].kind \in {"none", "drain"} /\ proc'[Agent].pc \notin {"rmdir", "block"}
         /\ \A q \in Sweepers : proc'[q].pc \notin DrainPcs
BY ProcsAssumption DEF TypeOK, ProcOK, Procs

LEMMA IdleOK == ASSUME NEW p \in Procs PROVE ProcOK(p, Idle)
BY DEF ProcOK, Idle, Proc, Pcs, Kinds, Buckets, Dirs, Loops, DrainPcs

LEMMA BlockType ==
  ASSUME TypeOK, NEW x \in Procs \cup Msgs, NEW m \in Msgs, NEW st \in Statuses,
         WriteBlock(x, m, st)
  PROVE  /\ held' \in [Procs \cup Msgs -> Receipts \cup {NoCopy}]
         /\ block' \in BOOLEAN /\ receipts' \in Receipts
BY DEF TypeOK, WriteBlock, blockVars, Receipts

LEMMA CopyType ==
  ASSUME TypeOK, NEW x \in Procs \cup Msgs, NEW m, ReadBlock(x, m)
  PROVE  held' \in [Procs \cup Msgs -> Receipts \cup {NoCopy}]
BY DEF TypeOK, ReadBlock


\* The variables that only one process's step may leave as they are.
LEMMA LocalStep ==
  ASSUME TypeOK, NEW p \in Procs, NEW r, ProcOK(p, r), proc' = [proc EXCEPT ![p] = r],
         dirs' \subseteq Buckets,
         UNCHANGED <<spool, consumed, lapsed, blockVars, fateVars, sender, held, boundVars,
                     ahead>>
  PROVE  TypeOK'
<1>1. UNCHANGED <<spool, consumed, lapsed, block, receipts, out, returned, bounced, lost,
                  passed, sender, held, crashes, hooks, ahead>>
  BY DEF blockVars, fateVars, boundVars
<1> HIDE DEF ProcOK
<1> QED BY <1>1, OneProc DEF TypeOK

LEMMA SendersType ==
  ASSUME TypeOK, NEW m \in Msgs, SenderStep(m)
  PROVE  TypeOK'
<1>1. CASE Name(m)
  BY <1>1 DEF Name, TypeOK, spoolVars, blockVars, fateVars, boundVars
<1>2. CASE Enqueue(m)
  BY <1>2 DEF Enqueue, TypeOK, blockVars, fateVars, boundVars, Dirs
<1>6. CASE EnqueueFails(m)
  BY <1>6 DEF EnqueueFails, TypeOK, spoolVars, blockVars, fateVars, boundVars
<1>3. CASE QueuedRead(m)
  <2>1. held' \in [Procs \cup Msgs -> Receipts \cup {NoCopy}]
    BY <1>3, CopyType DEF QueuedRead
  <2> QED BY <1>3, <2>1 DEF QueuedRead, TypeOK, spoolVars, blockVars, fateVars, boundVars
<1>4. CASE QueuedWrite(m)
  <2>1. /\ held' \in [Procs \cup Msgs -> Receipts \cup {NoCopy}]
        /\ block' \in BOOLEAN /\ receipts' \in Receipts
    BY <1>4, BlockType DEF QueuedWrite, Statuses
  <2> QED BY <1>4, <2>1 DEF QueuedWrite, TypeOK, spoolVars, fateVars, boundVars
<1>5. CASE Lapse(m)
  BY <1>5 DEF Lapse, TypeOK, blockVars, fateVars, boundVars
<1> QED BY <1>1, <1>2, <1>3, <1>4, <1>5, <1>6 DEF SenderStep

LEMMA BeginType ==
  ASSUME TypeOK, NEW p \in Procs, NEW kind, Begin(p, kind),
         IF p = Agent THEN kind = "drain" ELSE kind \in {"live", "dead"}
  PROVE  TypeOK'
<1> DEFINE late == IF kind = "dead" THEN Msgs ELSE lapsed
           r == [pc |-> "sweep", kind |-> kind, dir |-> "inbox",
                 todo |-> spool["inbox"] \cap late, cur |-> NoMsg, late |-> late]
<1>1. ProcOK(p, r)
  BY DEF ProcOK, Proc, Pcs, Kinds, Buckets, Dirs, Loops, DrainPcs, TypeOK
<1>2. proc' = [proc EXCEPT ![p] = r]
  BY DEF Begin
<1>3. /\ dirs' \subseteq Buckets
      /\ UNCHANGED <<spool, consumed, lapsed, blockVars, fateVars, sender, held, boundVars,
                     ahead>>
  BY DEF Begin, TypeOK
<1> HIDE DEF r
<1> QED BY <1>1, <1>2, <1>3, LocalStep

LEMMA SweepType ==
  ASSUME TypeOK, NEW p \in Procs, SweepStep(p)
  PROVE  TypeOK'
<1> DEFINE r == proc[p]
<1>0. ProcOK(p, r)
  BY ProcsOK
<1>a. r.todo \subseteq Msgs /\ r \in Proc
  BY <1>0 DEF ProcOK, Proc
<1>1. CASE SweepRead(p)
  <2>1. PICK m \in r.todo :
          proc' = [proc EXCEPT ![p] = [r EXCEPT !.pc = "mark", !.cur = m,
                                                !.todo = {n \in r.todo : m < n}]]
    BY <1>1 DEF SweepRead
  <2>2. ProcOK(p, [r EXCEPT !.pc = "mark", !.cur = m, !.todo = {n \in r.todo : m < n}])
    BY <1>0, <1>1, <1>a, MsgsAssumption DEF SweepRead, ProcOK, Proc, Pcs, Loops, DrainPcs
  <2>3. /\ dirs' \subseteq Buckets
        /\ UNCHANGED <<spool, consumed, lapsed, blockVars, fateVars, sender, held, boundVars,
                       ahead>>
    BY <1>1 DEF SweepRead, TypeOK, spoolVars
  <2> QED BY <2>1, <2>2, <2>3, LocalStep
<1>2. CASE SweepMark(p)
  <2>1. PICK q \in {[r EXCEPT !.pc = "unlink"], [r EXCEPT !.pc = "sweep", !.cur = NoMsg]} :
          proc' = [proc EXCEPT ![p] = q]
    BY <1>2 DEF SweepMark
  <2>2. ProcOK(p, q)
    BY <1>0, <1>2 DEF ProcOK, Proc, Pcs, Loops, DrainPcs, SweepMark
  <2>3. consumed' \in [Msgs -> Marks]
    BY <1>2 DEF SweepMark, TypeOK, Marks
  <2>4. UNCHANGED <<spool, lapsed, dirs, block, receipts, out, returned, bounced, lost,
                    passed, sender, held, crashes, hooks, ahead>>
    BY <1>2 DEF SweepMark, blockVars, fateVars, boundVars
  <2> HIDE DEF r
  <2> QED BY <2>1, <2>2, <2>3, <2>4, OneProc DEF TypeOK
<1>3. CASE SweepUnlink(p)
  <2>0. r.cur \in Msgs
    BY <1>0, <1>3 DEF ProcOK, Proc, Loops, SweepUnlink
  <2>1. PICK q \in {[r EXCEPT !.pc = "bounce"], [r EXCEPT !.pc = "sweep", !.cur = NoMsg]} :
          proc' = [proc EXCEPT ![p] = q]
    BY <1>3 DEF SweepUnlink
  <2>2. ProcOK(p, q)
    BY <1>0, <1>3 DEF ProcOK, Proc, Pcs, Loops, DrainPcs, SweepUnlink
  <2>3. held' \in [Procs \cup Msgs -> Receipts \cup {NoCopy}]
    BY <1>3, CopyType DEF SweepUnlink, TypeOK
  <2>4. spool' \in [Dirs -> SUBSET Msgs] /\ bounced' \subseteq Msgs
    BY <1>3, <2>0 DEF SweepUnlink, TypeOK
  <2>5. UNCHANGED <<consumed, lapsed, dirs, block, receipts, out, returned, lost, passed,
                    sender, crashes, hooks, ahead>>
    BY <1>3 DEF SweepUnlink, blockVars, boundVars
  <2> HIDE DEF r
  <2> QED BY <2>1, <2>2, <2>3, <2>4, <2>5, OneProc DEF TypeOK
<1>4. CASE SweepReceipt(p)
  <2>0. r.cur \in Msgs /\ Bounce(r.kind) \in Statuses
    BY <1>0, <1>4 DEF ProcOK, Proc, Loops, SweepReceipt, Bounce, Statuses
  <2>1. proc' = [proc EXCEPT ![p] = [r EXCEPT !.pc = "sweep", !.cur = NoMsg]]
    BY <1>4 DEF SweepReceipt
  <2>2. ProcOK(p, [r EXCEPT !.pc = "sweep", !.cur = NoMsg])
    BY <1>0, <1>4 DEF ProcOK, Proc, Pcs, Loops, DrainPcs, SweepReceipt
  <2>3. /\ held' \in [Procs \cup Msgs -> Receipts \cup {NoCopy}]
        /\ block' \in BOOLEAN /\ receipts' \in Receipts
    BY <1>4, <2>0, BlockType DEF SweepReceipt
  <2>4. UNCHANGED <<spool, consumed, lapsed, dirs, out, returned, bounced, lost, passed,
                    sender, crashes, hooks, ahead>>
    BY <1>4 DEF SweepReceipt, spoolVars, fateVars, boundVars
  <2> HIDE DEF r
  <2> QED BY <2>1, <2>2, <2>3, <2>4, OneProc DEF TypeOK
<1>5. CASE SweepNext(p)
  <2> DEFINE n == [r EXCEPT !.dir = "processing", !.todo = spool["processing"] \cap r.late,
                            !.late = {}]
  <2>1. proc' = [proc EXCEPT ![p] = n]
    BY <1>5 DEF SweepNext
  <2>2. ProcOK(p, n)
    BY <1>0, <1>5 DEF ProcOK, Proc, Buckets, Dirs, TypeOK
  <2>3. /\ dirs' \subseteq Buckets
        /\ UNCHANGED <<spool, consumed, lapsed, blockVars, fateVars, sender, held, boundVars,
                       ahead>>
    BY <1>5 DEF SweepNext, TypeOK, spoolVars
  <2> HIDE DEF n
  <2> QED BY <2>1, <2>2, <2>3, LocalStep
<1> QED BY <1>1, <1>2, <1>3, <1>4, <1>5 DEF SweepStep

\* The end of gcMailbox()'s pass over a box.
GcStep(p) ==
    \/ \E old \in SUBSET Msgs : Prune(p, old)
    \/ RemoveDir(p) \/ RemoveDirFails(p) \/ GcEnds(p)

LEMMA GcType ==
  ASSUME TypeOK, NEW p \in Sweepers, GcStep(p)
  PROVE  TypeOK'
<1> DEFINE r == proc[p]
<1>0. p \in Procs /\ p # Agent /\ ProcOK(p, r) /\ ProcOK(p, Idle)
  BY ProcsOK, IdleOK, ProcsAssumption DEF Procs
<1>1. CASE \E old \in SUBSET Msgs : Prune(p, old)
  <2>1. PICK q \in {[Idle EXCEPT !.pc = "rmdir"], Idle} : proc' = [proc EXCEPT ![p] = q]
    BY <1>1 DEF Prune
  <2>2. ProcOK(p, q)
    BY <1>0 DEF ProcOK, Idle, Proc, Pcs, Loops, DrainPcs
  <2>3. consumed' \in [Msgs -> Marks]
    BY <1>1 DEF Prune, TypeOK, Marks
  <2>4. UNCHANGED <<spool, lapsed, dirs, block, receipts, out, returned, bounced, lost,
                    passed, sender, held, crashes, hooks, ahead>>
    BY <1>1 DEF Prune, blockVars, fateVars, boundVars
  <2> QED BY <1>0, <2>1, <2>2, <2>3, <2>4, OneProc DEF TypeOK
<1>2. CASE RemoveDir(p)
  <2>1. ProcOK(p, NextDir(r))
    BY <1>0, <1>2 DEF RemoveDir, NextDir, ProcOK, Idle, Proc, Pcs, Buckets, Dirs, Loops, DrainPcs
  <2>2. proc' = [proc EXCEPT ![p] = NextDir(r)] /\ dirs' \subseteq Buckets
        /\ UNCHANGED <<spool, consumed, lapsed, blockVars, fateVars, sender, held, boundVars,
                       ahead>>
    BY <1>2 DEF RemoveDir, TypeOK
  <2> QED BY <1>0, <2>1, <2>2, LocalStep
<1>3. CASE RemoveDirFails(p)
  <2> DEFINE n == [Idle EXCEPT !.pc = "block"]
  <2>1. ProcOK(p, n)
    BY <1>0 DEF ProcOK, Idle, Proc, Pcs, Loops, DrainPcs
  <2>2. proc' = [proc EXCEPT ![p] = n] /\ dirs' \subseteq Buckets
        /\ UNCHANGED <<spool, consumed, lapsed, blockVars, fateVars, sender, held, boundVars,
                       ahead>>
    BY <1>3 DEF RemoveDirFails, TypeOK, spoolVars
  <2> HIDE DEF n
  <2> QED BY <1>0, <2>1, <2>2, LocalStep
<1>4. CASE GcEnds(p)
  <2>1. block' \in BOOLEAN /\ receipts' \in Receipts
    BY <1>4 DEF GcEnds, TypeOK, blockVars, NoReceipts, Receipts, Statuses
  <2>2. proc' = [proc EXCEPT ![p] = Idle]
        /\ UNCHANGED <<spool, consumed, lapsed, dirs, out, returned, bounced, lost, passed,
                       sender, held, crashes, hooks, ahead>>
    BY <1>4 DEF GcEnds, spoolVars, fateVars, boundVars
  <2> QED BY <1>0, <2>1, <2>2, OneProc DEF TypeOK
<1> QED BY <1>1, <1>2, <1>3, <1>4 DEF GcStep

LEMMA ConsumeType ==
  ASSUME TypeOK, NEW m \in Msgs, NEW next, ProcOK(Agent, next), Consume(m, next),
         UNCHANGED <<lapsed, dirs, blockVars, returned, bounced, lost, sender, boundVars, ahead>>
  PROVE  TypeOK'
<1>1. Agent \in Procs
  BY DEF Procs
<1>2. ProcOK(Agent, [next EXCEPT !.pc = "receipt", !.cur = m])
  BY MsgsAssumption DEF ProcOK, Proc, Pcs, Loops
<1>3. PICK q \in {next, [next EXCEPT !.pc = "receipt", !.cur = m]} :
        proc' = [proc EXCEPT ![Agent] = q]
  BY DEF Consume
<1>4. /\ spool' \in [Dirs -> SUBSET Msgs] /\ consumed' \in [Msgs -> Marks]
      /\ out' \subseteq Msgs /\ passed' \subseteq Msgs
  BY DEF Consume, TypeOK, Marks, Dirs
<1>5. held' \in [Procs \cup Msgs -> Receipts \cup {NoCopy}]
  BY <1>1, CopyType DEF Consume, TypeOK
<1>6. UNCHANGED <<lapsed, dirs, block, receipts, returned, bounced, lost, sender, crashes,
                  hooks, ahead>>
  BY DEF blockVars, boundVars
<1>7. ProcOK(Agent, q)
  BY <1>2, <1>3
<1> QED BY <1>1, <1>3, <1>4, <1>5, <1>6, <1>7, OneProc DEF TypeOK

LEMMA LoopOK ==
  ASSUME TypeOK, proc[Agent].pc \in DrainPcs
  PROVE  ProcOK(Agent, Loop(proc[Agent]))
<1>1. ProcOK(Agent, proc[Agent])
  BY ProcsOK DEF Procs
<1> QED BY <1>1, ProcsAssumption DEF ProcOK, Proc, Pcs, Loops, Loop, DrainPcs

LEMMA DrainType ==
  ASSUME TypeOK,
         \/ DrainSwept \/ DrainRecover \/ DrainLists \/ DrainClaim
         \/ DrainArchive \/ DrainReceipt \/ DrainReturn
  PROVE  TypeOK'
<1> DEFINE r == proc[Agent]
<1>0. ProcOK(Agent, r) /\ Agent \in Procs
  BY ProcsOK DEF Procs
<1>a. r.todo \subseteq Msgs /\ r \in Proc
  BY <1>0 DEF ProcOK, Proc
<1>1. CASE DrainSwept
  <2> DEFINE n == [r EXCEPT !.pc = "recover", !.todo = spool["processing"]]
  <2>1. proc' = [proc EXCEPT ![Agent] = n]
    BY <1>1, <1>0, <1>a DEF DrainSwept, TypeOK, Proc
  <2>2. ProcOK(Agent, n)
    BY <1>0, <1>1 DEF ProcOK, Proc, Pcs, Loops, Dirs, TypeOK, DrainSwept, SweepDone
  <2>3. /\ dirs' \subseteq Buckets
        /\ UNCHANGED <<spool, consumed, lapsed, blockVars, fateVars, sender, held, boundVars,
                       ahead>>
    BY <1>1 DEF DrainSwept, TypeOK, spoolVars
  <2> HIDE DEF n
  <2> QED BY <1>0, <2>1, <2>2, <2>3, LocalStep
<1>2. CASE DrainRecover
  <2>1. PICK m \in r.todo : Consume(m, [r EXCEPT !.todo = @ \ {m}])
    BY <1>2 DEF DrainRecover
  <2>2. ProcOK(Agent, [r EXCEPT !.todo = @ \ {m}])
    BY <1>0 DEF ProcOK, Proc, Loops
  <2>3. UNCHANGED <<lapsed, dirs, blockVars, returned, bounced, lost, sender, boundVars, ahead>>
    BY <1>2 DEF DrainRecover
  <2> HIDE DEF r
  <2> QED BY <1>a, <2>1, <2>2, <2>3, ConsumeType
<1>3. CASE DrainLists
  <2> DEFINE n == [r EXCEPT !.pc = "claim", !.dir = "inbox", !.todo = spool["inbox"]]
  <2>1. proc' = [proc EXCEPT ![Agent] = n]
    BY <1>3 DEF DrainLists
  <2>2. ProcOK(Agent, n)
    BY <1>0, <1>3 DEF ProcOK, Proc, Pcs, Loops, Buckets, Dirs, TypeOK, DrainLists
  <2>3. /\ dirs' \subseteq Buckets
        /\ UNCHANGED <<spool, consumed, lapsed, blockVars, fateVars, sender, held, boundVars,
                       ahead>>
    BY <1>3 DEF DrainLists, TypeOK, spoolVars
  <2> HIDE DEF n
  <2> QED BY <1>0, <2>1, <2>2, <2>3, LocalStep
<1>4. CASE DrainClaim
  <2>1. PICK m \in r.todo : Claim(m, [r EXCEPT !.todo = @ \ {m}])
    BY <1>4 DEF DrainClaim
  <2> DEFINE n == [r EXCEPT !.todo = @ \ {m}]
  <2>2. PICK q \in {n, [n EXCEPT !.pc = "archive", !.cur = m]} :
          proc' = [proc EXCEPT ![Agent] = q]
    BY <2>1 DEF Claim
  <2>3. ProcOK(Agent, n)
    BY <1>0 DEF ProcOK, Proc, Loops
  <2>4. ProcOK(Agent, [n EXCEPT !.pc = "archive", !.cur = m])
    BY <1>0, <1>a, MsgsAssumption DEF ProcOK, Proc, Pcs, Loops
  <2>5. spool' \in [Dirs -> SUBSET Msgs] /\ passed' \subseteq Msgs
    BY <1>a, <2>1 DEF Claim, TypeOK, Dirs
  <2>6. UNCHANGED <<consumed, lapsed, dirs, block, receipts, out, returned, bounced, lost,
                    sender, held, crashes, hooks, ahead>>
    BY <1>4 DEF DrainClaim, blockVars, boundVars
  <2>7. ProcOK(Agent, q)
    BY <2>2, <2>3, <2>4
  <2> HIDE DEF n
  <2> QED BY <1>0, <2>2, <2>5, <2>6, <2>7, OneProc DEF TypeOK
<1>5. CASE DrainArchive
  <2>1. r.cur \in Msgs /\ r.pc \in DrainPcs
    BY <1>0, <1>5 DEF DrainArchive, ProcOK, Proc, Loops, DrainPcs
  <2> QED BY <1>5, <2>1, LoopOK, ConsumeType DEF DrainArchive
<1>6. CASE DrainReceipt
  <2>1. r.cur \in Msgs /\ r.pc \in DrainPcs
    BY <1>0, <1>6 DEF DrainReceipt, ProcOK, Proc, Loops, DrainPcs
  <2>2. /\ held' \in [Procs \cup Msgs -> Receipts \cup {NoCopy}]
        /\ block' \in BOOLEAN /\ receipts' \in Receipts
    BY <1>0, <1>6, <2>1, BlockType DEF DrainReceipt, Statuses
  <2>3. proc' = [proc EXCEPT ![Agent] = Loop(r)]
    BY <1>6 DEF DrainReceipt
  <2>4. UNCHANGED <<spool, consumed, lapsed, dirs, out, returned, bounced, lost, passed,
                    sender, crashes, hooks, ahead>>
    BY <1>6 DEF DrainReceipt, spoolVars, fateVars, boundVars
  <2> QED BY <1>0, <2>1, <2>2, <2>3, <2>4, LoopOK, OneProc DEF TypeOK
<1>7. CASE DrainReturn
  <2>1. proc' = [proc EXCEPT ![Agent] = Idle] /\ ProcOK(Agent, Idle)
    BY <1>0, <1>7, IdleOK DEF DrainReturn
  <2>2. out' \subseteq Msgs /\ returned' \subseteq Msgs /\ passed' \subseteq Msgs
    BY <1>7 DEF DrainReturn, TypeOK
  <2>3. UNCHANGED <<spool, consumed, lapsed, dirs, block, receipts, bounced, lost, sender,
                    held, crashes, hooks, ahead>>
    BY <1>7 DEF DrainReturn, spoolVars, blockVars, boundVars
  <2> QED BY <1>0, <2>1, <2>2, <2>3, OneProc DEF TypeOK
<1> QED BY <1>1, <1>2, <1>3, <1>4, <1>5, <1>6, <1>7

LEMMA CrashType ==
  ASSUME TypeOK, NEW p \in Procs, Crash(p)
  PROVE  TypeOK'
<1>1. ProcOK(p, Idle) /\ proc' = [proc EXCEPT ![p] = Idle]
  BY IdleOK DEF Crash
<1>2. /\ held' \in [Procs \cup Msgs -> Receipts \cup {NoCopy}]
      /\ crashes' \in Nat /\ crashes' + hooks' <= MaxEvents /\ hooks' = hooks
      /\ out' \subseteq Msgs /\ lost' \subseteq Msgs /\ passed' \subseteq Msgs
  BY BoundAssumption DEF Crash, TypeOK
<1>3. UNCHANGED <<spool, consumed, lapsed, dirs, block, receipts, returned, bounced, sender,
                  ahead>>
  BY DEF Crash, spoolVars, blockVars
<1> QED BY <1>1, <1>2, <1>3, OneProc DEF TypeOK

LEMMA HooksType ==
  ASSUME TypeOK, Ask \/ Resolve
  PROVE  TypeOK'
<1>0. NoReceipts \in Receipts
  BY DEF NoReceipts, Receipts, Statuses
<1>1. hooks' \in Nat /\ crashes' + hooks' <= MaxEvents
  BY BoundAssumption DEF Ask, Resolve, TypeOK
<1>2. block' \in BOOLEAN /\ receipts' \in Receipts
  BY <1>0 DEF Ask, Resolve
<1>3. UNCHANGED <<spool, consumed, lapsed, dirs, out, returned, bounced, lost, passed, sender,
                  proc, held, crashes, ahead>>
  BY DEF Ask, Resolve, spoolVars, fateVars
<1> QED BY <1>1, <1>2, <1>3 DEF TypeOK

\* The step split by who takes it, for this proof and those below.
LEMMA Steps ==
  ASSUME [Next]_vars
  PROVE  \/ \E m \in Msgs : SenderStep(m)
         \/ \E p \in Procs, kind \in {"drain", "live", "dead"} :
              Begin(p, kind) /\ (p = Agent <=> kind = "drain")
         \/ \E p \in Procs : SweepStep(p)
         \/ \E p \in Sweepers : GcStep(p)
         \/ \/ DrainSwept \/ DrainRecover \/ DrainLists \/ DrainClaim
            \/ DrainArchive \/ DrainReceipt \/ DrainReturn
         \/ \E p \in Procs : Crash(p)
         \/ Ask \/ Resolve
         \/ UNCHANGED vars
<1>1. CASE \E p \in Sweepers : SweeperStep(p)
  <2>1. PICK p \in Sweepers : SweeperStep(p)
    BY <1>1
  <2>2. p \in Procs /\ p # Agent
    BY ProcsAssumption DEF Procs
  <2> QED BY <2>1, <2>2 DEF SweeperStep, GcStep
<1>2. CASE DrainStep
  BY <1>2 DEF DrainStep, Procs
<1> QED BY <1>1, <1>2 DEF Next

\* TypeOK: every file, receipt and process keeps its shape, and a process has a
\* file in hand exactly where the code has one (mailbox.ts, mailbox-gc.ts).
THEOREM TypeCorrect == Spec => []TypeOK
<1>1. Init => TypeOK
  BY MsgsAssumption, BoundAssumption, ProcsAssumption
  DEF Init, TypeOK, Procs, Buckets, Dirs, Marks, NoReceipts, Receipts, Statuses, Idle, Proc, Pcs,
      Kinds, Loops, DrainPcs
<1>2. TypeOK /\ [Next]_vars => TypeOK'
  <2> SUFFICES ASSUME TypeOK, [Next]_vars PROVE TypeOK'
    OBVIOUS
  <2>1. CASE UNCHANGED vars
    BY <2>1 DEF TypeOK, vars
  <2>2. CASE \E p \in Procs, kind \in {"drain", "live", "dead"} :
               Begin(p, kind) /\ (p = Agent <=> kind = "drain")
    BY <2>2, BeginType
  <2> QED BY <2>1, <2>2, Steps, SendersType, SweepType, GcType, DrainType, CrashType, HooksType
<1> QED BY <1>1, <1>2, PTL DEF Spec

-----------------------------------------------------------------------------
(* Fates.                                                                    *)

\* Most steps move no message.
LEMMA FateFrame ==
  ASSUME OneFate, UNCHANGED <<spool, out, returned, bounced, lost, crashes>>, Sent' = Sent
  PROVE  OneFate'
BY DEF OneFate, Pending

LEMMA FateSender ==
  ASSUME TypeOK, OneFate, NEW m \in Msgs, SenderStep(m)
  PROVE  OneFate'
<1>1. CASE Enqueue(m)
  <2>1. Sent' = Sent \cup {m} /\ m \notin Sent
    BY <1>1 DEF Enqueue, Sent, TypeOK
  <2>2. Pending' = Pending \cup {m} /\ spool'["processing"] = spool["processing"]
        /\ spool'["inbox"] = spool["inbox"] \cup {m}
    BY <1>1 DEF Enqueue, Pending, TypeOK, Dirs
  <2>3. UNCHANGED <<out, returned, bounced, lost, crashes>>
    BY <1>1 DEF Enqueue, fateVars, boundVars
  <2> QED BY <2>1, <2>2, <2>3 DEF OneFate, Pending
<1>2. CASE ~Enqueue(m)
  <2>1. Sent' = Sent
    BY <1>2 DEF SenderStep, Name, EnqueueFails, QueuedRead, QueuedWrite, Lapse, Sent, TypeOK
  <2>2. UNCHANGED <<spool, out, returned, bounced, lost, crashes>>
    BY <1>2 DEF SenderStep, Name, EnqueueFails, QueuedRead, QueuedWrite, Lapse, spoolVars,
               fateVars, boundVars
  <2> QED BY <2>1, <2>2, FateFrame
<1> QED BY <1>1, <1>2

LEMMA FateSweep ==
  ASSUME TypeOK, OneFate, NEW p \in Procs, SweepStep(p)
  PROVE  OneFate'
<1> DEFINE r == proc[p]
<1>0. ProcOK(p, r)
  BY ProcsOK
<1>1. Sent' = Sent /\ UNCHANGED crashes
  BY DEF SweepStep, SweepRead, SweepMark, SweepUnlink, SweepReceipt, SweepNext, Sent,
         boundVars
<1>2. CASE SweepUnlink(p) /\ r.cur \in spool[r.dir]
  <2>1. r.dir \in Dirs /\ r.cur \in Pending
    BY <1>0, <1>2 DEF ProcOK, Proc, Buckets, Dirs, Pending, SweepUnlink
  <2>2. /\ \A d \in Dirs : spool'[d] = spool[d] \ {r.cur}
        /\ Pending' = Pending \ {r.cur}
    BY <1>2, <2>1 DEF SweepUnlink, OneFate, TypeOK, Dirs, Pending
  <2>3. bounced' = bounced \cup {r.cur} /\ UNCHANGED <<out, returned, lost>>
    BY <1>2 DEF SweepUnlink
  <2> HIDE DEF r
  <2> QED BY <1>1, <2>1, <2>2, <2>3 DEF OneFate, Dirs
<1>3. CASE ~(SweepUnlink(p) /\ r.cur \in spool[r.dir])
  <2>1. UNCHANGED <<spool, out, returned, bounced, lost>>
    BY <1>3 DEF SweepStep, SweepRead, SweepMark, SweepUnlink, SweepReceipt, SweepNext,
               spoolVars, fateVars
  <2> QED BY <1>1, <2>1, FateFrame
<1> QED BY <1>2, <1>3

LEMMA FateConsume ==
  ASSUME TypeOK, OneFate, NEW m, NEW next, Consume(m, next),
         UNCHANGED <<returned, bounced, lost, sender, crashes>>
  PROVE  OneFate'
<1>1. Sent' = Sent
  BY DEF Sent
<1>2. CASE m \in spool["processing"] /\ "consumed" \in dirs
  <2>1. /\ spool'["inbox"] = spool["inbox"]
        /\ spool'["processing"] = spool["processing"] \ {m}
        /\ Pending' = Pending \ {m} /\ m \in Pending
        /\ out' = out \cup {m}
    BY <1>2 DEF Consume, TypeOK, Dirs, Pending, OneFate
  <2> QED BY <1>1, <2>1 DEF OneFate
<1>3. CASE ~(m \in spool["processing"] /\ "consumed" \in dirs)
  BY <1>1, <1>3, FateFrame DEF Consume
<1> QED BY <1>2, <1>3

LEMMA FateDrain ==
  ASSUME TypeOK, OneFate,
         \/ DrainSwept \/ DrainRecover \/ DrainLists \/ DrainClaim
         \/ DrainArchive \/ DrainReceipt \/ DrainReturn
  PROVE  OneFate'
<1>1. CASE DrainRecover \/ DrainArchive
  <2>1. \E m, next : Consume(m, next)
    BY <1>1 DEF DrainRecover, DrainArchive
  <2>2. UNCHANGED <<returned, bounced, lost, sender, crashes>>
    BY <1>1 DEF DrainRecover, DrainArchive, boundVars
  <2> QED BY <2>1, <2>2, FateConsume
<1>2. CASE DrainClaim
  <2> DEFINE r == proc[Agent]
  <2>1. PICK m \in r.todo : Claim(m, [r EXCEPT !.todo = @ \ {m}])
    BY <1>2 DEF DrainClaim
  <2>2. Sent' = Sent /\ UNCHANGED <<out, returned, bounced, lost, crashes>>
    BY <1>2 DEF DrainClaim, Sent, boundVars
  <2>3. CASE m \in spool["inbox"] /\ "processing" \in dirs
    <3>1. /\ spool'["inbox"] = spool["inbox"] \ {m}
          /\ spool'["processing"] = spool["processing"] \cup {m}
          /\ Pending' = Pending
      BY <2>1, <2>3 DEF Claim, TypeOK, Dirs, Pending
    <3> QED BY <2>2, <3>1 DEF OneFate
  <2>4. CASE ~(m \in spool["inbox"] /\ "processing" \in dirs)
    <3>1. UNCHANGED spool
      BY <2>1, <2>4 DEF Claim
    <3> QED BY <2>2, <3>1, FateFrame
  <2> QED BY <2>3, <2>4
<1>3. CASE DrainReturn
  <2>1. /\ Sent' = Sent /\ Pending' = Pending
        /\ returned' = returned \cup out /\ out' = {}
        /\ UNCHANGED <<spool, bounced, lost, crashes>>
    BY <1>3 DEF DrainReturn, Sent, Pending, spoolVars, boundVars
  <2> QED BY <2>1 DEF OneFate
<1>4. CASE DrainSwept \/ DrainLists \/ DrainReceipt
  <2>1. Sent' = Sent /\ UNCHANGED <<spool, out, returned, bounced, lost, crashes>>
    BY <1>4 DEF DrainSwept, DrainLists, DrainReceipt, Sent, spoolVars, fateVars, boundVars
  <2> QED BY <2>1, FateFrame
<1> QED BY <1>1, <1>2, <1>3, <1>4

LEMMA FateCrash ==
  ASSUME TypeOK, OneFate, NEW p \in Procs, Crash(p)
  PROVE  OneFate'
<1>1. Sent' = Sent /\ Pending' = Pending /\ UNCHANGED <<spool, returned, bounced>>
  BY DEF Crash, Sent, Pending, spoolVars
<1>2. crashes' > 0
  BY BoundAssumption DEF Crash, TypeOK
<1>3. out' \cup lost' = out \cup lost /\ out' \cap lost' = {}
  BY DEF Crash, OneFate
<1> QED BY <1>1, <1>2, <1>3 DEF OneFate

\* OneFate: a message that was sent is in one place, is delivered or bounced
\* once and not both, and is lost only with a drain that died (mailbox.ts,
\* mailbox-gc.ts), for any number of messages and sweeps.
THEOREM FateSafe == Spec => []OneFate
<1>1. Init => OneFate
  BY DEF Init, OneFate, Sent, Pending, Dirs
<1>2. TypeOK /\ OneFate /\ [Next]_vars => OneFate'
  <2> SUFFICES ASSUME TypeOK, OneFate, [Next]_vars PROVE OneFate'
    OBVIOUS
  <2>1. CASE UNCHANGED vars
    BY <2>1 DEF OneFate, Sent, Pending, vars
  <2>2. ASSUME NEW p \in Procs, NEW kind, Begin(p, kind) PROVE OneFate'
    BY <2>2, FateFrame DEF Begin, Sent, fateVars, boundVars
  <2>3. ASSUME NEW p, GcStep(p) PROVE OneFate'
    BY <2>3, FateFrame DEF GcStep, Prune, RemoveDir, RemoveDirFails, GcEnds, Sent, spoolVars,
                           fateVars, boundVars
  <2>4. CASE Ask \/ Resolve
    BY <2>4, FateFrame DEF Ask, Resolve, Sent, spoolVars, fateVars
  <2> QED BY <2>1, <2>2, <2>3, <2>4, Steps, FateSender, FateSweep, FateDrain, FateCrash
<1> QED BY <1>1, <1>2, TypeCorrect, PTL DEF Spec

-----------------------------------------------------------------------------
(* Receipts.  A copy of the block may be written back long after it was      *)
(* read, so every copy in hand must be as true as the block itself.          *)

Taken == out \cup returned \cup lost

TrueCopy(c, taken, gone) ==
    \A m \in Msgs : /\ c[m] = "consumed" => m \in taken
                    /\ c[m] \in {"dropped", "expired"} => m \in gone

TrueCopies(h, c, taken, gone) ==
    /\ TrueCopy(c, taken, gone)
    /\ \A x \in Procs \cup Msgs : h[x] # NoCopy => TrueCopy(h[x], taken, gone)

\* The file in hand when a receipt is due.
Earned(p, r) ==
    /\ r.pc = "bounce" => r.cur \in bounced
    /\ p = Agent /\ r.pc = "receipt" => r.cur \in out

ReceiptsInv ==
    /\ TrueCopies(held, receipts, Taken, bounced)
    /\ \A m \in Msgs : consumed[m] = "plain" => m \in Taken
    /\ \A p \in Procs : Earned(p, proc[p])

LEMMA CopiesGrow ==
  ASSUME NEW h, NEW c, NEW t, NEW g, NEW t2, NEW g2, t \subseteq t2, g \subseteq g2,
         TrueCopies(h, c, t, g)
  PROVE  TrueCopies(h, c, t2, g2)
BY DEF TrueCopies, TrueCopy

LEMMA CopiesRead ==
  ASSUME TypeOK, ReceiptsInv, NEW x \in Procs \cup Msgs, NEW m, ReadBlock(x, m)
  PROVE  TrueCopies(held', receipts, Taken, bounced)
<1>1. \A y \in Procs \cup Msgs : held'[y] \in {held[y], receipts, NoCopy}
  BY DEF ReadBlock, TypeOK
<1>2. \A y \in Procs \cup Msgs : held[y] # NoCopy => TrueCopy(held[y], Taken, bounced)
  BY DEF ReceiptsInv, TrueCopies
<1>3. TrueCopy(receipts, Taken, bounced)
  BY DEF ReceiptsInv, TrueCopies
<1> QED BY <1>1, <1>2, <1>3 DEF TrueCopies

LEMMA CopiesWrite ==
  ASSUME TypeOK, ReceiptsInv, NEW x \in Procs \cup Msgs, NEW m \in Msgs, NEW st,
         WriteBlock(x, m, st),
         st = "consumed" => m \in Taken,
         st \in {"dropped", "expired"} => m \in bounced
  PROVE  TrueCopies(held', receipts', Taken, bounced)
<1>1. \A y \in Procs \cup Msgs : held'[y] \in {held[y], NoCopy}
  BY DEF WriteBlock, TypeOK
<1>2. \A y \in Procs \cup Msgs : held[y] # NoCopy => TrueCopy(held[y], Taken, bounced)
  BY DEF ReceiptsInv, TrueCopies
<1>3. TrueCopy(receipts', Taken, bounced)
  <2>1. CASE receipts' = receipts
    BY <2>1 DEF ReceiptsInv, TrueCopies
  <2>2. CASE receipts' # receipts
    <3>1. held[x] # NoCopy /\ receipts' = [held[x] EXCEPT ![m] = st]
      BY <2>2 DEF WriteBlock, blockVars
    <3>2. TrueCopy(held[x], Taken, bounced) /\ held[x] \in Receipts
      BY <1>2, <3>1 DEF TypeOK
    <3> QED BY <3>1, <3>2 DEF TrueCopy, Receipts
  <2> QED BY <2>1, <2>2
<1> QED BY <1>1, <1>2, <1>3 DEF TrueCopies

\* What a step of one process must show.
LEMMA ReceiptsStep ==
  ASSUME TypeOK, ReceiptsInv, NEW p \in Procs, NEW r, proc' = [proc EXCEPT ![p] = r],
         Taken \subseteq Taken', bounced \subseteq bounced',
         TrueCopies(held', receipts', Taken, bounced),
         \A m \in Msgs : consumed'[m] = "plain" => consumed[m] = "plain" \/ m \in Taken',
         r.pc = "bounce" => r.cur \in bounced',
         p = Agent /\ r.pc = "receipt" => r.cur \in out',
         p # Agent => out \subseteq out'
  PROVE  ReceiptsInv'
<1>1. TrueCopies(held, receipts, Taken, bounced)'
  BY CopiesGrow
<1>2. (\A m \in Msgs : consumed[m] = "plain" => m \in Taken)'
  BY DEF ReceiptsInv
<1>3. (\A q \in Procs : Earned(q, proc[q]))'
  BY DEF ReceiptsInv, Earned, TypeOK
<1> QED BY <1>1, <1>2, <1>3 DEF ReceiptsInv

\* A step that touches no fate, receipt or archived copy and leaves none due.
LEMMA ReceiptsFrame ==
  ASSUME TypeOK, ReceiptsInv, NEW p \in Procs, NEW r, proc' = [proc EXCEPT ![p] = r],
         UNCHANGED <<held, receipts, consumed, out, returned, bounced, lost>>,
         r.pc \notin {"bounce", "receipt"}
  PROVE  ReceiptsInv'
<1>1. Taken' = Taken /\ UNCHANGED <<bounced, out>>
  BY DEF Taken
<1>2. TrueCopies(held', receipts', Taken, bounced)
  BY DEF ReceiptsInv
<1> QED BY <1>1, <1>2, ReceiptsStep

\* A step of a sender or of a hook.
LEMMA ReceiptsOutside ==
  ASSUME TypeOK, ReceiptsInv, UNCHANGED <<proc, consumed, fateVars>>,
         TrueCopies(held', receipts', Taken, bounced)
  PROVE  ReceiptsInv'
<1>1. Taken' = Taken /\ UNCHANGED <<bounced, out>>
  BY DEF Taken, fateVars
<1>2. \A p \in Procs : Earned(p, proc[p])'
  BY <1>1 DEF ReceiptsInv, Earned
<1> QED BY <1>1, <1>2 DEF ReceiptsInv

LEMMA ReceiptsSender ==
  ASSUME TypeOK, ReceiptsInv, NEW m \in Msgs, SenderStep(m)
  PROVE  ReceiptsInv'
<1>1. UNCHANGED <<proc, consumed, fateVars>>
  BY DEF SenderStep, Name, Enqueue, EnqueueFails, QueuedRead, QueuedWrite, Lapse, spoolVars
<1>2. TrueCopies(held', receipts', Taken, bounced)
  <2>1. CASE QueuedRead(m)
    BY <2>1, CopiesRead DEF QueuedRead, blockVars
  <2>2. CASE QueuedWrite(m)
    BY <2>2, CopiesWrite DEF QueuedWrite
  <2>3. CASE Name(m) \/ Enqueue(m) \/ EnqueueFails(m) \/ Lapse(m)
    BY <2>3 DEF Name, Enqueue, EnqueueFails, Lapse, blockVars, ReceiptsInv
  <2> QED BY <2>1, <2>2, <2>3 DEF SenderStep
<1> QED BY <1>1, <1>2, ReceiptsOutside

LEMMA ReceiptsHooks ==
  ASSUME TypeOK, ReceiptsInv, Ask \/ Resolve
  PROVE  ReceiptsInv'
<1>1. UNCHANGED <<proc, consumed, fateVars, held>> /\ receipts' = NoReceipts
  BY DEF Ask, Resolve, spoolVars
<1>2. TrueCopy(NoReceipts, Taken, bounced)
  BY DEF TrueCopy, NoReceipts
<1>3. TrueCopies(held', receipts', Taken, bounced)
  BY <1>1, <1>2 DEF TrueCopies, ReceiptsInv
<1> QED BY <1>1, <1>3, ReceiptsOutside

LEMMA ReceiptsSweep ==
  ASSUME TypeOK, ReceiptsInv, NEW p \in Procs, SweepStep(p)
  PROVE  ReceiptsInv'
<1> DEFINE r == proc[p]
<1>0. ProcOK(p, r) /\ r \in Proc
  BY ProcsOK DEF ProcOK
<1>1. CASE SweepRead(p)
  <2>1. PICK m \in r.todo :
          proc' = [proc EXCEPT ![p] = [r EXCEPT !.pc = "mark", !.cur = m,
                                                !.todo = {n \in r.todo : m < n}]]
    BY <1>1 DEF SweepRead
  <2>2. [r EXCEPT !.pc = "mark", !.cur = m, !.todo = {n \in r.todo : m < n}].pc = "mark"
    BY <1>0 DEF Proc
  <2>3. UNCHANGED <<held, receipts, consumed, out, returned, bounced, lost>>
    BY <1>1 DEF SweepRead, spoolVars, blockVars, fateVars
  <2> HIDE DEF r
  <2> QED BY <2>1, <2>2, <2>3, ReceiptsFrame
<1>2. CASE SweepMark(p)
  <2>1. PICK q \in {[r EXCEPT !.pc = "unlink"], [r EXCEPT !.pc = "sweep", !.cur = NoMsg]} :
          proc' = [proc EXCEPT ![p] = q]
    BY <1>2 DEF SweepMark
  <2>2. q.pc \in {"unlink", "sweep"}
    BY <1>0 DEF Proc
  <2>3. Taken' = Taken /\ UNCHANGED <<held, receipts, out, bounced>>
    BY <1>2 DEF SweepMark, Taken, fateVars, blockVars
  <2>4. \A m \in Msgs : consumed'[m] = "plain" => consumed[m] = "plain"
    BY <1>2 DEF SweepMark, TypeOK
  <2>5. TrueCopies(held', receipts', Taken, bounced)
    BY <2>3 DEF ReceiptsInv
  <2> HIDE DEF r
  <2> QED BY <2>1, <2>2, <2>3, <2>4, <2>5, ReceiptsStep
<1>3. CASE SweepUnlink(p)
  <2>1. PICK q \in {[r EXCEPT !.pc = "bounce"], [r EXCEPT !.pc = "sweep", !.cur = NoMsg]} :
          /\ proc' = [proc EXCEPT ![p] = q]
          /\ q.pc = "bounce" => q.cur \in bounced'
    BY <1>0, <1>3 DEF SweepUnlink, Proc
  <2>2. q.pc # "receipt"
    BY <1>0, <2>1 DEF Proc
  <2>3. /\ Taken' = Taken /\ bounced \subseteq bounced'
        /\ UNCHANGED <<receipts, consumed, out>>
    BY <1>3 DEF SweepUnlink, Taken, blockVars
  <2>4. TrueCopies(held', receipts', Taken, bounced)
    <3>1. CASE UNCHANGED held
      BY <2>3, <3>1 DEF ReceiptsInv
    <3>2. CASE ReadBlock(p, r.cur)
      BY <2>3, <3>2, CopiesRead
    <3> QED BY <1>3, <3>1, <3>2 DEF SweepUnlink
  <2> HIDE DEF r
  <2> QED BY <2>1, <2>2, <2>3, <2>4, ReceiptsStep
<1>4. CASE SweepReceipt(p)
  <2>1. proc' = [proc EXCEPT ![p] = [r EXCEPT !.pc = "sweep", !.cur = NoMsg]]
    BY <1>4 DEF SweepReceipt
  <2>2. [r EXCEPT !.pc = "sweep", !.cur = NoMsg].pc = "sweep"
    BY <1>0 DEF Proc
  <2>3. Taken' = Taken /\ UNCHANGED <<consumed, out, bounced>>
    BY <1>4 DEF SweepReceipt, Taken, fateVars, spoolVars
  <2>4. r.cur \in Msgs /\ r.cur \in bounced
    BY <1>0, <1>4 DEF SweepReceipt, ReceiptsInv, Earned, ProcOK, Proc, Loops
  <2>5. TrueCopies(held', receipts', Taken, bounced)
    BY <1>4, <2>4, CopiesWrite DEF SweepReceipt, Bounce
  <2> HIDE DEF r
  <2> QED BY <2>1, <2>2, <2>3, <2>5, ReceiptsStep
<1>5. CASE SweepNext(p)
  <2> DEFINE n == [r EXCEPT !.dir = "processing", !.todo = spool["processing"] \cap r.late,
                            !.late = {}]
  <2>1. proc' = [proc EXCEPT ![p] = n]
    BY <1>5 DEF SweepNext
  <2>2. n.pc = "sweep"
    BY <1>0, <1>5 DEF SweepNext, Proc
  <2>3. UNCHANGED <<held, receipts, consumed, out, returned, bounced, lost>>
    BY <1>5 DEF SweepNext, spoolVars, blockVars, fateVars
  <2> HIDE DEF n
  <2> QED BY <2>1, <2>2, <2>3, ReceiptsFrame
<1> QED BY <1>1, <1>2, <1>3, <1>4, <1>5 DEF SweepStep

LEMMA ReceiptsConsume ==
  ASSUME TypeOK, ReceiptsInv, NEW m \in Msgs, NEW next \in Proc, Consume(m, next),
         next.pc \in {"recover", "claim"},
         UNCHANGED <<receipts, returned, bounced, lost>>
  PROVE  ReceiptsInv'
<1>1. Agent \in Procs
  BY DEF Procs
<1>2. CASE m \in spool["processing"] /\ "consumed" \in dirs
  <2> DEFINE q == [next EXCEPT !.pc = "receipt", !.cur = m]
  <2>1. /\ proc' = [proc EXCEPT ![Agent] = q] /\ out' = out \cup {m}
        /\ consumed' = [consumed EXCEPT ![m] = "plain"] /\ ReadBlock(Agent, m)
    BY <1>2 DEF Consume
  <2>2. q.pc = "receipt" /\ q.cur = m
    BY DEF Proc
  <2>3. m \in Taken' /\ Taken \subseteq Taken'
    BY <2>1 DEF Taken
  <2>4. TrueCopies(held', receipts', Taken, bounced)
    BY <1>1, <2>1, CopiesRead
  <2>5. \A n \in Msgs : consumed'[n] = "plain" => consumed[n] = "plain" \/ n \in Taken'
    BY <2>1, <2>3 DEF TypeOK
  <2> HIDE DEF q
  <2> QED BY <1>1, <2>1, <2>2, <2>3, <2>4, <2>5, ReceiptsStep
<1>3. CASE ~(m \in spool["processing"] /\ "consumed" \in dirs)
  <2>1. /\ proc' = [proc EXCEPT ![Agent] = next]
        /\ UNCHANGED <<held, receipts, consumed, out, returned, bounced, lost>>
    BY <1>3 DEF Consume
  <2> QED BY <1>1, <2>1, ReceiptsFrame
<1> QED BY <1>2, <1>3

LEMMA ReceiptsDrain ==
  ASSUME TypeOK, ReceiptsInv,
         \/ DrainSwept \/ DrainRecover \/ DrainLists \/ DrainClaim
         \/ DrainArchive \/ DrainReceipt \/ DrainReturn
  PROVE  ReceiptsInv'
<1> DEFINE r == proc[Agent]
<1>0. ProcOK(Agent, r) /\ r \in Proc /\ Agent \in Procs
  BY ProcsOK DEF ProcOK, Procs
<1>1. CASE DrainSwept \/ DrainLists \/ DrainClaim
  <2>1. UNCHANGED <<held, receipts, consumed, out, returned, bounced, lost>>
    BY <1>1 DEF DrainSwept, DrainLists, DrainClaim, spoolVars, blockVars, fateVars
  <2>2. \E q : proc' = [proc EXCEPT ![Agent] = q] /\ q.pc \notin {"bounce", "receipt"}
    <3>1. CASE DrainSwept
      <4> DEFINE n == [r EXCEPT !.pc = "recover", !.todo = spool["processing"]]
      <4>1. proc' = [proc EXCEPT ![Agent] = n] /\ n.pc = "recover"
        BY <1>0, <3>1 DEF DrainSwept, TypeOK, Proc
      <4> HIDE DEF n
      <4> QED BY <4>1
    <3>2. CASE DrainLists
      <4> DEFINE n == [r EXCEPT !.pc = "claim", !.dir = "inbox", !.todo = spool["inbox"]]
      <4>1. proc' = [proc EXCEPT ![Agent] = n] /\ n.pc = "claim"
        BY <1>0, <3>2 DEF DrainLists, Proc
      <4> HIDE DEF n
      <4> QED BY <4>1
    <3>3. CASE DrainClaim
      <4>1. PICK m \in r.todo : Claim(m, [r EXCEPT !.todo = @ \ {m}])
        BY <3>3 DEF DrainClaim
      <4> DEFINE n == [r EXCEPT !.todo = @ \ {m}]
                 c == [n EXCEPT !.pc = "archive", !.cur = m]
      <4>2. n.pc = "claim" /\ c.pc = "archive"
        BY <1>0, <3>3 DEF DrainClaim, Proc
      <4>3. proc' = [proc EXCEPT ![Agent] = n] \/ proc' = [proc EXCEPT ![Agent] = c]
        BY <4>1 DEF Claim
      <4> HIDE DEF n, c
      <4> QED BY <4>2, <4>3
    <3> QED BY <1>1, <3>1, <3>2, <3>3
  <2> QED BY <1>0, <2>1, <2>2, ReceiptsFrame
<1>2. CASE DrainRecover
  <2>1. PICK m \in r.todo : Consume(m, [r EXCEPT !.todo = @ \ {m}])
    BY <1>2 DEF DrainRecover
  <2>2. /\ [r EXCEPT !.todo = @ \ {m}] \in Proc /\ m \in Msgs
        /\ [r EXCEPT !.todo = @ \ {m}].pc = "recover"
    BY <1>0, <1>2 DEF DrainRecover, Proc
  <2>3. UNCHANGED <<receipts, returned, bounced, lost>>
    BY <1>2 DEF DrainRecover, blockVars
  <2> HIDE DEF r
  <2> QED BY <2>1, <2>2, <2>3, ReceiptsConsume
<1>3. CASE DrainArchive
  <2>1. r.cur \in Msgs /\ r.pc = "archive"
    BY <1>0, <1>3 DEF DrainArchive, ProcOK, Proc, Loops
  <2>2. Loop(r) \in Proc /\ Loop(r).pc \in {"recover", "claim"}
    BY <1>0 DEF Proc, Loop, Pcs
  <2>3. UNCHANGED <<receipts, returned, bounced, lost>>
    BY <1>3 DEF DrainArchive, blockVars
  <2> QED BY <1>3, <2>1, <2>2, <2>3, ReceiptsConsume DEF DrainArchive
<1>4. CASE DrainReceipt
  <2>1. r.cur \in Msgs /\ r.cur \in Taken
    BY <1>0, <1>4 DEF DrainReceipt, ProcOK, Proc, Loops, ReceiptsInv, Earned, Taken
  <2>2. TrueCopies(held', receipts', Taken, bounced)
    BY <1>0, <1>4, <2>1, CopiesWrite DEF DrainReceipt
  <2>3. Taken' = Taken /\ UNCHANGED <<consumed, out, bounced>>
    BY <1>4 DEF DrainReceipt, Taken, fateVars, spoolVars
  <2>4. proc' = [proc EXCEPT ![Agent] = Loop(r)] /\ Loop(r).pc \in {"recover", "claim"}
    BY <1>0, <1>4 DEF DrainReceipt, Proc, Loop
  <2> QED BY <1>0, <2>2, <2>3, <2>4, ReceiptsStep
<1>5. CASE DrainReturn
  <2>1. proc' = [proc EXCEPT ![Agent] = Idle] /\ Idle.pc = "idle"
    BY <1>5 DEF DrainReturn, Idle
  <2>2. Taken' = Taken /\ UNCHANGED <<consumed, bounced, held, receipts>>
    BY <1>5 DEF DrainReturn, Taken, spoolVars, blockVars
  <2>3. TrueCopies(held', receipts', Taken, bounced)
    BY <2>2 DEF ReceiptsInv
  <2> QED BY <1>0, <2>1, <2>2, <2>3, ReceiptsStep
<1> QED BY <1>1, <1>2, <1>3, <1>4, <1>5

LEMMA ReceiptsCrash ==
  ASSUME TypeOK, ReceiptsInv, NEW p \in Procs, Crash(p)
  PROVE  ReceiptsInv'
<1>1. proc' = [proc EXCEPT ![p] = Idle] /\ Idle.pc = "idle"
  BY DEF Crash, Idle
<1>2. /\ Taken' = Taken /\ UNCHANGED <<consumed, bounced, receipts>>
      /\ p # Agent => out' = out
  BY DEF Crash, Taken, spoolVars, blockVars
<1>3. \A x \in Procs \cup Msgs : held'[x] \in {held[x], NoCopy}
  BY DEF Crash, TypeOK
<1>4. TrueCopies(held', receipts', Taken, bounced)
  BY <1>2, <1>3 DEF ReceiptsInv, TrueCopies
<1> QED BY <1>1, <1>2, <1>4, ReceiptsStep

LEMMA ReceiptsGc ==
  ASSUME TypeOK, ReceiptsInv, NEW p \in Sweepers, GcStep(p)
  PROVE  ReceiptsInv'
<1>1. p \in Procs
  BY DEF Procs
<1>2. PICK r : proc' = [proc EXCEPT ![p] = r] /\ r.pc \in {"idle", "rmdir", "block"}
  <2> DEFINE a == [Idle EXCEPT !.pc = "rmdir"]
             b == [Idle EXCEPT !.pc = "block"]
  <2>1. a.pc = "rmdir" /\ b.pc = "block" /\ Idle.pc = "idle"
    BY DEF Idle
  <2>2. CASE RemoveDir(p)
    <3>1. NextDir(proc[p]).pc \in {"rmdir", "block"}
      BY <1>1, <2>2 DEF RemoveDir, NextDir, TypeOK, Proc, Idle
    <3> QED BY <2>2, <3>1 DEF RemoveDir
  <2>3. CASE ~RemoveDir(p)
    <3>1. \/ proc' = [proc EXCEPT ![p] = a] \/ proc' = [proc EXCEPT ![p] = b]
          \/ proc' = [proc EXCEPT ![p] = Idle]
      BY <2>3 DEF GcStep, Prune, RemoveDirFails, GcEnds
    <3> HIDE DEF a, b
    <3> QED BY <2>1, <3>1
  <2> QED BY <2>2, <2>3
<1>3. Taken' = Taken /\ UNCHANGED <<bounced, out, held>>
  BY DEF GcStep, Prune, RemoveDir, RemoveDirFails, GcEnds, Taken, fateVars
<1>4. \A m \in Msgs : consumed'[m] = "plain" => consumed[m] = "plain"
  BY DEF GcStep, Prune, RemoveDir, RemoveDirFails, GcEnds, spoolVars
<1>5. TrueCopy(receipts', Taken, bounced)
  BY DEF GcStep, Prune, RemoveDir, RemoveDirFails, GcEnds, NoReceipts, TrueCopy, ReceiptsInv,
         TrueCopies, blockVars
<1>6. TrueCopies(held', receipts', Taken, bounced)
  BY <1>3, <1>5 DEF ReceiptsInv, TrueCopies
<1> QED BY <1>1, <1>2, <1>3, <1>4, <1>6, ReceiptsStep

LEMMA ReceiptsBegin ==
  ASSUME TypeOK, ReceiptsInv, NEW p \in Procs, NEW kind, Begin(p, kind)
  PROVE  ReceiptsInv'
<1> DEFINE late == IF kind = "dead" THEN Msgs ELSE lapsed
           r == [pc |-> "sweep", kind |-> kind, dir |-> "inbox",
                 todo |-> spool["inbox"] \cap late, cur |-> NoMsg, late |-> late]
<1>1. proc' = [proc EXCEPT ![p] = r] /\ r.pc = "sweep"
  BY DEF Begin
<1>2. UNCHANGED <<held, receipts, consumed, out, returned, bounced, lost>>
  BY DEF Begin, blockVars, fateVars
<1> HIDE DEF r
<1> QED BY <1>1, <1>2, ReceiptsFrame

\* ReceiptsTrue: whichever stale copy of the block is written back, no receipt
\* claims a delivery or a bounce that did not happen (feed.ts), and the archive
\* never shows a bounced message as delivered.
THEOREM ReceiptsSafe == Spec => []ReceiptsTrue
<1>1. Init => ReceiptsInv
  BY DEF Init, ReceiptsInv, TrueCopies, TrueCopy, NoReceipts, Earned, Idle
<1>2. TypeOK /\ ReceiptsInv /\ [Next]_vars => ReceiptsInv'
  <2> SUFFICES ASSUME TypeOK, ReceiptsInv, [Next]_vars PROVE ReceiptsInv'
    OBVIOUS
  <2>1. CASE UNCHANGED vars
    <3>1. UNCHANGED <<proc, consumed, fateVars, held, receipts>>
      BY <2>1 DEF vars, fateVars
    <3> QED BY <3>1, ReceiptsOutside DEF ReceiptsInv
  <2> QED BY <2>1, Steps, ReceiptsSender, ReceiptsHooks, ReceiptsSweep, ReceiptsDrain,
             ReceiptsCrash, ReceiptsGc, ReceiptsBegin
<1>3. ReceiptsInv /\ OneFate => ReceiptsTrue
  BY DEF ReceiptsInv, OneFate, ReceiptsTrue, TrueCopies, TrueCopy, Taken
<1> QED BY <1>1, <1>2, <1>3, TypeCorrect, FateSafe, PTL DEF Spec

-----------------------------------------------------------------------------
(* The order of delivery, and what a drain leaves claimed.                   *)

\* Ids are taken in order, so a message is ahead of later ids only.
IdsInOrder ==
    /\ \A m \in Msgs : ahead[m] \subseteq {n \in Sent : n < m}
    /\ \A m, n \in Msgs : n < m /\ sender[n] = "new" => sender[m] = "new"

Claiming(r) == r.pc \in {"claim", "archive"} \/ (r.pc = "receipt" /\ r.dir = "inbox")

\* What the drain that is running still has in its list or has passed over.
Listed(r) ==
    /\ r.pc = "recover" \/ (r.pc = "receipt" /\ r.dir = "processing")
         => r.dir = "processing" /\ spool["processing"] \subseteq r.todo \cup passed
    /\ r.pc = "claim" => r.dir = "inbox"
    /\ r.pc = "archive" => r.dir = "inbox" /\ spool["processing"] \subseteq {r.cur} \cup passed
    /\ Claiming(r) /\ r.pc # "archive" => spool["processing"] \subseteq passed
    /\ Claiming(r) => /\ r.todo \subseteq Sent
                      /\ \A m \in r.todo :
                           ahead[m] \cap spool["inbox"] \subseteq r.todo \cup passed

OrderInv == IdsInOrder /\ Listed(proc[Agent])

\* A step that sends and claims nothing, and does not move the drain on.
LEMMA OrderFrame ==
  ASSUME OrderInv, UNCHANGED ahead, Sent' = Sent,
         \A m \in Msgs : sender'[m] = "new" <=> sender[m] = "new",
         spool'["inbox"] \subseteq spool["inbox"],
         spool'["processing"] \subseteq spool["processing"],
         \/ proc'[Agent] = proc[Agent] /\ passed' = passed
         \/ proc'[Agent].pc \notin DrainPcs
  PROVE  OrderInv'
<1>1. IdsInOrder'
  BY DEF OrderInv, IdsInOrder
<1>2. Listed(proc[Agent])'
  <2>1. CASE proc'[Agent] = proc[Agent] /\ passed' = passed
    BY <2>1 DEF OrderInv, Listed, Claiming
  <2>2. CASE proc'[Agent].pc \notin DrainPcs
    BY <2>2 DEF Listed, Claiming, DrainPcs
  <2> QED BY <2>1, <2>2
<1> QED BY <1>1, <1>2 DEF OrderInv

LEMMA OrderSender ==
  ASSUME TypeOK, OneFate, OrderInv, NEW m \in Msgs, SenderStep(m)
  PROVE  OrderInv'
<1>0. proc' = proc /\ passed' = passed
  BY DEF SenderStep, Name, Enqueue, EnqueueFails, QueuedRead, QueuedWrite, Lapse, fateVars
<1>1. CASE Name(m)
  <2>1. /\ Sent' = Sent /\ m \notin Sent /\ spool' = spool
        /\ \A n \in Msgs : n # m => ahead'[n] = ahead[n] /\ sender'[n] = sender[n]
        /\ ahead'[m] = Sent /\ sender'[m] = "named"
    BY <1>1 DEF Name, Sent, TypeOK, spoolVars
  <2>2. \A n \in Sent : n < m
    BY <1>1, MsgsAssumption DEF Name, OrderInv, IdsInOrder, Sent
  <2>3. IdsInOrder'
    BY <1>1, <2>1, <2>2, MsgsAssumption DEF Name, OrderInv, IdsInOrder
  <2>4. Listed(proc[Agent])'
    BY <1>0, <2>1 DEF OrderInv, Listed, Claiming, Sent
  <2> QED BY <2>3, <2>4 DEF OrderInv
<1>2. CASE Enqueue(m)
  <2>1. /\ Sent' = Sent \cup {m} /\ m \notin Sent /\ ahead' = ahead
        /\ spool'["inbox"] = spool["inbox"] \cup {m}
        /\ spool'["processing"] = spool["processing"]
        /\ \A n \in Msgs : sender'[n] = "new" <=> sender[n] = "new"
    BY <1>2 DEF Enqueue, Sent, TypeOK, Dirs
  <2>2. \A n \in Msgs : m \notin ahead[n]
    BY <2>1 DEF OrderInv, IdsInOrder
  <2>3. IdsInOrder'
    BY <2>1 DEF OrderInv, IdsInOrder
  <2>4. Listed(proc[Agent])'
    BY <1>0, <2>1, <2>2 DEF OrderInv, Listed, Claiming, Sent
  <2> QED BY <2>3, <2>4 DEF OrderInv
<1>3. CASE ~Name(m) /\ ~Enqueue(m)
  <2>1. /\ Sent' = Sent /\ UNCHANGED <<ahead, spool>>
        /\ \A n \in Msgs : sender'[n] = "new" <=> sender[n] = "new"
    BY <1>3 DEF SenderStep, EnqueueFails, QueuedRead, QueuedWrite, Lapse, Sent, TypeOK, spoolVars
  <2> QED BY <1>0, <2>1, OrderFrame
<1> QED BY <1>1, <1>2, <1>3

LEMMA OrderSweep ==
  ASSUME TypeOK, OrderInv, NEW p \in Procs, SweepStep(p)
  PROVE  OrderInv'
<1>0. proc[p] \in Proc
  BY DEF TypeOK
<1>1. UNCHANGED <<ahead, sender>> /\ Sent' = Sent
  BY DEF SweepStep, SweepRead, SweepMark, SweepUnlink, SweepReceipt, SweepNext, Sent
<1>2. \A d \in Dirs : spool'[d] \subseteq spool[d]
  BY DEF SweepStep, SweepRead, SweepMark, SweepUnlink, SweepReceipt, SweepNext, spoolVars,
         TypeOK
<1>3. \E r : proc' = [proc EXCEPT ![p] = r] /\ r.pc \notin DrainPcs
  <2> DEFINE r == proc[p]
             back == [r EXCEPT !.pc = "sweep", !.cur = NoMsg]
  <2>a. back.pc = "sweep"
    BY <1>0 DEF Proc
  <2>1. CASE SweepRead(p)
    <3>1. PICK m \in r.todo :
            proc' = [proc EXCEPT ![p] = [r EXCEPT !.pc = "mark", !.cur = m,
                                                  !.todo = {n \in r.todo : m < n}]]
      BY <2>1 DEF SweepRead
    <3> DEFINE n == [r EXCEPT !.pc = "mark", !.cur = m, !.todo = {k \in r.todo : m < k}]
    <3>2. proc' = [proc EXCEPT ![p] = n] /\ n.pc = "mark"
      BY <1>0, <3>1 DEF Proc
    <3> HIDE DEF n
    <3> QED BY <3>2 DEF DrainPcs
  <2>2. CASE SweepMark(p)
    <3> DEFINE n == [r EXCEPT !.pc = "unlink"]
    <3>1. proc' = [proc EXCEPT ![p] = n] \/ proc' = [proc EXCEPT ![p] = back]
      BY <2>2 DEF SweepMark
    <3>2. n.pc = "unlink"
      BY <1>0 DEF Proc
    <3> HIDE DEF n, back
    <3> QED BY <2>a, <3>1, <3>2 DEF DrainPcs
  <2>3. CASE SweepUnlink(p)
    <3> DEFINE n == [r EXCEPT !.pc = "bounce"]
    <3>1. proc' = [proc EXCEPT ![p] = n] \/ proc' = [proc EXCEPT ![p] = back]
      BY <2>3 DEF SweepUnlink
    <3>2. n.pc = "bounce"
      BY <1>0 DEF Proc
    <3> HIDE DEF n, back
    <3> QED BY <2>a, <3>1, <3>2 DEF DrainPcs
  <2>4. CASE SweepReceipt(p)
    <3>1. proc' = [proc EXCEPT ![p] = back]
      BY <2>4 DEF SweepReceipt
    <3> HIDE DEF back
    <3> QED BY <2>a, <3>1 DEF DrainPcs
  <2>5. CASE SweepNext(p)
    <3> DEFINE n == [r EXCEPT !.dir = "processing", !.todo = spool["processing"] \cap r.late,
                              !.late = {}]
    <3>1. proc' = [proc EXCEPT ![p] = n] /\ n.pc = "sweep"
      BY <1>0, <2>5 DEF SweepNext, TypeOK, Proc
    <3> HIDE DEF n
    <3> QED BY <3>1 DEF DrainPcs
  <2> QED BY <2>1, <2>2, <2>3, <2>4, <2>5 DEF SweepStep
<1>4. proc'[Agent] = proc[Agent] \/ proc'[Agent].pc \notin DrainPcs
  BY <1>3 DEF TypeOK, Procs
<1>5. passed' = passed
  BY DEF SweepStep, SweepRead, SweepMark, SweepUnlink, SweepReceipt, SweepNext, fateVars
<1> QED BY <1>1, <1>2, <1>4, <1>5, OrderFrame DEF Dirs

\* Consume() takes one file out of processing/ and goes on.
LEMMA OrderConsume ==
  ASSUME TypeOK, OrderInv, NEW m \in Msgs, NEW next \in Proc, Consume(m, next),
         UNCHANGED <<sender, ahead>>,
         \/ next.pc = "recover" /\ next.dir = "processing"
            /\ spool["processing"] \subseteq next.todo \cup {m} \cup passed
         \/ next.pc = "claim" /\ next.dir = "inbox"
            /\ spool["processing"] \subseteq {m} \cup passed /\ next.todo \subseteq Sent
            /\ \A n \in next.todo : ahead[n] \cap spool["inbox"] \subseteq next.todo \cup passed
  PROVE  OrderInv'
<1>1. Agent \in Procs /\ Sent' = Sent
  BY DEF Procs, Sent
<1>2. /\ spool'["inbox"] = spool["inbox"] /\ passed \subseteq passed'
      /\ spool'["processing"] \subseteq spool["processing"]
      /\ m \in spool'["processing"] => m \in passed'
  BY DEF Consume, TypeOK, Dirs
<1>3. IdsInOrder'
  BY <1>1 DEF OrderInv, IdsInOrder
<1>4. /\ proc'[Agent].pc = next.pc \/ proc'[Agent].pc = "receipt"
      /\ proc'[Agent].dir = next.dir /\ proc'[Agent].todo = next.todo
  <2> DEFINE q == [next EXCEPT !.pc = "receipt", !.cur = m]
  <2>1. q.pc = "receipt" /\ q.dir = next.dir /\ q.todo = next.todo
    BY DEF Proc
  <2>2. proc' = [proc EXCEPT ![Agent] = q] \/ proc' = [proc EXCEPT ![Agent] = next]
    BY DEF Consume
  <2> HIDE DEF q
  <2>3. proc'[Agent] = q \/ proc'[Agent] = next
    BY <1>1, <2>2 DEF TypeOK
  <2> QED BY <2>1, <2>3
<1>5. CASE next.pc = "recover" /\ next.dir = "processing"
           /\ spool["processing"] \subseteq next.todo \cup {m} \cup passed
  <2>1. spool'["processing"] \subseteq next.todo \cup passed'
    BY <1>2, <1>5
  <2> QED BY <1>3, <1>4, <1>5, <2>1 DEF OrderInv, Listed, Claiming
<1>6. CASE next.pc = "claim" /\ next.dir = "inbox"
           /\ spool["processing"] \subseteq {m} \cup passed /\ next.todo \subseteq Sent
           /\ \A n \in next.todo : ahead[n] \cap spool["inbox"] \subseteq next.todo \cup passed
  <2>1. spool'["processing"] \subseteq passed'
    BY <1>2, <1>6
  <2>2. \A n \in next.todo : ahead'[n] \cap spool'["inbox"] \subseteq next.todo \cup passed'
    BY <1>2, <1>6
  <2>3. Listed(proc[Agent])'
    BY <1>1, <1>4, <1>6, <2>1, <2>2 DEF Listed, Claiming
  <2> QED BY <1>3, <2>3 DEF OrderInv
<1> QED BY <1>5, <1>6

LEMMA OrderDrain ==
  ASSUME TypeOK, OneFate, OrderInv,
         \/ DrainSwept \/ DrainRecover \/ DrainLists \/ DrainClaim
         \/ DrainArchive \/ DrainReceipt \/ DrainReturn
  PROVE  OrderInv'
<1> DEFINE r == proc[Agent]
<1>0. r \in Proc /\ Agent \in Procs
  BY DEF TypeOK, Procs
<1>a. UNCHANGED <<sender, ahead>> /\ Sent' = Sent
  BY DEF DrainSwept, DrainRecover, DrainLists, DrainClaim, DrainArchive, DrainReceipt,
         DrainReturn, Sent
<1>b. IdsInOrder'
  BY <1>a DEF OrderInv, IdsInOrder
<1>1. CASE DrainSwept
  <2>1. /\ proc'[Agent].pc = "recover" /\ proc'[Agent].dir = "processing"
        /\ proc'[Agent].todo = spool["processing"] /\ spool' = spool
    BY <1>0, <1>1 DEF DrainSwept, SweepDone, TypeOK, Proc, spoolVars
  <2>2. Listed(proc[Agent])'
    BY <2>1 DEF Listed, Claiming
  <2> QED BY <1>b, <2>2 DEF OrderInv
<1>2. CASE DrainRecover
  <2>1. PICK m \in r.todo : Consume(m, [r EXCEPT !.todo = @ \ {m}])
    BY <1>2 DEF DrainRecover
  <2> DEFINE n == [r EXCEPT !.todo = @ \ {m}]
  <2>2. /\ n \in Proc /\ m \in Msgs
        /\ n.pc = "recover" /\ n.dir = "processing" /\ n.todo = r.todo \ {m}
    BY <1>0, <1>2 DEF DrainRecover, OrderInv, Listed, Proc
  <2>3. spool["processing"] \subseteq n.todo \cup {m} \cup passed
    BY <1>2, <2>2 DEF DrainRecover, OrderInv, Listed
  <2> HIDE DEF n
  <2> QED BY <1>a, <2>1, <2>2, <2>3, OrderConsume DEF n
<1>3. CASE DrainLists
  <2>1. /\ proc'[Agent].pc = "claim" /\ proc'[Agent].dir = "inbox"
        /\ proc'[Agent].todo = spool["inbox"] /\ UNCHANGED <<spool, passed>>
    BY <1>0, <1>3 DEF DrainLists, TypeOK, Proc, spoolVars, fateVars
  <2>2. spool["inbox"] \subseteq Sent /\ spool["processing"] \subseteq passed
    BY <1>3 DEF OneFate, Pending, DrainLists, OrderInv, Listed
  <2>3. Listed(proc[Agent])'
    BY <1>a, <2>1, <2>2 DEF Listed, Claiming
  <2> QED BY <1>b, <2>3 DEF OrderInv
<1>4. CASE DrainClaim
  <2>1. PICK m \in r.todo : Least(m, r.todo) /\ Claim(m, [r EXCEPT !.todo = @ \ {m}])
    BY <1>4 DEF DrainClaim
  <2>2. /\ r.pc = "claim" /\ r.dir = "inbox" /\ spool["processing"] \subseteq passed
        /\ r.todo \subseteq Sent /\ m \in Msgs
        /\ \A k \in r.todo : ahead[k] \cap spool["inbox"] \subseteq r.todo \cup passed
    BY <1>0, <1>4 DEF DrainClaim, OrderInv, Listed, Claiming, Proc
  <2> DEFINE n == [r EXCEPT !.todo = @ \ {m}]
             c == [n EXCEPT !.pc = "archive", !.cur = m]
  <2>a. n.pc = "claim" /\ n.dir = "inbox" /\ n.todo = r.todo \ {m}
    BY <1>0, <2>2 DEF Proc
  <2>b. c.pc = "archive" /\ c.cur = m /\ c.dir = "inbox" /\ c.todo = r.todo \ {m}
    BY <1>0, <2>2 DEF Proc
  <2> DEFINE moves == m \in spool["inbox"] /\ "processing" \in dirs
  <2>c. proc' = [proc EXCEPT ![Agent] = IF moves THEN c ELSE n]
    BY <2>1 DEF Claim
  <2> HIDE DEF n, c
  <2>d. proc'[Agent] = IF moves THEN c ELSE n
    BY <1>0, <2>c DEF TypeOK
  <2>4. proc'[Agent].dir = "inbox" /\ proc'[Agent].todo = r.todo \ {m}
    BY <2>a, <2>b, <2>d
  <2>5. CASE moves
    <3>1. /\ proc'[Agent].pc = "archive" /\ proc'[Agent].cur = m /\ passed' = passed
          /\ spool'["inbox"] = spool["inbox"] \ {m}
          /\ spool'["processing"] = spool["processing"] \cup {m}
      BY <2>1, <2>5, <2>b, <2>d DEF Claim, TypeOK, Dirs
    <3>2. Listed(proc[Agent])'
      BY <1>a, <2>2, <2>4, <3>1 DEF Listed, Claiming
    <3> QED BY <1>b, <3>2 DEF OrderInv
  <2>6. CASE ~moves
    <3>1. /\ proc'[Agent].pc = "claim" /\ spool' = spool
          /\ passed' = passed \cup ({m} \cap spool["inbox"])
      BY <2>1, <2>6, <2>a, <2>d DEF Claim
    <3>2. Listed(proc[Agent])'
      BY <1>a, <2>2, <2>4, <3>1 DEF Listed, Claiming
    <3> QED BY <1>b, <3>2 DEF OrderInv
  <2> QED BY <2>5, <2>6
<1>5. CASE DrainArchive
  <2>1. /\ r.pc = "archive" /\ r.dir = "inbox"
        /\ spool["processing"] \subseteq {r.cur} \cup passed /\ r.todo \subseteq Sent
        /\ \A k \in r.todo : ahead[k] \cap spool["inbox"] \subseteq r.todo \cup passed
    BY <1>5 DEF DrainArchive, OrderInv, Listed, Claiming
  <2>2. r.cur \in Msgs
    BY <1>0, <2>1, ProcsOK DEF ProcOK, Proc, Loops
  <2>3. /\ Loop(r) \in Proc /\ Loop(r).pc = "claim" /\ Loop(r).dir = "inbox"
        /\ Loop(r).todo = r.todo
    BY <1>0, <2>1 DEF Loop, Proc, Pcs
  <2>4. Consume(r.cur, Loop(r))
    BY <1>5 DEF DrainArchive
  <2> HIDE DEF r
  <2> QED BY <1>a, <2>1, <2>2, <2>3, <2>4, OrderConsume
<1>6. CASE DrainReceipt
  <2>1. /\ proc'[Agent].pc = IF r.dir = "processing" THEN "recover" ELSE "claim"
        /\ proc'[Agent].dir = r.dir /\ proc'[Agent].todo = r.todo /\ UNCHANGED <<spool, passed>>
    BY <1>0, <1>6 DEF DrainReceipt, Loop, TypeOK, Proc, spoolVars, fateVars
  <2>2. r.pc = "receipt" /\ r.dir \in {"inbox", "processing"}
    BY <1>0, <1>6 DEF DrainReceipt, TypeOK, Proc, Buckets, Dirs
  <2>3. Listed(proc[Agent])'
    BY <1>a, <2>1, <2>2 DEF OrderInv, Listed, Claiming
  <2> QED BY <1>b, <2>3 DEF OrderInv
<1>7. CASE DrainReturn
  <2>1. proc'[Agent].pc = "idle" /\ spool' = spool
    BY <1>0, <1>7 DEF DrainReturn, Idle, TypeOK, spoolVars
  <2> QED BY <1>a, <2>1, OrderFrame DEF DrainPcs
<1> QED BY <1>1, <1>2, <1>3, <1>4, <1>5, <1>6, <1>7

LEMMA OrderOthers ==
  ASSUME TypeOK, OrderInv,
         \/ \E p \in Procs, kind \in Kinds : Begin(p, kind)
         \/ \E p \in Sweepers : GcStep(p)
         \/ \E p \in Procs : Crash(p)
         \/ Ask \/ Resolve
         \/ UNCHANGED vars
  PROVE  OrderInv'
<1>1. UNCHANGED <<sender, ahead, spool>> /\ Sent' = Sent
  BY DEF Begin, GcStep, Prune, RemoveDir, RemoveDirFails, GcEnds, Crash, Ask, Resolve, Sent,
         spoolVars, vars
<1>2. \/ proc'[Agent] = proc[Agent] /\ passed' = passed
      \/ proc'[Agent].pc \in {"sweep", "idle"}
  <2>1. ASSUME NEW p \in Sweepers, GcStep(p) PROVE proc'[Agent] = proc[Agent] /\ passed' = passed
    BY <2>1, ProcsAssumption
    DEF GcStep, Prune, RemoveDir, RemoveDirFails, GcEnds, TypeOK, Procs, fateVars
  <2>2. ASSUME NEW p \in Procs, NEW kind, Begin(p, kind)
        PROVE  \/ proc'[Agent] = proc[Agent] /\ passed' = passed
               \/ proc'[Agent].pc = "sweep"
    BY <2>2 DEF Begin, TypeOK, Procs, fateVars
  <2>3. ASSUME NEW p \in Procs, Crash(p)
        PROVE  \/ proc'[Agent] = proc[Agent] /\ passed' = passed
               \/ proc'[Agent].pc = "idle"
    BY <2>3 DEF Crash, Idle, TypeOK, Procs
  <2>4. CASE Ask \/ Resolve \/ UNCHANGED vars
    BY <2>4 DEF Ask, Resolve, fateVars, vars
  <2> QED BY <2>1, <2>2, <2>3, <2>4
<1> QED BY <1>1, <1>2, OrderFrame DEF DrainPcs

\* OrderInv: ids are taken in order, and what the running drain has not passed
\* over is still in its list (newMsgId(), jsonFiles(), drain()).
THEOREM OrderInvariant == Spec => []OrderInv
<1>1. Init => OrderInv
  BY DEF Init, OrderInv, IdsInOrder, Listed, Claiming, Idle, Dirs, Procs
<1>2. TypeOK /\ OneFate /\ OrderInv /\ [Next]_vars => OrderInv'
  BY Steps, OrderSender, OrderSweep, OrderDrain, OrderOthers DEF Kinds
<1> QED BY <1>1, <1>2, TypeCorrect, FateSafe, PTL DEF Spec

\* NothingStranded: a drain that returns leaves no claimed file behind, not even
\* one that a drain that died had claimed (the first loop of drain()), but those
\* it could not archive because consumed/ was gone.
THEOREM StrandedSafe == Spec => NothingStranded
<1> DEFINE returns == proc[Agent].pc = "claim" /\ proc'[Agent].pc = "idle"
                      /\ crashes' = crashes => spool'["processing"] \subseteq passed
<1>1. TypeOK /\ OrderInv /\ [Next]_vars => [returns]_vars
  <2> SUFFICES ASSUME TypeOK, OrderInv, [Next]_vars, proc[Agent].pc = "claim",
                      proc'[Agent].pc = "idle", crashes' = crashes
               PROVE  spool'["processing"] \subseteq passed
    OBVIOUS
  <2>1. spool["processing"] \subseteq passed
    BY DEF OrderInv, Listed, Claiming
  <2>2. ASSUME NEW p \in Procs, Crash(p) PROVE FALSE
    BY <2>2, BoundAssumption DEF Crash, TypeOK
  <2>3. ASSUME NEW m \in Msgs, SenderStep(m) PROVE proc' = proc
    BY <2>3 DEF SenderStep, Name, Enqueue, EnqueueFails, QueuedRead, QueuedWrite, Lapse
  <2>4. ASSUME NEW p \in Procs, SweepStep(p) PROVE spool'["processing"] \subseteq spool["processing"]
    BY <2>4 DEF SweepStep, SweepRead, SweepMark, SweepUnlink, SweepReceipt, SweepNext,
               spoolVars, TypeOK, Dirs
  <2>5. CASE DrainClaim
    <3>1. PICK m : Claim(m, [proc[Agent] EXCEPT !.todo = @ \ {m}])
      BY <2>5 DEF DrainClaim
    <3> DEFINE n == [proc[Agent] EXCEPT !.todo = @ \ {m}]
               c == [n EXCEPT !.pc = "archive", !.cur = m]
    <3>2. n.pc = "claim" /\ c.pc = "archive" /\ Agent \in Procs
      BY DEF TypeOK, Procs, Proc
    <3>3. proc' = [proc EXCEPT ![Agent] = n] \/ proc' = [proc EXCEPT ![Agent] = c]
      BY <3>1 DEF Claim
    <3> HIDE DEF n, c
    <3> QED BY <3>2, <3>3 DEF TypeOK
  <2>6. CASE DrainSwept \/ DrainRecover \/ DrainLists \/ DrainArchive \/ DrainReceipt
    BY <2>6 DEF DrainSwept, SweepDone, DrainRecover, DrainLists, DrainArchive, DrainReceipt
  <2>7. CASE DrainReturn
    BY <2>1, <2>7 DEF DrainReturn, spoolVars
  <2>8. ASSUME NEW p, NEW x, Begin(p, x) \/ GcStep(p) PROVE spool' = spool
    BY <2>8 DEF Begin, GcStep, Prune, RemoveDir, RemoveDirFails, GcEnds, spoolVars
  <2>9. CASE Ask \/ Resolve \/ UNCHANGED vars
    BY <2>1, <2>9 DEF Ask, Resolve, spoolVars, vars
  <2> QED BY <2>1, <2>2, <2>3, <2>4, <2>5, <2>6, <2>7, <2>8, <2>9, Steps
<1> QED BY <1>1, TypeCorrect, OrderInvariant, PTL DEF Spec, NothingStranded

\* InOrder: a message is claimed only when none that was sent before it got its
\* id still waits, and taken from processing/ only when none of those is there,
\* but for what this drain passed over (the sorted loops of drain()).
THEOREM OrderSafe == Spec => InOrder
<1> DEFINE claims == \A m \in spool'["processing"] \ spool["processing"] :
                       ahead[m] \cap Pending \subseteq passed
           takes == \A m \in out' \ out : ahead[m] \cap spool["processing"] \subseteq passed
<1>1. TypeOK /\ OrderInv /\ [Next]_vars => [claims /\ takes]_vars
  <2> SUFFICES ASSUME TypeOK, OrderInv, [Next]_vars PROVE claims /\ takes
    OBVIOUS
  <2> DEFINE r == proc[Agent]
             frame == spool'["processing"] \subseteq spool["processing"] /\ out' \subseteq out
  <2>1. ASSUME NEW n \in Msgs, SenderStep(n) PROVE frame
    BY <2>1 DEF SenderStep, Name, Enqueue, EnqueueFails, QueuedRead, QueuedWrite, Lapse,
               spoolVars, fateVars, TypeOK, Dirs
  <2>2. ASSUME NEW p \in Procs, SweepStep(p) PROVE frame
    BY <2>2 DEF SweepStep, SweepRead, SweepMark, SweepUnlink, SweepReceipt, SweepNext,
               spoolVars, fateVars, TypeOK, Dirs
  <2>3. ASSUME NEW p, NEW x, Begin(p, x) \/ GcStep(p) \/ Crash(p) PROVE frame
    BY <2>3 DEF Begin, GcStep, Prune, RemoveDir, RemoveDirFails, GcEnds, Crash, spoolVars,
               fateVars
  <2>4. CASE DrainSwept \/ DrainLists \/ DrainReceipt \/ DrainReturn
    BY <2>4 DEF DrainSwept, DrainLists, DrainReceipt, DrainReturn, spoolVars, fateVars
  <2>5. CASE Ask \/ Resolve \/ UNCHANGED vars
    BY <2>5 DEF Ask, Resolve, spoolVars, fateVars, vars
  <2>6. CASE DrainRecover
    <3>1. PICK k \in r.todo : Least(k, r.todo) /\ Consume(k, [r EXCEPT !.todo = @ \ {k}])
      BY <2>6 DEF DrainRecover
    <3>2. spool'["processing"] \subseteq spool["processing"] /\ out' \subseteq out \cup {k}
      BY <3>1 DEF Consume, TypeOK, Dirs
    <3>3. spool["processing"] \subseteq r.todo \cup passed /\ r.todo \subseteq Msgs
      BY <2>6 DEF DrainRecover, OrderInv, Listed, TypeOK, Proc, Procs
    <3>4. \A n \in ahead[k] : n \notin r.todo
      BY <3>1, <3>3, MsgsAssumption DEF Least, OrderInv, IdsInOrder, Sent
    <3> QED BY <3>2, <3>3, <3>4
  <2>7. CASE DrainArchive
    <3>1. Consume(r.cur, Loop(r)) /\ spool["processing"] \subseteq {r.cur} \cup passed
      BY <2>7 DEF DrainArchive, OrderInv, Listed
    <3>2. spool'["processing"] \subseteq spool["processing"] /\ out' \subseteq out \cup {r.cur}
      BY <3>1 DEF Consume, TypeOK, Dirs
    <3>a. ProcOK(Agent, r)
      BY ProcsOK DEF Procs
    <3>b. r.pc = "archive"
      BY <2>7 DEF DrainArchive
    <3> HIDE DEF r
    <3>3. r.cur \in Msgs
      BY <3>a, <3>b DEF ProcOK, Proc, Loops
    <3>4. r.cur \notin ahead[r.cur]
      BY <3>3, MsgsAssumption DEF OrderInv, IdsInOrder, Sent
    <3> QED BY <3>1, <3>2, <3>4
  <2>8. CASE DrainClaim
    <3>1. PICK k \in r.todo : Least(k, r.todo) /\ Claim(k, [r EXCEPT !.todo = @ \ {k}])
      BY <2>8 DEF DrainClaim
    <3>2. spool'["processing"] \subseteq spool["processing"] \cup {k} /\ out' = out
      BY <2>8, <3>1 DEF DrainClaim, Claim, TypeOK, Dirs
    <3>3. /\ spool["processing"] \subseteq passed /\ r.todo \subseteq Msgs
          /\ ahead[k] \cap spool["inbox"] \subseteq r.todo \cup passed
      BY <2>8, <3>1 DEF DrainClaim, OrderInv, Listed, Claiming, TypeOK, Proc, Procs
    <3>4. \A n \in ahead[k] : n \notin r.todo
      BY <3>1, <3>3, MsgsAssumption DEF Least, OrderInv, IdsInOrder, Sent
    <3>5. ahead[k] \cap Pending \subseteq passed
      BY <3>3, <3>4 DEF Pending
    <3> QED BY <3>2, <3>5
  <2>9. frame => claims /\ takes
    OBVIOUS
  <2> HIDE DEF frame, claims, takes
  <2> QED BY <2>1, <2>2, <2>3, <2>4, <2>5, <2>6, <2>7, <2>8, <2>9, Steps
<1> QED BY <1>1, TypeCorrect, OrderInvariant, PTL DEF Spec, InOrder

=============================================================================
