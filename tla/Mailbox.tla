------------------------------- MODULE Mailbox -------------------------------
(* The mailbox of one running agent (mailbox.ts), the sweep of the daemon    *)
(* (mailbox-gc.ts) and the receipts that both leave in the agent's feed      *)
(* block (feed.ts).  A box is three directories: a message is one file,      *)
(* renamed from inbox/ to processing/ to consumed/.  Senders, the agent's    *)
(* drain and any number of sweeps share the files and no lock, so each file  *)
(* operation is a step of its own, and any process may die between two.  The *)
(* sweep of a box taken for dead also removes the directories it finds       *)
(* empty, under the feet of a drain that may still be running.               *)
EXTENDS Naturals, FiniteSets

CONSTANTS
    Msgs,         \* message ids, in the order newMsgId() gives them out
    Agent,        \* the single consumer: the process that runs drain()
    Sweepers,     \* processes that run peek() or gcMailbox()
    NoMsg,        \* no message in hand
    NoCopy,       \* no copy of the feed block in hand
    Mortal,       \* messages sent with a TTL
    Tied,         \* messages that answer the feed block (blockId)
    MaxEvents     \* bound on the processes that die and the calls of the
                  \* publish hook, together

ASSUME MsgsAssumption == Msgs \subseteq Nat /\ NoMsg \notin Msgs
ASSUME ProcsAssumption == Agent \notin Sweepers /\ ({Agent} \cup Sweepers) \cap Msgs = {}
ASSUME BoundAssumption == Mortal \subseteq Msgs /\ Tied \subseteq Msgs
                          /\ MaxEvents \in Nat

Procs == {Agent} \cup Sweepers
Dirs == {"inbox", "processing"}
Buckets == Dirs \cup {"consumed"}

VARIABLES
    spool,        \* the message files of inbox/ and processing/
    consumed,     \* what consumed/ says of a message: "plain" is delivered
    lapsed,       \* messages whose expiresAt has passed
    dirs,         \* the directories of the box that exist
    block,        \* the agent's feed block exists
    receipts,     \* the receipts in it
    sender,       \* where the command that sends a message is
    proc,         \* where the drain and the sweeps are
    held,         \* the copy of the block a receipt is being added to
    crashes,      \* processes that died so far
    hooks,        \* publish hook calls so far
    \* What became of a message, for the properties only.
    out,          \* archived by the drain that is running, not yet returned
    returned,     \* returned by a drain
    bounced,      \* dropped by a sweep that removed the file
    lost,         \* archived by a drain that died before it returned
    passed,       \* left where it was by the drain that is running, because
                  \* the directory it was to be renamed into was gone
    ahead         \* the messages sent before this one got its id

spoolVars == <<spool, consumed, lapsed, dirs>>
blockVars == <<block, receipts>>
fateVars == <<out, returned, bounced, lost, passed>>
boundVars == <<crashes, hooks>>
vars == <<spool, consumed, lapsed, dirs, block, receipts, sender, proc, held, crashes,
          hooks, out, returned, bounced, lost, passed, ahead>>

Marks == {"absent", "plain", "dropped"}
Pending == spool["inbox"] \cup spool["processing"]
Statuses == {"none", "queued", "consumed", "dropped", "expired"}
Receipts == [Msgs -> Statuses]
NoReceipts == [m \in Msgs |-> "none"]
Kinds == {"none", "drain", "live", "dead"}
Pcs == {"idle", "sweep", "mark", "unlink", "bounce", "rmdir", "block", "recover", "claim",
        "archive", "receipt"}

Loops == {"idle", "sweep", "rmdir", "block", "recover", "claim"}   \* no file in hand
DrainPcs == {"recover", "claim", "archive", "receipt"}

\* What a process holds: the directory its loop is in (dir), the names its readdir
\* returned that are left and, in a sweep, due (todo), the file it works on (cur)
\* and the messages that had expired when its sweep read the clock (late).
Proc == [pc: Pcs, kind: Kinds, dir: Buckets, todo: SUBSET Msgs,
         cur: Msgs \cup {NoMsg}, late: SUBSET Msgs]

Idle == [pc |-> "idle", kind |-> "none", dir |-> "inbox", todo |-> {},
         cur |-> NoMsg, late |-> {}]

TypeOK ==
    /\ spool \in [Dirs -> SUBSET Msgs]
    /\ consumed \in [Msgs -> Marks]
    /\ lapsed \subseteq Msgs /\ dirs \subseteq Buckets
    /\ block \in BOOLEAN
    /\ receipts \in Receipts
    /\ sender \in [Msgs -> {"new", "named", "sent", "done", "failed"}]
    /\ proc \in [Procs -> Proc]
    /\ held \in [Procs \cup Msgs -> Receipts \cup {NoCopy}]
    /\ crashes \in Nat /\ hooks \in Nat /\ crashes + hooks <= MaxEvents
    /\ out \subseteq Msgs /\ returned \subseteq Msgs
    /\ bounced \subseteq Msgs /\ lost \subseteq Msgs /\ passed \subseteq Msgs
    /\ ahead \in [Msgs -> SUBSET Msgs]
    /\ \A p \in Procs : /\ proc[p].cur = NoMsg <=> proc[p].pc \in Loops
                        /\ proc[p].dir = "consumed" => proc[p].pc = "rmdir"
    /\ proc[Agent].kind \in {"none", "drain"} /\ proc[Agent].pc \notin {"rmdir", "block"}
    /\ \A p \in Sweepers : proc[p].pc \notin DrainPcs

Init ==
    /\ spool = [d \in Dirs |-> {}]
    /\ consumed = [m \in Msgs |-> "absent"]
    /\ lapsed = {} /\ dirs = {}
    /\ block = TRUE
    /\ receipts = NoReceipts
    /\ sender = [m \in Msgs |-> "new"]
    /\ proc = [p \in Procs |-> Idle]
    /\ held = [x \in Procs \cup Msgs |-> NoCopy]
    /\ crashes = 0 /\ hooks = 0
    /\ out = {} /\ returned = {} /\ bounced = {} /\ lost = {} /\ passed = {}
    /\ ahead = [m \in Msgs |-> {}]

-----------------------------------------------------------------------------
(* Receipts.  recordMessageReceipt() reads the block, adds the receipt to    *)
(* the copy and writes the whole block back; a message further along in the  *)
(* copy keeps its status.                                                    *)

Rank == [none |-> 0, queued |-> 0, consumed |-> 1, dropped |-> 3, expired |-> 3]

ReadBlock(x, m) ==
    held' = [held EXCEPT ![x] = IF block /\ m \in Tied THEN receipts ELSE NoCopy]

WriteBlock(x, m, status) ==
    /\ held' = [held EXCEPT ![x] = NoCopy]
    /\ IF held[x] = NoCopy \/ Rank[status] < Rank[held[x][m]]
         THEN UNCHANGED blockVars
         ELSE /\ block' = TRUE
              /\ receipts' = [held[x] EXCEPT ![m] = status]

-----------------------------------------------------------------------------
(* Sending.  Ids are taken in order; the file appears with the rename.       *)

\* newMsgId(), after ensureDirs(): messages sent in the same millisecond by two
\* processes aside, ids sort in the order they are taken.
Name(m) ==
    /\ sender[m] = "new"
    /\ \A n \in Msgs : n < m => sender[n] # "new"
    /\ sender' = [sender EXCEPT ![m] = "named"]
    /\ dirs' = Buckets
    /\ ahead' = [ahead EXCEPT ![m] = {n \in Msgs : sender[n] \in {"sent", "done"}}]
    /\ UNCHANGED <<spool, consumed, lapsed, blockVars, fateVars, proc, held, boundVars>>

Enqueue(m) ==
    /\ sender[m] = "named" /\ "inbox" \in dirs
    /\ sender' = [sender EXCEPT ![m] = "sent"]
    /\ spool' = [spool EXCEPT !["inbox"] = @ \cup {m}]
    /\ UNCHANGED <<consumed, lapsed, dirs, blockVars, fateVars, proc, held, boundVars, ahead>>

\* The inbox was removed after ensureDirs(): the write throws, and the command
\* fails with nothing sent.
EnqueueFails(m) ==
    /\ sender[m] = "named" /\ "inbox" \notin dirs
    /\ sender' = [sender EXCEPT ![m] = "failed"]
    /\ UNCHANGED <<spoolVars, blockVars, fateVars, proc, held, boundVars, ahead>>

QueuedRead(m) ==
    /\ sender[m] = "sent" /\ held[m] = NoCopy /\ block /\ m \in Tied
    /\ ReadBlock(m, m)
    /\ UNCHANGED <<spoolVars, blockVars, fateVars, sender, proc, boundVars, ahead>>

QueuedWrite(m) ==
    /\ sender[m] = "sent" /\ held[m] # NoCopy
    /\ WriteBlock(m, m, "queued")
    /\ sender' = [sender EXCEPT ![m] = "done"]
    /\ UNCHANGED <<spoolVars, fateVars, proc, boundVars, ahead>>

-----------------------------------------------------------------------------
(* The sweep: sweepExpired(), run by drain(), by peek() and by gcMailbox()   *)
(* for a live box, and archiveAllPending(), run by gcMailbox() for a box it  *)
(* takes for dead.                                                           *)

\* jsonFiles() sorts the names: a loop takes the oldest message first.
Least(m, S) == m \in S /\ \A n \in S : m <= n

\* The receipt of a sweep.
Bounce(kind) == IF kind = "dead" THEN "dropped" ELSE "expired"

\* sweepExpired() and drain() bring the directories back, archiveAllPending()
\* does not.  In a box taken for dead every message is due.
Begin(p, kind) ==
    /\ proc[p].pc = "idle"
    /\ dirs' = IF kind = "dead" THEN dirs ELSE Buckets
    /\ proc' = [proc EXCEPT ![p] =
         LET late == IF kind = "dead" THEN Msgs ELSE lapsed
         IN  [pc |-> "sweep", kind |-> kind, dir |-> "inbox",
              todo |-> spool["inbox"] \cap late, cur |-> NoMsg, late |-> late]]
    /\ UNCHANGED <<spool, consumed, lapsed, blockVars, fateVars, sender, held, boundVars,
                   ahead>>

\* The names left to drop; a file that is gone is passed over.
Due(r) == r.todo \cap spool[r.dir]

SweepRead(p) ==
    LET r == proc[p] IN
    /\ r.pc = "sweep"
    /\ \E m \in r.todo :
         /\ Least(m, Due(r))
         /\ proc' = [proc EXCEPT ![p] =
              [r EXCEPT !.pc = "mark", !.cur = m, !.todo = {n \in @ : m < n}]]
    /\ UNCHANGED <<spoolVars, blockVars, fateVars, sender, held, boundVars, ahead>>

\* Without consumed/ the copy cannot be written, and the file is left alone.
SweepMark(p) ==
    LET r == proc[p] IN
    /\ r.pc = "mark"
    /\ IF "consumed" \in dirs
         THEN /\ consumed' = [consumed EXCEPT ![r.cur] = "dropped"]
              /\ proc' = [proc EXCEPT ![p].pc = "unlink"]
         ELSE /\ proc' = [proc EXCEPT ![p] = [r EXCEPT !.pc = "sweep", !.cur = NoMsg]]
              /\ UNCHANGED consumed
    /\ UNCHANGED <<spool, lapsed, dirs, blockVars, fateVars, sender, held, boundVars, ahead>>

\* Mutant: the removal is not looked at (rmSync with force).
MutSweepUnlink(p) ==
    LET r == proc[p] IN
    /\ r.pc = "unlink"
    /\ spool' = [spool EXCEPT ![r.dir] = @ \ {r.cur}]
    /\ bounced' = IF r.cur \in spool[r.dir] THEN bounced \cup {r.cur} ELSE bounced
    /\ proc' = [proc EXCEPT ![p].pc = "bounce"]
    /\ ReadBlock(p, r.cur)
    /\ UNCHANGED <<consumed, lapsed, dirs, blockVars, out, returned, lost, passed, sender,
                   boundVars, ahead>>

\* The removal decides: if the drain took the file first it fails, and the
\* sweep goes on without a receipt.
SweepUnlink(p) ==
    LET r == proc[p] IN
    /\ r.pc = "unlink"
    /\ IF r.cur \in spool[r.dir]
         THEN /\ spool' = [spool EXCEPT ![r.dir] = @ \ {r.cur}]
              /\ bounced' = bounced \cup {r.cur}
              /\ proc' = [proc EXCEPT ![p].pc = "bounce"]
              /\ ReadBlock(p, r.cur)
         ELSE /\ proc' = [proc EXCEPT ![p] = [r EXCEPT !.pc = "sweep", !.cur = NoMsg]]
              /\ UNCHANGED <<spool, bounced, held>>
    /\ UNCHANGED <<consumed, lapsed, dirs, blockVars, out, returned, lost, passed, sender,
                   boundVars, ahead>>

SweepReceipt(p) ==
    LET r == proc[p] IN
    /\ r.pc = "bounce"
    /\ WriteBlock(p, r.cur, Bounce(r.kind))
    /\ proc' = [proc EXCEPT ![p] = [r EXCEPT !.pc = "sweep", !.cur = NoMsg]]
    /\ UNCHANGED <<spoolVars, fateVars, sender, boundVars, ahead>>

\* The second directory; the clock is not needed any more.
SweepNext(p) ==
    LET r == proc[p] IN
    /\ r.pc = "sweep" /\ Due(r) = {} /\ r.dir = "inbox"
    /\ proc' = [proc EXCEPT ![p] =
         [r EXCEPT !.dir = "processing", !.todo = spool["processing"] \cap r.late, !.late = {}]]
    /\ UNCHANGED <<spoolVars, blockVars, fateVars, sender, held, boundVars, ahead>>

SweepDone(p) == proc[p].pc = "sweep" /\ Due(proc[p]) = {} /\ proc[p].dir = "processing"

\* pruneConsumed() then removes archived copies that are old enough; peek()
\* removes nothing.
Prune(p, old) ==
    /\ SweepDone(p)
    /\ consumed' = [m \in Msgs |-> IF m \in old THEN "absent" ELSE consumed[m]]
    /\ proc' = [proc EXCEPT ![p] =
         IF @.kind = "dead" THEN [Idle EXCEPT !.pc = "rmdir"] ELSE Idle]
    /\ UNCHANGED <<spool, lapsed, dirs, blockVars, fateVars, sender, held, boundVars, ahead>>

Empty(d) == IF d \in Dirs THEN spool[d] = {} ELSE \A m \in Msgs : consumed[m] = "absent"

\* gcMailbox() goes on to the next of the three directories, and after the last
\* to the blocks.
NextDir(r) ==
    CASE r.dir = "inbox" -> [r EXCEPT !.dir = "processing"]
      [] r.dir = "processing" -> [r EXCEPT !.dir = "consumed"]
      [] OTHER -> [Idle EXCEPT !.pc = "block"]

\* A directory of a dead box is removed if it is there and empty.
RemoveDir(p) ==
    LET r == proc[p] IN
    /\ r.pc = "rmdir"
    /\ dirs' = IF Empty(r.dir) THEN dirs \ {r.dir} ELSE dirs
    /\ proc' = [proc EXCEPT ![p] = NextDir(r)]
    /\ UNCHANGED <<spool, consumed, lapsed, blockVars, fateVars, sender, held, boundVars,
                   ahead>>

\* One that was empty when it was listed, and is not or is gone when it is to be
\* removed, ends the removal for this box.
RemoveDirFails(p) ==
    LET r == proc[p] IN
    /\ r.pc = "rmdir" /\ (Empty(r.dir) => r.dir \notin dirs)
    /\ proc' = [proc EXCEPT ![p] = [Idle EXCEPT !.pc = "block"]]
    /\ UNCHANGED <<spoolVars, blockVars, fateVars, sender, held, boundVars, ahead>>

\* The feed block of a dead box goes if it is old enough.
GcEnds(p) ==
    /\ proc[p].pc = "block"
    /\ \/ UNCHANGED blockVars
       \/ block /\ block' = FALSE /\ receipts' = NoReceipts
    /\ proc' = [proc EXCEPT ![p] = Idle]
    /\ UNCHANGED <<spoolVars, fateVars, sender, held, boundVars, ahead>>

-----------------------------------------------------------------------------
(* The drain: recover what a dead drain left in processing/, then claim the  *)
(* inbox.  "recover" and "claim" are its two loops.                          *)

\* Mutant: the inbox is claimed before what processing/ holds is recovered.
MutDrainSwept ==
    /\ SweepDone(Agent)
    /\ proc' = [proc EXCEPT ![Agent].pc = "claim", ![Agent].dir = "inbox",
                            ![Agent].todo = spool["inbox"]]
    /\ UNCHANGED <<spoolVars, blockVars, fateVars, sender, held, boundVars, ahead>>

DrainSwept ==
    /\ SweepDone(Agent)
    /\ proc' = [proc EXCEPT ![Agent].pc = "recover", ![Agent].todo = spool["processing"]]
    /\ UNCHANGED <<spoolVars, blockVars, fateVars, sender, held, boundVars, ahead>>

\* Mutant: a rename that fails is taken for one that was done before.
MutConsume(m, next) ==
    /\ spool' = [spool EXCEPT !["processing"] = @ \ {m}]
    /\ consumed' = [consumed EXCEPT ![m] = "plain"]
    /\ out' = out \cup {m}
    /\ ReadBlock(Agent, m)
    /\ proc' = [proc EXCEPT ![Agent] = [next EXCEPT !.pc = "receipt", !.cur = m]]
    /\ UNCHANGED passed

\* consumeClaimed(): the rename to consumed/ decides who has the message.  One
\* that fails is taken for a file another process has, and if it is consumed/
\* that is gone the message stays in processing/.
Consume(m, next) ==
    IF m \in spool["processing"] /\ "consumed" \in dirs
      THEN /\ spool' = [spool EXCEPT !["processing"] = @ \ {m}]
           /\ consumed' = [consumed EXCEPT ![m] = "plain"]
           /\ out' = out \cup {m}
           /\ ReadBlock(Agent, m)
           /\ proc' = [proc EXCEPT ![Agent] = [next EXCEPT !.pc = "receipt", !.cur = m]]
           /\ UNCHANGED passed
      ELSE /\ passed' = passed \cup ({m} \cap spool["processing"])
           /\ proc' = [proc EXCEPT ![Agent] = next]
           /\ UNCHANGED <<spool, consumed, out, held>>

DrainRecover ==
    LET r == proc[Agent] IN
    /\ r.pc = "recover"
    /\ \E m \in r.todo : Least(m, r.todo) /\ Consume(m, [r EXCEPT !.todo = @ \ {m}])
    /\ UNCHANGED <<lapsed, dirs, blockVars, returned, bounced, lost, sender, boundVars, ahead>>

\* Mutant: the recovery stops after the first file.
MutDrainLists ==
    LET r == proc[Agent] IN
    /\ r.pc = "recover"
    /\ proc' = [proc EXCEPT ![Agent] = [r EXCEPT !.pc = "claim", !.dir = "inbox",
                                                 !.todo = spool["inbox"]]]
    /\ UNCHANGED <<spoolVars, blockVars, fateVars, sender, held, boundVars, ahead>>

DrainLists ==
    LET r == proc[Agent] IN
    /\ r.pc = "recover" /\ r.todo = {}
    /\ proc' = [proc EXCEPT ![Agent] = [r EXCEPT !.pc = "claim", !.dir = "inbox",
                                                 !.todo = spool["inbox"]]]
    /\ UNCHANGED <<spoolVars, blockVars, fateVars, sender, held, boundVars, ahead>>

\* A name that is gone was taken by a sweep and is skipped; so is one that
\* cannot be renamed because it is processing/ that is gone.
Claim(m, r) ==
    IF m \in spool["inbox"] /\ "processing" \in dirs
      THEN /\ spool' = [spool EXCEPT !["inbox"] = @ \ {m}, !["processing"] = @ \cup {m}]
           /\ proc' = [proc EXCEPT ![Agent] = [r EXCEPT !.pc = "archive", !.cur = m]]
           /\ UNCHANGED passed
      ELSE /\ passed' = passed \cup ({m} \cap spool["inbox"])
           /\ proc' = [proc EXCEPT ![Agent] = r]
           /\ UNCHANGED spool

DrainClaim ==
    LET r == proc[Agent] IN
    /\ r.pc = "claim"
    /\ \E m \in r.todo : Least(m, r.todo) /\ Claim(m, [r EXCEPT !.todo = @ \ {m}])
    /\ UNCHANGED <<consumed, lapsed, dirs, blockVars, out, returned, bounced, lost, sender,
                   held, boundVars, ahead>>

\* Mutant: the file stays in hand.
MutLoop(r) == [r EXCEPT !.pc = IF r.dir = "processing" THEN "recover" ELSE "claim"]

\* The loop consumeClaimed() returns to.
Loop(r) == [r EXCEPT !.pc = IF r.dir = "processing" THEN "recover" ELSE "claim", !.cur = NoMsg]

DrainArchive ==
    /\ proc[Agent].pc = "archive"
    /\ Consume(proc[Agent].cur, Loop(proc[Agent]))
    /\ UNCHANGED <<lapsed, dirs, blockVars, returned, bounced, lost, sender, boundVars, ahead>>

DrainReceipt ==
    /\ proc[Agent].pc = "receipt"
    /\ WriteBlock(Agent, proc[Agent].cur, "consumed")
    /\ proc' = [proc EXCEPT ![Agent] = Loop(proc[Agent])]
    /\ UNCHANGED <<spoolVars, fateVars, sender, boundVars, ahead>>

DrainReturn ==
    /\ proc[Agent].pc = "claim" /\ proc[Agent].todo = {}
    /\ returned' = returned \cup out
    /\ out' = {} /\ passed' = {}
    /\ proc' = [proc EXCEPT ![Agent] = Idle]
    /\ UNCHANGED <<spoolVars, blockVars, bounced, lost, sender, held, boundVars, ahead>>

-----------------------------------------------------------------------------
(* Everything else.                                                          *)

\* The clock: a message may expire at any time after it was sent, or never; no
\* process asks of one that is archived.
Lapse(m) ==
    /\ m \in Pending /\ m \in Mortal \ lapsed
    /\ lapsed' = lapsed \cup {m}
    /\ UNCHANGED <<spool, consumed, dirs, blockVars, fateVars, sender, proc, held, boundVars,
                   ahead>>

\* The publish hook replaces the block with a new question, or removes it
\* when the question is over.
Ask ==
    /\ crashes + hooks < MaxEvents /\ hooks' = hooks + 1
    /\ block' = TRUE /\ receipts' = NoReceipts
    /\ UNCHANGED <<spoolVars, fateVars, sender, proc, held, crashes, ahead>>

Resolve ==
    /\ block
    /\ crashes + hooks < MaxEvents /\ hooks' = hooks + 1
    /\ block' = FALSE /\ receipts' = NoReceipts
    /\ UNCHANGED <<spoolVars, fateVars, sender, proc, held, crashes, ahead>>

\* A process dies; what the drain had archived goes with it.
Crash(p) ==
    /\ crashes + hooks < MaxEvents /\ proc[p].pc # "idle"
    /\ crashes' = crashes + 1
    /\ proc' = [proc EXCEPT ![p] = Idle]
    /\ held' = [held EXCEPT ![p] = NoCopy]
    /\ IF p = Agent
         THEN lost' = lost \cup out /\ out' = {} /\ passed' = {}
         ELSE UNCHANGED <<lost, out, passed>>
    /\ UNCHANGED <<spoolVars, blockVars, returned, bounced, sender, hooks, ahead>>

SweepStep(p) ==
    \/ SweepRead(p) \/ SweepMark(p) \/ SweepUnlink(p) \/ SweepReceipt(p) \/ SweepNext(p)

DrainStep ==
    \/ Begin(Agent, "drain") \/ SweepStep(Agent)
    \/ DrainSwept \/ DrainRecover \/ DrainLists \/ DrainClaim
    \/ DrainArchive \/ DrainReceipt \/ DrainReturn

SenderStep(m) ==
    Name(m) \/ Enqueue(m) \/ EnqueueFails(m) \/ QueuedRead(m) \/ QueuedWrite(m) \/ Lapse(m)

SweeperStep(p) ==
    \/ \E kind \in {"live", "dead"} : Begin(p, kind)
    \/ SweepStep(p)
    \/ \E old \in SUBSET {m \in Msgs : consumed[m] # "absent"} : Prune(p, old)
    \/ RemoveDir(p) \/ RemoveDirFails(p) \/ GcEnds(p)

Next ==
    \/ \E m \in Msgs : SenderStep(m)
    \/ DrainStep
    \/ \E p \in Sweepers : SweeperStep(p)
    \/ \E p \in Procs : Crash(p)
    \/ Ask \/ Resolve

Spec == Init /\ [][Next]_vars

-----------------------------------------------------------------------------
Sent == {m \in Msgs : sender[m] \in {"sent", "done"}}

\* A message that was sent is in exactly one place: in the inbox, claimed, in
\* the hands of the running drain, returned, bounced, or lost with a drain
\* that died.  So it is returned at most once, what bounced was never
\* delivered nor the other way round, and only a crash can lose a message:
\* the renames and removals of mailbox.ts and mailbox-gc.ts, with no lock.
OneFate ==
    /\ Sent = Pending \cup out \cup returned \cup bounced \cup lost
    /\ spool["inbox"] \cap spool["processing"] = {}
    /\ Pending \cap (out \cup returned \cup bounced \cup lost) = {}
    /\ out \cap (returned \cup bounced \cup lost) = {}
    /\ returned \cap (bounced \cup lost) = {}
    /\ bounced \cap lost = {}
    /\ lost # {} => crashes > 0

\* A receipt never says more than what happened, whichever copy of the block
\* was written back last: what it calls consumed a drain archived, what it
\* calls expired or dropped a sweep removed.  And the archive never shows a
\* bounced message as delivered.
ReceiptsTrue ==
    \A m \in Msgs :
        /\ receipts[m] = "consumed" => m \in out \cup returned \cup lost
        /\ receipts[m] \in {"dropped", "expired"} => m \in bounced
        /\ consumed[m] = "plain" => m \notin bounced

\* FIFO: when a drain claims a message, none that was sent before this one got
\* its id still waits, in the inbox or where a drain that died left it, and when
\* it takes one from processing/ none of those waits there.  The only exception
\* is a message this drain has passed over because a sweep that took the box for
\* dead had removed the directory it was to go to (mailbox.ts:308, 272): the
\* drain takes the failure for a racing one and delivers what comes later.
InOrder ==
    [][/\ \A m \in spool'["processing"] \ spool["processing"] : ahead[m] \cap Pending \subseteq passed
       /\ \A m \in out' \ out : ahead[m] \cap spool["processing"] \subseteq passed]_vars

\* A drain that returns leaves nothing claimed behind, whoever claimed it:
\* what an interrupted drain left in processing/ does not wait any longer.  Only
\* a file this drain could not archive because consumed/ was gone stays.
NothingStranded ==
    [][proc[Agent].pc = "claim" /\ proc'[Agent].pc = "idle" /\ crashes' = crashes
         => spool'["processing"] \subseteq passed]_vars

=============================================================================
