----------------------------- MODULE MCMailbox -----------------------------
(* An instance of Mailbox for TLC: two messages, the agent and one sweep.    *)
EXTENDS Mailbox

CONSTANTS agent, s1

TwoMsgs == {1, 2}

\* The messages that are pending or not sent yet.  What else a state knows of
\* the others, nothing asks: that they had expired, which ones they came after,
\* their names in the lists of a sweep, which passes over them.  The view
\* forgets it.
Alive == Msgs \ (Sent \ Pending)
Heed(r) == IF r.pc \in {"sweep", "mark", "unlink", "bounce"}
           THEN [r EXCEPT !.todo = @ \cap spool[r.dir], !.late = @ \cap Alive]
           ELSE r
View ==
    <<spool, consumed, lapsed \cap Alive, dirs, block, receipts, sender,
      [p \in Procs |-> Heed(proc[p])], held, crashes, hooks, out, returned,
      bounced, lost, passed,
      [m \in Msgs |-> IF m \in Alive THEN ahead[m] \cap Alive ELSE {}]>>
=============================================================================
