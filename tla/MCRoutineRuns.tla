--------------------------- MODULE MCRoutineRuns ---------------------------
(* Instances of RoutineRuns for TLC.                                       *)
EXTENDS RoutineRuns, TLC

CONSTANTS a1, a2

Symmetry == Permutations(Attempts)

\* What the rest of a behaviour, and the safety invariants, depend on.
\* due, armed, era and born only decide whether an attempt may still begin and
\* the slot it begins with.
Beginnings == IF \E a \in Attempts : Stage(a) = "idle"
              THEN <<due, armed, era, att>>
              ELSE [a \in Attempts |-> [att[a] EXCEPT !.born = 0]]

\* Of a terminal record nothing but that it is one, once its process is gone.
Record(r) ==
    IF /\ Readable(r) /\ rec[r].status # "running"
       /\ ~(rec[r].by # None /\ Ours(rec[r].pid, rec[r].by))
    THEN "over" ELSE rec[r]

\* No invariant asks about the history of an attempt that is over and has no
\* child.
Unfinished(a) == Stage(a) \notin {"done", "dead"} \/ child[a] = "alive"
Unseen == {a \in adrift : Unfinished(a)}
Overlooked == {p \in unread : Unfinished(p[1]) /\ Unfinished(p[2])}

SafetyView ==
    <<Beginnings, daemonUp, [r \in Runs |-> Record(r)], child, age, lock,
      reaper, Unseen, Overlooked, faults>>
=============================================================================
