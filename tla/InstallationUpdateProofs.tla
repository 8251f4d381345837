---------------------- MODULE InstallationUpdateProofs ----------------------
(***************************************************************************)
(* Proofs about InstallationUpdate, for any sets of processes and releases *)
(* and any number of entries: the types, the safety invariants its run     *)
(* checks, and that it implements InstallationRegister.                    *)
(***************************************************************************)
EXTENDS InstallationUpdate, TLAPS

Swap == {"aside", "in", "probe", "record"}
Install == {"iscan", "fetch", "irecord"}

\* What holds of the transaction of u: it owns the lock, its copy of the
\* record is the record, and the directory is where its phase says.
LockPart(u) ==
    IF tx[u].phase = "idle" THEN tx[u] = NoTransaction ELSE lock = u

CopyPart(u) ==
    /\ tx[u].phase \notin Install \cup {"idle", "finalize"} => tx[u].copy = rec
    /\ tx[u].phase # "idle" => (tx[u].kind = "install" <=> tx[u].phase \in Install)
    /\ tx[u].kind = "auto" => tx[u].policy = "keep"
    /\ tx[u].phase \in Swapping \cup {"rescan"} /\ tx[u].kind = "auto"
          => rec.policy # "pinned"

ShapePart(u) ==
    /\ tx[u].phase \notin Swapping => tx[u].aside = Empty /\ tx[u].n = 1
    /\ tx[u].phase = "aside" =>
          \A e \in Entries : IF e < tx[u].n THEN tree[e] = Gone
                                            ELSE tx[u].aside[e] = Gone
    /\ tx[u].phase = "in" =>
          \A e \in Entries : tree[e] = IF e < tx[u].n THEN tx[u].staged ELSE Gone
    /\ tx[u].phase \in {"probe", "record", "finalize"} => tree = Whole(tx[u].staged)
    /\ tx[u].phase = "irecord" => tree = Whole(tx[u].to)
    /\ tx[u].phase = "finalize" => rec.release = tx[u].staged
    /\ tx[u].phase \in Swap \cup {"rescan"} => tx[u].staged # rec.release
    /\ tx[u].phase \in {"fetch", "irecord"} => "install" \in damage

QuietPart(u) ==
    /\ \/ tx[u].phase \in {"fetch", "irecord"}
       \/ Transactional /\ tx[u].phase \in {"stage", "staged", "rescan"} \cup Swapping
       => ~ProcessLive
    /\ \/ tx[u].phase \in Install
       \/ Transactional /\ tx[u].phase \notin {"idle", "resolve"}
       => ~LeaseLive

\* Undoing the swap brings a sound tree back.
UndoPart(u) ==
    tx[u].phase \in Swap /\ damage = {} => Restored(u, {}) = Whole(rec.release)

TxOK(u) ==
    LockPart(u) /\ CopyPart(u) /\ ShapePart(u) /\ QuietPart(u) /\ UndoPart(u)

Sound ==
    (\A u \in Updaters : tx[u].phase \notin Swap) /\ damage = {}
        => tree = Whole(rec.release)

StateOK == NoSwapUnderProcess /\ PolicySurvives /\ NothingErased /\ Sound

\* The inductive invariant.
UpdateInv == TypeOK /\ (\A u \in Updaters : TxOK(u)) /\ StateOK
-----------------------------------------------------------------------------
(* The transaction of a process that is not in one, and the frame of a     *)
(* step of another process.                                                *)

LEMMA NoTransactionFacts ==
  /\ NoTransaction \in Transaction
  /\ NoTransaction.phase = "idle" /\ NoTransaction.aside = Empty
  /\ NoTransaction.n = 1
  /\ NoTransaction.kind = "manual" /\ NoTransaction.policy = "keep"
  /\ Empty \in Trees /\ Gone \notin Releases
<1>1. Empty \in Trees /\ Gone \notin Releases
  BY ReleasesAssumption DEF Empty, Trees
<1>2. 1 \in 1 .. NumEntries + 1
  BY EntriesAssumption
<1> QED
  BY <1>1, <1>2 DEF NoTransaction, Transaction, Phases, Kinds, Policies, SomeRelease

\* The owner of the lock is alone; nobody is in a transaction without it.
LEMMA Alone ==
  ASSUME UpdateInv, NEW u \in Updaters, tx[u].phase # "idle" \/ Unlocked
  PROVE  \A v \in Updaters \ {u} : tx[v] = NoTransaction
BY LockAssumption DEF UpdateInv, TxOK, LockPart, Unlocked

LEMMA AllIdle ==
  ASSUME UpdateInv, Unlocked
  PROVE  \A v \in Updaters : tx[v] = NoTransaction
BY LockAssumption DEF UpdateInv, TxOK, LockPart, Unlocked

LEMMA IdleOK ==
  ASSUME NEW v \in Updaters, tx[v] = NoTransaction
  PROVE  TxOK(v)
BY NoTransactionFacts DEF TxOK, LockPart, CopyPart, ShapePart, QuietPart,
   UndoPart, Swapping, Swap, Install

LEMMA IdleNextOK ==
  ASSUME NEW v \in Updaters, tx'[v] = NoTransaction
  PROVE  TxOK(v)'
BY NoTransactionFacts DEF TxOK, LockPart, CopyPart, ShapePart, QuietPart,
   UndoPart, Swapping, Swap, Install

\* A step of u that keeps or takes the lock changes no other transaction.
LEMMA StepOK ==
  ASSUME UpdateInv, NEW u \in Updaters, tx[u].phase # "idle" \/ Unlocked,
         NEW r \in Transaction, tx' = [tx EXCEPT ![u] = r],
         TypeOK', TxOK(u)', StateOK'
  PROVE  UpdateInv'
<1>1. \A v \in Updaters \ {u} : tx'[v] = tx[v]
  BY DEF UpdateInv, TypeOK
<1>2. \A v \in Updaters \ {u} : tx'[v] = NoTransaction
  BY <1>1, Alone
<1>3. \A v \in Updaters \ {u} : TxOK(v)'
  BY <1>2, IdleNextOK
<1> QED BY <1>3 DEF UpdateInv

\* What a step that only moves a transaction to phase p does to it.
LEMMA GotoFacts ==
  ASSUME TypeOK, NEW u \in Updaters, NEW p \in Phases, Goto(u, p)
  PROVE  /\ [tx[u] EXCEPT !.phase = p] \in Transaction
         /\ tx' = [tx EXCEPT ![u] = [tx[u] EXCEPT !.phase = p]]
         /\ tx' \in [Updaters -> Transaction]
         /\ \A v \in Updaters \ {u} : tx'[v] = tx[v]
         /\ tx'[u].phase = p /\ tx'[u].kind = tx[u].kind /\ tx'[u].to = tx[u].to
         /\ tx'[u].policy = tx[u].policy /\ tx'[u].copy = tx[u].copy
         /\ tx'[u].staged = tx[u].staged /\ tx'[u].aside = tx[u].aside
         /\ tx'[u].n = tx[u].n
<1>1. tx \in [Updaters -> Transaction] /\ tx[u] \in Transaction
  BY DEF TypeOK
<1>2. tx' = [tx EXCEPT ![u] = [tx[u] EXCEPT !.phase = p]]
  BY <1>1 DEF Goto
<1>3. [tx[u] EXCEPT !.phase = p] \in Transaction
  BY <1>1 DEF Transaction
<1> QED BY <1>1, <1>2, <1>3 DEF Transaction

LEMMA StepType ==
  ASSUME TypeOK, NEW u \in Updaters, NEW r \in Transaction,
         tx' = [tx EXCEPT ![u] = r],
         r.phase # "idle" => r.to # Gone /\ r.copy \in Records,
         r.phase \in {"staged", "rescan"} \cup Swapping => r.staged # Gone,
         UNCHANGED <<autoOn, launcher, child>>,
         lock' \in Updaters \cup {Free, Stale}, faults' \in 0 .. MaxFaults,
         orphans' \subseteq Trees,
         rec' \in Records, tree' \in Trees, wanted' \in Policies,
         damage' \subseteq {"crash", "undo", "install"}
  PROVE  TypeOK'
<1>1. tx' \in [Updaters -> Transaction] /\ tx'[u] = r
      /\ \A v \in Updaters \ {u} : tx'[v] = tx[v]
  BY DEF TypeOK
<1>2. \A v \in Updaters :
        /\ tx'[v].phase # "idle" => tx'[v].to # Gone /\ tx'[v].copy \in Records
        /\ tx'[v].phase \in {"staged", "rescan"} \cup Swapping
              => tx'[v].staged # Gone
  <2>1. TAKE v \in Updaters
  <2>2. CASE v = u
    BY <1>1, <2>2
  <2>3. CASE v # u
    <3>1. tx'[v] = tx[v]
      BY <1>1, <2>3
    <3> QED BY <3>1 DEF TypeOK
  <2> QED BY <2>2, <2>3
<1> QED BY <1>1, <1>2 DEF TypeOK

LEMMA GotoType ==
  ASSUME TypeOK, NEW u \in Updaters, NEW p \in Phases, Goto(u, p),
         tx[u].phase # "idle",
         p \in {"staged", "rescan"} \cup Swapping => tx[u].staged # Gone,
         UNCHANGED <<lock, autoOn, orphans, launcher, child, faults>>,
         rec' \in Records, tree' \in Trees, wanted' \in Policies,
         damage' \subseteq {"crash", "undo", "install"}
  PROVE  TypeOK'
<1>1. \A v \in Updaters :
        /\ tx'[v].phase # "idle" => tx'[v].to # Gone /\ tx'[v].copy \in Records
        /\ tx'[v].phase \in {"staged", "rescan"} \cup Swapping
              => tx'[v].staged # Gone
  <2>1. TAKE v \in Updaters
  <2>2. CASE v = u
    <3>1. tx[u].to # Gone /\ tx[u].copy \in Records
      BY DEF TypeOK
    <3>2. tx'[u].phase = p /\ tx'[u].to = tx[u].to /\ tx'[u].copy = tx[u].copy
          /\ tx'[u].staged = tx[u].staged
      BY GotoFacts
    <3> QED BY <2>2, <3>1, <3>2
  <2>3. CASE v # u
    <3>1. tx'[v] = tx[v]
      BY <2>3, GotoFacts
    <3> QED BY <3>1 DEF TypeOK
  <2> QED BY <2>2, <2>3
<1> QED BY <1>1, GotoFacts DEF TypeOK

LEMMA FinishFacts ==
  ASSUME TypeOK, NEW u \in Updaters, Finish(u)
  PROVE  /\ tx' = [tx EXCEPT ![u] = NoTransaction]
         /\ tx' \in [Updaters -> Transaction]
         /\ tx'[u] = NoTransaction
         /\ lock' \in Updaters \cup {Free, Stale}
         /\ \A v \in Updaters \ {u} : tx'[v] = tx[v]
BY NoTransactionFacts DEF TypeOK, Finish

\* A transaction that ends has nothing left to hold; the state must be sound.
LEMMA EndOK ==
  ASSUME UpdateInv, NEW u \in Updaters, tx[u].phase # "idle",
         tx' = [tx EXCEPT ![u] = NoTransaction],
         TypeOK', StateOK'
  PROVE  UpdateInv'
<1>1. tx'[u] = NoTransaction
  BY DEF UpdateInv, TypeOK
<1>2. TxOK(u)'
  BY <1>1, IdleNextOK
<1> QED BY <1>2, StepOK, NoTransactionFacts

LEMMA BeginUpdateStep ==
  ASSUME UpdateInv, NEW u \in Updaters, BeginUpdate(u)
  PROVE  UpdateInv'
<1>1. PICK k \in {"auto", "manual"}, r \in Releases, p \in Policies \cup {"keep"} :
         /\ Asked(k, p)
         /\ tx' = [tx EXCEPT ![u] = [NoTransaction EXCEPT
                      !.phase = "resolve", !.kind = k, !.to = r,
                      !.policy = p, !.copy = rec]]
  BY DEF BeginUpdate
<1> DEFINE t == [NoTransaction EXCEPT !.phase = "resolve", !.kind = k, !.to = r,
                                      !.policy = p, !.copy = rec]
<1>2. rec \in Records /\ tx \in [Updaters -> Transaction]
  BY DEF UpdateInv, TypeOK
<1>3. /\ t \in Transaction /\ t.phase = "resolve" /\ t.kind = k /\ t.to = r
      /\ t.policy = p /\ t.copy = rec /\ t.aside = Empty /\ t.n = 1
  BY <1>2, NoTransactionFacts DEF NoTransaction, Transaction, Phases, Kinds,
     SomeRelease, Records
<1>4. tx'[u] = t /\ tx' \in [Updaters -> Transaction]
      /\ \A v \in Updaters \ {u} : tx'[v] = tx[v]
  BY <1>1, <1>2, <1>3
<1>5. TypeOK'
  BY <1>3, <1>4, ReleasesAssumption DEF UpdateInv, TypeOK, BeginUpdate, Swapping, Records
<1>6. TxOK(u)'
  BY <1>1, <1>3, <1>4 DEF BeginUpdate, TxOK, LockPart, CopyPart, ShapePart,
     QuietPart, UndoPart, Swapping, Swap, Install, Asked
<1>7. \A v \in Updaters : tx[v] = NoTransaction
  BY AllIdle DEF BeginUpdate
<1>8. \A v \in Updaters : tx'[v].aside = tx[v].aside /\ tx'[v].phase \notin Swap
  BY <1>3, <1>4, <1>7, NoTransactionFacts DEF Swap
<1>9. StateOK'
  BY <1>7, <1>8, NoTransactionFacts DEF UpdateInv, StateOK, BeginUpdate,
     NoSwapUnderProcess, PolicySurvives, NothingErased, Kept, Sound, Swap
<1> QED BY <1>1, <1>3, <1>5, <1>6, <1>9, StepOK DEF BeginUpdate

-----------------------------------------------------------------------------
(* Steps that leave the directory, the record and the launches alone.      *)

LEMMA FrameState ==
  ASSUME UpdateInv, NEW u \in Updaters,
         UNCHANGED <<rec, tree, orphans, child, damage, wanted>>,
         \A v \in Updaters \ {u} : tx'[v] = tx[v],
         tx'[u].aside = tx[u].aside,
         tx[u].phase \in Swap => tx'[u].phase \in Swap
  PROVE  StateOK'
<1>1. \A v \in Updaters : tx'[v].aside = tx[v].aside
                          /\ (tx[v].phase \in Swap => tx'[v].phase \in Swap)
  OBVIOUS
<1> QED BY <1>1 DEF UpdateInv, StateOK, NoSwapUnderProcess, PolicySurvives,
           NothingErased, Kept, Sound

\* Ending a transaction outside the swap: its rollback material is gone.
LEMMA EndState ==
  ASSUME UpdateInv, NEW u \in Updaters,
         UNCHANGED <<rec, tree, orphans, child, damage, wanted>>,
         tx' = [tx EXCEPT ![u] = NoTransaction],
         tx[u].phase \notin Swap
  PROVE  StateOK'
<1>1. tx'[u] = NoTransaction /\ \A v \in Updaters \ {u} : tx'[v] = tx[v]
  BY DEF UpdateInv, TypeOK
<1>2. \A v \in Updaters : tx[v].phase \in Swap => tx'[v].phase \in Swap
  BY <1>1
<1>3. NothingErased'
  <2>1. SUFFICES ASSUME "install" \notin damage', NEW e \in Entries PROVE Kept(e)'
    BY DEF NothingErased
  <2>2. Kept(e)
    BY <2>1 DEF UpdateInv, StateOK, NothingErased
  <2>3. CASE tree[e] = rec.release
    BY <2>3 DEF Kept
  <2>4. CASE \E o \in orphans : o[e] = rec.release
    BY <2>4 DEF Kept
  <2>5. CASE \E v \in Updaters : tx[v].aside[e] = rec.release
    <3>1. PICK v \in Updaters : tx[v].aside[e] = rec.release
      BY <2>5
    <3>2. CASE v # u
      BY <1>1, <3>1, <3>2 DEF Kept
    <3>3. CASE v = u /\ tx[u].phase = "finalize"
      <4>1. tree = Whole(tx[u].staged) /\ rec.release = tx[u].staged
        BY <3>3 DEF UpdateInv, TxOK, ShapePart
      <4> QED BY <4>1 DEF Kept, Whole
    <3>4. CASE v = u /\ tx[u].phase # "finalize"
      <4>1. tx[u].aside = Empty
        BY <3>4 DEF UpdateInv, TxOK, ShapePart, Swapping, Swap
      <4>2. rec.release = Gone
        BY <3>1, <3>4, <4>1 DEF Empty
      <4> QED BY <4>2, NoTransactionFacts DEF UpdateInv, TypeOK, Records
    <3> QED BY <3>2, <3>3, <3>4
  <2> QED BY <2>2, <2>3, <2>4, <2>5 DEF Kept
<1> QED BY <1>2, <1>3 DEF UpdateInv, StateOK, NoSwapUnderProcess, PolicySurvives, Sound

LEMMA EndStep ==
  ASSUME UpdateInv, NEW u \in Updaters, Finish(u), tx[u].phase \notin Swap \cup {"idle"},
         UNCHANGED <<rec, tree, orphans, child, damage, wanted, autoOn, launcher, faults>>
  PROVE  UpdateInv'
<1>1. TypeOK
  BY DEF UpdateInv
<1>2. TypeOK'
  BY <1>1, FinishFacts, NoTransactionFacts DEF TypeOK, Swapping
<1>3. tx' = [tx EXCEPT ![u] = NoTransaction]
  BY DEF Finish
<1>4. StateOK'
  BY <1>3, EndState
<1> QED BY <1>2, <1>3, <1>4, EndOK

LEMMA GiveUpStep ==
  ASSUME UpdateInv, NEW u \in Updaters,
         GiveUp(u) \/ Finalize(u) \/ InstallUnrecorded(u)
  PROVE  UpdateInv'
BY EndStep DEF GiveUp, Finalize, InstallUnrecorded, Swap

LEMMA ResolveStep ==
  ASSUME UpdateInv, NEW u \in Updaters, Resolve(u)
  PROVE  UpdateInv'
<1>1. PICK p \in {"scan", "stage"} : Goto(u, p) /\ (Transactional => p = "scan")
  BY DEF Resolve
<1>2. TypeOK /\ p \in Phases
  BY DEF UpdateInv, Phases
<1>3. TypeOK'
  BY <1>1, <1>2, GotoType DEF TypeOK, Swapping, Resolve
<1>4. TxOK(u)'
  <2>1. TxOK(u)
    BY DEF UpdateInv
  <2>2. LockPart(u)' /\ CopyPart(u)'
    BY <1>1, <1>2, <2>1, GotoFacts DEF TxOK, LockPart, CopyPart, Resolve,
       Swapping, Install
  <2>3. ShapePart(u)' /\ UndoPart(u)'
    BY <1>1, <1>2, <2>1, GotoFacts DEF TxOK, ShapePart, UndoPart, Resolve,
       Swapping, Swap
  <2>4. QuietPart(u)'
    BY <1>1, <1>2, GotoFacts DEF QuietPart, Resolve, Swapping, Install,
       MayProceed, LeaseLive
  <2> QED BY <2>2, <2>3, <2>4 DEF TxOK
<1>5. StateOK'
  BY <1>1, <1>2, GotoFacts, FrameState DEF Resolve, Swap
<1> QED BY <1>1, <1>2, <1>3, <1>4, <1>5, GotoFacts, StepOK DEF Resolve

\* Entering the swap: undoing nothing gives the tree as it is, which is sound.
LEMMA SwapStarts ==
  ASSUME UpdateInv, NEW u \in Updaters, tx[u].phase \in {"staged", "rescan"},
         tx'[u].phase = "aside", tx'[u].aside = tx[u].aside, tx'[u].n = tx[u].n,
         UNCHANGED <<rec, tree, damage>>
  PROVE  /\ \A e \in Entries : tx'[u].aside[e] = Gone /\ ~(e < tx'[u].n)
         /\ UndoPart(u)'
<1>1. tx'[u].aside = Empty /\ tx'[u].n = 1
  BY DEF UpdateInv, TxOK, ShapePart, Swapping
<1>2. \A e \in Entries : tx'[u].aside[e] = Gone /\ ~(e < tx'[u].n)
  BY <1>1, EntriesAssumption DEF Empty, Entries
<1>3. Restored(u, {})' = [e \in Entries |-> tree[e]]
  BY <1>2 DEF Restored, Displaced, StagedIn
<1>4. tree = [e \in Entries |-> tree[e]]
  BY DEF UpdateInv, TypeOK, Trees
<1>5. \A v \in Updaters : tx[v].phase \notin Swap
  BY Alone, NoTransactionFacts DEF Swap
<1>6. damage = {} => tree = Whole(rec.release)
  BY <1>5 DEF UpdateInv, StateOK, Sound
<1> QED BY <1>2, <1>3, <1>4, <1>6 DEF UndoPart, Whole

LEMMA RecheckStep ==
  ASSUME UpdateInv, NEW u \in Updaters, Recheck(u)
  PROVE  UpdateInv'
<1>1. PICK p \in {"rescan", "aside"} : Goto(u, p) /\ (Transactional => p = "rescan")
  BY DEF Recheck
<1>2. TypeOK /\ p \in Phases
  BY DEF UpdateInv, Phases
<1>3. TypeOK'
  BY <1>1, <1>2, GotoType DEF TypeOK, Swapping, Recheck
<1>4. TxOK(u)'
  <2>1. TxOK(u)
    BY DEF UpdateInv
  <2>2. LockPart(u)' /\ CopyPart(u)'
    BY <1>1, <1>2, <2>1, GotoFacts DEF TxOK, LockPart, CopyPart, Recheck,
       Swapping, Install, AutoMayRun
  <2>3. ShapePart(u)'
    BY <1>1, <1>2, <2>1, <2>2, GotoFacts, SwapStarts DEF TxOK, ShapePart, CopyPart,
       Recheck, Swapping, Swap, Install
  <2>4. UndoPart(u)'
    BY <1>1, <1>2, GotoFacts, SwapStarts DEF UndoPart, Recheck, Swap
  <2>5. QuietPart(u)'
    BY <1>1, <1>2, <2>1, GotoFacts DEF TxOK, QuietPart, Recheck, Swapping,
       Install, MayProceed, LeaseLive, ProcessLive
  <2> QED BY <2>2, <2>3, <2>4, <2>5 DEF TxOK
<1>5. StateOK'
  BY <1>1, <1>2, GotoFacts, FrameState DEF Recheck, Swap
<1> QED BY <1>1, <1>2, <1>3, <1>4, <1>5, GotoFacts, StepOK DEF Recheck

LEMMA StageStep ==
  ASSUME UpdateInv, NEW u \in Updaters, Stage(u)
  PROVE  UpdateInv'
<1>1. tx[u] \in Transaction /\ tx \in [Updaters -> Transaction]
      /\ tx[u].to # Gone /\ tx[u].phase = "stage"
  BY DEF UpdateInv, TypeOK, Stage
<1>2. PICK r \in Releases :
         tx' = [tx EXCEPT ![u].phase = "staged", ![u].staged = r]
  BY <1>1 DEF Stage, Transaction, SomeRelease
<1> DEFINE t == [tx[u] EXCEPT !.phase = "staged", !.staged = r]
<1>3. /\ t \in Transaction /\ t.phase = "staged" /\ t.staged = r
      /\ t.kind = tx[u].kind /\ t.to = tx[u].to /\ t.policy = tx[u].policy
      /\ t.copy = tx[u].copy /\ t.aside = tx[u].aside /\ t.n = tx[u].n
  BY <1>1 DEF Transaction, Phases, SomeRelease
<1>4. tx' = [tx EXCEPT ![u] = t]
  BY <1>1, <1>2
<1>5. tx'[u] = t /\ tx' \in [Updaters -> Transaction]
      /\ \A v \in Updaters \ {u} : tx'[v] = tx[v]
  BY <1>1, <1>3, <1>4
<1>6. TypeOK'
  BY <1>1, <1>3, <1>5, ReleasesAssumption DEF UpdateInv, TypeOK, Stage, Swapping
<1>7. TxOK(u)'
  <2>1. TxOK(u)
    BY DEF UpdateInv
  <2>2. LockPart(u)' /\ CopyPart(u)'
    BY <1>1, <1>3, <1>5, <2>1 DEF TxOK, LockPart, CopyPart, Stage, Swapping, Install
  <2>3. ShapePart(u)' /\ UndoPart(u)'
    BY <1>1, <1>3, <1>5, <2>1 DEF TxOK, ShapePart, UndoPart, Stage, Swapping, Swap
  <2>4. QuietPart(u)'
    BY <1>1, <1>3, <1>5, <2>1 DEF TxOK, QuietPart, Stage, Swapping, Install,
       LeaseLive, ProcessLive
  <2> QED BY <2>2, <2>3, <2>4 DEF TxOK
<1>8. StateOK'
  BY <1>1, <1>3, <1>5, FrameState DEF Stage, Swap
<1> QED BY <1>1, <1>3, <1>4, <1>6, <1>7, <1>8, StepOK

\* A process-table scan that finds nothing, outside a swap: what was known
\* quiet stays so, and no child is left to disturb.
LEMMA ScanStep ==
  ASSUME UpdateInv, NEW u \in Updaters, Scan(u)
  PROVE  UpdateInv'
<1>1. PICK p \in {"stage", "aside", "fetch"} :
         /\ Goto(u, p)
         /\ p = "stage" => tx[u].phase = "scan"
         /\ p = "aside" => tx[u].phase = "rescan"
         /\ p = "fetch" => tx[u].phase = "iscan"
  BY DEF Scan
<1>2. TypeOK /\ p \in Phases
  BY DEF UpdateInv, Phases
<1>3. damage' = damage \cup IF p = "fetch" THEN {"install"} ELSE {}
  BY <1>1 DEF Scan
<1>4. TypeOK'
  <2>1. p \in {"staged", "rescan"} \cup Swapping => tx[u].staged # Gone
    BY <1>1, <1>2 DEF TypeOK, Swapping
  <2> QED BY <1>1, <1>2, <1>3, <2>1, GotoType DEF TypeOK, Scan
<1>5. TxOK(u)'
  <2>1. TxOK(u)
    BY DEF UpdateInv
  <2>2. LockPart(u)' /\ CopyPart(u)'
    <3>1. tx[u].phase \in {"scan", "rescan", "iscan"} /\ UNCHANGED <<rec, lock>>
      BY DEF Scan
    <3> QED BY <1>1, <1>2, <2>1, <3>1, GotoFacts DEF TxOK, LockPart, CopyPart,
            Swapping, Install
  <2>3. ASSUME p = "aside" PROVE ShapePart(u)' /\ UndoPart(u)'
    <3>1. tx[u].staged # rec.release
      BY <1>1, <1>2, <2>1, <2>3 DEF TxOK, ShapePart
    <3>2. UNCHANGED <<rec, tree, damage>>
      BY <1>3, <2>3 DEF Scan
    <3>3. tx[u].phase = "rescan" /\ tx'[u].phase = "aside"
          /\ tx'[u].aside = tx[u].aside /\ tx'[u].n = tx[u].n
          /\ tx'[u].staged = tx[u].staged
      BY <1>1, <1>2, <2>3, GotoFacts
    <3>4. UndoPart(u)' /\ \A e \in Entries : tx'[u].aside[e] = Gone /\ ~(e < tx'[u].n)
      BY <3>2, <3>3, SwapStarts
    <3>5. ShapePart(u)'
      BY <3>1, <3>2, <3>3, <3>4 DEF ShapePart, Swapping, Swap
    <3> QED BY <3>4, <3>5
  <2>4. ASSUME p # "aside" PROVE ShapePart(u)' /\ UndoPart(u)'
    <3>1. /\ tx[u].phase \in {"scan", "iscan"} /\ tx'[u].phase \in {"stage", "fetch"}
          /\ tx'[u].aside = tx[u].aside /\ tx'[u].n = tx[u].n
      BY <1>1, <1>2, <2>4, GotoFacts
    <3>2. tx'[u].phase = "fetch" => "install" \in damage'
      BY <1>1, <1>2, <1>3, GotoFacts
    <3> QED BY <2>1, <3>1, <3>2 DEF TxOK, ShapePart, UndoPart, Swapping, Swap
  <2>5. QuietPart(u)'
    BY <1>1, <1>2, <2>1, GotoFacts DEF TxOK, QuietPart, Scan, Swapping,
       Install, LeaseLive, ProcessLive
  <2> QED BY <2>2, <2>3, <2>4, <2>5 DEF TxOK
<1>6. StateOK'
  <2>1. CASE p # "fetch"
    BY <1>1, <1>2, <1>3, <2>1, GotoFacts, FrameState DEF Scan, Swap
  <2>2. CASE p = "fetch"
    BY <1>1, <1>2, <1>3, <2>2, GotoFacts DEF UpdateInv, StateOK, Scan,
       NoSwapUnderProcess, PolicySurvives, NothingErased, Sound
  <2> QED BY <2>1, <2>2
<1> QED BY <1>1, <1>2, <1>4, <1>5, <1>6, GotoFacts, StepOK DEF Scan

LEMMA BeginInstallStep ==
  ASSUME UpdateInv, NEW u \in Updaters, BeginInstall(u)
  PROVE  UpdateInv'
<1>1. PICK r \in Releases :
         tx' = [tx EXCEPT ![u] = [NoTransaction EXCEPT
                      !.phase = "iscan", !.kind = "install", !.to = r, !.copy = rec]]
  BY DEF BeginInstall
<1> DEFINE t == [NoTransaction EXCEPT !.phase = "iscan", !.kind = "install",
                                      !.to = r, !.copy = rec]
<1>2. rec \in Records /\ tx \in [Updaters -> Transaction]
  BY DEF UpdateInv, TypeOK
<1>3. /\ t \in Transaction /\ t.phase = "iscan" /\ t.kind = "install" /\ t.to = r
      /\ t.policy = "keep" /\ t.copy = rec /\ t.aside = Empty /\ t.n = 1
  BY <1>2, NoTransactionFacts DEF NoTransaction, Transaction, Phases, Kinds,
     SomeRelease, Records
<1>4. tx'[u] = t /\ tx' \in [Updaters -> Transaction]
      /\ \A v \in Updaters \ {u} : tx'[v] = tx[v]
  BY <1>1, <1>2, <1>3
<1>5. TypeOK'
  BY <1>3, <1>4, ReleasesAssumption DEF UpdateInv, TypeOK, BeginInstall, Swapping, Records
<1>6. TxOK(u)'
  BY <1>1, <1>3, <1>4 DEF BeginInstall, TxOK, LockPart, CopyPart, ShapePart,
     QuietPart, UndoPart, Swapping, Swap, Install, LeaseLive
<1>7. tx[u] = NoTransaction
  BY AllIdle DEF BeginInstall
<1>8. StateOK'
  BY <1>3, <1>4, <1>7, NoTransactionFacts, FrameState DEF BeginInstall, Swap
<1> QED BY <1>1, <1>3, <1>5, <1>6, <1>8, StepOK DEF BeginInstall

\* The record is rewritten with the copy's release, which is its own.
LEMMA AlreadyCurrentStep ==
  ASSUME UpdateInv, NEW u \in Updaters, AlreadyCurrent(u)
  PROVE  UpdateInv'
<1>1. TypeOK /\ TxOK(u) /\ tx[u].phase \in {"resolve", "staged"}
  BY DEF UpdateInv, AlreadyCurrent
<1>2. tx[u].copy = rec /\ rec \in Records /\ tx[u] \in Transaction
  BY <1>1 DEF TxOK, CopyPart, Install, TypeOK
<1>3. /\ rec' \in Records /\ rec'.release = rec.release
      /\ rec'.policy = IF tx[u].policy = "keep" THEN rec.policy ELSE tx[u].policy
      /\ wanted' \in Policies
  BY <1>1, <1>2 DEF AlreadyCurrent, Records, Transaction, TypeOK
<1>4. tx' = [tx EXCEPT ![u] = NoTransaction]
  BY DEF AlreadyCurrent, Finish
<1>5. TypeOK'
  BY <1>1, <1>3, FinishFacts, NoTransactionFacts DEF TypeOK, AlreadyCurrent, Swapping
<1>6. tx[u].aside = Empty
  BY <1>1 DEF TxOK, ShapePart, Swapping
<1>7. \A v \in Updaters : tx'[v].aside = tx[v].aside
                          /\ (tx[v].phase \in Swap => tx'[v].phase \in Swap)
  BY <1>1, <1>6, FinishFacts, NoTransactionFacts DEF AlreadyCurrent, Swap
<1>8. StateOK'
  <2>1. UNCHANGED <<tree, orphans, child, damage>>
    BY DEF AlreadyCurrent
  <2>2. PolicySurvives'
    BY <1>3 DEF UpdateInv, StateOK, PolicySurvives, AlreadyCurrent
  <2>3. NothingErased' /\ Sound' /\ NoSwapUnderProcess'
    BY <1>3, <1>7, <2>1 DEF UpdateInv, StateOK, NothingErased, Kept, Sound,
       NoSwapUnderProcess
  <2> QED BY <2>2, <2>3 DEF StateOK
<1> QED BY <1>1, <1>4, <1>5, <1>8, EndOK

LEMMA SetPolicyStep ==
  ASSUME UpdateInv, NEW p \in Policies, SetPolicy(p)
  PROVE  UpdateInv'
<1>1. \A v \in Updaters : tx'[v] = NoTransaction
  BY AllIdle DEF SetPolicy
<1>2. rec' \in Records /\ rec'.release = rec.release /\ rec'.policy = p /\ wanted' = p
  BY DEF UpdateInv, TypeOK, SetPolicy, Records
<1>3. TypeOK'
  BY <1>2 DEF UpdateInv, TypeOK, SetPolicy
<1>4. StateOK'
  BY <1>2 DEF UpdateInv, StateOK, SetPolicy, NoSwapUnderProcess, PolicySurvives,
     NothingErased, Kept, Sound
<1> QED BY <1>1, <1>3, <1>4, IdleNextOK DEF UpdateInv

LEMMA ToggleAutoStep ==
  ASSUME UpdateInv, ToggleAuto
  PROVE  UpdateInv'
<1>1. TypeOK'
  BY DEF UpdateInv, TypeOK, ToggleAuto
<1>2. \A u \in Updaters : TxOK(u)'
  BY DEF UpdateInv, ToggleAuto, TxOK, LockPart, CopyPart, ShapePart, QuietPart,
     UndoPart, ProcessLive, LeaseLive, Restored, Displaced, StagedIn
<1>3. StateOK'
  BY DEF UpdateInv, ToggleAuto, StateOK, NoSwapUnderProcess, PolicySurvives,
     NothingErased, Kept, Sound
<1> QED BY <1>1, <1>2, <1>3 DEF UpdateInv

-----------------------------------------------------------------------------
(* Launches.                                                               *)

LEMMA LeaseStep ==
  ASSUME UpdateInv, NEW l \in Launchers, Lease(l)
  PROVE  UpdateInv'
<1>1. \A v \in Updaters : tx'[v] = NoTransaction
  BY AllIdle DEF Lease
<1>2. TypeOK'
  BY DEF UpdateInv, TypeOK, Lease
<1>3. StateOK'
  BY DEF UpdateInv, StateOK, Lease, NoSwapUnderProcess, PolicySurvives,
     NothingErased, Kept, Sound
<1> QED BY <1>1, <1>2, <1>3, IdleNextOK DEF UpdateInv

\* A step of a launcher keeps every transaction's part if it brings up no
\* lease and brings up a child only where a lease was.
LEMMA LaunchFrame ==
  ASSUME UpdateInv, UNCHANGED <<rec, tree, lock, autoOn, tx, orphans, damage,
                                wanted, faults>>,
         TypeOK',
         LeaseLive' => LeaseLive,
         ProcessLive' => ProcessLive \/ LeaseLive,
         NoSwapUnderProcess'
  PROVE  UpdateInv'
<1>1. ASSUME NEW u \in Updaters PROVE TxOK(u)'
  <2>1. TxOK(u)
    BY DEF UpdateInv
  <2>2. LockPart(u)' /\ CopyPart(u)' /\ ShapePart(u)' /\ UndoPart(u)'
    BY <2>1 DEF TxOK, LockPart, CopyPart, ShapePart, UndoPart, Restored,
       Displaced, StagedIn
  <2>3. QuietPart(u)'
    BY <2>1 DEF TxOK, QuietPart, Swapping, Install
  <2> QED BY <2>2, <2>3 DEF TxOK
<1>2. StateOK'
  BY DEF UpdateInv, StateOK, PolicySurvives, NothingErased, Kept, Sound
<1> QED BY <1>1, <1>2 DEF UpdateInv

LEMMA SpawnStep ==
  ASSUME UpdateInv, NEW l \in Launchers, Spawn(l)
  PROVE  UpdateInv'
<1>1. TypeOK'
  BY DEF UpdateInv, TypeOK, Spawn
<1>2. LeaseLive
  BY DEF Spawn, LeaseLive
<1>3. NoSwapUnderProcess'
  BY DEF UpdateInv, TypeOK, StateOK, NoSwapUnderProcess, Spawn
<1> QED BY <1>1, <1>2, <1>3, LaunchFrame DEF Spawn

LEMMA ChildExitStep ==
  ASSUME UpdateInv, NEW l \in Launchers, ChildExit(l)
  PROVE  UpdateInv'
<1>1. TypeOK'
  BY DEF UpdateInv, TypeOK, ChildExit
<1>2. LeaseLive' => LeaseLive
  BY DEF UpdateInv, TypeOK, ChildExit, LeaseLive
<1>3. ProcessLive' => ProcessLive
  BY DEF UpdateInv, TypeOK, ChildExit, ProcessLive
<1>4. NoSwapUnderProcess'
  BY DEF UpdateInv, TypeOK, StateOK, NoSwapUnderProcess, ChildExit
<1> QED BY <1>1, <1>2, <1>3, <1>4, LaunchFrame DEF ChildExit

LEMMA LauncherDiesStep ==
  ASSUME UpdateInv, NEW l \in Launchers, LauncherDies(l)
  PROVE  UpdateInv'
<1>1. TypeOK'
  BY DEF UpdateInv, TypeOK, LauncherDies
<1>2. LeaseLive' => LeaseLive
  BY DEF UpdateInv, TypeOK, LauncherDies, LeaseLive
<1>3. ProcessLive' => ProcessLive
  BY DEF LauncherDies, ProcessLive
<1>4. NoSwapUnderProcess'
  BY DEF UpdateInv, StateOK, NoSwapUnderProcess, LauncherDies
<1> QED BY <1>1, <1>2, <1>3, <1>4, LaunchFrame DEF LauncherDies

-----------------------------------------------------------------------------
(* The swap.                                                               *)

\* In the swap no child runs (for a transactional strategy), the process owns
\* the lock, and the other processes are in no transaction.
LEMMA SwapFacts ==
  ASSUME UpdateInv, NEW u \in Updaters, tx[u].phase \in Swapping
  PROVE  /\ TxOK(u) /\ tx[u] \in Transaction /\ tx \in [Updaters -> Transaction]
         /\ tx[u].staged \in Releases /\ tree \in Trees /\ rec \in Records
         /\ rec.release \in Releases /\ rec.release # Gone
         /\ \A v \in Updaters \ {u} : tx[v] = NoTransaction
         /\ Transactional => \A l \in Launchers : child[l] = None
<1>1. TypeOK /\ TxOK(u) /\ tx[u] \in Transaction
  BY DEF UpdateInv, TypeOK
<1>2. tx[u].staged \in Releases
  BY <1>1 DEF TypeOK, Transaction, SomeRelease
<1>3. rec.release \in Releases /\ rec.release # Gone
  BY <1>1, ReleasesAssumption DEF TypeOK, Records
<1>4. Transactional => \A l \in Launchers : child[l] = None
  BY <1>1 DEF TxOK, QuietPart, ProcessLive
<1>5. \A v \in Updaters \ {u} : tx[v] = NoTransaction
  BY Alone DEF Swapping
<1> QED BY <1>1, <1>2, <1>3, <1>4, <1>5 DEF TypeOK

\* Keeping entry e of the recorded release through a step of u that leaves the
\* other transactions idle.
LEMMA KeptNext ==
  ASSUME UpdateInv, NEW u \in Updaters, tx[u].phase \in Swapping,
         NEW e \in Entries, Kept(e),
         UNCHANGED rec, orphans \subseteq orphans',
         tree[e] = rec.release => \/ tree'[e] = rec.release
                                  \/ tx'[u].aside[e] = rec.release,
         tx[u].aside[e] = rec.release
            => \/ tree'[e] = rec.release \/ tx'[u].aside[e] = rec.release
               \/ \E o \in orphans' : o[e] = rec.release
  PROVE  Kept(e)'
<1>1. \A v \in Updaters \ {u} : tx[v].aside[e] = Gone
  BY SwapFacts, NoTransactionFacts DEF Empty
<1>2. tree[e] = rec.release \/ tx[u].aside[e] = rec.release
      \/ \E o \in orphans : o[e] = rec.release
  BY <1>1, SwapFacts DEF Kept
<1> QED BY <1>2 DEF Kept

LEMMA MoveAsideStep ==
  ASSUME UpdateInv, NEW u \in Updaters, MoveAside(u)
  PROVE  UpdateInv'
<1> DEFINE e == tx[u].n
           t == [tx[u] EXCEPT !.aside[e] = tree[e], !.n = e + 1]
<1>1. tx[u].phase = "aside" /\ e \in Entries
      /\ UNCHANGED <<rec, lock, autoOn, orphans, launcher, child, damage, wanted, faults>>
  BY DEF MoveAside
<1>2. /\ TxOK(u) /\ tx[u] \in Transaction /\ tx \in [Updaters -> Transaction]
      /\ tree \in Trees /\ rec.release # Gone
      /\ \A v \in Updaters \ {u} : tx[v] = NoTransaction
      /\ Transactional => \A l \in Launchers : child[l] = None
  BY <1>1, SwapFacts DEF Swapping
<1>3. tx[u].aside \in Trees /\ e \in 1 .. NumEntries + 1
  BY <1>2 DEF Transaction
<1>4. [tx[u].aside EXCEPT ![e] = tree[e]] \in Trees /\ e + 1 \in 1 .. NumEntries + 1
  <2>1. tree[e] \in Releases \cup {Gone}
    BY <1>1, <1>2 DEF Trees
  <2>2. [tx[u].aside EXCEPT ![e] = tree[e]] \in Trees
    BY <1>3, <2>1 DEF Trees
  <2>3. e + 1 \in 1 .. NumEntries + 1
    BY <1>1, EntriesAssumption DEF Entries
  <2> QED BY <2>2, <2>3
<1>5. /\ t \in Transaction /\ t.phase = "aside" /\ t.kind = tx[u].kind
      /\ t.to = tx[u].to /\ t.policy = tx[u].policy /\ t.copy = tx[u].copy
      /\ t.staged = tx[u].staged /\ t.n = e + 1
      /\ t.aside = [tx[u].aside EXCEPT ![e] = tree[e]]
  BY <1>1, <1>2, <1>4 DEF Transaction
<1>6. tx' = [tx EXCEPT ![u] = t] /\ tree' = [tree EXCEPT ![e] = Gone]
  BY <1>2 DEF MoveAside
<1>7. tx'[u] = t /\ tx' \in [Updaters -> Transaction] /\ tree' \in Trees
      /\ \A v \in Updaters \ {u} : tx'[v] = tx[v]
  BY <1>2, <1>5, <1>6 DEF Trees
<1>8. TypeOK'
  <2>1. TypeOK /\ tx[u].to # Gone /\ tx[u].copy \in Records /\ tx[u].staged # Gone
    BY <1>1 DEF UpdateInv, TypeOK, Swapping
  <2> QED BY <1>1, <1>5, <1>6, <1>7, <2>1, StepType DEF TypeOK
<1>9. \A d \in Entries : IF d < e THEN tree[d] = Gone ELSE tx[u].aside[d] = Gone
  BY <1>1, <1>2 DEF TxOK, ShapePart
<1>10. \A d \in Entries : /\ tree'[d] = IF d = e THEN Gone ELSE tree[d]
                          /\ t.aside[d] = IF d = e THEN tree[d] ELSE tx[u].aside[d]
  BY <1>2, <1>3, <1>5, <1>6 DEF Trees
<1>11. TxOK(u)'
  <2>1. LockPart(u)' /\ CopyPart(u)'
    BY <1>1, <1>2, <1>5, <1>7 DEF TxOK, LockPart, CopyPart, Swapping, Install
  <2>2. \A d \in Entries : IF d < e + 1 THEN tree'[d] = Gone ELSE t.aside[d] = Gone
    BY <1>1, <1>9, <1>10 DEF Entries
  <2>3. ShapePart(u)'
    BY <1>1, <1>2, <1>5, <1>7, <2>2 DEF TxOK, ShapePart, Swapping, Swap
  <2>4. QuietPart(u)'
    BY <1>1, <1>2, <1>5, <1>7 DEF TxOK, QuietPart, Swapping, Install, LeaseLive,
       ProcessLive
  <2>5. Restored(u, {})' = Restored(u, {})
    <3>1. \A d \in Entries :
            (IF t.aside[d] # Gone THEN t.aside[d] ELSE tree'[d])
              = IF tx[u].aside[d] # Gone THEN tx[u].aside[d] ELSE tree[d]
      BY <1>1, <1>9, <1>10 DEF Entries
    <3>2. Restored(u, {}) = [d \in Entries |->
            IF tx[u].aside[d] # Gone THEN tx[u].aside[d] ELSE tree[d]]
      BY <1>1 DEF Restored, Displaced, StagedIn
    <3>3. Restored(u, {})' = [d \in Entries |->
            IF t.aside[d] # Gone THEN t.aside[d] ELSE tree'[d]]
      BY <1>5, <1>7 DEF Restored, Displaced, StagedIn
    <3> QED BY <3>1, <3>2, <3>3
  <2>6. UndoPart(u)'
    BY <1>1, <1>2, <2>5 DEF TxOK, UndoPart, Swap
  <2> QED BY <2>1, <2>3, <2>4, <2>6 DEF TxOK
<1>12. StateOK'
  <2>1. NothingErased'
    <3>1. SUFFICES ASSUME "install" \notin damage, NEW d \in Entries PROVE Kept(d)'
      BY <1>1 DEF NothingErased
    <3>2. Kept(d)
      BY <3>1 DEF UpdateInv, StateOK, NothingErased
    <3>3. tree[d] = rec.release => \/ tree'[d] = rec.release
                                   \/ tx'[u].aside[d] = rec.release
      BY <1>7, <1>10
    <3>4. tx[u].aside[d] = rec.release => tx'[u].aside[d] = rec.release
      <4>1. ~(e < e)
        BY <1>1 DEF Entries
      <4>2. tx[u].aside[e] = Gone
        BY <1>1, <1>9, <4>1
      <4> QED BY <1>2, <1>7, <1>10, <4>2
    <3>5. tx[u].phase \in Swapping /\ UNCHANGED rec /\ orphans \subseteq orphans'
      BY <1>1 DEF Swapping
    <3> QED BY <3>2, <3>3, <3>4, <3>5, KeptNext
  <2>2. NoSwapUnderProcess' /\ PolicySurvives' /\ Sound'
    BY <1>1, <1>2, <1>5, <1>7 DEF UpdateInv, StateOK, NoSwapUnderProcess,
       PolicySurvives, Sound, Swap
  <2> QED BY <2>1, <2>2 DEF StateOK
<1> QED BY <1>1, <1>5, <1>6, <1>8, <1>11, <1>12, StepOK

LEMMA AllAsideStep ==
  ASSUME UpdateInv, NEW u \in Updaters, AllAside(u)
  PROVE  UpdateInv'
<1> DEFINE t == [tx[u] EXCEPT !.phase = "in", !.n = 1]
<1>1. tx[u].phase = "aside" /\ tx[u].n = NumEntries + 1
      /\ UNCHANGED <<rec, tree, lock, autoOn, orphans, launcher, child, damage,
                     wanted, faults>>
  BY DEF AllAside
<1>2. /\ TxOK(u) /\ tx[u] \in Transaction /\ tx \in [Updaters -> Transaction]
      /\ tree \in Trees /\ \A v \in Updaters \ {u} : tx[v] = NoTransaction
  BY <1>1, SwapFacts DEF Swapping
<1>3. 1 \in 1 .. NumEntries + 1
  BY EntriesAssumption
<1>4. /\ t \in Transaction /\ t.phase = "in" /\ t.kind = tx[u].kind
      /\ t.to = tx[u].to /\ t.policy = tx[u].policy /\ t.copy = tx[u].copy
      /\ t.staged = tx[u].staged /\ t.n = 1 /\ t.aside = tx[u].aside
  BY <1>2, <1>3 DEF Transaction, Phases
<1>5. tx' = [tx EXCEPT ![u] = t]
  BY <1>2 DEF AllAside
<1>6. tx'[u] = t /\ \A v \in Updaters \ {u} : tx'[v] = tx[v]
  BY <1>2, <1>4, <1>5
<1>7. TypeOK'
  <2>1. TypeOK /\ tx[u].to # Gone /\ tx[u].copy \in Records /\ tx[u].staged # Gone
    BY <1>1 DEF UpdateInv, TypeOK, Swapping
  <2> QED BY <1>1, <1>4, <1>5, <2>1, StepType DEF TypeOK
<1>8. TxOK(u)'
  <2>1. LockPart(u)' /\ CopyPart(u)'
    BY <1>1, <1>2, <1>4, <1>6 DEF TxOK, LockPart, CopyPart, Swapping, Install
  <2>2. \A d \in Entries : tree[d] = Gone /\ d < NumEntries + 1 /\ ~(d < 1)
    BY <1>1, <1>2, EntriesAssumption DEF TxOK, ShapePart, Entries
  <2>3. ShapePart(u)'
    BY <1>1, <1>2, <1>4, <1>6, <2>2 DEF TxOK, ShapePart, Swapping, Swap
  <2>4. QuietPart(u)'
    BY <1>1, <1>2, <1>4, <1>6 DEF TxOK, QuietPart, Swapping, Install, LeaseLive,
       ProcessLive
  <2>5. StagedIn(u)' = {} /\ StagedIn(u) = {}
    BY <1>1, <1>4, <1>6 DEF StagedIn
  <2>6. UndoPart(u)'
    BY <1>1, <1>2, <1>4, <1>6, <2>5 DEF TxOK, UndoPart, Swap, Restored, Displaced
  <2> QED BY <2>1, <2>3, <2>4, <2>6 DEF TxOK
<1>9. StateOK'
  BY <1>1, <1>4, <1>6, FrameState DEF Swap
<1> QED BY <1>1, <1>4, <1>5, <1>7, <1>8, <1>9, StepOK

LEMMA MoveInStep ==
  ASSUME UpdateInv, NEW u \in Updaters, MoveIn(u)
  PROVE  UpdateInv'
<1> DEFINE e == tx[u].n
           t == [tx[u] EXCEPT !.n = e + 1]
<1>1. tx[u].phase = "in" /\ e \in Entries
      /\ UNCHANGED <<rec, lock, autoOn, orphans, launcher, child, damage, wanted, faults>>
  BY DEF MoveIn
<1>2. /\ TxOK(u) /\ tx[u] \in Transaction /\ tx \in [Updaters -> Transaction]
      /\ tree \in Trees /\ rec.release # Gone /\ tx[u].staged \in Releases
      /\ \A v \in Updaters \ {u} : tx[v] = NoTransaction
      /\ Transactional => \A l \in Launchers : child[l] = None
  BY <1>1, SwapFacts DEF Swapping
<1>3. e + 1 \in 1 .. NumEntries + 1
  BY <1>1, EntriesAssumption DEF Entries
<1>4. /\ t \in Transaction /\ t.phase = "in" /\ t.kind = tx[u].kind
      /\ t.to = tx[u].to /\ t.policy = tx[u].policy /\ t.copy = tx[u].copy
      /\ t.staged = tx[u].staged /\ t.n = e + 1 /\ t.aside = tx[u].aside
  BY <1>1, <1>2, <1>3 DEF Transaction
<1>5. tx' = [tx EXCEPT ![u] = t] /\ tree' = [tree EXCEPT ![e] = tx[u].staged]
  BY <1>2 DEF MoveIn
<1>6. tx'[u] = t /\ tree' \in Trees /\ \A v \in Updaters \ {u} : tx'[v] = tx[v]
  BY <1>2, <1>4, <1>5 DEF Trees
<1>7. TypeOK'
  <2>1. TypeOK /\ tx[u].to # Gone /\ tx[u].copy \in Records /\ tx[u].staged # Gone
    BY <1>1 DEF UpdateInv, TypeOK, Swapping
  <2> QED BY <1>1, <1>4, <1>5, <1>6, <2>1, StepType DEF TypeOK
<1>8. \A d \in Entries : /\ tree[d] = IF d < e THEN tx[u].staged ELSE Gone
                         /\ tree'[d] = IF d < e + 1 THEN tx[u].staged ELSE Gone
  <2>1. \A d \in Entries : tree'[d] = IF d = e THEN tx[u].staged ELSE tree[d]
    BY <1>2, <1>5 DEF Trees
  <2>2. \A d \in Entries : tree[d] = IF d < e THEN tx[u].staged ELSE Gone
    BY <1>1, <1>2 DEF TxOK, ShapePart
  <2> QED BY <1>1, <2>1, <2>2 DEF Entries
<1>9. TxOK(u)'
  <2>1. LockPart(u)' /\ CopyPart(u)'
    BY <1>1, <1>2, <1>4, <1>6 DEF TxOK, LockPart, CopyPart, Swapping, Install
  <2>3. ShapePart(u)'
    BY <1>1, <1>2, <1>4, <1>6, <1>8 DEF TxOK, ShapePart, Swapping, Swap
  <2>4. QuietPart(u)'
    BY <1>1, <1>2, <1>4, <1>6 DEF TxOK, QuietPart, Swapping, Install, LeaseLive,
       ProcessLive
  <2>5. Restored(u, {})' = Restored(u, {})
    <3>1. StagedIn(u) = 1 .. e - 1 /\ StagedIn(u)' = 1 .. (e + 1) - 1
      BY <1>1, <1>4, <1>6 DEF StagedIn
    <3>2. \A d \in Entries :
            (IF d \in StagedIn(u)' THEN Gone ELSE tree'[d])
              = IF d \in StagedIn(u) THEN Gone ELSE tree[d]
      BY <1>1, <1>8, <3>1 DEF Entries
    <3>3. Displaced(u)' = Displaced(u)
      BY <1>4, <1>6 DEF Displaced
    <3> QED BY <1>4, <1>6, <3>2, <3>3 DEF Restored
  <2>6. UndoPart(u)'
    BY <1>1, <1>2, <2>5 DEF TxOK, UndoPart, Swap
  <2> QED BY <2>1, <2>3, <2>4, <2>6 DEF TxOK
<1>10. StateOK'
  <2>1. NothingErased'
    <3>1. SUFFICES ASSUME "install" \notin damage, NEW d \in Entries PROVE Kept(d)'
      BY <1>1 DEF NothingErased
    <3>2. Kept(d)
      BY <3>1 DEF UpdateInv, StateOK, NothingErased
    <3>3. tree[d] # rec.release
      BY <1>1, <1>2, <1>8 DEF TxOK, ShapePart, Swap
    <3>4. tx'[u].aside = tx[u].aside
      BY <1>4, <1>6
    <3>5. tx[u].phase \in Swapping /\ UNCHANGED rec /\ orphans \subseteq orphans'
      BY <1>1 DEF Swapping
    <3> QED BY <3>2, <3>3, <3>4, <3>5, KeptNext
  <2>2. NoSwapUnderProcess' /\ PolicySurvives' /\ Sound'
    BY <1>1, <1>2, <1>4, <1>6 DEF UpdateInv, StateOK, NoSwapUnderProcess,
       PolicySurvives, Sound, Swap
  <2> QED BY <2>1, <2>2 DEF StateOK
<1> QED BY <1>1, <1>4, <1>5, <1>7, <1>9, <1>10, StepOK

\* The last entry is in, or the probe of the live binary succeeded.
LEMMA AllInStep ==
  ASSUME UpdateInv, NEW u \in Updaters, AllIn(u) \/ Probe(u)
  PROVE  UpdateInv'
<1>1. PICK p \in {"probe", "record"} :
         /\ Goto(u, p)
         /\ p = "probe" => tx[u].phase = "in" /\ tx[u].n = NumEntries + 1
         /\ p = "record" => tx[u].phase = "probe"
  BY DEF AllIn, Probe
<1>2. TypeOK /\ p \in Phases
  BY DEF UpdateInv, Phases
<1>3. /\ tx[u].phase \in Swap
      /\ UNCHANGED <<rec, tree, lock, autoOn, orphans, launcher, child, damage,
                     wanted, faults>>
  BY DEF AllIn, Probe, Swap
<1>4. TxOK(u) /\ tree \in Trees /\ tx[u].staged \in Releases
  BY <1>3, SwapFacts DEF Swap, Swapping
<1>5. TypeOK'
  BY <1>1, <1>2, <1>3, GotoType DEF TypeOK, Swapping, Swap
<1>6. TxOK(u)'
  <2>1. LockPart(u)' /\ CopyPart(u)'
    BY <1>1, <1>2, <1>3, <1>4, GotoFacts DEF TxOK, LockPart, CopyPart, Swapping,
       Install, Swap
  <2>2. tree = Whole(tx[u].staged)
    <3>1. CASE p = "probe"
      <4>1. \A d \in Entries : tree[d] = tx[u].staged
        BY <1>1, <1>4, <3>1, EntriesAssumption DEF TxOK, ShapePart, Entries
      <4> QED BY <1>4, <4>1 DEF Whole, Trees
    <3>2. CASE p = "record"
      BY <1>1, <1>4, <3>2 DEF TxOK, ShapePart
    <3> QED BY <3>1, <3>2
  <2>3. ShapePart(u)'
    BY <1>1, <1>2, <1>3, <1>4, <2>2, GotoFacts DEF TxOK, ShapePart, Swapping, Swap
  <2>4. QuietPart(u)'
    BY <1>1, <1>2, <1>3, <1>4, GotoFacts DEF TxOK, QuietPart, Swapping, Install,
       LeaseLive, ProcessLive, Swap
  <2>5. StagedIn(u)' = StagedIn(u) \/ Entries \subseteq StagedIn(u)
    BY <1>1, <1>2, EntriesAssumption, GotoFacts DEF StagedIn, Entries
  <2>6. StagedIn(u)' = Entries
    BY <1>1, <1>2, GotoFacts DEF StagedIn
  <2>7. \A d \in Entries : d \in StagedIn(u)
    BY <1>1, EntriesAssumption DEF StagedIn, Entries
  <2>8. Displaced(u)' = Displaced(u)
    BY <1>1, <1>2, GotoFacts DEF Displaced
  <2>9. Restored(u, {})' = Restored(u, {})
    BY <1>1, <1>2, <2>6, <2>7, <2>8, GotoFacts DEF Restored
  <2>10. UndoPart(u)'
    BY <1>3, <1>4, <2>9 DEF TxOK, UndoPart
  <2> QED BY <2>1, <2>3, <2>4, <2>10 DEF TxOK
<1>7. StateOK'
  BY <1>1, <1>2, <1>3, GotoFacts, FrameState DEF Swap
<1> QED BY <1>1, <1>2, <1>3, <1>5, <1>6, <1>7, GotoFacts, StepOK DEF Swap

-----------------------------------------------------------------------------
(* Undoing and recording.                                                  *)

\* An entry of the recorded release is among the displaced ones or still in
\* the tree where the restoration leaves it.
LEMMA RestoredKeeps ==
  ASSUME UpdateInv, NEW u \in Updaters, tx[u].phase \in Swap,
         NEW bad \in SUBSET Displaced(u), NEW e \in Entries, Kept(e)
  PROVE  \/ Restored(u, bad)[e] = rec.release
         \/ e \in bad /\ tx[u].aside[e] = rec.release
         \/ \E o \in orphans : o[e] = rec.release
<1>1. /\ TxOK(u) /\ tree \in Trees /\ rec.release # Gone
      /\ \A v \in Updaters \ {u} : tx[v] = NoTransaction
  BY SwapFacts DEF Swap, Swapping
<1>2. \A v \in Updaters \ {u} : tx[v].aside[e] = Gone
  BY <1>1, NoTransactionFacts DEF Empty
<1>3. tree[e] = rec.release \/ tx[u].aside[e] = rec.release
      \/ \E o \in orphans : o[e] = rec.release
  BY <1>1, <1>2 DEF Kept
<1>4. tree[e] = rec.release => e \notin Displaced(u) /\ e \notin StagedIn(u)
  <2>1. CASE tx[u].phase = "aside"
    BY <1>1, <2>1 DEF TxOK, ShapePart, Displaced, StagedIn
  <2>2. CASE tx[u].phase = "in"
    BY <1>1, <2>2 DEF TxOK, ShapePart, Displaced, StagedIn, Swap
  <2>3. CASE tx[u].phase \in {"probe", "record"}
    BY <1>1, <2>3 DEF TxOK, ShapePart, Swap, Whole
  <2> QED BY <2>1, <2>2, <2>3 DEF Swap
<1>5. tx[u].aside[e] = rec.release => e \in Displaced(u)
  BY <1>1 DEF Displaced
<1> QED BY <1>3, <1>4, <1>5 DEF Restored

LEMMA RestoredType ==
  ASSUME UpdateInv, NEW u \in Updaters, tx[u].phase \in Swap,
         NEW bad \in SUBSET Displaced(u)
  PROVE  Restored(u, bad) \in Trees /\ Leftover(u, bad) \in Trees
<1>1. tx[u].aside \in Trees /\ tree \in Trees
  BY SwapFacts DEF Swap, Swapping, Transaction
<1> QED BY <1>1 DEF Restored, Leftover, Trees

LEMMA UndoStep ==
  ASSUME UpdateInv, NEW u \in Updaters, Undo(u)
  PROVE  UpdateInv'
<1>1. tx[u].phase \in Swap /\ tree' = Restored(u, {}) /\ Finish(u)
      /\ UNCHANGED <<rec, autoOn, orphans, launcher, child, damage, wanted, faults>>
  BY DEF Undo, Swap
<1>2. TypeOK /\ TxOK(u) /\ Transactional => \A l \in Launchers : child[l] = None
  BY <1>1, SwapFacts DEF UpdateInv, Swap, Swapping
<1>3. tx' = [tx EXCEPT ![u] = NoTransaction] /\ {} \in SUBSET Displaced(u)
      /\ tx[u].phase # "idle" /\ lock' \in Updaters \cup {Free, Stale}
  BY <1>1, FinishFacts DEF Finish, Swap, UpdateInv
<1>4. TypeOK
  BY DEF UpdateInv
<1>5. TypeOK'
  BY <1>1, <1>3, <1>4, RestoredType, StepType, NoTransactionFacts DEF TypeOK, Swapping
<1>6. NothingErased'
  <2>1. SUFFICES ASSUME "install" \notin damage, NEW e \in Entries PROVE Kept(e)'
    BY <1>1 DEF NothingErased
  <2>2. Kept(e)
    BY <2>1 DEF UpdateInv, StateOK, NothingErased
  <2> QED BY <1>1, <1>3, <2>2, RestoredKeeps DEF Kept
<1>7. Sound'
  BY <1>1 DEF UpdateInv, TxOK, UndoPart, Sound
<1>8. NoSwapUnderProcess' /\ PolicySurvives'
  <2>1. Transactional => \A l \in Launchers : child[l] = None
    BY <1>1, SwapFacts DEF Swap, Swapping
  <2> QED BY <1>1, <2>1 DEF UpdateInv, StateOK, NoSwapUnderProcess, PolicySurvives
<1> QED BY <1>3, <1>5, <1>6, <1>7, <1>8, EndOK DEF StateOK

LEMMA UndoFailsStep ==
  ASSUME UpdateInv, NEW u \in Updaters, UndoFails(u)
  PROVE  UpdateInv'
<1>1. tx[u].phase \in Swap /\ Finish(u) /\ damage' = damage \cup {"undo"}
      /\ faults < MaxFaults /\ faults' = faults + 1
      /\ UNCHANGED <<rec, autoOn, launcher, child, wanted>>
  BY DEF UndoFails, Swap
<1>2. PICK bad \in SUBSET Displaced(u) :
         tree' = Restored(u, bad) /\ orphans' = orphans \cup {Leftover(u, bad)}
  BY DEF UndoFails
<1>3. tx' = [tx EXCEPT ![u] = NoTransaction]
      /\ tx[u].phase # "idle" /\ lock' \in Updaters \cup {Free, Stale}
  BY <1>1, FinishFacts DEF Finish, Swap, UpdateInv
<1>4. TypeOK
  BY DEF UpdateInv
<1>5. TypeOK'
  <2>1. faults' \in 0 .. MaxFaults
    BY <1>1, <1>4, ModeAssumption DEF TypeOK
  <2> QED BY <1>1, <1>2, <1>3, <1>4, <2>1, RestoredType, StepType, NoTransactionFacts
          DEF TypeOK, Swapping
<1>6. NothingErased'
  <2>1. SUFFICES ASSUME "install" \notin damage, NEW e \in Entries PROVE Kept(e)'
    BY <1>1 DEF NothingErased
  <2>2. Kept(e)
    BY <2>1 DEF UpdateInv, StateOK, NothingErased
  <2>3. e \in bad => Leftover(u, bad)[e] = tx[u].aside[e]
    BY DEF Leftover
  <2> QED BY <1>1, <1>2, <2>2, <2>3, RestoredKeeps DEF Kept
<1>7. Sound'
  BY <1>1 DEF Sound
<1>8. NoSwapUnderProcess' /\ PolicySurvives'
  <2>1. Transactional => \A l \in Launchers : child[l] = None
    BY <1>1, SwapFacts DEF Swap, Swapping
  <2> QED BY <1>1, <2>1 DEF UpdateInv, StateOK, NoSwapUnderProcess, PolicySurvives
<1> QED BY <1>3, <1>5, <1>6, <1>7, <1>8, EndOK DEF StateOK

LEMMA RecordStep ==
  ASSUME UpdateInv, NEW u \in Updaters, Record(u)
  PROVE  UpdateInv'
<1>1. tx[u].phase = "record" /\ Goto(u, "finalize") /\ damage' = {}
      /\ rec' = [release |-> tx[u].staged, policy |-> PolicyOf(u)]
      /\ wanted' = (IF tx[u].policy = "keep" THEN wanted ELSE tx[u].policy)
      /\ UNCHANGED <<tree, lock, autoOn, orphans, launcher, child, faults>>
  BY DEF Record
<1>2. /\ TypeOK /\ TxOK(u) /\ tx[u] \in Transaction /\ tx[u].staged \in Releases
      /\ \A v \in Updaters \ {u} : tx[v] = NoTransaction
  BY <1>1, SwapFacts DEF UpdateInv, Swapping
<1>3. tx[u].copy = rec /\ tree = Whole(tx[u].staged)
  BY <1>1, <1>2 DEF TxOK, CopyPart, ShapePart, Install
<1>4. /\ rec' \in Records /\ rec'.release = tx[u].staged
      /\ rec'.policy = IF tx[u].policy = "keep" THEN rec.policy ELSE tx[u].policy
      /\ wanted' \in Policies
  BY <1>1, <1>2, <1>3 DEF Records, PolicyOf, TypeOK, Transaction
<1>5. "finalize" \in Phases
  BY DEF Phases
<1>6. TypeOK'
  <2>1. tx[u].staged # Gone
    BY <1>2, ReleasesAssumption
  <2> QED BY <1>1, <1>2, <1>4, <1>5, <2>1, GotoType DEF TypeOK
<1>7. TxOK(u)'
  <2>1. LockPart(u)'
    BY <1>1, <1>2, <1>5, GotoFacts DEF TxOK, LockPart
  <2>2. CopyPart(u)'
    BY <1>1, <1>2, <1>4, <1>5, GotoFacts DEF TxOK, CopyPart, Install, Swapping
  <2>3. ShapePart(u)' /\ UndoPart(u)'
    BY <1>1, <1>2, <1>3, <1>4, <1>5, GotoFacts DEF TxOK, ShapePart, UndoPart,
       Swapping, Swap
  <2>4. QuietPart(u)'
    BY <1>1, <1>2, <1>5, GotoFacts DEF TxOK, QuietPart, Swapping, Install,
       LeaseLive, ProcessLive
  <2> QED BY <2>1, <2>2, <2>3, <2>4 DEF TxOK
<1>8. StateOK'
  <2>1. NothingErased'
    BY <1>1, <1>3, <1>4 DEF NothingErased, Kept, Whole
  <2>2. NoSwapUnderProcess' /\ PolicySurvives' /\ Sound'
    BY <1>1, <1>3, <1>4 DEF UpdateInv, StateOK, NoSwapUnderProcess,
       PolicySurvives, Sound
  <2> QED BY <2>1, <2>2 DEF StateOK
<1> QED BY <1>1, <1>2, <1>5, <1>6, <1>7, <1>8, GotoFacts, StepOK

-----------------------------------------------------------------------------
(* The repair install and the crash.                                       *)

LEMMA FetchFacts ==
  ASSUME UpdateInv, NEW u \in Updaters, tx[u].phase \in {"fetch", "irecord"}
  PROVE  /\ TypeOK /\ TxOK(u) /\ "install" \in damage
         /\ tx[u].to \in Releases /\ rec \in Records
         /\ tx[u].aside = Empty
         /\ \A l \in Launchers : child[l] = None
         /\ \A v \in Updaters \ {u} : tx[v] = NoTransaction
<1>1. TypeOK /\ TxOK(u) /\ tx[u] \in Transaction
  BY DEF UpdateInv, TypeOK
<1>2. tx[u].to \in Releases
  BY <1>1 DEF TypeOK, Transaction, SomeRelease
<1>3. "install" \in damage /\ tx[u].aside = Empty /\ ~ProcessLive
  BY <1>1 DEF TxOK, ShapePart, QuietPart, Swapping
<1>4. \A v \in Updaters \ {u} : tx[v] = NoTransaction
  BY Alone
<1> QED BY <1>1, <1>2, <1>3, <1>4 DEF ProcessLive, TypeOK

LEMMA WholeType ==
  /\ \A r \in Releases : Whole(r) \in Trees
  /\ Empty \in Trees
BY DEF Whole, Empty, Trees

LEMMA FetchSucceedsStep ==
  ASSUME UpdateInv, NEW u \in Updaters, FetchSucceeds(u)
  PROVE  UpdateInv'
<1>1. tx[u].phase = "fetch" /\ tree' = Whole(tx[u].to) /\ Goto(u, "irecord")
      /\ UNCHANGED <<rec, lock, autoOn, orphans, launcher, child, damage, wanted, faults>>
  BY DEF FetchSucceeds
<1>2. /\ TypeOK /\ TxOK(u) /\ "install" \in damage /\ tx[u].to \in Releases
      /\ \A l \in Launchers : child[l] = None
  BY <1>1, FetchFacts
<1>3. "irecord" \in Phases
  BY DEF Phases
<1>4. TypeOK'
  BY <1>1, <1>2, <1>3, WholeType, GotoType DEF TypeOK, Swapping
<1>5. TxOK(u)'
  <2>1. LockPart(u)' /\ CopyPart(u)'
    BY <1>1, <1>2, <1>3, GotoFacts DEF TxOK, LockPart, CopyPart, Swapping, Install
  <2>2. ShapePart(u)' /\ UndoPart(u)'
    BY <1>1, <1>2, <1>3, GotoFacts DEF TxOK, ShapePart, UndoPart, Swapping, Swap
  <2>3. QuietPart(u)'
    BY <1>1, <1>2, <1>3, GotoFacts DEF TxOK, QuietPart, Swapping, Install,
       LeaseLive, ProcessLive
  <2> QED BY <2>1, <2>2, <2>3 DEF TxOK
<1>6. StateOK'
  BY <1>1, <1>2 DEF UpdateInv, StateOK, NoSwapUnderProcess, PolicySurvives,
     NothingErased, Sound
<1>7. tx[u].phase # "idle"
  BY <1>1
<1> QED BY <1>1, <1>2, <1>3, <1>4, <1>5, <1>6, <1>7, GotoFacts, StepOK

LEMMA FetchFailsStep ==
  ASSUME UpdateInv, NEW u \in Updaters, FetchFails(u)
  PROVE  UpdateInv'
<1>1. tx[u].phase = "fetch" /\ tree' \in {Empty, tree} /\ Finish(u)
      /\ UNCHANGED <<rec, autoOn, orphans, launcher, child, damage, wanted, faults>>
  BY DEF FetchFails
<1>2. TypeOK /\ "install" \in damage /\ \A l \in Launchers : child[l] = None
  BY <1>1, FetchFacts
<1>3. tx' = [tx EXCEPT ![u] = NoTransaction] /\ lock' \in Updaters \cup {Free, Stale}
  BY <1>1, <1>2, FinishFacts
<1>4. TypeOK'
  BY <1>1, <1>2, <1>3, WholeType, StepType, NoTransactionFacts DEF TypeOK, Swapping
<1>5. StateOK'
  BY <1>1, <1>2 DEF UpdateInv, StateOK, NoSwapUnderProcess, PolicySurvives,
     NothingErased, Sound
<1> QED BY <1>1, <1>3, <1>4, <1>5, EndOK

LEMMA InstallRecordStep ==
  ASSUME UpdateInv, NEW u \in Updaters, InstallRecord(u)
  PROVE  UpdateInv'
<1>1. tx[u].phase = "irecord" /\ Finish(u) /\ damage' = {}
      /\ rec' = [rec EXCEPT !.release = tx[u].to]
      /\ UNCHANGED <<tree, autoOn, orphans, launcher, child, wanted, faults>>
  BY DEF InstallRecord
<1>2. /\ TypeOK /\ TxOK(u) /\ tx[u].to \in Releases /\ rec \in Records
  BY <1>1, FetchFacts
<1>3. tx' = [tx EXCEPT ![u] = NoTransaction] /\ lock' \in Updaters \cup {Free, Stale}
  BY <1>1, <1>2, FinishFacts
<1>4. rec' \in Records /\ rec'.release = tx[u].to /\ rec'.policy = rec.policy
  BY <1>1, <1>2 DEF Records
<1>5. TypeOK'
  BY <1>1, <1>2, <1>3, <1>4, StepType, NoTransactionFacts DEF TypeOK, Swapping
<1>6. tree = Whole(tx[u].to)
  BY <1>1, <1>2 DEF TxOK, ShapePart
<1>7. StateOK'
  BY <1>1, <1>4, <1>6 DEF UpdateInv, StateOK, NoSwapUnderProcess, PolicySurvives,
     NothingErased, Kept, Sound, Whole
<1> QED BY <1>1, <1>3, <1>5, <1>7, EndOK

\* A crash leaves the displaced entries in a rollback directory.
LEMMA CrashKeeps ==
  ASSUME UpdateInv, NEW u \in Updaters, Crash(u), NEW e \in Entries, Kept(e),
         tx[u].phase # "fetch"
  PROVE  Kept(e)'
<1>1. /\ tree' = tree /\ rec' = rec
      /\ orphans' = IF Displaced(u) = {} THEN orphans ELSE orphans \cup {tx[u].aside}
  BY DEF Crash, TornBy
<1>2. \A v \in Updaters \ {u} : tx[v] = NoTransaction
  BY Alone DEF Crash
<1>3. rec.release # Gone
  BY ReleasesAssumption DEF UpdateInv, TypeOK, Records
<1>4. \A v \in Updaters \ {u} : tx[v].aside[e] # rec.release
  BY <1>2, <1>3, NoTransactionFacts DEF Empty
<1>5. tx[u].aside[e] = rec.release => tx[u].aside \in orphans'
  BY <1>1, <1>3 DEF Displaced
<1> QED BY <1>1, <1>4, <1>5 DEF Kept

LEMMA CrashStep ==
  ASSUME UpdateInv, NEW u \in Updaters, Crash(u)
  PROVE  UpdateInv'
<1>1. /\ tx[u].phase # "idle" /\ faults < MaxFaults /\ faults' = faults + 1
      /\ tree' \in TornBy(u)
      /\ damage' = IF tx[u].phase \in Swap THEN damage \cup {"crash"} ELSE damage
      /\ orphans' = IF Displaced(u) = {} THEN orphans ELSE orphans \cup {tx[u].aside}
      /\ tx' = [tx EXCEPT ![u] = NoTransaction]
      /\ UNCHANGED <<rec, autoOn, launcher, child, wanted>>
  BY DEF Crash, Swap
<1>2. TypeOK /\ tx[u] \in Transaction
  BY DEF UpdateInv, TypeOK
<1>3. tree' \in Trees
  BY <1>1, <1>2 DEF TornBy, TypeOK
<1>4. orphans' \subseteq Trees
  BY <1>1, <1>2 DEF TypeOK, Transaction
<1>5. TypeOK'
  <2>1. faults' \in 0 .. MaxFaults
    BY <1>1, <1>2, ModeAssumption DEF TypeOK
  <2>2. lock' \in Updaters \cup {Free, Stale}
    BY <1>2 DEF Crash, TypeOK
  <2>3. damage' \subseteq {"crash", "undo", "install"}
    BY <1>1, <1>2 DEF TypeOK
  <2> QED BY <1>1, <1>2, <1>3, <1>4, <2>1, <2>2, <2>3, StepType, NoTransactionFacts
          DEF TypeOK, Swapping
<1>6. NothingErased'
  <2>1. SUFFICES ASSUME "install" \notin damage', NEW e \in Entries PROVE Kept(e)'
    BY DEF NothingErased
  <2>2. "install" \notin damage /\ tx[u].phase # "fetch"
    BY <1>1, <2>1, FetchFacts
  <2>3. Kept(e)
    BY <2>2 DEF UpdateInv, StateOK, NothingErased
  <2> QED BY <2>2, <2>3, CrashKeeps
<1>7. NoSwapUnderProcess' /\ Sound'
  <2>1. CASE tx[u].phase = "fetch"
    BY <1>1, <2>1, FetchFacts DEF NoSwapUnderProcess, Sound, Swap
  <2>2. CASE tx[u].phase # "fetch"
    <3>1. tree' = tree
      BY <1>1, <2>2 DEF TornBy
    <3>2. \A v \in Updaters \ {u} : tx'[v] = tx[v]
      BY <1>1, <1>2 DEF TypeOK
    <3>3. Sound'
      BY <1>1, <3>1, <3>2 DEF UpdateInv, StateOK, Sound
    <3> QED BY <1>1, <3>1, <3>3 DEF UpdateInv, StateOK, NoSwapUnderProcess
  <2> QED BY <2>1, <2>2
<1>8. PolicySurvives'
  BY <1>1 DEF UpdateInv, StateOK, PolicySurvives
<1> QED BY <1>1, <1>5, <1>6, <1>7, <1>8, EndOK DEF StateOK

-----------------------------------------------------------------------------
(* The invariant.                                                          *)

LEMMA InitInv == Init => UpdateInv
<1>1. SUFFICES ASSUME Init PROVE UpdateInv
  OBVIOUS
<1>2. \A u \in Updaters : tx[u] = NoTransaction
  BY <1>1 DEF Init
<1>3. rec \in Records /\ tree \in Trees /\ tree = Whole(rec.release) /\ wanted = rec.policy
  BY <1>1, WholeType DEF Init, Records
<1>4. TypeOK
  BY <1>1, <1>2, <1>3, NoTransactionFacts, ModeAssumption DEF Init, TypeOK, Swapping,
     Policies, Records
<1>5. StateOK
  BY <1>1, <1>3 DEF Init, StateOK, NoSwapUnderProcess, PolicySurvives,
     NothingErased, Kept, Sound, Whole
<1> QED BY <1>2, <1>4, <1>5, IdleOK DEF UpdateInv

LEMMA UpdaterInv ==
  ASSUME UpdateInv, NEW u \in Updaters, UpdaterStep(u)
  PROVE  UpdateInv'
<1>1. CASE BeginUpdate(u) \/ AlreadyCurrent(u) \/ Resolve(u) \/ Scan(u)
  BY <1>1, BeginUpdateStep, AlreadyCurrentStep, ResolveStep, ScanStep
<1>2. CASE Stage(u) \/ Recheck(u) \/ GiveUp(u) \/ Finalize(u) \/ InstallUnrecorded(u)
  BY <1>2, StageStep, RecheckStep, GiveUpStep
<1>3. CASE MoveAside(u) \/ AllAside(u) \/ MoveIn(u) \/ AllIn(u) \/ Probe(u)
  BY <1>3, MoveAsideStep, AllAsideStep, MoveInStep, AllInStep
<1>4. CASE Undo(u) \/ UndoFails(u) \/ Record(u)
  BY <1>4, UndoStep, UndoFailsStep, RecordStep
<1>5. CASE BeginInstall(u) \/ FetchSucceeds(u) \/ FetchFails(u)
           \/ InstallRecord(u) \/ Crash(u)
  BY <1>5, BeginInstallStep, FetchSucceedsStep, FetchFailsStep,
     InstallRecordStep, CrashStep
<1> QED BY <1>1, <1>2, <1>3, <1>4, <1>5 DEF UpdaterStep

LEMMA NextInv == UpdateInv /\ [Next]_vars => UpdateInv'
<1>1. SUFFICES ASSUME UpdateInv, [Next]_vars PROVE UpdateInv'
  OBVIOUS
<1>2. CASE \E u \in Updaters : UpdaterStep(u)
  BY <1>1, <1>2, UpdaterInv
<1>3. CASE \E l \in Launchers : LauncherStep(l)
  BY <1>1, <1>3, LeaseStep, SpawnStep, ChildExitStep, LauncherDiesStep DEF LauncherStep
<1>4. CASE (\E p \in Policies : SetPolicy(p)) \/ ToggleAuto
  BY <1>1, <1>4, SetPolicyStep, ToggleAutoStep
<1>5. CASE UNCHANGED vars
  <2>1. TypeOK'
    BY <1>1, <1>5 DEF UpdateInv, TypeOK, vars
  <2>2. \A u \in Updaters : TxOK(u)'
    BY <1>1, <1>5 DEF UpdateInv, TxOK, LockPart, CopyPart, ShapePart, QuietPart,
       UndoPart, ProcessLive, LeaseLive, Restored, Displaced, StagedIn, vars
  <2>3. StateOK'
    BY <1>1, <1>5 DEF UpdateInv, StateOK, NoSwapUnderProcess, PolicySurvives,
       NothingErased, Kept, Sound, vars
  <2> QED BY <2>1, <2>2, <2>3 DEF UpdateInv
<1> QED BY <1>1, <1>2, <1>3, <1>4, <1>5 DEF Next

LEMMA InvariantHolds == Spec => []UpdateInv
BY InitInv, NextInv, PTL DEF Spec

-----------------------------------------------------------------------------
(* What the run checks, for every value of the constants.                  *)

\* Every variable of an installation stays in the values its code can write.
THEOREM TypeCorrect == Spec => []TypeOK
<1>1. UpdateInv => TypeOK
  BY DEF UpdateInv
<1> QED BY <1>1, InvariantHolds, PTL

\* Leases, the launch gate and the two activity checks together keep a swap
\* and a repair install away from a running harness (update.ts, versions.ts).
THEOREM SwapSafe == Spec => []NoSwapUnderProcess
<1>1. UpdateInv => NoSwapUnderProcess
  BY DEF UpdateInv, StateOK
<1> QED BY <1>1, InvariantHolds, PTL

\* The copy of the record an update writes back holds no older policy: every
\* writer takes the installation lock, and the copy was read under it.
THEOREM PolicySafe == Spec => []PolicySurvives
<1>1. UpdateInv => PolicySurvives
  BY DEF UpdateInv, StateOK
<1> QED BY <1>1, InvariantHolds, PTL

\* An automatic update that reaches the swap finds no pin, then or later.
THEOREM PinSafe == Spec => []PinHonoured
<1>1. UpdateInv => PinHonoured
  BY DEF UpdateInv, TxOK, CopyPart, PinHonoured
<1> QED BY <1>1, InvariantHolds, PTL

\* Whatever a transaction did, once nobody holds the lock the record and the
\* directory agree, unless a fault is on the books.
THEOREM RecordSafe == Spec => []RecordTellsTree
<1>1. UpdateInv => RecordTellsTree
  <2>1. SUFFICES ASSUME UpdateInv, Unlocked, damage = {}
                 PROVE  tree = Whole(rec.release)
    BY DEF RecordTellsTree
  <2>2. \A u \in Updaters : tx[u].phase \notin Swap
    BY <2>1, AllIdle, NoTransactionFacts DEF Swap
  <2> QED BY <2>1, <2>2 DEF UpdateInv, StateOK, Sound
<1> QED BY <1>1, InvariantHolds, PTL

\* No failure, restoration or crash of an update loses an entry of the
\* recorded release: restorePreCommitState and the kept rollback directory.
THEOREM ErasedNever == Spec => []NothingErased
<1>1. UpdateInv => NothingErased
  BY DEF UpdateInv, StateOK
<1> QED BY <1>1, InvariantHolds, PTL

-----------------------------------------------------------------------------
(* The refinement.                                                         *)

\* A launcher that holds a lease has not spawned yet.
LeasedIdle == \A l \in Launchers : launcher[l] = "leased" => child[l] = None

LEMMA LeasedIdleHolds == Spec => []LeasedIdle
<1>1. Init => LeasedIdle
  BY DEF Init, LeasedIdle
<1>2. LeasedIdle /\ UpdateInv /\ [Next]_vars => LeasedIdle'
  <2>1. SUFFICES ASSUME LeasedIdle, UpdateInv, [Next]_vars PROVE LeasedIdle'
    OBVIOUS
  <2>2. CASE UNCHANGED <<launcher, child>>
    BY <2>1, <2>2 DEF LeasedIdle
  <2>3. CASE \E l \in Launchers : LauncherStep(l)
    BY <2>1, <2>3 DEF LeasedIdle, UpdateInv, TypeOK, LauncherStep, Lease, Spawn,
       ChildExit, LauncherDies
  <2>4. CASE \E u \in Updaters : UpdaterStep(u)
    BY <2>2, <2>4 DEF UpdaterStep, BeginUpdate, AlreadyCurrent, Resolve, Scan, Stage,
       Recheck, GiveUp, MoveAside, AllAside, MoveIn, AllIn, Probe, Undo, UndoFails,
       Record, Finalize, BeginInstall, FetchSucceeds, FetchFails, InstallRecord,
       InstallUnrecorded, Crash
  <2> QED BY <2>1, <2>2, <2>3, <2>4 DEF Next, vars, SetPolicy, ToggleAuto
<1> QED BY <1>1, <1>2, InvariantHolds, PTL DEF Spec

\* A change that is being made finds nothing running.
LEMMA QuietFacts ==
  ASSUME UpdateInv, Transactional, NEW u \in Updaters,
         tx[u].phase \in Swapping \cup {"fetch", "irecord"}
  PROVE  Register!Idle
BY SwapFacts, FetchFacts DEF Swapping, Register!Idle

\* The step of an updater is a replacement, a policy change, a break, or none.
LEMMA UpdaterMaps ==
  ASSUME UpdateInv, Transactional, NEW u \in Updaters, UpdaterStep(u)
  PROVE  Register!RegisterNext \/ UNCHANGED Register!rvars
<1>1. CASE Record(u)
  <2>1. /\ tx[u].phase = "record" /\ damage' = {} /\ UNCHANGED child
        /\ rec' = [release |-> tx[u].staged, policy |-> PolicyOf(u)]
    BY <1>1 DEF Record
  <2>2. tx[u].staged \in Releases /\ TxOK(u) /\ rec \in Records
        /\ tx[u] \in Transaction
    BY <2>1, SwapFacts DEF Swapping
  <2>3. PolicyOf(u) \in Policies
    BY <2>1, <2>2 DEF PolicyOf, TxOK, CopyPart, Install, Records, Transaction
  <2>4. Register!Idle
    BY <2>1, QuietFacts DEF Swapping
  <2>5. Register!Replace(tx[u].staged, PolicyOf(u))
    BY <2>1, <2>4 DEF Register!Replace
  <2> QED BY <2>2, <2>3, <2>5 DEF Register!RegisterNext, Register!Policies, Policies
<1>2. CASE InstallRecord(u)
  <2>1. /\ tx[u].phase = "irecord" /\ damage' = {} /\ UNCHANGED child
        /\ rec' = [rec EXCEPT !.release = tx[u].to]
    BY <1>2 DEF InstallRecord
  <2>2. tx[u].to \in Releases /\ rec \in Records
    BY <2>1, FetchFacts
  <2>3. Register!Idle
    BY <2>1, QuietFacts
  <2>4. rec'.release = tx[u].to /\ rec'.policy = rec.policy /\ rec.policy \in Policies
    BY <2>1, <2>2 DEF Records
  <2>5. Register!Replace(tx[u].to, rec.policy)
    BY <2>1, <2>3, <2>4 DEF Register!Replace
  <2> QED BY <2>2, <2>4, <2>5 DEF Register!RegisterNext, Register!Policies, Policies
<1>3. CASE AlreadyCurrent(u)
  <2>1. tx[u].phase \in {"resolve", "staged"} /\ UNCHANGED <<damage, child>>
    BY <1>3 DEF AlreadyCurrent
  <2>2. tx[u].copy = rec /\ rec \in Records /\ tx[u] \in Transaction
    BY <2>1 DEF UpdateInv, TypeOK, TxOK, CopyPart, Install
  <2>3. rec'.release = rec.release /\ rec'.policy \in Policies
    BY <1>3, <2>2 DEF AlreadyCurrent, Records, Transaction
  <2>4. Register!SetPolicy(rec'.policy)
    BY <2>1, <2>3 DEF Register!SetPolicy
  <2> QED BY <2>3, <2>4 DEF Register!RegisterNext, Register!Policies, Policies
<1>4. CASE UndoFails(u)
  <2>1. tx[u].phase \in Swapping /\ UNCHANGED <<rec, child>> /\ damage' # {}
    BY <1>4 DEF UndoFails, Swapping
  <2>2. Register!Break
    BY <2>1, QuietFacts DEF Register!Break
  <2> QED BY <2>2 DEF Register!RegisterNext
<1>5. CASE Scan(u)
  <2>1. UNCHANGED <<rec, child>> /\ Register!Idle
        /\ (UNCHANGED damage \/ damage' = damage \cup {"install"})
    BY <1>5 DEF Scan, ProcessLive, Register!Idle
  <2>2. UNCHANGED Register!rvars \/ Register!Break
    BY <2>1 DEF Register!rvars, Register!Break
  <2> QED BY <2>2 DEF Register!RegisterNext
<1>6. CASE Crash(u)
  <2>1. /\ UNCHANGED <<rec, child>>
        /\ UNCHANGED damage \/ (tx[u].phase \in Swapping /\ damage' # {})
    <3>1. UNCHANGED <<rec, child>> /\ damage' =
            IF tx[u].phase \in {"aside", "in", "probe", "record"}
            THEN damage \cup {"crash"} ELSE damage
      BY <1>6 DEF Crash
    <3>2. damage \cup {"crash"} # {}
      OBVIOUS
    <3> QED BY <3>1, <3>2 DEF Swapping
  <2>2. UNCHANGED Register!rvars \/ Register!Break
    BY <2>1, QuietFacts DEF Register!rvars, Register!Break
  <2> QED BY <2>2 DEF Register!RegisterNext
<1>7. CASE UNCHANGED <<rec, damage, child>>
  BY <1>7 DEF Register!rvars
<1> QED
  BY <1>1, <1>2, <1>3, <1>4, <1>5, <1>6, <1>7 DEF UpdaterStep, BeginUpdate, Resolve,
     Stage, Recheck, GiveUp, MoveAside, AllAside, MoveIn, AllIn, Probe, Undo,
     Finalize, BeginInstall, FetchSucceeds, FetchFails, InstallUnrecorded

\* A spawn launches a whole release: its lease kept every swap away.
LEMMA LauncherMaps ==
  ASSUME UpdateInv, LeasedIdle, Transactional, NEW l \in Launchers, LauncherStep(l)
  PROVE  Register!RegisterNext \/ UNCHANGED Register!rvars
<1>1. CASE Spawn(l)
  <2>1. /\ launcher[l] = "leased" /\ child' = [child EXCEPT ![l] = tree]
        /\ UNCHANGED <<rec, damage>>
    BY <1>1 DEF Spawn
  <2>2. child[l] = None /\ tree \in Trees
    BY <2>1 DEF LeasedIdle, UpdateInv, TypeOK
  <2>3. damage = {} => tree = Whole(rec.release)
    <3>1. \A u \in Updaters : tx[u].phase \notin Swap
      BY <2>1 DEF UpdateInv, TxOK, QuietPart, LeaseLive, Swap
    <3> QED BY <3>1 DEF UpdateInv, StateOK, Sound
  <2>4. Register!Launch(l)
    BY <2>1, <2>2, <2>3 DEF Register!Launch, Register!Trees, Register!Whole, Trees, Whole
  <2> QED BY <2>4 DEF Register!RegisterNext
<1>2. CASE ChildExit(l)
  <2>1. Register!Exit(l)
    BY <1>2 DEF ChildExit, Register!Exit
  <2> QED BY <2>1 DEF Register!RegisterNext
<1>3. CASE Lease(l) \/ LauncherDies(l)
  BY <1>3 DEF Lease, LauncherDies, Register!rvars
<1> QED BY <1>1, <1>2, <1>3 DEF LauncherStep

\* With a transactional strategy, updates, repairs, crashes and launches of an
\* installation implement one register of whole releases.
THEOREM Implements == ASSUME Transactional PROVE Spec => ImplementsRegister
<1>1. Init => Register!RegisterInit
  BY DEF Init, Register!RegisterInit, Register!Policies, Policies
<1>2. UpdateInv /\ LeasedIdle /\ [Next]_vars
         => [Register!RegisterNext]_(Register!rvars)
  <2>1. SUFFICES ASSUME UpdateInv, LeasedIdle, [Next]_vars
                 PROVE  Register!RegisterNext \/ UNCHANGED Register!rvars
    OBVIOUS
  <2>2. CASE \E u \in Updaters : UpdaterStep(u)
    BY <2>1, <2>2, UpdaterMaps
  <2>3. CASE \E l \in Launchers : LauncherStep(l)
    BY <2>1, <2>3, LauncherMaps
  <2>4. ASSUME NEW p \in Policies, SetPolicy(p)
        PROVE  Register!RegisterNext
    <3>1. rec'.release = rec.release /\ rec'.policy = p
      BY <2>1, <2>4 DEF SetPolicy, UpdateInv, TypeOK, Records
    <3>2. Register!SetPolicy(p)
      BY <2>4, <3>1 DEF SetPolicy, Register!SetPolicy
    <3> QED BY <3>2 DEF Register!RegisterNext, Register!Policies, Policies
  <2>5. CASE ToggleAuto \/ UNCHANGED vars
    BY <2>5 DEF ToggleAuto, vars, Register!rvars
  <2> QED BY <2>1, <2>2, <2>3, <2>4, <2>5 DEF Next
<1> QED BY <1>1, <1>2, InvariantHolds, LeasedIdleHolds, PTL
        DEF Spec, ImplementsRegister, Register!RegisterSpec
=============================================================================
