-------------------------- MODULE SeriesQueueProofs ---------------------------
(***************************************************************************)
(* Proofs about SeriesQueue, for every set of events, processes and bounds.*)
(***************************************************************************)
EXTENDS SeriesQueue, TLAPS

(* The two halves of RowsAreHeldOnce, one operator each. *)
WorkerHolds(p, w) ==
  LET r == tx[p][w].row
  IN  /\ r \in DOMAIN rows /\ rows[r].event.type \in Types[w]
      /\ rows[r].status = "created"
      /\ \A q \in Process, v \in Worker :
           tx[q][v].alive /\ tx[q][v].row = r => q = p /\ v = w
      /\ \A q \in Process : r \notin leaked[q]

LeakHolds(p, r) ==
  /\ r \in DOMAIN rows /\ rows[r].status = "created"
  /\ \A q \in Process : r \in leaked[q] => q = p

LEMMA HeldOnce ==
  RowsAreHeldOnce <=>
    /\ \A p \in Process, w \in Worker : tx[p][w].alive => WorkerHolds(p, w)
    /\ \A p \in Process : \A r \in leaked[p] : LeakHolds(p, r)
  BY DEF RowsAreHeldOnce, WorkerHolds, LeakHolds, Eligible, Holds

LEMMA HeldOnceNext ==
  RowsAreHeldOnce' <=>
    /\ \A p \in Process, w \in Worker : tx'[p][w].alive => WorkerHolds(p, w)'
    /\ \A p \in Process : \A r \in leaked'[p] : LeakHolds(p, r)'
  BY DEF RowsAreHeldOnce, WorkerHolds, LeakHolds, Eligible, Holds

LEMMA InitIInv == Init => IInv
<1> SUFFICES ASSUME Init PROVE IInv
  OBVIOUS
<1>1. DOMAIN rows = {}
  BY DEF Init
<1>2. TypeOK
  BY <1>1, SeriesAssumption DEF Init, TypeOK, Idle, Tx
<1>3. RowsAreHeldOnce /\ SucceededRan
  BY DEF Init, Idle, RowsAreHeldOnce, SucceededRan
<1>4. InsertsAreFresh /\ ProcessedRan
  BY <1>1 DEF Init, InsertsAreFresh, ProcessedRan
<1>. QED
  BY <1>2, <1>3, <1>4 DEF IInv

(* A push starts a call with a creation time of its own. *)
LEMMA PushIInv ==
  ASSUME IInv, NEW e \in Event, PushSeriesRegistryEvent(e)
  PROVE  IInv'
<1>1. /\ clock' = clock + 1 /\ clock' \in 0..MaxPushes
      /\ inflight' \subseteq inflight \cup {[event |-> e, created |-> clock']}
      /\ UNCHANGED <<rows, tx, leaked, prune, faults, done, failed>>
  BY SeriesAssumption DEF PushSeriesRegistryEvent, IInv, TypeOK
<1>2. TypeOK'
  BY <1>1 DEF IInv, TypeOK
<1>3. InsertsAreFresh'
  BY <1>1 DEF IInv, TypeOK, InsertsAreFresh
<1>. QED
  BY <1>1, <1>2, <1>3 DEF IInv, RowsAreHeldOnce, Eligible, Holds, SucceededRan, ProcessedRan

(* The insert adds a row no transaction can hold yet, or nothing. *)
LEMMA InsertIInv ==
  ASSUME IInv, NEW m \in inflight, InsertSeriesEvent(m)
  PROVE  IInv'
<1>1. UNCHANGED <<tx, leaked, prune, clock, faults, done, failed>>
      /\ inflight' = inflight \ {m}
  BY DEF InsertSeriesEvent
<1>2. CASE UNCHANGED rows
  BY <1>1, <1>2 DEF IInv, TypeOK, RowsAreHeldOnce, Eligible, Holds, SucceededRan,
                    InsertsAreFresh, ProcessedRan
<1>3. CASE rows' # rows
  <2>1. /\ DOMAIN rows' = DOMAIN rows \cup {m.created}
        /\ rows'[m.created] = NewRow(m)
        /\ m.created \notin DOMAIN rows
        /\ \A r \in DOMAIN rows : rows'[r] = rows[r]
    BY <1>3 DEF InsertSeriesEvent, IInv, InsertsAreFresh
  <2>2. m.event \in Event /\ m.created \in 1..clock
    BY DEF IInv, TypeOK
  <2>3. TypeOK'
    BY <1>1, <2>1, <2>2 DEF NewRow, IInv, TypeOK
  <2>4. RowsAreHeldOnce'
    BY <1>1, <2>1 DEF IInv, RowsAreHeldOnce, Eligible, Holds
  <2>5. InsertsAreFresh'
    BY <1>1, <2>1 DEF IInv, InsertsAreFresh
  <2>6. SucceededRan' /\ ProcessedRan'
    BY <1>1, <2>1 DEF NewRow, IInv, SucceededRan, ProcessedRan
  <2>. QED
    BY <2>3, <2>4, <2>5, <2>6 DEF IInv
<1>. QED
  BY <1>2, <1>3

LEMMA FailPushIInv ==
  ASSUME IInv, NEW m \in inflight, FailPush(m)
  PROVE  IInv'
<1>1. /\ inflight' \subseteq inflight /\ faults' \in 0..MaxFaults
      /\ UNCHANGED <<rows, tx, leaked, prune, clock, done, failed>>
  BY SeriesAssumption DEF FailPush, IInv, TypeOK
<1>. QED
  BY <1>1 DEF IInv, TypeOK, RowsAreHeldOnce, Eligible, Holds, SucceededRan,
              InsertsAreFresh, ProcessedRan

(* SKIP LOCKED: the row a worker gets is held by no open transaction, the  *)
(* abandoned ones included.                                                *)
LEMMA GetIInv ==
  ASSUME IInv, NEW p \in Process, NEW w \in Worker,
         GetSeriesRegistryEventTransaction(p, w)
  PROVE  IInv'
<1>1. PICK r \in DOMAIN rows :
        /\ Eligible(w, r) /\ ~ Locked(r)
        /\ tx' = [tx EXCEPT ![p][w] = [row |-> r, outcome |-> "open", alive |-> TRUE]]
  BY DEF GetSeriesRegistryEventTransaction
<1>2. UNCHANGED <<rows, inflight, leaked, prune, clock, faults, done, failed>>
  BY DEF GetSeriesRegistryEventTransaction
<1>3. \A q \in Process, v \in Worker :
        tx'[q][v] = IF q = p /\ v = w
                    THEN [row |-> r, outcome |-> "open", alive |-> TRUE]
                    ELSE tx[q][v]
  BY <1>1 DEF IInv, TypeOK
<1>4. r \in Nat /\ rows[r].status = "created"
  BY <1>1 DEF IInv, TypeOK, Eligible
<1>5. TypeOK'
  BY <1>1, <1>2, <1>4 DEF IInv, TypeOK, Tx
<1>6. RowsAreHeldOnce'
  <2>1. \A q \in Process, v \in Worker : tx[q][v].alive => tx[q][v].row # r
    BY <1>1 DEF Locked, Holds
  <2>2. \A q \in Process : r \notin leaked[q]
    BY <1>1 DEF Locked
  <2>3. ASSUME NEW q \in Process, NEW v \in Worker, tx'[q][v].alive
        PROVE  WorkerHolds(q, v)'
    <3>1. CASE q = p /\ v = w
      BY <1>1, <1>2, <1>3, <1>4, <2>1, <2>2, <3>1 DEF WorkerHolds, Eligible
    <3>2. CASE ~ (q = p /\ v = w)
      <4>1. tx'[q][v] = tx[q][v] /\ WorkerHolds(q, v) /\ tx[q][v].row # r
        BY <1>3, <2>1, <2>3, <3>2, HeldOnce DEF IInv
      <4>. QED
        BY <1>2, <1>3, <4>1 DEF WorkerHolds
    <3>. QED
      BY <3>1, <3>2
  <2>4. ASSUME NEW q \in Process, NEW s \in leaked'[q]
        PROVE  LeakHolds(q, s)'
    BY <1>2, <2>4, HeldOnce DEF IInv, LeakHolds
  <2>. QED
    BY <2>3, <2>4, HeldOnceNext
<1>7. SucceededRan'
  BY <1>2, <1>3 DEF IInv, SucceededRan
<1>. QED
  BY <1>2, <1>5, <1>6, <1>7 DEF IInv, InsertsAreFresh, ProcessedRan

LEMMA RunIInv ==
  ASSUME IInv, NEW p \in Process, NEW w \in Worker, RunProcessor(p, w)
  PROVE  IInv'
<1>1. /\ tx' = [tx EXCEPT ![p][w].outcome = "ok"]
      /\ done' = done \cup {tx[p][w].row} /\ tx[p][w].outcome = "open"
      /\ UNCHANGED <<rows, inflight, leaked, prune, clock, faults, failed>>
  BY DEF RunProcessor
<1>2. tx[p][w].row \in Nat /\ tx[p][w].outcome = "open"
  BY DEF RunProcessor, IInv, TypeOK, Tx, Idle
<1>3. \A q \in Process, v \in Worker :
        /\ tx'[q][v].row = tx[q][v].row
        /\ tx'[q][v].alive = tx[q][v].alive
        /\ tx'[q][v].outcome = IF q = p /\ v = w THEN "ok" ELSE tx[q][v].outcome
  BY <1>1, <1>2 DEF IInv, TypeOK, Tx, Idle
<1>4. TypeOK'
  <2>1. tx' \in [Process -> [Worker -> Tx]]
    <3>1. tx[p][w] \in Tx /\ tx \in [Process -> [Worker -> Tx]]
      BY DEF IInv, TypeOK
    <3>2. [tx[p][w] EXCEPT !.outcome = "ok"] \in Tx
      BY <1>2, <3>1 DEF Tx, Idle
    <3>3. tx' = [tx EXCEPT ![p] = [tx[p] EXCEPT ![w] = [tx[p][w] EXCEPT !.outcome = "ok"]]]
      BY <1>1
    <3>. QED
      BY <3>1, <3>2, <3>3
  <2>. QED
    BY <1>1, <1>2, <2>1 DEF IInv, TypeOK
<1>5. RowsAreHeldOnce'
  BY <1>1, <1>3, HeldOnce, HeldOnceNext DEF IInv, WorkerHolds, LeakHolds
<1>6. SucceededRan'
  BY <1>1, <1>3 DEF IInv, SucceededRan
<1>. QED
  BY <1>1, <1>4, <1>5, <1>6 DEF IInv, InsertsAreFresh, ProcessedRan

(* A worker whose processor fails hands its lock to the transaction it     *)
(* leaves open.                                                            *)
LEMMA FailIInv ==
  ASSUME IInv, NEW p \in Process, NEW w \in Worker, FailProcessor(p, w)
  PROVE  IInv'
<1> DEFINE r == tx[p][w].row
<1>1. /\ tx' = [tx EXCEPT ![p][w] = Idle]
      /\ leaked' = Abandon(p, w)
      /\ failed' = failed \cup {r}
      /\ UNCHANGED <<rows, inflight, prune, clock, faults, done>>
  BY DEF FailProcessor
<1>2. r \in Nat
  BY DEF FailProcessor, IInv, TypeOK, Tx, Idle
<1>3. \A q \in Process, v \in Worker :
        tx'[q][v].alive => ~ (q = p /\ v = w) /\ tx'[q][v] = tx[q][v]
  BY <1>1 DEF IInv, TypeOK, Idle
<1>4. \A q \in Process :
        leaked'[q] = IF q = p /\ tx[p][w].alive THEN leaked[q] \cup {r} ELSE leaked[q]
  BY <1>1 DEF Abandon, IInv, TypeOK
<1>5. TypeOK'
  <2>1. tx' \in [Process -> [Worker -> Tx]]
    BY <1>1 DEF IInv, TypeOK, Tx
  <2>2. leaked' \in [Process -> SUBSET Nat]
    BY <1>1, <1>2 DEF Abandon, IInv, TypeOK
  <2>. QED
    BY <1>1, <1>2, <2>1, <2>2 DEF IInv, TypeOK
<1>6. RowsAreHeldOnce'
  <2>1. CASE tx[p][w].alive
    <3>1. /\ r \in DOMAIN rows /\ rows[r].status = "created"
          /\ \A q \in Process : r \notin leaked[q]
          /\ \A q \in Process, v \in Worker : Holds(q, v, r) => q = p /\ v = w
      BY <2>1 DEF IInv, RowsAreHeldOnce, Eligible
    <3>2. ASSUME NEW q \in Process, NEW v \in Worker, tx'[q][v].alive
          PROVE  WorkerHolds(q, v)'
      <4>1. tx'[q][v] = tx[q][v] /\ WorkerHolds(q, v) /\ tx[q][v].row # r
        BY <1>3, <3>1, <3>2, HeldOnce DEF IInv, Holds
      <4>2. \A x \in Process : tx[q][v].row \notin leaked'[x]
        BY <1>4, <4>1 DEF WorkerHolds
      <4>. QED
        BY <1>1, <1>3, <4>1, <4>2 DEF WorkerHolds
    <3>3. ASSUME NEW q \in Process, NEW s \in leaked'[q]
          PROVE  LeakHolds(q, s)'
      <4>1. CASE s = r
        BY <1>1, <1>4, <3>1, <3>3, <4>1 DEF LeakHolds
      <4>2. CASE s # r
        <5>1. s \in leaked[q] /\ LeakHolds(q, s)
          BY <1>4, <3>3, <4>2, HeldOnce DEF IInv
        <5>. QED
          BY <1>1, <1>4, <4>2, <5>1 DEF LeakHolds
      <4>. QED
        BY <4>1, <4>2
    <3>. QED
      BY <3>2, <3>3, HeldOnceNext
  <2>2. CASE ~ tx[p][w].alive
    BY <1>1, <1>3, <1>4, <2>2 DEF IInv, RowsAreHeldOnce, Eligible, Holds
  <2>. QED
    BY <2>1, <2>2
<1>7. SucceededRan'
  BY <1>1, <1>3 DEF IInv, SucceededRan
<1>. QED
  BY <1>1, <1>5, <1>6, <1>7 DEF IInv, InsertsAreFresh, ProcessedRan

(* The commit marks a row no other open transaction holds. *)
LEMMA CommitIInv ==
  ASSUME IInv, NEW p \in Process, NEW w \in Worker, Commit(p, w)
  PROVE  IInv'
<1> DEFINE r == tx[p][w].row
<1>1. /\ tx[p][w].alive /\ tx[p][w].outcome = "ok"
      /\ tx' = [tx EXCEPT ![p][w] = Idle]
      /\ rows' = [rows EXCEPT ![r].status = "processed"]
      /\ UNCHANGED <<inflight, leaked, prune, clock, faults, done, failed>>
  BY DEF Commit
<1>2. /\ r \in DOMAIN rows /\ r \in done
      /\ \A q \in Process : r \notin leaked[q]
      /\ \A q \in Process, v \in Worker : Holds(q, v, r) => q = p /\ v = w
  BY <1>1 DEF IInv, RowsAreHeldOnce, Eligible, SucceededRan
<1>3. \A q \in Process, v \in Worker :
        tx'[q][v].alive => /\ ~ (q = p /\ v = w) /\ tx'[q][v] = tx[q][v]
                           /\ tx[q][v].row # r
  BY <1>1, <1>2 DEF IInv, TypeOK, Idle, Holds
<1>4. /\ DOMAIN rows' = DOMAIN rows
      /\ \A s \in DOMAIN rows :
           /\ s # r => rows'[s] = rows[s]
           /\ rows'[s].event = rows[s].event
      /\ rows'[r].status = "processed"
  BY <1>1, <1>2 DEF IInv, TypeOK
<1>5. TypeOK'
  <2>1. tx' \in [Process -> [Worker -> Tx]]
    BY <1>1 DEF IInv, TypeOK, Tx
  <2>. QED
    BY <1>1, <1>4, <2>1 DEF IInv, TypeOK
<1>6. RowsAreHeldOnce'
  <2>1. ASSUME NEW q \in Process, NEW v \in Worker, tx'[q][v].alive
        PROVE  WorkerHolds(q, v)'
    <3>1. tx'[q][v] = tx[q][v] /\ WorkerHolds(q, v) /\ tx[q][v].row # r
      BY <1>3, <2>1, HeldOnce DEF IInv
    <3>2. \A x \in Process, y \in Worker : tx'[x][y].alive => tx'[x][y] = tx[x][y]
      BY <1>3
    <3>3. leaked' = leaked /\ tx'[q][v].row = tx[q][v].row
      BY <1>1, <3>1
    <3> DEFINE s == tx[q][v].row
    <3>4. s \in DOMAIN rows /\ rows[s].event.type \in Types[v] /\ rows[s].status = "created"
      BY <3>1 DEF WorkerHolds
    <3>5. s \in DOMAIN rows' /\ rows'[s].event.type \in Types[v] /\ rows'[s].status = "created"
      BY <1>4, <3>1, <3>4
    <3>6. \A x \in Process, y \in Worker :
            tx'[x][y].alive /\ tx'[x][y].row = s => x = q /\ y = v
      BY <3>1, <3>2 DEF WorkerHolds
    <3>7. \A x \in Process : s \notin leaked'[x]
      BY <3>1, <3>3 DEF WorkerHolds
    <3>. QED
      BY <3>3, <3>5, <3>6, <3>7 DEF WorkerHolds
  <2>2. ASSUME NEW q \in Process, NEW s \in leaked'[q]
        PROVE  LeakHolds(q, s)'
    <3>1. s \in leaked[q] /\ LeakHolds(q, s) /\ s # r
      BY <1>1, <1>2, <2>2, HeldOnce DEF IInv
    <3>. QED
      BY <1>1, <1>3, <1>4, <3>1 DEF LeakHolds
  <2>. QED
    BY <2>1, <2>2, HeldOnceNext
<1>7. SucceededRan' /\ ProcessedRan'
  BY <1>1, <1>2, <1>3, <1>4 DEF IInv, SucceededRan, ProcessedRan
<1>. QED
  BY <1>1, <1>4, <1>5, <1>6, <1>7 DEF IInv, InsertsAreFresh

(* Ending transactions without touching the table keeps the invariant. *)
LEMMA ReleaseIInv ==
  ASSUME IInv,
         tx' \in [Process -> [Worker -> Tx]],
         \A q \in Process, v \in Worker : tx'[q][v].alive => tx'[q][v] = tx[q][v],
         leaked' \in [Process -> SUBSET Nat],
         \A q \in Process : leaked'[q] \subseteq leaked[q],
         prune' \in [Process -> Nat],
         faults' \in 0..MaxFaults,
         UNCHANGED <<rows, inflight, clock, done, failed>>
  PROVE  IInv'
<1>1. TypeOK'
  BY DEF IInv, TypeOK
<1>2. RowsAreHeldOnce'
  <2>1. ASSUME NEW q \in Process, NEW v \in Worker, tx'[q][v].alive
        PROVE  WorkerHolds(q, v)'
    <3>1. tx'[q][v] = tx[q][v] /\ WorkerHolds(q, v)
      BY <2>1, HeldOnce DEF IInv
    <3>2. \A x \in Process : leaked'[x] \subseteq leaked[x]
      OBVIOUS
    <3>3. \A x \in Process, y \in Worker : tx'[x][y].alive => tx[x][y] = tx'[x][y]
      OBVIOUS
    <3> DEFINE s == tx[q][v].row
    <3>4. /\ s \in DOMAIN rows /\ rows[s].event.type \in Types[v]
          /\ rows[s].status = "created"
      BY <3>1 DEF WorkerHolds
    <3>5. ASSUME NEW x \in Process, NEW y \in Worker, tx'[x][y].alive, tx'[x][y].row = s
          PROVE  x = q /\ y = v
      <4>1. tx[x][y].alive /\ tx[x][y].row = s
        BY <3>3, <3>5
      <4>. QED
        BY <3>1, <4>1 DEF WorkerHolds
    <3>6. \A x \in Process : s \notin leaked'[x]
      BY <3>1, <3>2 DEF WorkerHolds
    <3>. QED
      BY <3>1, <3>4, <3>5, <3>6 DEF WorkerHolds
  <2>2. ASSUME NEW q \in Process, NEW s \in leaked'[q]
        PROVE  LeakHolds(q, s)'
    BY <2>2, HeldOnce DEF IInv, LeakHolds
  <2>. QED
    BY <2>1, <2>2, HeldOnceNext
<1>3. SucceededRan'
  BY DEF IInv, SucceededRan
<1>. QED
  BY <1>1, <1>2, <1>3 DEF IInv, InsertsAreFresh, ProcessedRan

LEMMA DiscardIInv ==
  ASSUME IInv, NEW p \in Process, NEW w \in Worker, Discard(p, w)
  PROVE  IInv'
<1>1. tx' \in [Process -> [Worker -> Tx]]
  BY DEF Discard, IInv, TypeOK, Tx
<1>2. \A q \in Process, v \in Worker : tx'[q][v].alive => tx'[q][v] = tx[q][v]
  BY DEF Discard, IInv, TypeOK, Idle
<1>. QED
  BY <1>1, <1>2, ReleaseIInv DEF Discard, IInv, TypeOK

LEMMA LoseIInv ==
  ASSUME IInv, NEW p \in Process, NEW w \in Worker, LoseTransaction(p, w)
  PROVE  IInv'
<1>1. tx[p][w].alive /\ tx' = [tx EXCEPT ![p][w] = Dead(tx[p][w])]
      /\ UNCHANGED <<rows, inflight, leaked, prune, clock, done, failed>>
  BY DEF LoseTransaction
<1>2. Dead(tx[p][w]) \in Tx
  BY <1>1 DEF Dead, IInv, TypeOK, Tx, Idle
<1>3. tx' \in [Process -> [Worker -> Tx]]
  BY <1>1, <1>2 DEF IInv, TypeOK
<1>4. \A q \in Process, v \in Worker : tx'[q][v].alive => tx'[q][v] = tx[q][v]
  BY <1>1 DEF Dead, IInv, TypeOK
<1>5. faults' \in 0..MaxFaults
  BY SeriesAssumption DEF LoseTransaction, IInv, TypeOK
<1>. QED
  BY <1>1, <1>3, <1>4, <1>5, ReleaseIInv DEF IInv, TypeOK

LEMMA CrashIInv ==
  ASSUME IInv, NEW p \in Process, Crash(p)
  PROVE  IInv'
<1>1. tx' \in [Process -> [Worker -> Tx]]
  <2>1. [w \in Worker |-> Idle] \in [Worker -> Tx]
    BY DEF Tx
  <2>. QED
    BY <2>1 DEF Crash, IInv, TypeOK
<1>2. \A q \in Process, v \in Worker : tx'[q][v].alive => tx'[q][v] = tx[q][v]
  BY DEF Crash, IInv, TypeOK, Idle
<1>3. faults' \in 0..MaxFaults
  BY SeriesAssumption DEF Crash, IInv, TypeOK
<1>4. /\ leaked' \in [Process -> SUBSET Nat]
      /\ \A q \in Process : leaked'[q] \subseteq leaked[q]
      /\ prune' \in [Process -> Nat]
  BY DEF Crash, IInv, TypeOK
<1>. QED
  BY <1>1, <1>2, <1>3, <1>4, ReleaseIInv DEF Crash

LEMMA StartPruneIInv ==
  ASSUME IInv, NEW p \in Process, StartPrune(p)
  PROVE  IInv'
<1>1. prune' \in [Process -> Nat]
  BY DEF StartPrune, IInv, TypeOK
<1>. QED
  BY <1>1, ReleaseIInv DEF StartPrune, IInv, TypeOK

(* The DELETE waited for the locks of the rows it removes. *)
LEMMA FinishPruneIInv ==
  ASSUME IInv, NEW p \in Process, FinishPrune(p)
  PROVE  IInv'
<1>1. /\ rows' = [r \in DOMAIN rows \ Expired(prune[p]) |-> rows[r]]
      /\ \A r \in Expired(prune[p]) : ~ Locked(r)
      /\ prune' \in [Process -> Nat]
      /\ UNCHANGED <<inflight, tx, leaked, clock, faults, done, failed>>
  BY DEF FinishPrune, Restrict, Unlocked, Expired, IInv, TypeOK
<1>2. TypeOK'
  BY <1>1 DEF IInv, TypeOK
<1>3. RowsAreHeldOnce'
  BY <1>1 DEF IInv, RowsAreHeldOnce, Eligible, Holds, Locked
<1>. QED
  BY <1>1, <1>2, <1>3 DEF IInv, SucceededRan, InsertsAreFresh, ProcessedRan

(* Every step keeps the inductive invariant. *)
LEMMA StepIInv == IInv /\ [Next]_vars => IInv'
<1> SUFFICES ASSUME IInv, [Next]_vars PROVE IInv'
  OBVIOUS
<1>1. CASE UNCHANGED vars
  BY <1>1, ReleaseIInv DEF vars, IInv, TypeOK
<1>2. ASSUME NEW e \in Event, PushSeriesRegistryEvent(e) PROVE IInv'
  BY <1>2, PushIInv
<1>3. ASSUME NEW m \in inflight, InsertSeriesEvent(m) \/ FailPush(m) PROVE IInv'
  BY <1>3, InsertIInv, FailPushIInv
<1>4. ASSUME NEW p \in Process, NEW w \in Worker, WorkerStep(p, w) PROVE IInv'
  BY <1>4, GetIInv, RunIInv, FailIInv, CommitIInv, DiscardIInv DEF WorkerStep
<1>5. ASSUME NEW p \in Process, NEW w \in Worker, LoseTransaction(p, w) PROVE IInv'
  BY <1>5, LoseIInv
<1>6. ASSUME NEW p \in Process, Crash(p) \/ StartPrune(p) \/ FinishPrune(p) PROVE IInv'
  BY <1>6, CrashIInv, StartPruneIInv, FinishPruneIInv
<1>. QED
  BY <1>1, <1>2, <1>3, <1>4, <1>5, <1>6 DEF Next

(* IInv holds in every reachable state. *)
THEOREM Invariance == Spec => []IInv
  BY InitIInv, StepIInv, PTL DEF Spec

(***************************************************************************)
(* Every transaction of GetSeriesRegistryEventTransaction, those that      *)
(* failed processors leave open included, holds a row of its own that is   *)
(* not processed, and the cron job deletes none of them.                   *)
(***************************************************************************)
THEOREM SeriesRowLocking == Spec => []RowsAreHeldOnce
<1>1. IInv => RowsAreHeldOnce
  BY DEF IInv
<1>. QED
  BY <1>1, Invariance, PTL

(* StartSeriesRegistryEventWorker marks a row processed only after its     *)
(* processor returned no error.                                            *)
THEOREM ProcessedSucceeded == Spec => []ProcessedRan
<1>1. IInv => ProcessedRan
  BY DEF IInv
<1>. QED
  BY <1>1, Invariance, PTL
===============================================================================
