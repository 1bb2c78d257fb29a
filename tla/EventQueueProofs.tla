--------------------------- MODULE EventQueueProofs ---------------------------
(***************************************************************************)
(* Proofs about EventQueue, for every set of events, processes and bounds. *)
(***************************************************************************)
EXTENDS EventQueue, TLAPS

(* The worker table, entry by entry, in the form the provers use. *)
LEMMA WorkerFacts ==
  ASSUME NEW w \in Worker
  PROVE  /\ WorkerTable[w].types \subseteq EventType
         /\ WorkerTable[w].current \in Stage
         /\ WorkerTable[w].next \in Stage \cup {Done}
         /\ \A t \in WorkerTable[w].types :
              /\ WorkerTable[w].current \in StagesOf(t)
              /\ WorkerTable[w].next # Done =>
                   /\ WorkerTable[w].next \in StagesOf(t)
                   /\ Earlier(t, WorkerTable[w].next) \subseteq
                        Earlier(t, WorkerTable[w].current) \cup {WorkerTable[w].current}
  BY DEF Worker, WorkerTable, EventType, Stage, StagesOf, Earlier, Done,
         StageInit, FullSync, SaleIndexing, DoubleSync

(* A queue row has the fields of Row, and its event is an event record. *)
LEMMA RowFacts ==
  ASSUME TypeOK, NEW e \in DOMAIN queue
  PROVE  /\ e \in Event /\ e.type \in EventType /\ e.body \in Body
         /\ queue[e].stage \in Stage
         /\ queue[e].created \in Nat
         /\ queue[e].ripe \in SUBSET Worker
  BY EventAssumption DEF TypeOK, Row

(* Advancing a row changes its stage, and its status only on a failure. *)
LEMMA NextRowFacts ==
  ASSUME NEW row \in Row, NEW w \in Worker, NEW outcome,
         WorkerTable[w].next \in Stage
  PROVE  /\ NextRow(row, w, outcome) \in Row
         /\ NextRow(row, w, outcome).stage = WorkerTable[w].next
         /\ NextRow(row, w, outcome).status =
              IF outcome = "failed" THEN "failed" ELSE row.status
<1> DEFINE s == IF outcome = "failed" THEN "failed" ELSE row.status
           n == WorkerTable[w].next
<1>1. NextRow(row, w, outcome) = [row EXCEPT !.status = s, !.stage = n]
  BY DEF NextRow
<1>2. s \in {"created", "processing", "processed", "failed"}
  BY DEF Row
<1>3. n \in Stage
  OBVIOUS
<1> HIDE DEF s, n
<1>4. /\ [row EXCEPT !.status = s, !.stage = n] \in Row
      /\ [row EXCEPT !.status = s, !.stage = n].stage = n
      /\ [row EXCEPT !.status = s, !.stage = n].status = s
  BY <1>2, <1>3 DEF Row
<1>. QED
  BY <1>1, <1>4 DEF s, n

(* The initial state satisfies the inductive invariant. *)
LEMMA InitIInv == Init => IInv
<1> SUFFICES ASSUME Init PROVE IInv
  OBVIOUS
<1>1. DOMAIN queue = {}
  BY DEF Init
<1>2. TypeOK
  BY <1>1, EventAssumption DEF Init, TypeOK, Idle, Tx
<1>3. StatusInv /\ StagesRanInOrder
  BY <1>1 DEF StatusInv, StagesRanInOrder
<1>4. TransactionsHoldTheirRow /\ SucceededRan
  BY DEF Init, Idle, TransactionsHoldTheirRow, SucceededRan
<1>. QED
  BY <1>2, <1>3, <1>4 DEF IInv

(* A push only starts a call. *)
LEMMA PushIInv ==
  ASSUME IInv, NEW e \in Event, PushNftEvent(e)
  PROVE  IInv'
<1>1. TypeOK'
  BY EventAssumption DEF IInv, TypeOK, PushNftEvent
<1>. QED
  BY <1>1 DEF IInv, PushNftEvent, StatusInv, TransactionsHoldTheirRow,
              SucceededRan, StagesRanInOrder

(* The insert adds a fresh row that no transaction can hold, or nothing. *)
LEMMA InsertIInv ==
  ASSUME IInv, NEW m \in inflight, InsertNftEvent(m)
  PROVE  IInv'
<1> DEFINE e == m.event
<1>1. CASE e \in DOMAIN queue
  <2>1. UNCHANGED <<queue, ran, archive, tx, clock, faults>> /\ inflight' \subseteq inflight
    BY <1>1 DEF InsertNftEvent
  <2>. QED
    BY <2>1 DEF IInv, TypeOK, StatusInv, TransactionsHoldTheirRow,
                SucceededRan, StagesRanInOrder
<1>2. CASE e \notin DOMAIN queue
  <2>1. e \in Event /\ m.created \in Nat
    BY DEF IInv, TypeOK
  <2>2. /\ DOMAIN queue' = DOMAIN queue \cup {e}
        /\ queue'[e] = NewRow(m)
        /\ \A f \in DOMAIN queue : queue'[f] = queue[f]
    BY <1>2 DEF InsertNftEvent
  <2>3. /\ UNCHANGED <<archive, tx, clock, faults>> /\ inflight' \subseteq inflight
        /\ ran' = [ran EXCEPT ![e] = {}]
    BY <1>2 DEF InsertNftEvent
  <2>4. TypeOK'
    BY <2>1, <2>2, <2>3 DEF NewRow, IInv, TypeOK, Row, Stage
  <2>5. StatusInv'
    BY <2>2 DEF NewRow, IInv, StatusInv
  <2>6. TransactionsHoldTheirRow'
    BY <2>2, <2>3 DEF IInv, TransactionsHoldTheirRow
  <2>7. SucceededRan'
    BY <1>2, <2>3 DEF IInv, SucceededRan, TransactionsHoldTheirRow, TypeOK
  <2>8. StagesRanInOrder'
    <3>1. e.type \in EventType
      BY <2>1, EventAssumption
    <3>2. StageInit \in StagesOf(e.type) /\ Earlier(e.type, StageInit) = {}
      BY <3>1 DEF EventType, StagesOf, Earlier, StageInit, FullSync,
                  SaleIndexing, DoubleSync
    <3>. QED
      BY <1>2, <2>1, <2>2, <2>3, <3>2 DEF NewRow, IInv, StagesRanInOrder, TypeOK
  <2>. QED
    BY <2>4, <2>5, <2>6, <2>7, <2>8 DEF IInv
<1>. QED
  BY <1>1, <1>2

(* A lost push changes neither the tables nor the transactions. *)
LEMMA FailPushIInv ==
  ASSUME IInv, NEW m \in inflight, FailPush(m)
  PROVE  IInv'
  BY EventAssumption
  DEF FailPush, IInv, TypeOK, StatusInv, TransactionsHoldTheirRow,
      SucceededRan, StagesRanInOrder

(* SKIP LOCKED: the row a worker gets is held by no live transaction. *)
LEMMA GetIInv ==
  ASSUME IInv, NEW p \in Process, NEW w \in Worker, GetNftEventTransaction(p, w)
  PROVE  IInv'
<1>1. PICK e \in DOMAIN queue :
        /\ Eligible(w, e) /\ ~ Locked(e)
        /\ tx' = [tx EXCEPT ![p][w] =
                    [event |-> e, outcome |-> "open", alive |-> TRUE]]
  BY DEF GetNftEventTransaction
<1>2. UNCHANGED <<queue, archive, inflight, clock, faults, ran>>
  BY DEF GetNftEventTransaction
<1>3. \A q \in Process, v \in Worker :
        tx'[q][v] = IF q = p /\ v = w
                    THEN [event |-> e, outcome |-> "open", alive |-> TRUE]
                    ELSE tx[q][v]
  BY <1>1 DEF IInv, TypeOK
<1>4. TypeOK'
  BY <1>1, <1>2, RowFacts DEF IInv, TypeOK, Tx
<1>5. TransactionsHoldTheirRow'
  <2>1. Handles(w, e.type, queue[e].stage) /\ queue[e].status = "created"
    BY <1>1 DEF Eligible, IInv, StatusInv
  <2>2. \A q \in Process, v \in Worker : tx[q][v].alive => tx[q][v].event # e
    BY <1>1 DEF Locked
  <2>. QED
    BY <1>2, <1>3, <2>1, <2>2 DEF IInv, TransactionsHoldTheirRow
<1>6. SucceededRan'
  BY <1>2, <1>3 DEF IInv, SucceededRan
<1>. QED
  BY <1>2, <1>4, <1>5, <1>6 DEF IInv, StatusInv, StagesRanInOrder

(* A processor only adds to the stages that ran. *)
LEMMA RunIInv ==
  ASSUME IInv, NEW p \in Process, NEW w \in Worker, RunProcessor(p, w)
  PROVE  IInv'
<1> DEFINE e == tx[p][w].event
<1>1. PICK o \in {"ok", "failed"} :
        /\ tx' = [tx EXCEPT ![p][w].outcome = o]
        /\ ran' = IF o = "ok" THEN [ran EXCEPT ![e] = @ \cup {WorkerTable[w].current}]
                  ELSE ran
  BY DEF RunProcessor
<1>2. UNCHANGED <<queue, archive, inflight, clock, faults>>
  BY DEF RunProcessor
<1>3. \A q \in Process, v \in Worker :
        /\ tx'[q][v].event = tx[q][v].event
        /\ tx'[q][v].alive = tx[q][v].alive
        /\ tx'[q][v].outcome = IF q = p /\ v = w THEN o ELSE tx[q][v].outcome
  BY <1>1 DEF IInv, TypeOK, Tx
<1>4. \A f \in Event : ran[f] \subseteq ran'[f]
  BY <1>1, WorkerFacts DEF IInv, TypeOK
<1>5. TypeOK'
  <2>1. tx' \in [Process -> [Worker -> Tx]]
    <3>1. tx[p][w] \in Tx /\ tx \in [Process -> [Worker -> Tx]]
      BY DEF IInv, TypeOK
    <3>2. [tx[p][w] EXCEPT !.outcome = o] \in Tx
      BY <3>1 DEF Tx
    <3>3. tx' = [tx EXCEPT ![p] = [tx[p] EXCEPT ![w] = [tx[p][w] EXCEPT !.outcome = o]]]
      BY <1>1
    <3>. QED
      BY <3>1, <3>2, <3>3
  <2>2. ran' \in [Event -> SUBSET Stage]
    BY <1>1, WorkerFacts DEF IInv, TypeOK
  <2>. QED
    BY <1>2, <2>1, <2>2 DEF IInv, TypeOK
<1>6. TransactionsHoldTheirRow'
  BY <1>2, <1>3 DEF IInv, TransactionsHoldTheirRow
<1>7. SucceededRan'
  <2> SUFFICES ASSUME NEW q \in Process, NEW v \in Worker,
                      tx'[q][v].alive, tx'[q][v].outcome = "ok"
               PROVE  WorkerTable[v].current \in ran'[tx'[q][v].event]
    BY DEF SucceededRan
  <2>1. tx[q][v].event \in Event
    BY <1>3 DEF IInv, TransactionsHoldTheirRow, TypeOK
  <2>2. CASE q = p /\ v = w
    BY <1>1, <1>3, <2>1, <2>2 DEF IInv, TypeOK
  <2>3. CASE ~ (q = p /\ v = w)
    BY <1>3, <1>4, <2>1, <2>3 DEF IInv, SucceededRan
  <2>. QED
    BY <2>2, <2>3
<1>8. StagesRanInOrder'
  BY <1>2, <1>4 DEF IInv, StagesRanInOrder, TypeOK
<1>. QED
  BY <1>2, <1>5, <1>6, <1>7, <1>8 DEF IInv, StatusInv

(* Ending a transaction without touching the tables keeps the invariant:   *)
(* what a dead transaction held may be taken by another one.               *)
LEMMA ReleaseIInv ==
  ASSUME IInv,
         tx' \in [Process -> [Worker -> Tx]],
         \A q \in Process, v \in Worker : tx'[q][v].alive => tx'[q][v] = tx[q][v],
         faults' \in 0..MaxFaults,
         UNCHANGED <<queue, archive, inflight, clock, ran>>
  PROVE  IInv'
<1>1. TypeOK'
  BY DEF IInv, TypeOK
<1>2. TransactionsHoldTheirRow'
  BY DEF IInv, TransactionsHoldTheirRow
<1>3. SucceededRan'
  BY DEF IInv, SucceededRan
<1>. QED
  BY <1>1, <1>2, <1>3 DEF IInv, StatusInv, StagesRanInOrder

(* A dead transaction ends without a trace. *)
LEMMA DiscardIInv ==
  ASSUME IInv, NEW p \in Process, NEW w \in Worker, DiscardStage(p, w)
  PROVE  IInv'
<1>1. tx' \in [Process -> [Worker -> Tx]]
  BY DEF DiscardStage, IInv, TypeOK, Tx, Idle
<1>2. \A q \in Process, v \in Worker : tx'[q][v].alive => tx'[q][v] = tx[q][v]
  BY DEF DiscardStage, IInv, TypeOK, Idle
<1>. QED
  BY <1>1, <1>2, ReleaseIInv DEF DiscardStage, IInv, TypeOK

(* A lost transaction gives its lock up and writes nothing. *)
LEMMA LoseIInv ==
  ASSUME IInv, NEW p \in Process, NEW w \in Worker, LoseTransaction(p, w)
  PROVE  IInv'
<1>1. tx' \in [Process -> [Worker -> Tx]]
  BY DEF LoseTransaction, Dead, IInv, TypeOK, Tx
<1>2. \A q \in Process, v \in Worker : tx'[q][v].alive => tx'[q][v] = tx[q][v]
  BY DEF LoseTransaction, Dead, IInv, TypeOK, Tx
<1>3. faults' \in 0..MaxFaults
  BY EventAssumption DEF LoseTransaction, IInv, TypeOK
<1>. QED
  BY <1>1, <1>2, <1>3, ReleaseIInv DEF LoseTransaction

(* A crash ends the transactions of a process without a trace. *)
LEMMA CrashIInv ==
  ASSUME IInv, NEW p \in Process, Crash(p)
  PROVE  IInv'
<1>1. tx' \in [Process -> [Worker -> Tx]]
  <2>1. Idle \in Tx
    BY DEF Idle, Tx
  <2>2. [w \in Worker |-> Idle] \in [Worker -> Tx]
    BY <2>1
  <2>. QED
    BY <2>2 DEF Crash, IInv, TypeOK
<1>2. \A q \in Process, v \in Worker : tx'[q][v].alive => tx'[q][v] = tx[q][v]
  BY DEF Crash, IInv, TypeOK, Idle
<1>3. faults' \in 0..MaxFaults
  BY EventAssumption DEF Crash, IInv, TypeOK
<1>. QED
  BY <1>1, <1>2, <1>3, ReleaseIInv DEF Crash

(* Ageing changes no column the invariant is about. *)
LEMMA RipenIInv ==
  ASSUME IInv, NEW w \in Worker, NEW e \in Event, Ripen(w, e)
  PROVE  IInv'
<1>1. /\ DOMAIN queue' = DOMAIN queue
      /\ \A f \in DOMAIN queue :
           /\ queue'[f].stage = queue[f].stage
           /\ queue'[f].status = queue[f].status
           /\ queue'[f] \in Row
  BY DEF Ripen, IInv, TypeOK, Row
<1>2. UNCHANGED <<archive, inflight, tx, clock, faults, ran>>
  BY DEF Ripen
<1>. QED
  BY <1>1, <1>2 DEF IInv, TypeOK, StatusInv, TransactionsHoldTheirRow,
                    SucceededRan, StagesRanInOrder

(* The clean-up only removes archived rows. *)
LEMMA DeleteIInv ==
  ASSUME IInv, DeleteNftEvents
  PROVE  IInv'
<1>1. archive' \subseteq archive /\ UNCHANGED <<queue, inflight, tx, clock, faults, ran>>
  BY DEF DeleteNftEvents
<1>. QED
  BY <1>1 DEF IInv, TypeOK, StatusInv, TransactionsHoldTheirRow,
              SucceededRan, StagesRanInOrder

(***************************************************************************)
(* The commit: the writing transaction still holds its row, so it moves a  *)
(* row that is at its stage, and no other live transaction is on it.       *)
(***************************************************************************)
LEMMA CommitIInv ==
  ASSUME IInv, NEW p \in Process, NEW w \in Worker, CommitStage(p, w)
  PROVE  IInv'
<1> DEFINE e == tx[p][w].event
           last == WorkerTable[w].next = Done
<1>1. /\ tx[p][w].alive
      /\ tx' = [tx EXCEPT ![p][w] = Idle]
      /\ UNCHANGED <<inflight, clock, faults, ran>>
  BY DEF CommitStage
<1>2. /\ e \in DOMAIN queue /\ e \in Event
      /\ Handles(w, e.type, queue[e].stage)
      /\ queue[e].status = "created"
      /\ \A q \in Process, v \in Worker :
           tx[q][v].alive /\ tx[q][v].event = e => q = p /\ v = w
  BY <1>1, RowFacts DEF IInv, TransactionsHoldTheirRow
<1>3. \A q \in Process, v \in Worker :
        tx'[q][v].alive => /\ ~ (q = p /\ v = w)
                           /\ tx'[q][v] = tx[q][v]
                           /\ tx[q][v].event # e
  BY <1>1, <1>2 DEF IInv, TypeOK, Idle
<1>4. tx' \in [Process -> [Worker -> Tx]]
  BY <1>1 DEF IInv, TypeOK, Tx, Idle
<1>5. CASE last
  <2>1. /\ archive' = archive \cup {ArchivedRow(e, queue[e])}
        /\ queue' = [f \in DOMAIN queue \ {e} |-> queue[f]]
    BY <1>5 DEF CommitStage, Restrict
  <2>2. ArchivedRow(e, queue[e]) \in
          [type : EventType, body : Body, index : Nat, created : Nat]
    BY <1>2, RowFacts DEF ArchivedRow, IInv
  <2>3. TypeOK'
    BY <1>1, <1>4, <2>1, <2>2 DEF IInv, TypeOK
  <2>4. TransactionsHoldTheirRow'
    BY <1>3, <2>1 DEF IInv, TransactionsHoldTheirRow
  <2>5. SucceededRan'
    BY <1>1, <1>3 DEF IInv, SucceededRan
  <2>. QED
    BY <1>1, <2>1, <2>3, <2>4, <2>5 DEF IInv, StatusInv, StagesRanInOrder
<1>6. CASE ~ last
  <2> DEFINE row == NextRow(queue[e], w, tx[p][w].outcome)
  <2>1. /\ queue' = [queue EXCEPT ![e] = row]
        /\ UNCHANGED archive
    BY <1>6 DEF CommitStage
  <2>2. /\ row \in Row
        /\ row.stage = WorkerTable[w].next
        /\ row.status = IF tx[p][w].outcome = "failed" THEN "failed" ELSE "created"
    <3>1. queue[e] \in Row /\ WorkerTable[w].next \in Stage
      BY <1>2, <1>6, WorkerFacts DEF IInv, TypeOK
    <3>. QED
      BY <1>2, <3>1, NextRowFacts
  <2>3. TypeOK'
    BY <1>1, <1>4, <2>1, <2>2 DEF IInv, TypeOK
  <2>4. StatusInv'
    BY <2>1, <2>2 DEF IInv, StatusInv
  <2>5. TransactionsHoldTheirRow'
    BY <1>3, <2>1 DEF IInv, TransactionsHoldTheirRow
  <2>6. SucceededRan'
    BY <1>1, <1>3 DEF IInv, SucceededRan
  <2>7. StagesRanInOrder'
    <3> SUFFICES ASSUME NEW f \in DOMAIN queue
                 PROVE  /\ queue'[f].stage \in StagesOf(f.type)
                        /\ queue'[f].status # "failed" =>
                             Earlier(f.type, queue'[f].stage) \subseteq ran[f]
      BY <1>1, <2>1 DEF StagesRanInOrder
    <3>1. CASE f # e
      BY <2>1, <3>1 DEF IInv, StagesRanInOrder
    <3>2. CASE f = e
      <4>1. /\ e.type \in WorkerTable[w].types
            /\ queue[e].stage = WorkerTable[w].current
        BY <1>2 DEF Handles
      <4>2. WorkerTable[w].next \in StagesOf(e.type)
        BY <1>6, <4>1, WorkerFacts
      <4>3. ASSUME tx[p][w].outcome # "failed"
            PROVE  Earlier(e.type, WorkerTable[w].next) \subseteq ran[e]
        <5>1. tx[p][w].outcome = "ok"
          BY <4>3 DEF CommitStage
        <5>2. WorkerTable[w].current \in ran[e]
          BY <1>1, <5>1 DEF IInv, SucceededRan
        <5>3. Earlier(e.type, WorkerTable[w].current) \subseteq ran[e]
          BY <1>2, <4>1 DEF IInv, StagesRanInOrder
        <5>. QED
          BY <1>6, <4>1, <5>2, <5>3, WorkerFacts
      <4>. QED
        BY <1>2, <2>1, <2>2, <3>2, <4>2, <4>3
    <3>. QED
      BY <3>1, <3>2
  <2>. QED
    BY <2>3, <2>4, <2>5, <2>6, <2>7 DEF IInv
<1>. QED
  BY <1>5, <1>6

(* Every step keeps the inductive invariant. *)
LEMMA StepIInv == IInv /\ [Next]_vars => IInv'
<1> SUFFICES ASSUME IInv, [Next]_vars PROVE IInv'
  OBVIOUS
<1>1. CASE UNCHANGED vars
  BY <1>1 DEF vars, IInv, TypeOK, StatusInv, TransactionsHoldTheirRow,
              SucceededRan, StagesRanInOrder
<1>2. ASSUME NEW e \in Event, PushNftEvent(e) PROVE IInv'
  BY <1>2, PushIInv
<1>3. ASSUME NEW m \in inflight, InsertNftEvent(m) PROVE IInv'
  BY <1>3, InsertIInv
<1>4. ASSUME NEW m \in inflight, FailPush(m) PROVE IInv'
  BY <1>4, FailPushIInv
<1>5. ASSUME NEW p \in Process, NEW w \in Worker, WorkerStep(p, w) PROVE IInv'
  BY <1>5, GetIInv, RunIInv, CommitIInv, DiscardIInv DEF WorkerStep
<1>6. ASSUME NEW p \in Process, NEW w \in Worker, LoseTransaction(p, w) PROVE IInv'
  BY <1>6, LoseIInv
<1>7. ASSUME NEW p \in Process, Crash(p) PROVE IInv'
  BY <1>7, CrashIInv
<1>8. ASSUME NEW w \in Worker, NEW e \in Event, Ripen(w, e) PROVE IInv'
  BY <1>8, RipenIInv
<1>9. CASE DeleteNftEvents
  BY <1>9, DeleteIInv
<1>. QED
  BY <1>1, <1>2, <1>3, <1>4, <1>5, <1>6, <1>7, <1>8, <1>9 DEF Next

(* IInv holds in every reachable state. *)
THEOREM Invariance == Spec => []IInv
  BY InitIInv, StepIInv, PTL DEF Spec

(***************************************************************************)
(* The tables, calls and transactions keep their shape (StartNftEventWorker*)
(* and the store's functions).                                             *)
(***************************************************************************)
THEOREM TypeCorrect == Spec => []TypeOK
<1>1. IInv => TypeOK
  BY DEF IInv
<1>. QED
  BY <1>1, Invariance, PTL

(***************************************************************************)
(* The row locks of GetNftEventTransaction work: no two live transactions  *)
(* share a row, and the row read is the row written.                       *)
(***************************************************************************)
THEOREM RowLocking == Spec => []TransactionsHoldTheirRow
<1>1. IInv => TransactionsHoldTheirRow
  BY DEF IInv
<1>. QED
  BY <1>1, Invariance, PTL

(***************************************************************************)
(* A row that has not failed is at a stage of its type whose earlier       *)
(* stages have all succeeded for it.                                       *)
(***************************************************************************)
THEOREM StageOrder == Spec => []StagesRanInOrder
<1>1. IInv => StagesRanInOrder
  BY DEF IInv
<1>. QED
  BY <1>1, Invariance, PTL

(***************************************************************************)
(* The refinement.  The event of a transaction is one that its worker      *)
(* takes, its processor failed only where it can, and only stages of the   *)
(* event's type run for it.                                                *)
(***************************************************************************)
TxInv ==
  \A p \in Process, w \in Worker :
    tx[p][w].outcome # "none" =>
      /\ tx[p][w].event \in Event
      /\ tx[p][w].event.type \in WorkerTable[w].types
      /\ tx[p][w].outcome = "failed" =>
           CanFail(tx[p][w].event.type, WorkerTable[w].current)

RanInv == \A e \in Event : ran[e] \subseteq StagesOf(e.type)

(* The abstract pipeline has the same stages and workers.                   *)
LEMMA PipelineStages ==
  /\ Pipeline!Worker = Worker
  /\ Pipeline!WorkerTable = WorkerTable
  /\ Pipeline!Done = Done /\ Pipeline!StageInit = StageInit
  /\ \A w, t, s : Pipeline!Handles(w, t, s) <=> Handles(w, t, s)
  /\ \A t, s : Pipeline!CanFail(t, s) <=> CanFail(t, s)
<1>1. Pipeline!WorkerTable = WorkerTable
  BY DEF Pipeline!WorkerTable, WorkerTable, Pipeline!StageInit, StageInit, Pipeline!FullSync,
         FullSync, Pipeline!SaleIndexing, SaleIndexing, Pipeline!DoubleSync, DoubleSync,
         Pipeline!Done, Done
<1>2. Pipeline!Worker = Worker
  BY <1>1 DEF Pipeline!Worker, Worker
<1>3. Pipeline!Done = Done /\ Pipeline!StageInit = StageInit
  BY DEF Pipeline!Done, Done, Pipeline!StageInit, StageInit
<1>4. \A w, t, s : Pipeline!Handles(w, t, s) <=> Handles(w, t, s)
  BY <1>1 DEF Pipeline!Handles, Handles
<1>5. \A t, s : Pipeline!CanFail(t, s) <=> CanFail(t, s)
  BY DEF Pipeline!CanFail, CanFail, Pipeline!StageInit, StageInit, Pipeline!FullSync,
         FullSync, Pipeline!DoubleSync, DoubleSync
<1>. QED
  BY <1>1, <1>2, <1>3, <1>4, <1>5

(* The parts of the pipeline's state as they are computed from the queue.   *)
places == [e \in Event |-> Place(e)]
records == {<<a.type, a.body>> : a \in archive}

(* A step that leaves places and records alone is a stutter.                *)
LEMMA Stutters ==
  ASSUME \A e \in Event : Place(e)' = Place(e), archive' = archive
  PROVE  UNCHANGED Pipeline!vars
  BY DEF Pipeline!vars, places, records

(* A step that moves one event and leaves the records alone.                *)
LEMMA Moved ==
  ASSUME NEW e \in Event, NEW to,
         \A f \in Event : Place(f)' = IF f = e THEN to ELSE Place(f)
  PROVE  places' = [places EXCEPT ![e] = to]
  BY DEF places

(* The names of a set of rows and one more.                                 *)
LEMMA OneMore ==
  ASSUME NEW A, NEW r
  PROVE  {<<a.type, a.body>> : a \in A \cup {r}}
           = {<<a.type, a.body>> : a \in A} \cup {<<r.type, r.body>>}
  OBVIOUS

(* A step of one event is a step of the pipeline.                           *)
LEMMA EventMoves ==
  ASSUME NEW e \in Event,
         Pipeline!Accept(e) \/ Pipeline!Advance(e) \/ Pipeline!Finish(e) \/ Pipeline!Fail(e)
  PROVE  Pipeline!Next
  BY DEF Pipeline!Next

(* A commit of the queue is a stage of the pipeline.                        *)
LEMMA CommitMaps ==
  ASSUME IInv, TxInv, NEW p \in Process, NEW w \in Worker, CommitStage(p, w)
  PROVE  Pipeline!Next
<1>. PICK e : e = tx[p][w].event
  OBVIOUS
<1>1. /\ e \in DOMAIN queue /\ e \in Event
      /\ Handles(w, e.type, queue[e].stage)
      /\ queue[e].status = "created"
  BY RowFacts DEF CommitStage, IInv, TransactionsHoldTheirRow
<1>2. places[e] = queue[e].stage
  BY <1>1 DEF places, Place
<1>3. Pipeline!Handles(w, e.type, places[e]) /\ w \in Pipeline!Worker
  BY <1>1, <1>2, PipelineStages
<1>4. CASE WorkerTable[w].next = Done
  <2>1. /\ archive' = archive \cup {ArchivedRow(e, queue[e])}
        /\ queue' = [f \in DOMAIN queue \ {e} |-> queue[f]]
    BY <1>4 DEF CommitStage, Restrict
  <2>2. \A f \in Event : Place(f)' = IF f = e THEN Pipeline!Out ELSE Place(f)
    BY <2>1 DEF Place, Pipeline!Out
  <2>3. places' = [places EXCEPT ![e] = Pipeline!Out]
    BY <1>1, <2>2, Moved
  <2>4. records' = records \cup {Pipeline!Name(e)}
    <3>1. PICK r : r = ArchivedRow(e, queue[e])
      OBVIOUS
    <3>2. records' = records \cup {<<r.type, r.body>>}
      BY <2>1, <3>1, OneMore DEF records
    <3>3. r.type = e.type /\ r.body = e.body
      BY <3>1 DEF ArchivedRow
    <3>. QED
      BY <3>2, <3>3 DEF Pipeline!Name
  <2>5. Pipeline!Finish(e)
    BY <1>3, <1>4, <2>3, <2>4, PipelineStages DEF Pipeline!Finish, places, records
  <2>. QED
    BY <1>1, <2>5, EventMoves
<1>5. CASE WorkerTable[w].next # Done
  <2> DEFINE row == NextRow(queue[e], w, tx[p][w].outcome)
  <2>1. /\ queue' = [queue EXCEPT ![e] = row]
        /\ archive' = archive
    BY <1>5 DEF CommitStage
  <2>2. /\ row.stage = WorkerTable[w].next
        /\ row.status = IF tx[p][w].outcome = "failed" THEN "failed" ELSE "created"
    <3>1. queue[e] \in Row /\ WorkerTable[w].next \in Stage
      BY <1>1, <1>5, WorkerFacts DEF IInv, TypeOK
    <3>. QED
      BY <1>1, <3>1, NextRowFacts
  <2> HIDE DEF row
  <2>3. records' = records
    BY <2>1 DEF records
  <2>4. CASE tx[p][w].outcome = "failed"
    <3>1. \A f \in Event : Place(f)' = IF f = e THEN Pipeline!Failed ELSE Place(f)
      BY <1>1, <2>1, <2>2, <2>4 DEF Place, Pipeline!Failed
    <3>2. places' = [places EXCEPT ![e] = Pipeline!Failed]
      BY <1>1, <3>1, Moved
    <3>3. Pipeline!CanFail(e.type, places[e])
      BY <1>1, <1>2, <2>4, PipelineStages DEF TxInv, Handles
    <3>4. Pipeline!Fail(e)
      BY <1>3, <1>5, <2>3, <3>2, <3>3, PipelineStages DEF Pipeline!Fail, places, records
    <3>. QED
      BY <1>1, <3>4, EventMoves
  <2>5. CASE tx[p][w].outcome # "failed"
    <3>1. \A f \in Event : Place(f)' = IF f = e THEN WorkerTable[w].next ELSE Place(f)
      BY <1>1, <2>1, <2>2, <2>5 DEF Place
    <3>2. places' = [places EXCEPT ![e] = WorkerTable[w].next]
      BY <1>1, <3>1, Moved
    <3>3. Pipeline!Advance(e)
      BY <1>3, <1>5, <2>3, <3>2, PipelineStages DEF Pipeline!Advance, places, records
    <3>. QED
      BY <1>1, <3>3, EventMoves
  <2>. QED
    BY <2>4, <2>5
<1>. QED
  BY <1>4, <1>5

(* The other steps of the queue are an acceptance, a clean-up, or nothing.  *)
LEMMA InsertMaps ==
  ASSUME IInv, NEW m \in inflight, InsertNftEvent(m)
  PROVE  Pipeline!Next \/ UNCHANGED Pipeline!vars
<1>. PICK e : e = m.event
  OBVIOUS
<1>1. e \in Event /\ archive' = archive
  BY DEF IInv, TypeOK, InsertNftEvent
<1>2. CASE e \in DOMAIN queue
  <2>1. queue' = queue
    BY <1>2 DEF InsertNftEvent
  <2>2. \A f \in Event : Place(f)' = Place(f)
    BY <2>1 DEF Place
  <2>. QED
    BY <1>1, <2>2, Stutters
<1>3. CASE e \notin DOMAIN queue
  <2>1. /\ DOMAIN queue' = DOMAIN queue \cup {e}
        /\ queue'[e] = NewRow(m)
        /\ \A f \in DOMAIN queue : queue'[f] = queue[f]
    BY <1>3 DEF InsertNftEvent
  <2>2. \A f \in Event : Place(f)' = IF f = e THEN StageInit ELSE Place(f)
    BY <2>1 DEF Place, NewRow
  <2>3. places' = [places EXCEPT ![e] = StageInit]
    BY <1>1, <2>2, Moved
  <2>4. places[e] = Pipeline!Out
    BY <1>1, <1>3 DEF places, Place, Pipeline!Out
  <2>5. Pipeline!Accept(e)
    BY <1>1, <2>3, <2>4, PipelineStages DEF Pipeline!Accept, places
  <2>. QED
    BY <1>1, <2>5, EventMoves
<1>. QED
  BY <1>2, <1>3

(* Ageing is not seen by the pipeline. *)
LEMMA RipenMaps ==
  ASSUME IInv, NEW w \in Worker, NEW e \in Event, Ripen(w, e)
  PROVE  UNCHANGED Pipeline!vars
<1>1. /\ DOMAIN queue' = DOMAIN queue /\ archive' = archive
      /\ \A f \in DOMAIN queue :
           /\ queue'[f].stage = queue[f].stage
           /\ queue'[f].status = queue[f].status
  BY DEF Ripen, IInv, TypeOK, Row
<1>2. \A f \in Event : Place(f)' = Place(f)
  BY <1>1 DEF Place
<1>. QED
  BY <1>1, <1>2, Stutters

(* The clean-up of the archive is that of the pipeline. *)
LEMMA DeleteMaps ==
  ASSUME DeleteNftEvents
  PROVE  Pipeline!Next
<1>1. archive' \subseteq archive /\ queue' = queue
  BY DEF DeleteNftEvents
<1>2. records' \in SUBSET records
  BY <1>1 DEF records
<1>3. places' = places
  BY <1>1 DEF places, Place
<1>4. Pipeline!Forget
  BY <1>2, <1>3 DEF Pipeline!Forget, places, records
<1>. QED
  BY <1>4 DEF Pipeline!Next

(* What leaves both tables alone does not show.                             *)
LEMMA QuietMaps ==
  ASSUME queue' = queue, archive' = archive
  PROVE  UNCHANGED Pipeline!vars
<1>1. \A f \in Event : Place(f)' = Place(f)
  BY DEF Place
<1>. QED
  BY <1>1, Stutters

(* Every step of the queue is a step of the pipeline, or does not show.     *)
LEMMA StepMaps == IInv /\ TxInv /\ [Next]_vars => [Pipeline!Next]_(Pipeline!vars)
<1> SUFFICES ASSUME IInv, TxInv, [Next]_vars
             PROVE  Pipeline!Next \/ UNCHANGED Pipeline!vars
  OBVIOUS
<1>1. CASE UNCHANGED vars
  BY <1>1, QuietMaps DEF vars
<1>2. ASSUME NEW e \in Event, PushNftEvent(e) PROVE UNCHANGED Pipeline!vars
  BY <1>2, QuietMaps DEF PushNftEvent
<1>3. ASSUME NEW m \in inflight, InsertNftEvent(m)
      PROVE  Pipeline!Next \/ UNCHANGED Pipeline!vars
  BY <1>3, InsertMaps
<1>4. ASSUME NEW m \in inflight, FailPush(m) PROVE UNCHANGED Pipeline!vars
  BY <1>4, QuietMaps DEF FailPush
<1>5. ASSUME NEW p \in Process, NEW w \in Worker, WorkerStep(p, w)
      PROVE  Pipeline!Next \/ UNCHANGED Pipeline!vars
  <2>1. CASE CommitStage(p, w)
    BY <2>1, CommitMaps
  <2>2. CASE GetNftEventTransaction(p, w) \/ RunProcessor(p, w) \/ DiscardStage(p, w)
    BY <2>2, QuietMaps DEF GetNftEventTransaction, RunProcessor, DiscardStage
  <2>. QED
    BY <1>5, <2>1, <2>2 DEF WorkerStep
<1>6. ASSUME NEW p \in Process, NEW w \in Worker, LoseTransaction(p, w)
      PROVE  UNCHANGED Pipeline!vars
  BY <1>6, QuietMaps DEF LoseTransaction
<1>7. ASSUME NEW p \in Process, Crash(p) PROVE UNCHANGED Pipeline!vars
  BY <1>7, QuietMaps DEF Crash
<1>8. ASSUME NEW w \in Worker, NEW e \in Event, Ripen(w, e)
      PROVE  UNCHANGED Pipeline!vars
  BY <1>8, RipenMaps
<1>9. CASE DeleteNftEvents
  BY <1>9, DeleteMaps
<1>. QED
  BY <1>1, <1>2, <1>3, <1>4, <1>5, <1>6, <1>7, <1>8, <1>9 DEF Next

(***************************************************************************)
(* TxInv and RanInv hold in every state.                                   *)
(***************************************************************************)
LEMMA InitOutcomes == Init => TxInv /\ RanInv
  BY DEF Init, Idle, TxInv, RanInv

(* Transactions that are kept, ended or dead keep TxInv.                    *)
LEMMA EndedOutcomes ==
  ASSUME TxInv,
         \A p \in Process, w \in Worker :
           \/ tx'[p][w].outcome = "none"
           \/ tx'[p][w].event = tx[p][w].event /\ tx'[p][w].outcome = tx[p][w].outcome
  PROVE  TxInv'
  BY DEF TxInv

(* A worker only takes events of its types. *)
LEMMA GetOutcomes ==
  ASSUME IInv, TxInv, NEW p \in Process, NEW w \in Worker, GetNftEventTransaction(p, w)
  PROVE  TxInv'
<1>1. PICK e \in DOMAIN queue :
        /\ Eligible(w, e)
        /\ tx' = [tx EXCEPT ![p][w] =
                    [event |-> e, outcome |-> "open", alive |-> TRUE]]
  BY DEF GetNftEventTransaction
<1>2. e \in Event /\ e.type \in WorkerTable[w].types
  BY <1>1, RowFacts DEF Eligible, Handles, IInv
<1>3. \A q \in Process, v \in Worker :
        tx'[q][v] = IF q = p /\ v = w
                    THEN [event |-> e, outcome |-> "open", alive |-> TRUE]
                    ELSE tx[q][v]
  BY <1>1 DEF IInv, TypeOK
<1>. QED
  BY <1>2, <1>3 DEF TxInv

(* A processor fails only where it can, and its stage is of the type. *)
LEMMA RunOutcomes ==
  ASSUME IInv, TxInv, RanInv, NEW p \in Process, NEW w \in Worker, RunProcessor(p, w)
  PROVE  TxInv' /\ RanInv'
<1>. PICK e : e = tx[p][w].event
  OBVIOUS
<1>1. PICK o \in {"ok", "failed"} :
        /\ tx' = [tx EXCEPT ![p][w].outcome = o]
        /\ ran' = IF o = "ok" THEN [ran EXCEPT ![e] = @ \cup {WorkerTable[w].current}]
                  ELSE ran
        /\ o = "failed" => CanFail(e.type, WorkerTable[w].current)
  BY DEF RunProcessor
<1>2. e \in Event /\ e.type \in WorkerTable[w].types
  BY DEF RunProcessor, TxInv
<1>3. \A q \in Process, v \in Worker :
        /\ tx'[q][v].event = tx[q][v].event
        /\ tx'[q][v].outcome = IF q = p /\ v = w THEN o ELSE tx[q][v].outcome
  BY <1>1 DEF IInv, TypeOK, Tx
<1>4. TxInv'
  BY <1>1, <1>2, <1>3 DEF TxInv
<1>5. RanInv'
  <2>1. WorkerTable[w].current \in StagesOf(e.type)
    BY <1>2, WorkerFacts
  <2>. QED
    BY <1>1, <1>2, <2>1 DEF RanInv, IInv, TypeOK
<1>. QED
  BY <1>4, <1>5

(* Every step keeps both. *)
LEMMA StepOutcomes == IInv /\ TxInv /\ RanInv /\ [Next]_vars => TxInv' /\ RanInv'
<1> SUFFICES ASSUME IInv, TxInv, RanInv, [Next]_vars PROVE TxInv' /\ RanInv'
  OBVIOUS
<1>0. tx \in [Process -> [Worker -> Tx]]
  BY DEF IInv, TypeOK
<1>1. ASSUME UNCHANGED <<tx, ran>> PROVE TxInv' /\ RanInv'
  BY <1>1 DEF TxInv, RanInv
<1>2. ASSUME NEW m \in inflight, InsertNftEvent(m) PROVE TxInv' /\ RanInv'
  <2>1. tx' = tx
    BY <1>2 DEF InsertNftEvent
  <2>2. ran' = ran \/ ran' = [ran EXCEPT ![m.event] = {}]
    BY <1>2 DEF InsertNftEvent
  <2>3. TxInv'
    BY <2>1 DEF TxInv
  <2>4. RanInv'
    BY <2>2 DEF RanInv, IInv, TypeOK
  <2>. QED
    BY <2>3, <2>4
<1>3. ASSUME NEW p \in Process, NEW w \in Worker,
             CommitStage(p, w) \/ DiscardStage(p, w)
      PROVE  TxInv' /\ RanInv'
  <2>1. tx' = [tx EXCEPT ![p][w] = Idle] /\ ran' = ran
    BY <1>3 DEF CommitStage, DiscardStage
  <2>2. \A q \in Process, v \in Worker :
          \/ tx'[q][v].outcome = "none"
          \/ tx'[q][v].event = tx[q][v].event /\ tx'[q][v].outcome = tx[q][v].outcome
    BY <1>0, <2>1 DEF Idle
  <2>. QED
    BY <2>1, <2>2, EndedOutcomes DEF RanInv
<1>4. ASSUME NEW p \in Process, NEW w \in Worker, LoseTransaction(p, w)
      PROVE  TxInv' /\ RanInv'
  <2>1. tx' = [tx EXCEPT ![p][w] = Dead(tx[p][w])] /\ ran' = ran
    BY <1>4 DEF LoseTransaction
  <2>2. \A q \in Process, v \in Worker :
          tx'[q][v].event = tx[q][v].event /\ tx'[q][v].outcome = tx[q][v].outcome
    BY <1>0, <2>1 DEF Dead
  <2>. QED
    BY <2>1, <2>2, EndedOutcomes DEF RanInv
<1>5. ASSUME NEW p \in Process, Crash(p) PROVE TxInv' /\ RanInv'
  <2>1. tx' = [tx EXCEPT ![p] = [w \in Worker |-> Idle]] /\ ran' = ran
    BY <1>5 DEF Crash
  <2>2. \A q \in Process, v \in Worker :
          \/ tx'[q][v].outcome = "none"
          \/ tx'[q][v].event = tx[q][v].event /\ tx'[q][v].outcome = tx[q][v].outcome
    BY <1>0, <2>1 DEF Idle
  <2>. QED
    BY <2>1, <2>2, EndedOutcomes DEF RanInv
<1>6. ASSUME NEW p \in Process, NEW w \in Worker, GetNftEventTransaction(p, w)
      PROVE  TxInv' /\ RanInv'
  BY <1>6, GetOutcomes DEF GetNftEventTransaction, RanInv
<1>7. ASSUME NEW p \in Process, NEW w \in Worker, RunProcessor(p, w)
      PROVE  TxInv' /\ RanInv'
  BY <1>7, RunOutcomes
<1>8. CASE \/ UNCHANGED vars \/ DeleteNftEvents
           \/ \E e \in Event : PushNftEvent(e)
           \/ \E m \in inflight : FailPush(m)
           \/ \E w \in Worker, e \in Event : Ripen(w, e)
  BY <1>1, <1>8 DEF vars, DeleteNftEvents, PushNftEvent, FailPush, Ripen
<1>. QED
  BY <1>2, <1>3, <1>4, <1>5, <1>6, <1>7, <1>8 DEF Next, WorkerStep

(* What holds of transactions and stages in every reachable state.          *)
LEMMA Outcomes == Spec => [](TxInv /\ RanInv)
  BY InitOutcomes, StepOutcomes, Invariance, PTL DEF Spec

(***************************************************************************)
(* The queue takes no step that the pipeline does not take: locks, lost    *)
(* transactions, crashes and retries of StartNftEventWorker never show.    *)
(* (That it makes the progress of the pipeline is liveness, for TLC.)      *)
(***************************************************************************)
THEOREM PipelineSteps ==
  Spec => Pipeline!Init /\ [][Pipeline!Next]_(Pipeline!vars)
<1>1. Init => Pipeline!Init
  BY DEF Init, Pipeline!Init, Place, Pipeline!Out
<1>. QED
  BY <1>1, StepMaps, Invariance, Outcomes, PTL DEF Spec

(* What the last stage of a type is: no stage comes after it, and the sale *)
(* of a transfer cannot fail.                                              *)
LEMMA LastStageFacts ==
  ASSUME NEW w \in Worker, WorkerTable[w].next = Done, NEW t \in WorkerTable[w].types
  PROVE  /\ \A s \in StagesOf(t) : s <= WorkerTable[w].current
         /\ StagesOf(t) = Earlier(t, WorkerTable[w].current) \cup {WorkerTable[w].current}
         /\ t = "transfer" => ~ CanFail(t, WorkerTable[w].current)
  BY DEF Worker, WorkerTable, Stage, StagesOf, Earlier, CanFail, Done,
         StageInit, FullSync, SaleIndexing, DoubleSync

(* What is promised of an event that leaves the queue.                     *)
LeavesWell(e) ==
  /\ ArchivedRow(e, queue[e]) \in archive'
  /\ queue[e].status # "failed"
  /\ \A s \in StagesOf(e.type) : s <= queue[e].stage
  /\ Earlier(e.type, queue[e].stage) \subseteq ran[e]
  /\ e.type = "transfer" => ran[e] = StagesOf(e.type)

(* Only the commit of the last worker takes a row away, and the lock still *)
(* held tells where the row is and what ran for it.                        *)
LEMMA CommitLeaves ==
  ASSUME IInv, TxInv, RanInv, NEW p \in Process, NEW w \in Worker, CommitStage(p, w),
         NEW e \in DOMAIN queue, e \notin DOMAIN queue'
  PROVE  LeavesWell(e)
<1>. PICK f : f = tx[p][w].event
  OBVIOUS
<1>1. /\ WorkerTable[w].next = Done /\ f = e
      /\ archive' = archive \cup {ArchivedRow(e, queue[e])}
  <2>1. CASE WorkerTable[w].next = Done
    BY <2>1 DEF CommitStage, Restrict
  <2>2. CASE WorkerTable[w].next # Done
    BY <2>2 DEF CommitStage
  <2>. QED
    BY <2>1, <2>2
<1>2. /\ tx[p][w].alive /\ tx[p][w].event = e
      /\ tx[p][w].outcome \in {"ok", "failed"}
  BY <1>1 DEF CommitStage
<1>3. /\ e \in Event /\ queue[e].status = "created"
      /\ e.type \in WorkerTable[w].types
      /\ queue[e].stage = WorkerTable[w].current
  BY <1>2, RowFacts DEF IInv, TransactionsHoldTheirRow, Handles
<1>4. Earlier(e.type, queue[e].stage) \subseteq ran[e]
  BY <1>3 DEF IInv, StagesRanInOrder
<1>5. ASSUME e.type = "transfer" PROVE ran[e] = StagesOf(e.type)
  <2>1. tx[p][w].outcome = "ok"
    BY <1>1, <1>2, <1>3, <1>5, LastStageFacts DEF TxInv
  <2>2. WorkerTable[w].current \in ran[e]
    BY <1>2, <2>1 DEF IInv, SucceededRan
  <2>3. StagesOf(e.type) = Earlier(e.type, queue[e].stage) \cup {WorkerTable[w].current}
    BY <1>1, <1>3, LastStageFacts
  <2>4. StagesOf(e.type) \subseteq ran[e]
    BY <1>4, <2>2, <2>3
  <2>5. ran[e] \subseteq StagesOf(e.type)
    BY <1>3 DEF RanInv
  <2>. QED
    BY <2>4, <2>5
<1>. QED
  BY <1>1, <1>3, <1>4, <1>5, LastStageFacts DEF LeavesWell

(* Every other step keeps the rows of the queue.                           *)
LEMMA StepLeaves ==
  ASSUME IInv, TxInv, RanInv, [Next]_vars,
         NEW e \in DOMAIN queue, e \notin DOMAIN queue'
  PROVE  LeavesWell(e)
<1>1. ASSUME queue' = queue PROVE FALSE
  BY <1>1
<1>2. ASSUME NEW m \in inflight, InsertNftEvent(m) PROVE FALSE
  BY <1>2 DEF InsertNftEvent
<1>3. ASSUME NEW w \in Worker, NEW f \in Event, Ripen(w, f) PROVE FALSE
  BY <1>3 DEF Ripen
<1>4. ASSUME NEW p \in Process, NEW w \in Worker, WorkerStep(p, w) PROVE LeavesWell(e)
  BY <1>1, <1>4, CommitLeaves
  DEF WorkerStep, GetNftEventTransaction, RunProcessor, DiscardStage
<1>5. CASE \/ UNCHANGED vars \/ DeleteNftEvents
           \/ \E f \in Event : PushNftEvent(f)
           \/ \E m \in inflight : FailPush(m)
           \/ \E p \in Process, w \in Worker : LoseTransaction(p, w)
           \/ \E p \in Process : Crash(p)
  BY <1>1, <1>5 DEF vars, DeleteNftEvents, PushNftEvent, FailPush, LoseTransaction, Crash
<1>. QED
  BY <1>2, <1>3, <1>4, <1>5 DEF Next

(***************************************************************************)
(* Nothing is lost: whatever locks, lost transactions and crashes did, a   *)
(* row that ArchiveNFTEvent removes is archived, has not failed, and has   *)
(* been through all the stages of its type.                                *)
(***************************************************************************)
THEOREM LeavesInOrder == Spec => LeavesComplete
<1>1. IInv /\ (TxInv /\ RanInv) /\ [Next]_vars =>
        [\A e \in DOMAIN queue \ DOMAIN queue' :
           /\ ArchivedRow(e, queue[e]) \in archive'
           /\ queue[e].status # "failed"
           /\ \A s \in StagesOf(e.type) : s <= queue[e].stage
           /\ Earlier(e.type, queue[e].stage) \subseteq ran[e]
           /\ e.type = "transfer" => ran[e] = StagesOf(e.type)]_vars
  BY StepLeaves DEF LeavesWell
<1>. QED
  BY <1>1, Invariance, Outcomes, PTL DEF Spec, LeavesComplete
=============================================================================
