------------------------------ MODULE EventQueue ------------------------------
(***************************************************************************)
(* The token event queue of the event processor: the PostgreSQL tables     *)
(* new_nft_events (queue) and nft_events (archive), PushNftEvent calls,    *)
(* and the stage workers, each of which picks the oldest row of its stage  *)
(* with SELECT ... FOR UPDATE SKIP LOCKED, runs its processor while the    *)
(* transaction is open, writes the outcome and commits.  Any number of     *)
(* event-processor processes share the tables.                             *)
(*                                                                         *)
(* An event is a record of the columns that identify it: its type, its     *)
(* body (blockchain, contract, token, from, to, transaction) and its index *)
(* in the transaction.                                                     *)
(***************************************************************************)
EXTENDS EventStages, FiniteSets, Functions

CONSTANTS
  Event,        \* the events emitters may push
  Body,         \* what the events are about
  Process,      \* the running event-processor processes
  NoEvent,      \* marks a worker without a transaction
  MaxPushes,    \* bound: PushNftEvent calls in a behaviour
  MaxInFlight,  \* bound: PushNftEvent calls running at the same time
  MaxFaults     \* bound: lost connections, crashes and failed calls

ASSUME EventAssumption ==
  /\ Event \subseteq [type : EventType, body : Body, index : Nat]
  /\ NoEvent \notin Event
  /\ {MaxPushes, MaxInFlight, MaxFaults} \subseteq Nat

VARIABLES
  queue,        \* new_nft_events: a function from the queued events to rows
  archive,      \* nft_events: a set of archived rows
  inflight,     \* PushNftEvent calls between their snapshot and their insert
  tx,           \* tx[p][w]: the open transaction of worker w of process p
  clock,        \* the database clock now(), a count of the push calls
  faults,       \* the faults so far
  ran           \* history: the stages whose processor succeeded for the row

vars == <<queue, archive, inflight, tx, clock, faults, ran>>

(* The columns of a row that change; ripe is the set of deferred workers   *)
(* whose delay the row has outlived.                                       *)
Row == [stage : Stage,
        status : {"created", "processing", "processed", "failed"},
        created : Nat,
        ripe : SUBSET Worker]

Idle == [event |-> NoEvent, outcome |-> "none", alive |-> FALSE]

Tx == [event : Event \cup {NoEvent},
       outcome : {"none", "open", "ok", "failed"},
       alive : BOOLEAN]

-------------------------------------------------------------------------------
(* What ArchiveNFTEvent stores: it copies the columns but not EventIndex,  *)
(* which takes its zero value, and keeps the creation time.                *)
ArchivedRow(e, row) ==
  [type |-> e.type, body |-> e.body, index |-> 0, created |-> row.created]

(* The NOT EXISTS test of CreateNftEvent compares every column but TXTime. *)
InArchive(e) ==
  \E a \in archive : a.type = e.type /\ a.body = e.body /\ a.index = e.index

(* A transaction keeps the row lock until it ends or its connection drops. *)
LockedNever(e) == FALSE    \* mutant: a plain SELECT, without FOR UPDATE

Locked(e) == \E p \in Process, w \in Worker : tx[p][w].event = e /\ tx[p][w].alive

(* The filters of StartNftEventWorker.  Mutants: without the status filter *)
(* and without the stage filter.                                           *)
EligibleAnyStatus(w, e) ==
  /\ e \in DOMAIN queue
  /\ Handles(w, e.type, queue[e].stage)
  /\ WorkerTable[w].deferred => w \in queue[e].ripe

EligibleAnyStage(w, e) ==
  /\ e \in DOMAIN queue
  /\ e.type \in WorkerTable[w].types
  /\ queue[e].status \in {"created", "processing"}
  /\ WorkerTable[w].deferred => w \in queue[e].ripe

Eligible(w, e) ==
  /\ e \in DOMAIN queue
  /\ Handles(w, e.type, queue[e].stage)
  /\ queue[e].status \in {"created", "processing"}
  /\ WorkerTable[w].deferred => w \in queue[e].ripe

(* ORDER BY created_at asc over the rows that are not skipped.  Mutant: the*)
(* newest row first.                                                       *)
NewestFree(w, e) ==
  \A f \in DOMAIN queue :
    Eligible(w, f) /\ ~ Locked(f) => queue[f].created <= queue[e].created

OldestFree(w, e) ==
  \A f \in DOMAIN queue :
    Eligible(w, f) /\ ~ Locked(f) => queue[e].created <= queue[f].created

-------------------------------------------------------------------------------
Init ==
  /\ queue = << >>
  /\ archive = {}
  /\ inflight = {}
  /\ tx = [p \in Process |-> [w \in Worker |-> Idle]]
  /\ clock = 0
  /\ faults = 0
  /\ ran = [e \in Event |-> {}]

(***************************************************************************)
(* PushNftEvent starts the INSERT ... SELECT ... WHERE NOT EXISTS.  Its    *)
(* snapshot, and created_at, date from the start of the statement; the     *)
(* insert itself comes later, after the end of a transaction that is       *)
(* deleting a row with the same key.                                       *)
(***************************************************************************)
PushNftEvent(e) ==
  /\ clock < MaxPushes
  /\ Cardinality(inflight) < MaxInFlight
  /\ clock' = clock + 1
  /\ inflight' = IF InArchive(e) THEN inflight
                 ELSE inflight \cup {[event |-> e, created |-> clock']}
  /\ UNCHANGED <<queue, archive, tx, faults, ran>>

NewRow(m) == [stage |-> StageInit, status |-> "created",
              created |-> m.created, ripe |-> {}]

(* The insert: a violation of the unique index counts as success. *)
InsertNftEvent(m) ==
  /\ inflight' = inflight \ {m}
  /\ \/ /\ m.event \in DOMAIN queue
        /\ UNCHANGED <<queue, ran>>
     \/ /\ m.event \notin DOMAIN queue
        /\ queue' = [e \in DOMAIN queue \cup {m.event} |->
                       IF e = m.event THEN NewRow(m) ELSE queue[e]]
        /\ ran' = [ran EXCEPT ![m.event] = {}]
  /\ UNCHANGED <<archive, tx, clock, faults>>

(* The call fails, or its process dies, before anything is inserted. *)
FailPush(m) ==
  /\ faults < MaxFaults
  /\ faults' = faults + 1
  /\ inflight' = inflight \ {m}
  /\ UNCHANGED <<queue, archive, tx, clock, ran>>

-------------------------------------------------------------------------------
(* GetNftEventTransaction: lock the oldest row that passes the filters. *)
GetNftEventTransaction(p, w) ==
  /\ tx[p][w] = Idle
  /\ \E e \in DOMAIN queue :
       /\ Eligible(w, e) /\ ~ Locked(e) /\ OldestFree(w, e)
       /\ tx' = [tx EXCEPT ![p][w] =
                   [event |-> e, outcome |-> "open", alive |-> TRUE]]
  /\ UNCHANGED <<queue, archive, inflight, clock, faults, ran>>

(* The processor of the worker returns; its effects are outside the        *)
(* transaction and stay whatever happens to it.                            *)
RunProcessor(p, w) ==
  /\ tx[p][w].outcome = "open"
  /\ LET e == tx[p][w].event
         s == WorkerTable[w].current
     IN  \/ /\ tx' = [tx EXCEPT ![p][w].outcome = "ok"]
            /\ ran' = [ran EXCEPT ![e] = @ \cup {s}]
         \/ /\ CanFail(e.type, s)
            /\ tx' = [tx EXCEPT ![p][w].outcome = "failed"]
            /\ UNCHANGED ran
  /\ UNCHANGED <<queue, archive, inflight, clock, faults>>

(* A failed processor marks the row failed, and the worker goes on to the  *)
(* next stage or to the archive as if it had not failed.                   *)
NextRow(row, w, outcome) ==
  [row EXCEPT !.status = IF outcome = "failed" THEN "failed" ELSE @,
              !.stage = WorkerTable[w].next]

(* The writes after the processor and the commit, in a live transaction. *)
CommitStage(p, w) ==
  /\ tx[p][w].outcome \in {"ok", "failed"} /\ tx[p][w].alive
  /\ LET e == tx[p][w].event
     IN  \/ /\ WorkerTable[w].next = Done
            /\ archive' = archive \cup {ArchivedRow(e, queue[e])}
            /\ queue' = Restrict(queue, DOMAIN queue \ {e})
         \/ /\ WorkerTable[w].next # Done
            /\ queue' = [queue EXCEPT ![e] = NextRow(@, w, tx[p][w].outcome)]
            /\ UNCHANGED archive
  /\ tx' = [tx EXCEPT ![p][w] = Idle]
  /\ UNCHANGED <<inflight, clock, faults, ran>>

(* In a dead transaction every write and the commit return an error, which *)
(* the worker logs; the row is as it was and will be picked again.         *)
DiscardStage(p, w) ==
  /\ tx[p][w].outcome \in {"ok", "failed"} /\ ~ tx[p][w].alive
  /\ tx' = [tx EXCEPT ![p][w] = Idle]
  /\ UNCHANGED <<queue, archive, inflight, clock, faults, ran>>

-------------------------------------------------------------------------------
Dead(t) == [event |-> t.event, outcome |-> t.outcome, alive |-> FALSE]

(* The database drops a connection, or a statement fails: the transaction  *)
(* is rolled back and its lock released while the processor may still run. *)
LoseTransaction(p, w) ==
  /\ faults < MaxFaults
  /\ faults' = faults + 1
  /\ tx[p][w].alive
  /\ tx' = [tx EXCEPT ![p][w] = Dead(@)]
  /\ UNCHANGED <<queue, archive, inflight, clock, ran>>

(* A process dies and is restarted: its transactions are rolled back. *)
Crash(p) ==
  /\ faults < MaxFaults
  /\ faults' = faults + 1
  /\ \E w \in Worker : tx[p][w] # Idle
  /\ tx' = [tx EXCEPT ![p] = [w \in Worker |-> Idle]]
  /\ UNCHANGED <<queue, archive, inflight, clock, ran>>

(* Time passes: the row of e becomes older than the delay of worker w.     *)
(* Older rows have outlived that delay before it.                          *)
Ripen(w, e) ==
  /\ WorkerTable[w].deferred
  /\ e \in DOMAIN queue /\ e.type \in WorkerTable[w].types
  /\ w \notin queue[e].ripe
  /\ \A f \in DOMAIN queue :
       f.type \in WorkerTable[w].types /\ queue[f].created < queue[e].created
         => w \in queue[f].ripe
  /\ queue' = [queue EXCEPT ![e].ripe = @ \cup {w}]
  /\ UNCHANGED <<archive, inflight, tx, clock, faults, ran>>

(* DeleteNftEvents, at midnight: archived rows created before some instant *)
(* are deleted, whatever is in the queue.                                  *)
DeleteNftEvents ==
  /\ \E t \in 1..clock :
       /\ \E a \in archive : a.created <= t
       /\ archive' = {a \in archive : a.created > t}
  /\ UNCHANGED <<queue, inflight, tx, clock, faults, ran>>

-------------------------------------------------------------------------------
WorkerStep(p, w) ==
  \/ GetNftEventTransaction(p, w)
  \/ RunProcessor(p, w)
  \/ CommitStage(p, w)
  \/ DiscardStage(p, w)

Next ==
  \/ \E e \in Event : PushNftEvent(e)
  \/ \E m \in inflight : InsertNftEvent(m) \/ FailPush(m)
  \/ \E p \in Process, w \in Worker : WorkerStep(p, w) \/ LoseTransaction(p, w)
  \/ \E p \in Process : Crash(p)
  \/ \E w \in Worker, e \in Event : Ripen(w, e)
  \/ DeleteNftEvents

(* Every worker goroutine loops for ever, statements return, time passes;  *)
(* nothing makes emitters push, faults happen or the cron job matter.      *)
Fairness ==
  /\ WF_vars(\E m \in inflight : InsertNftEvent(m))
  /\ \A p \in Process, w \in Worker : WF_vars(WorkerStep(p, w))
  /\ \A w \in Worker, e \in Event : WF_vars(Ripen(w, e))

Spec == Init /\ [][Next]_vars /\ Fairness

-------------------------------------------------------------------------------
(* The shape of the tables, the calls and the transactions. *)
TypeOK ==
  /\ DOMAIN queue \subseteq Event
  /\ \A e \in DOMAIN queue : queue[e] \in Row
  /\ archive \subseteq [type : EventType, body : Body, index : Nat, created : Nat]
  /\ inflight \subseteq [event : Event, created : Nat]
  /\ tx \in [Process -> [Worker -> Tx]]
  /\ clock \in 0..MaxPushes
  /\ faults \in 0..MaxFaults
  /\ ran \in [Event -> SUBSET Stage]

(***************************************************************************)
(* FOR UPDATE SKIP LOCKED: two live transactions never hold the same row,  *)
(* and the row a worker read before its processor ran is, when it writes,  *)
(* still in the queue at the worker's stage and not failed.                *)
(***************************************************************************)
TransactionsHoldTheirRow ==
  \A p \in Process, w \in Worker : tx[p][w].alive =>
    LET e == tx[p][w].event
    IN  /\ e \in DOMAIN queue
        /\ Handles(w, e.type, queue[e].stage)
        /\ queue[e].status = "created"
        /\ \A q \in Process, v \in Worker :
             tx[q][v].alive /\ tx[q][v].event = e => q = p /\ v = w

(***************************************************************************)
(* A row is only ever at a stage of its type, and unless it is failed the  *)
(* processors of all earlier stages have succeeded for it, however many    *)
(* processes, crashes and lost transactions there were.                    *)
(***************************************************************************)
StagesRanInOrder ==
  \A e \in DOMAIN queue :
    /\ queue[e].stage \in StagesOf(e.type)
    /\ queue[e].status # "failed" => Earlier(e.type, queue[e].stage) \subseteq ran[e]

(***************************************************************************)
(* The inductive invariant behind the properties above: no row is ever     *)
(* "processing" or "processed", and a live transaction whose processor     *)
(* succeeded has its stage among the stages that ran for its row.          *)
(***************************************************************************)
StatusInv == \A e \in DOMAIN queue : queue[e].status \in {"created", "failed"}

SucceededRan ==
  \A p \in Process, w \in Worker :
    tx[p][w].alive /\ tx[p][w].outcome = "ok"
      => WorkerTable[w].current \in ran[tx[p][w].event]

IInv ==
  /\ TypeOK
  /\ StatusInv
  /\ TransactionsHoldTheirRow
  /\ SucceededRan
  /\ StagesRanInOrder

(***************************************************************************)
(* A row leaves new_nft_events only into nft_events, from the last stage   *)
(* of its type, never after it was marked failed, with the processors of   *)
(* its earlier stages, and for a transfer of all stages, having succeeded. *)
(***************************************************************************)
LeavesComplete ==
  [][\A e \in DOMAIN queue \ DOMAIN queue' :
       /\ ArchivedRow(e, queue[e]) \in archive'
       /\ queue[e].status # "failed"
       /\ \A s \in StagesOf(e.type) : s <= queue[e].stage
       /\ Earlier(e.type, queue[e].stage) \subseteq ran[e]
       /\ e.type = "transfer" => ran[e] = StagesOf(e.type)]_vars

(***************************************************************************)
(* Transfers and mints, pushed one after the other, keep their order.      *)
(* With one process a newer row never passes an older one that has not     *)
(* failed.  With more, SKIP LOCKED gives the order up, but at the first    *)
(* stage, which sets the owner, only while another process holds the older *)
(* row, or after a fault freed it again.                                   *)
(***************************************************************************)
Older(e, f) ==
  /\ {e.type, f.type} \subseteq {"transfer", "mint"}
  /\ queue[e].created < queue[f].created
  /\ queue[e].status = "created"

Passes(f, e) ==
  /\ queue[f].stage <= queue[e].stage
  /\ {e, f} \subseteq DOMAIN queue'
  /\ queue'[f].stage > queue'[e].stage

NoOvertaking ==
  [][\A e, f \in DOMAIN queue :
       Older(e, f) /\ Passes(f, e) =>
         /\ Cardinality(Process) > 1
         /\ queue[e].stage = StageInit => Locked(e) \/ faults > 0]_vars

(* Every queued event but a mint is eventually archived or marked failed. *)
EventsSettle ==
  \A e \in Event : e.type # "mint" =>
    (e \in DOMAIN queue)
      ~> (e \notin DOMAIN queue \/ queue[e].status = "failed")

(* The place of an event in the abstract pipeline. *)
Place(e) ==
  IF e \notin DOMAIN queue THEN 0
  ELSE IF queue[e].status = "failed" THEN -1
  ELSE queue[e].stage

Pipeline == INSTANCE EventPipeline
  WITH place <- [e \in Event |-> Place(e)],
       record <- {<<a.type, a.body>> : a \in archive}

(* The queue implements the pipeline: locks, transactions, crashes and     *)
(* retries never show, and progress is as the pipeline promises.           *)
ImplementsPipeline == Pipeline!Spec

-------------------------------------------------------------------------------
(* What the documents and comments of the repository say and the code does *)
(* not do; each is checked to be violated.                                 *)

(* README.md:21 and the test of indexTokenSale for other types: mints go   *)
(* through the stages and leave the queue like transfers.                  *)
MintsSettle ==
  \A e \in Event : e.type = "mint" =>
    (e \in DOMAIN queue)
      ~> (e \notin DOMAIN queue \/ queue[e].status = "failed")

(* store.go:56: nft_events holds processed events, so the processor of     *)
(* every stage has succeeded for a row that is archived.                   *)
ArchivedWereProcessed ==
  [][\A e \in DOMAIN queue \ DOMAIN queue' : StagesOf(e.type) \subseteq ran[e]]_vars

(* store.go:261-262: the insert compares event_index with the archive, so  *)
(* an event that has been archived is found there.                         *)
ArchivedAreRecognised ==
  [][\A e \in DOMAIN queue \ DOMAIN queue' : InArchive(e)']_vars

(* store.go:261: an event is not queued while nft_events holds its row.    *)
ArchivedAreNotQueued ==
  [][\A e \in DOMAIN queue' \ DOMAIN queue : ~ InArchive(e)]_vars
===============================================================================
