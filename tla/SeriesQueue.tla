------------------------------ MODULE SeriesQueue -----------------------------
(***************************************************************************)
(* The series registry queue of the event processor: the PostgreSQL table  *)
(* series_registry_events, the PushSeriesRegistryEvent calls that fill it, *)
(* the four workers of each process, each of which picks the oldest row of *)
(* its types with SELECT ... FOR UPDATE SKIP LOCKED, and the cron job that *)
(* deletes expired rows.                                                   *)
(*                                                                         *)
(* A worker whose processor fails goes on with its next event and neither  *)
(* commits nor rolls back: the transaction stays open, with its row lock   *)
(* and its connection, until the process ends.  Those transactions are     *)
(* leaked[p].                                                              *)
(***************************************************************************)
EXTENDS Naturals, FiniteSets, Functions

CONSTANTS
  Event,           \* the events emitters may push
  Process,         \* the running event-processor processes
  NoRow,           \* marks a worker without a transaction
  MaxConnections,  \* max_connections of the database
  MaxPushes,       \* bound: PushSeriesRegistryEvent calls in a behaviour
  MaxInFlight,     \* bound: calls running at the same time
  MaxFaults        \* bound: lost connections, crashes and failed calls

(* The types each worker selects; all have the one stage of this queue. *)
Types ==
  [IndexCollection          |-> {"register_series", "update_series"},
   DeleteCollection         |-> {"delete_series"},
   ReplaceCollectionCreator |-> {"update_artist_address", "assign_series"},
   UpdateCollectionCreators |-> {"opt_in_collaboration", "opt_out_series"}]

Worker == DOMAIN Types
EventType == UNION {Types[w] : w \in Worker}

ASSUME SeriesAssumption ==
  /\ \A e \in Event : e.type \in EventType
  /\ NoRow \notin Nat
  /\ {MaxConnections, MaxPushes, MaxInFlight, MaxFaults} \subseteq Nat

VARIABLES
  rows,      \* series_registry_events: from the creation time of a row to it
  inflight,  \* pushes between their snapshot and their insert
  tx,        \* tx[p][w]: the transaction worker w of process p works in
  leaked,    \* leaked[p]: rows of the transactions p left open
  prune,     \* prune[p]: the expiry time of p's running DELETE, or 0
  clock,     \* the database clock now(), a count of the push calls
  faults,    \* the faults so far
  done,      \* history: rows whose processor succeeded
  failed     \* history: rows whose processor failed

vars == <<rows, inflight, tx, leaked, prune, clock, faults, done, failed>>

Idle == [row |-> NoRow, outcome |-> "none", alive |-> FALSE]

Tx == {Idle} \cup [row : Nat, outcome : {"open", "ok"}, alive : BOOLEAN]

-------------------------------------------------------------------------------
(* The rows of the live and of the abandoned transactions are locked. *)
LockedOnlyByWorkers(r) ==    \* mutant: the failure path rolls back
  \E p \in Process, w \in Worker : tx[p][w].row = r /\ tx[p][w].alive

Locked(r) ==
  \/ \E p \in Process, w \in Worker : tx[p][w].row = r /\ tx[p][w].alive
  \/ \E p \in Process : r \in leaked[p]

(* The filters of StartSeriesRegistryEventWorker. *)
Eligible(w, r) ==
  /\ r \in DOMAIN rows
  /\ rows[r].event.type \in Types[w]
  /\ rows[r].status \in {"created", "processing"}

(* ORDER BY created_at asc over the rows that are not skipped.  Mutant:    *)
(* without SKIP LOCKED, waiting for the oldest row.                        *)
OldestOfAll(w, r) == \A s \in DOMAIN rows : Eligible(w, s) => r <= s

OldestFree(w, r) == \A s \in DOMAIN rows : Eligible(w, s) /\ ~ Locked(s) => r <= s

(* An open transaction keeps a connection. *)
Connections ==
    Cardinality({c \in Process \X Worker : tx[c[1]][c[2]].alive})
  + Cardinality(UNION {leaked[p] : p \in Process})

-------------------------------------------------------------------------------
Init ==
  /\ rows = << >>
  /\ inflight = {}
  /\ tx = [p \in Process |-> [w \in Worker |-> Idle]]
  /\ leaked = [p \in Process |-> {}]
  /\ prune = [p \in Process |-> 0]
  /\ clock = 0
  /\ faults = 0
  /\ done = {}
  /\ failed = {}

(* PushSeriesRegistryEvent starts its INSERT ... WHERE NOT EXISTS: the     *)
(* snapshot has the rows committed by now, in whatever status.             *)
PushSeriesRegistryEvent(e) ==
  /\ clock < MaxPushes
  /\ Cardinality(inflight) < MaxInFlight
  /\ clock' = clock + 1
  /\ inflight' = IF \E r \in DOMAIN rows : rows[r].event = e THEN inflight
                 ELSE inflight \cup {[event |-> e, created |-> clock']}
  /\ UNCHANGED <<rows, tx, leaked, prune, faults, done, failed>>

NewRow(m) == [event |-> m.event, status |-> "created"]

(* The insert.  The unique index of the table has the name of the index of *)
(* new_nft_events and may not have been created: a second row of the same  *)
(* event is rejected (and the call succeeds) or inserted.                  *)
InsertSeriesEvent(m) ==
  /\ inflight' = inflight \ {m}
  /\ \/ /\ \E r \in DOMAIN rows : rows[r].event = m.event
        /\ UNCHANGED rows
     \/ rows' = [r \in DOMAIN rows \cup {m.created} |->
                   IF r = m.created THEN NewRow(m) ELSE rows[r]]
  /\ UNCHANGED <<tx, leaked, prune, clock, faults, done, failed>>

FailPush(m) ==
  /\ faults < MaxFaults
  /\ faults' = faults + 1
  /\ inflight' = inflight \ {m}
  /\ UNCHANGED <<rows, tx, leaked, prune, clock, done, failed>>

-------------------------------------------------------------------------------
(* GetSeriesRegistryEventTransaction, and the update to "processing", which*)
(* no other transaction ever sees.                                         *)
GetSeriesRegistryEventTransaction(p, w) ==
  /\ tx[p][w] = Idle
  /\ Connections < MaxConnections
  /\ \E r \in DOMAIN rows :
       /\ Eligible(w, r) /\ ~ Locked(r) /\ OldestFree(w, r)
       /\ tx' = [tx EXCEPT ![p][w] = [row |-> r, outcome |-> "open", alive |-> TRUE]]
  /\ UNCHANGED <<rows, inflight, leaked, prune, clock, faults, done, failed>>

(* The processor runs, in a live transaction or not: its effects on the    *)
(* collections are not undone by a rollback.                               *)
RunProcessor(p, w) ==
  /\ tx[p][w].outcome = "open"
  /\ tx' = [tx EXCEPT ![p][w].outcome = "ok"]
  /\ done' = done \cup {tx[p][w].row}
  /\ UNCHANGED <<rows, inflight, leaked, prune, clock, faults, failed>>

(* A failed processor: the update to "failed" succeeds in a live           *)
(* transaction, and the worker continues without ending it.  In a dead one *)
(* the update fails too and the worker rolls back.                         *)
Abandon(p, w) ==
  IF tx[p][w].alive THEN [leaked EXCEPT ![p] = @ \cup {tx[p][w].row}] ELSE leaked

FailAndFallThrough(p, w) ==    \* mutant: goes on to the commit after an error
  /\ tx[p][w].outcome = "open"
  /\ tx' = [tx EXCEPT ![p][w].outcome = "ok"]
  /\ failed' = failed \cup {tx[p][w].row}
  /\ UNCHANGED <<rows, inflight, leaked, prune, clock, faults, done>>

FailProcessor(p, w) ==
  /\ tx[p][w].outcome = "open"
  /\ leaked' = Abandon(p, w)
  /\ tx' = [tx EXCEPT ![p][w] = Idle]
  /\ failed' = failed \cup {tx[p][w].row}
  /\ UNCHANGED <<rows, inflight, prune, clock, faults, done>>

(* A processed event: mark it and commit. *)
Commit(p, w) ==
  /\ tx[p][w].outcome = "ok" /\ tx[p][w].alive
  /\ rows' = [rows EXCEPT ![tx[p][w].row].status = "processed"]
  /\ tx' = [tx EXCEPT ![p][w] = Idle]
  /\ UNCHANGED <<inflight, leaked, prune, clock, faults, done, failed>>

(* In a dead transaction the update and the commit return errors. *)
Discard(p, w) ==
  /\ tx[p][w].outcome = "ok" /\ ~ tx[p][w].alive
  /\ tx' = [tx EXCEPT ![p][w] = Idle]
  /\ UNCHANGED <<rows, inflight, leaked, prune, clock, faults, done, failed>>

-------------------------------------------------------------------------------
Dead(t) == [row |-> t.row, outcome |-> t.outcome, alive |-> FALSE]

(* The database drops the connection of a worker's transaction, or its     *)
(* update to "processing" fails and it is rolled back.                     *)
LoseTransaction(p, w) ==
  /\ faults < MaxFaults
  /\ faults' = faults + 1
  /\ tx[p][w].alive
  /\ tx' = [tx EXCEPT ![p][w] = Dead(@)]
  /\ UNCHANGED <<rows, inflight, leaked, prune, clock, done, failed>>

(* A process dies and is restarted. *)
Crash(p) ==
  /\ faults < MaxFaults
  /\ faults' = faults + 1
  /\ leaked[p] # {} \/ prune[p] # 0 \/ \E w \in Worker : tx[p][w] # Idle
  /\ tx' = [tx EXCEPT ![p] = [w \in Worker |-> Idle]]
  /\ leaked' = [leaked EXCEPT ![p] = {}]
  /\ prune' = [prune EXCEPT ![p] = 0]
  /\ UNCHANGED <<rows, inflight, clock, done, failed>>

(* At midnight the cron goroutine of p starts its DELETE of the rows       *)
(* created up to some instant, ...                                         *)
StartPrune(p) ==
  /\ prune[p] = 0
  /\ \E t \in DOMAIN rows : prune' = [prune EXCEPT ![p] = t]
  /\ UNCHANGED <<rows, inflight, tx, leaked, clock, faults, done, failed>>

(* ... which waits for the locks of those rows and then deletes them,      *)
(* whatever their status.                                                  *)
Unlocked(t) == \A r \in DOMAIN rows : r <= t => ~ Locked(r)

Expired(t) == {r \in DOMAIN rows : r <= t}

FinishPrune(p) ==
  /\ prune[p] # 0
  /\ Unlocked(prune[p])
  /\ rows' = Restrict(rows, DOMAIN rows \ Expired(prune[p]))
  /\ prune' = [prune EXCEPT ![p] = 0]
  /\ UNCHANGED <<inflight, tx, leaked, clock, faults, done, failed>>

-------------------------------------------------------------------------------
WorkerStep(p, w) ==
  \/ GetSeriesRegistryEventTransaction(p, w)
  \/ RunProcessor(p, w)
  \/ FailProcessor(p, w)
  \/ Commit(p, w)
  \/ Discard(p, w)

Next ==
  \/ \E e \in Event : PushSeriesRegistryEvent(e)
  \/ \E m \in inflight : InsertSeriesEvent(m) \/ FailPush(m)
  \/ \E p \in Process, w \in Worker : WorkerStep(p, w) \/ LoseTransaction(p, w)
  \/ \E p \in Process : Crash(p) \/ StartPrune(p) \/ FinishPrune(p)

(* Worker goroutines loop for ever, statements that can proceed do. *)
Fairness ==
  /\ WF_vars(\E m \in inflight : InsertSeriesEvent(m))
  /\ \A p \in Process, w \in Worker : WF_vars(WorkerStep(p, w))
  /\ \A p \in Process : WF_vars(FinishPrune(p))

Spec == Init /\ [][Next]_vars /\ Fairness

-------------------------------------------------------------------------------
(* The shape of the table, the calls and the transactions. *)
TypeOK ==
  /\ DOMAIN rows \subseteq 1..clock
  /\ \A r \in DOMAIN rows :
       rows[r] \in [event : Event, status : {"created", "processed"}]
  /\ inflight \subseteq [event : Event, created : 1..clock]
  /\ tx \in [Process -> [Worker -> Tx]]
  /\ leaked \in [Process -> SUBSET Nat]
  /\ prune \in [Process -> Nat]
  /\ clock \in 0..MaxPushes /\ faults \in 0..MaxFaults
  /\ done \subseteq Nat /\ failed \subseteq Nat

(***************************************************************************)
(* FOR UPDATE SKIP LOCKED, with the abandoned transactions counted: every  *)
(* open transaction holds a row that is still there and not processed, and *)
(* no two hold the same row, which is why the cron job must wait.          *)
(***************************************************************************)
Holds(p, w, r) == tx[p][w].alive /\ tx[p][w].row = r

RowsAreHeldOnce ==
  /\ \A p \in Process, w \in Worker : tx[p][w].alive =>
       LET r == tx[p][w].row
       IN  /\ Eligible(w, r) /\ rows[r].status = "created"
           /\ \A q \in Process, v \in Worker : Holds(q, v, r) => q = p /\ v = w
           /\ \A q \in Process : r \notin leaked[q]
  /\ \A p \in Process : \A r \in leaked[p] :
       /\ r \in DOMAIN rows /\ rows[r].status = "created"
       /\ \A q \in Process : r \in leaked[q] => q = p

(* A row is marked processed only if its processor succeeded for it, in    *)
(* this process or in one that crashed or was rolled back before.          *)
ProcessedRan ==
  \A r \in DOMAIN rows : rows[r].status = "processed" => r \in done

(***************************************************************************)
(* The inductive invariant behind them: a live transaction whose processor *)
(* succeeded is recorded, and creation times identify rows and inserts.    *)
(***************************************************************************)
SucceededRan ==
  \A p \in Process, w \in Worker :
    tx[p][w].alive /\ tx[p][w].outcome = "ok" => tx[p][w].row \in done

InsertsAreFresh ==
  \A m \in inflight :
    /\ m.created \notin DOMAIN rows
    /\ \A n \in inflight : n.created = m.created => n = m

IInv ==
  /\ TypeOK
  /\ RowsAreHeldOnce
  /\ SucceededRan
  /\ InsertsAreFresh
  /\ ProcessedRan

(* With pushes one after the other, the events of a worker are processed   *)
(* oldest first, in all processes together: when a later one is done, an   *)
(* earlier one is done, has failed or is being processed, unless a         *)
(* transaction was lost.                                                   *)
OldestFirst ==
  faults = 0 =>
    \A r, s \in DOMAIN rows :
      ( /\ r < s /\ s \in done
        /\ \E w \in Worker : {rows[r].event.type, rows[s].event.type} \subseteq Types[w] )
      => r \in done \cup failed \/ \E p \in Process, w \in Worker : Holds(p, w, r)

(* Every row is eventually processed or deleted, or its processor has      *)
(* failed and the row is locked by the transaction left open; no failure   *)
(* of one event keeps another one from being tried, as long as there are   *)
(* connections.                                                            *)
EventsAreTried ==
  \A r \in 1..MaxPushes :
    (r \in DOMAIN rows) ~> \/ r \notin DOMAIN rows
                           \/ rows[r].status = "processed"
                           \/ \E p \in Process : r \in leaked[p]

-------------------------------------------------------------------------------
(* What comments and messages of the code say and the code does not do.    *)

(* server.go:229-231: an event whose processor failed is given the status  *)
(* failed (unless it is tried again and succeeds, or is deleted).          *)
FailuresAreRecorded ==
  \A r \in 1..MaxPushes :
    (r \in failed) ~> (r \notin DOMAIN rows \/ rows[r].status \in {"processed", "failed"})

(* server.go:71: the cron job removes archived events, those that have     *)
(* been processed.                                                         *)
OnlyHandledArePruned ==
  [][\A r \in DOMAIN rows \ DOMAIN rows' : rows[r].status \in {"processed", "failed"}]_vars

(* server.go:76: the cron job removes expired events, so a run of it ends  *)
(* and the next one can start.                                             *)
PruneEnds == \A p \in Process : (prune[p] # 0) ~> (prune[p] = 0)
===============================================================================
