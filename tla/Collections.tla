------------------------------ MODULE Collections ------------------------------
(***************************************************************************)
(* The collections of the series registry: the documents of collections    *)
(* and collection_assets, and the four workers of each event processor     *)
(* that keep them in step with the contract.  A worker takes the oldest    *)
(* event of its types (module SeriesQueue); the types of one series belong *)
(* to different workers, and each process has all of them, so that the     *)
(* handlers of one series run at once.  Two handlers read the contract and *)
(* write what they read later; the others apply what the event says.       *)
(***************************************************************************)
EXTENDS Naturals, FiniteSets

CONSTANTS
  Server,     \* the event processors
  Series,
  Token,
  Artist,
  None,       \* no event, no document
  TokenData,  \* bound: what the token data of a series may be
  ArtistData, \* bound: what its artists may be
  Registered, \* bound: the token data and artists it is registered with
  Burnable,   \* bound: tokens that may be burned
  MaxEvents,  \* bound: events of the contract
  MaxFailures \* bound: handlers and commits that fail, processes that stop

(* The first step of the handler of each worker. *)
FirstStep == [index |-> "tokens", delete |-> "find", replace |-> "replace",
              creators |-> "sync"]
Task == DOMAIN FirstStep

ASSUME CollectionsAssumption ==
  /\ TokenData \subseteq SUBSET Token
  /\ ArtistData \subseteq SUBSET Artist
  /\ Registered \subseteq (SUBSET Token) \X (SUBSET Artist)
  /\ Burnable \subseteq Token
  /\ {MaxEvents, MaxFailures} \subseteq Nat
  /\ IsFiniteSet(Token)
  /\ None \notin [creators : SUBSET Artist, items : Nat]
  /\ None \notin [n : Nat, kind : Task, series : Series \cup {None},
                 old : Artist \cup {None}, new : Artist \cup {None}]

VARIABLES
  contract,     \* contract[s]: what the series registry says of s
  emitted,      \* how many events the contract has emitted
  queue,        \* the events that are not processed
  leaked,       \* leaked[p]: failed events that p keeps locked
  handlers,     \* handlers[p][k]: what the worker for events of kind k does
  burned,       \* tokens marked as burned in the collection tokens
  collections,  \* collections[s]: the document of s, or None
  collectionAssets, \* collectionAssets[s][t]: the run that wrote t, or 0
  runs,         \* how many runIDs were made
  failures,     \* how many there were
  disturbed     \* history: series whose handlers got in each other's way

collectionsVars == <<contract, emitted, queue, leaked, handlers, burned,
                     collections, collectionAssets, runs, failures, disturbed>>

NoHandler == [at |-> "idle", event |-> None, tokens |-> {}, todo |-> {},
              artists |-> {}, run |-> 0]

Gone == [live |-> FALSE, tokens |-> {}, artists |-> {}]

CollectionsInit ==
  /\ contract = [s \in Series |-> Gone]
  /\ emitted = 0
  /\ queue = {}
  /\ leaked = [p \in Server |-> {}]
  /\ handlers = [p \in Server |-> [k \in Task |-> NoHandler]]
  /\ burned = {}
  /\ collections = [s \in Series |-> None]
  /\ collectionAssets = [s \in Series |-> [t \in Token |-> 0]]
  /\ runs = 0
  /\ failures = 0
  /\ disturbed = [s \in Series |-> FALSE]

-----------------------------------------------------------------------------
(* The contract, and the emitter that pushes its events in order.           *)

Emit(kind, s, old, new) ==
  /\ emitted < MaxEvents
  /\ emitted' = emitted + 1
  /\ queue' = queue \cup {[n |-> emitted', kind |-> kind, series |-> s,
                           old |-> old, new |-> new]}
  /\ UNCHANGED <<leaked, handlers, burned, collections, collectionAssets, runs,
                 failures, disturbed>>

(* A series that is deleted is not registered again. *)
RegisterSeries(s, T, A) ==
  /\ emitted = 0
  /\ contract' = [contract EXCEPT ![s] = [live |-> TRUE, tokens |-> T, artists |-> A]]
  /\ Emit("index", s, None, None)

UpdateSeries(s, T) ==
  /\ contract[s].live
  /\ contract' = [contract EXCEPT ![s].tokens = T]
  /\ Emit("index", s, None, None)

DeleteSeries(s) ==
  /\ contract[s].live
  /\ contract' = [contract EXCEPT ![s] = Gone]
  /\ Emit("delete", s, None, None)

(* Opting in to or out of a collaboration. *)
Opt(s, A) ==
  /\ contract[s].live
  /\ contract[s].artists # A
  /\ contract' = [contract EXCEPT ![s].artists = A]
  /\ Emit("creators", s, None, None)

Replaced(A, old, new) == IF old \in A THEN (A \ {old}) \cup {new} ELSE A

(* An artist changes address, or gives all series to another. *)
UpdateArtistAddress(old, new) ==
  /\ \E s \in Series : old \in contract[s].artists
  /\ contract' = [s \in Series |->
       [contract[s] EXCEPT !.artists = Replaced(@, old, new)]]
  /\ Emit("replace", None, old, new)

Burn(t) ==
  /\ burned' = burned \cup {t}
  /\ UNCHANGED <<contract, emitted, queue, leaked, handlers, collections,
                 collectionAssets, runs, failures, disturbed>>

-----------------------------------------------------------------------------
Doing(p, k, step) == handlers[p][k].at = step
EventOf(p, k) == handlers[p][k].event
SeriesOf(p, k) == EventOf(p, k).series

InHand == {EventOf(p, k) : p \in Server, k \in Task} \ {None}
Unlocked == queue \ (InHand \cup UNION {leaked[p] : p \in Server})

TakeEvent(p, k) ==
  /\ Doing(p, k, "idle")
  /\ \E e \in Unlocked :
       /\ e.kind = k
       /\ \A f \in Unlocked : f.kind = k => e.n <= f.n
       /\ handlers' = [handlers EXCEPT ![p][k] = [NoHandler EXCEPT !.at = FirstStep[k], !.event = e]]
  /\ UNCHANGED <<contract, emitted, queue, leaked, burned, collections,
                 collectionAssets, runs, failures, disturbed>>

(* What can go wrong: a handler writes while another one of the same series *)
(* is between what it read and what it writes; creators that were read are  *)
(* written before an event that replaces one is processed; two replacements *)
(* are applied in the wrong order.                                          *)
InFlight(job) ==
  job.at \in {"artists", "collect", "filter", "assets", "clean", "total",
              "delete", "update"}

OthersInFlight(p, k, s) ==
  \E q \in Server, l \in Task :
    <<q, l>> # <<p, k>> /\ InFlight(handlers[q][l]) /\ SeriesOf(q, l) = s

OutOfOrder(p, k) ==
  \E f \in queue \ {EventOf(p, k)} :
    /\ f.kind = "replace"
    /\ k \in {"index", "creators"} \/ (k = "replace" /\ f.n < EventOf(p, k).n)

Disturb(p, k, S) ==
  disturbed' = [s \in Series |->
    disturbed[s] \/ (s \in S /\ (OthersInFlight(p, k, s) \/ OutOfOrder(p, k)))]

(* A run that nobody else has to do with makes up for all of it. *)
Alone(p, k) ==
  /\ queue = {EventOf(p, k)}
  /\ InHand = {EventOf(p, k)}

-----------------------------------------------------------------------------
(* indexCollection.  A series that is deleted has no URI to read.           *)

Goes(p, k, step) == [handlers EXCEPT ![p][k].at = step]

(* What it has read is of no use when a handler has done its work. *)
Completes(p, k) ==
  [handlers EXCEPT ![p][k] = [NoHandler EXCEPT !.at = "done", !.event = EventOf(p, k)]]

ReadTokens(p) ==
  LET s == SeriesOf(p, "index")
  IN  /\ Doing(p, "index", "tokens")
      /\ contract[s].live
      /\ handlers' = [Goes(p, "index", "artists")
                    EXCEPT ![p]["index"].tokens = contract[s].tokens]
      /\ disturbed' = [disturbed EXCEPT ![s] = @ /\ ~ Alone(p, "index")]
      /\ UNCHANGED <<contract, emitted, queue, leaked, burned, collections,
                     collectionAssets, runs, failures>>

ReadArtists(p) ==
  LET s == SeriesOf(p, "index")
  IN  /\ Doing(p, "index", "artists")
      /\ handlers' = [Goes(p, "index", "collect")
                    EXCEPT ![p]["index"].artists = contract[s].artists]
      /\ UNCHANGED <<contract, emitted, queue, leaked, burned, collections,
                     collectionAssets, runs, failures, disturbed>>

(* The whole document is written, whatever it has become since the read. *)
IndexCollection(p) ==
  LET job == handlers[p]["index"]
      s == SeriesOf(p, "index")
  IN  /\ collections' = [collections EXCEPT ![s] =
           [creators |-> job.artists, items |-> Cardinality(job.tokens)]]
      /\ Disturb(p, "index", {s})

(* The runID is made after the collection is written for the first time. *)
StoreCollection(p) ==
  /\ Doing(p, "index", "collect")
  /\ IndexCollection(p)
  /\ runs' = runs + 1
  /\ handlers' = [Goes(p, "index", "filter") EXCEPT ![p]["index"].run = runs']
  /\ UNCHANGED <<contract, emitted, queue, leaked, burned, collectionAssets,
                 failures>>

(* The token workflows are waited for, then burned tokens are left out. *)
FilterBurned(p) ==
  /\ Doing(p, "index", "filter")
  /\ LET live == handlers[p]["index"].tokens \ burned
     IN  handlers' = [Goes(p, "index", "assets")
                    EXCEPT ![p]["index"].tokens = live, ![p]["index"].todo = live]
  /\ UNCHANGED <<contract, emitted, queue, leaked, burned, collections,
                 collectionAssets, runs, failures, disturbed>>

IndexCollectionAsset(p) ==
  LET s == SeriesOf(p, "index")
  IN  /\ Doing(p, "index", "assets")
      /\ \E t \in handlers[p]["index"].todo :
           /\ collectionAssets' = [collectionAssets EXCEPT ![s][t] = handlers[p]["index"].run]
           /\ handlers' = [handlers EXCEPT ![p]["index"].todo = @ \ {t}]
      /\ Disturb(p, "index", {s})
      /\ UNCHANGED <<contract, emitted, queue, leaked, burned, collections,
                     runs, failures>>

(* A mutant: the assets of the run itself are deprecated. *)
Deprecated_Mut(run, other) == other <= run

Deprecated(run, other) == other # run

DeleteDeprecatedCollectionAsset(p) ==
  LET s == SeriesOf(p, "index")
  IN  /\ Doing(p, "index", "assets")
      /\ handlers[p]["index"].todo = {}
      /\ collectionAssets' = [collectionAssets EXCEPT ![s] =
           [t \in Token |-> IF Deprecated(handlers[p]["index"].run, @[t]) THEN 0 ELSE @[t]]]
      /\ handlers' = Goes(p, "index", "total")
      /\ Disturb(p, "index", {s})
      /\ UNCHANGED <<contract, emitted, queue, leaked, burned, collections,
                     runs, failures>>

UpdateTotal(p) ==
  /\ Doing(p, "index", "total")
  /\ IndexCollection(p)
  /\ handlers' = Completes(p, "index")
  /\ UNCHANGED <<contract, emitted, queue, leaked, burned, collectionAssets,
                 runs, failures>>

-----------------------------------------------------------------------------
(* The other handlers.                                                      *)

FindCollection(p) ==
  LET s == SeriesOf(p, "delete")
  IN  /\ Doing(p, "delete", "find")
      /\ handlers' = Goes(p, "delete", IF collections[s] = None THEN "done" ELSE "delete")
      /\ Disturb(p, "delete", {s})
      /\ UNCHANGED <<contract, emitted, queue, leaked, burned, collections,
                     collectionAssets, runs, failures>>

(* A mutant: the assets stay. *)
RemainingAsset_Mut(run) == run

RemainingAsset(run) == 0

DeleteCollection(p) ==
  LET s == SeriesOf(p, "delete")
  IN  /\ Doing(p, "delete", "delete")
      /\ collections' = [collections EXCEPT ![s] = None]
      /\ collectionAssets' = [collectionAssets EXCEPT ![s] = [t \in Token |-> RemainingAsset(@[t])]]
      /\ handlers' = Completes(p, "delete")
      /\ Disturb(p, "delete", {s})
      /\ UNCHANGED <<contract, emitted, queue, leaked, burned, runs, failures>>

ReplaceCollectionCreator(p) ==
  LET e == EventOf(p, "replace")
  IN  /\ Doing(p, "replace", "replace")
      /\ collections' = [s \in Series |->
           IF collections[s] = None THEN None
           ELSE [collections[s] EXCEPT !.creators = Replaced(@, e.old, e.new)]]
      /\ handlers' = Completes(p, "replace")
      /\ Disturb(p, "replace", Series)
      /\ UNCHANGED <<contract, emitted, queue, leaked, burned,
                     collectionAssets, runs, failures>>

ReadCreators(p) ==
  LET s == SeriesOf(p, "creators")
  IN  /\ Doing(p, "creators", "sync")
      /\ handlers' = [Goes(p, "creators", "update")
                    EXCEPT ![p]["creators"].artists = contract[s].artists]
      /\ UNCHANGED <<contract, emitted, queue, leaked, burned, collections,
                     collectionAssets, runs, failures, disturbed>>

(* A mutant: creators are only added. *)
SyncedCreators_Mut(creators, artists) == creators \cup artists

SyncedCreators(creators, artists) == artists

(* A collection that is not there is not made. *)
UpdateCollectionCreators(p) ==
  LET s == SeriesOf(p, "creators")
  IN  /\ Doing(p, "creators", "update")
      /\ collections' = [collections EXCEPT ![s] =
           IF @ = None THEN None
           ELSE [creators |-> SyncedCreators(@.creators, handlers[p]["creators"].artists),
                 items |-> @.items]]
      /\ handlers' = Completes(p, "creators")
      /\ Disturb(p, "creators", {s})
      /\ UNCHANGED <<contract, emitted, queue, leaked, burned,
                     collectionAssets, runs, failures>>

-----------------------------------------------------------------------------
(* The end of a handler.                                                    *)

FinishEvent(p, k) ==
  /\ Doing(p, k, "done")
  /\ queue' = queue \ {EventOf(p, k)}
  /\ handlers' = [handlers EXCEPT ![p][k] = NoHandler]
  /\ UNCHANGED <<contract, emitted, leaked, burned, collections,
                 collectionAssets, runs, failures, disturbed>>

Failure == failures < MaxFailures /\ failures' = failures + 1

(* The transaction of the event was lost: it is taken again. *)
LoseCommit(p, k) ==
  /\ Doing(p, k, "done")
  /\ Failure
  /\ handlers' = [handlers EXCEPT ![p][k] = NoHandler]
  /\ UNCHANGED <<contract, emitted, queue, leaked, burned, collections,
                 collectionAssets, runs, disturbed>>

(* A handler that fails leaves its event locked until the process ends. *)
Leak(p, k) ==
  /\ leaked' = [leaked EXCEPT ![p] = @ \cup {EventOf(p, k)}]
  /\ handlers' = [handlers EXCEPT ![p][k] = NoHandler]
  /\ UNCHANGED <<contract, emitted, queue, burned, collections,
                 collectionAssets, runs, disturbed>>

NoSeries(p) ==
  /\ Doing(p, "index", "tokens")
  /\ ~ contract[SeriesOf(p, "index")].live
  /\ Leak(p, "index")
  /\ UNCHANGED failures

Fail(p, k) ==
  /\ ~ Doing(p, k, "idle") /\ ~ Doing(p, k, "done")
  /\ Failure
  /\ Leak(p, k)

RestartServer(p) ==
  /\ Failure
  /\ leaked[p] # {} \/ \E k \in Task : ~ Doing(p, k, "idle")
  /\ handlers' = [handlers EXCEPT ![p] = [k \in Task |-> NoHandler]]
  /\ leaked' = [leaked EXCEPT ![p] = {}]
  /\ UNCHANGED <<contract, emitted, queue, burned, collections,
                 collectionAssets, runs, disturbed>>

CollectionsNext ==
  \/ \E s \in Series, first \in Registered : RegisterSeries(s, first[1], first[2])
  \/ \E s \in Series, T \in TokenData : UpdateSeries(s, T)
  \/ \E s \in Series : DeleteSeries(s)
  \/ \E s \in Series, A \in ArtistData : Opt(s, A)
  \/ \E old, new \in Artist : old # new /\ UpdateArtistAddress(old, new)
  \/ \E t \in Burnable : Burn(t)
  \/ \E p \in Server, k \in Task : TakeEvent(p, k)
  \/ \E p \in Server : ReadTokens(p)
  \/ \E p \in Server : ReadArtists(p)
  \/ \E p \in Server : StoreCollection(p)
  \/ \E p \in Server : FilterBurned(p)
  \/ \E p \in Server : IndexCollectionAsset(p)
  \/ \E p \in Server : DeleteDeprecatedCollectionAsset(p)
  \/ \E p \in Server : UpdateTotal(p)
  \/ \E p \in Server : FindCollection(p)
  \/ \E p \in Server : DeleteCollection(p)
  \/ \E p \in Server : ReplaceCollectionCreator(p)
  \/ \E p \in Server : ReadCreators(p)
  \/ \E p \in Server : UpdateCollectionCreators(p)
  \/ \E p \in Server, k \in Task : FinishEvent(p, k)
  \/ \E p \in Server, k \in Task : LoseCommit(p, k)
  \/ \E p \in Server : NoSeries(p)
  \/ \E p \in Server, k \in Task : Fail(p, k)
  \/ \E p \in Server : RestartServer(p)

CollectionsSpec == CollectionsInit /\ [][CollectionsNext]_collectionsVars

-----------------------------------------------------------------------------
CollectionsTypeOK ==
  /\ contract \in [Series -> [live : BOOLEAN, tokens : SUBSET Token,
                              artists : SUBSET Artist]]
  /\ {EventOf(p, k) : p \in Server, k \in Task} \subseteq queue \cup {None}
  /\ \A p \in Server : leaked[p] \subseteq queue
  /\ \A p \in Server, k \in Task :
       /\ handlers[p][k].todo \subseteq Token
       /\ handlers[p][k].run \in 0..runs
  /\ burned \subseteq Token
  /\ collections \in [Series -> {None} \cup [creators : SUBSET Artist, items : Nat]]
  /\ collectionAssets \in [Series -> [Token -> 0..runs]]
  /\ disturbed \in [Series -> BOOLEAN]

Members(s) == {t \in Token : collectionAssets[s][t] # 0}

(* A collection asset belongs to a collection that is there, in every state *)
(* (store.go:2079-2105 deletes both in a transaction, and an update writes  *)
(* the collection first), unless handlers of the series overlapped: an      *)
(* update under way when the series is deleted brings back its assets.      *)
NoOrphans ==
  CollectionsTypeOK /\ \A s \in Series : collections[s] = None /\ ~ disturbed[s] => Members(s) = {}

InSync(s) ==
  IF contract[s].live
    THEN /\ collections[s] # None
         /\ collections[s].creators = contract[s].artists
         /\ collections[s].items = Cardinality(Members(s))
         /\ Members(s) \subseteq contract[s].tokens
         /\ contract[s].tokens \ Members(s) \subseteq burned
    ELSE collections[s] = None /\ Members(s) = {}

(* When every event is processed a collection is what the contract says,    *)
(* whatever failed on the way (series_registry_event_processor.go:24-307),  *)
(* unless handlers of the series got in each other's way since the last     *)
(* update that ran alone.                                                   *)
AtRestInSync == queue = {} => \A s \in Series : disturbed[s] \/ InSync(s)

(* A reader of a collection that is being updated never misses a token: new *)
(* assets are written before deprecated ones go (lines 199-204).  A token   *)
(* leaves when it is burned or out of the series, or when an update that    *)
(* put it back is still to come.                                            *)
TokensStay ==
  [][\A s \in Series : \A t \in Members(s) \ Members(s)' :
       \/ disturbed'[s]
       \/ t \in burned \/ t \notin contract[s].tokens
       \/ \E e \in queue, p \in Server :
            e.kind = "index" /\ e.series = s /\ EventOf(p, "index") # None
              /\ e.n > EventOf(p, "index").n]_collectionsVars

=============================================================================
