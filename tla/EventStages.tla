----------------------------- MODULE EventStages -----------------------------
(***************************************************************************)
(* The stage graph of the event processor: which worker goroutine handles  *)
(* which type of token event at which stage, and where it sends the event  *)
(* next.  Stage numbers are those of services/event-processor/constants.go.*)
(***************************************************************************)
EXTENDS Integers

EventType == {"mint", "burned", "transfer", "token_updated"}

Done         == 0
StageInit    == 1
FullSync     == 2
SaleIndexing == 5
DoubleSync   == 11

Stage == {StageInit, FullSync, SaleIndexing, DoubleSync}

(***************************************************************************)
(* The workers ProcessEvents starts.  "deferred" workers only take rows    *)
(* that are older than their configured delay.                             *)
(***************************************************************************)
WorkerTable ==
  [RefreshTokenData |->
      [types |-> {"token_updated"}, current |-> StageInit,
       next |-> DoubleSync, deferred |-> TRUE],
   DoubleSyncTokenData |->
      [types |-> {"token_updated"}, current |-> DoubleSync,
       next |-> Done, deferred |-> TRUE],
   UpdateLatestOwner |->
      [types |-> {"transfer", "mint", "burned"}, current |-> StageInit,
       next |-> FullSync, deferred |-> FALSE],
   UpdateOwnerAndProvenance |->
      [types |-> {"transfer", "mint"}, current |-> FullSync,
       next |-> SaleIndexing, deferred |-> FALSE],
   UpdateOwnerAndProvenanceForBurnedToken |->
      [types |-> {"burned"}, current |-> FullSync,
       next |-> Done, deferred |-> FALSE],
   IndexTokenSale |->
      [types |-> {"transfer"}, current |-> SaleIndexing,
       next |-> Done, deferred |-> FALSE]]

Worker == DOMAIN WorkerTable

(* The worker w handles events of type t that are at stage s.  Mutant: the *)
(* worker of the last stage is not started.                                *)
HandlesNoSale(w, t, s) ==
  t \in WorkerTable[w].types /\ WorkerTable[w].current = s /\ s # SaleIndexing

Handles(w, t, s) == t \in WorkerTable[w].types /\ WorkerTable[w].current = s

CanFailAnywhere(t, s) == TRUE    \* mutant: indexTokenSale returns its error

(***************************************************************************)
(* Whether the processor of a stage can return an error: updateLatestOwner *)
(* does nothing but for transfers, indexTokenSale swallows every error,    *)
(* and the others fail when the token lookup fails.                        *)
(***************************************************************************)
CanFail(t, s) ==
  \/ s = StageInit /\ t \in {"transfer", "token_updated"}
  \/ s \in {FullSync, DoubleSync}

(***************************************************************************)
(* The order DEVELOPMENT.md documents ("Event Processing Stages"), stated  *)
(* apart from the worker table so that the two can be compared: the stages *)
(* an event of type t may be at, and those that come before stage s.       *)
(***************************************************************************)
StagesOf(t) ==
  [token_updated |-> {StageInit, DoubleSync},
   burned        |-> {StageInit, FullSync},
   transfer      |-> {StageInit, FullSync, SaleIndexing},
   mint          |-> {StageInit, FullSync, SaleIndexing}][t]

Earlier(t, s) == {r \in StagesOf(t) : r < s}
===============================================================================
