----------------------------- MODULE MCDocuments ------------------------------
(***************************************************************************)
(* Small instances of documents that several services write at once: a     *)
(* non-fungible token, a fungible one, and the collections of the series   *)
(* registry.  They share no document: a behaviour is about one of the      *)
(* three, as part says.  A token meets a fault or a restart, and a series  *)
(* a failure or its last event.                                            *)
(***************************************************************************)
EXTENDS TokenOwnership, FungibleOwnership, Collections, TLC

CONSTANTS a, b, x, y

MCRegistered == {<<{a, b}, {x}>>}

Symmetry == Permutations(Process)

-----------------------------------------------------------------------------
VARIABLE part

MCInit ==
  /\ part \in {"token", "fungible", "collections"}
  /\ Init /\ FungibleInit /\ CollectionsInit
  /\ part # "fungible" => platform = "ethereum"
  /\ part # "fungible" \/ oversized => document = NoDocument

MCNext ==
  \/ /\ part = "token" /\ Next /\ UNCHANGED <<part, fungibleVars, collectionsVars>>
     /\ faults' = 0 \/ restarts' = 0
  \/ /\ part = "fungible" /\ FungibleNext /\ UNCHANGED <<part, vars, collectionsVars>>
     /\ oversized \/ platform = "ethereum" => stops' = 0
     /\ \A h \in Holder : holdings'[h].balance <= holdings[h].balance + 1
  \/ /\ part = "collections" /\ CollectionsNext /\ UNCHANGED <<part, vars, fungibleVars>>
     /\ emitted' = MaxEvents => failures' = 0

MCSpec == MCInit /\ [][MCNext]_<<part, vars, fungibleVars, collectionsVars>>
===============================================================================
