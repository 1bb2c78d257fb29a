---------------------------- MODULE EventPipeline ----------------------------
(***************************************************************************)
(* What the event processor promises, without its database: an accepted    *)
(* token event moves along the stages of its type, one at a time and never *)
(* back, until it leaves the queue from the last stage and is recorded as  *)
(* processed, or stops because a stage failed.  EventQueue, with its row   *)
(* locks, transactions and crashes, implements this.                       *)
(***************************************************************************)
EXTENDS EventStages

CONSTANT Event       \* the events, records with fields type, body and index

VARIABLES
  place,             \* place[e]: Out, Failed or the stage e waits at
  record             \* the <<type, body>> pairs kept as processed

vars == <<place, record>>

Name(e) == <<e.type, e.body>>

Out    == 0
Failed == -1

Init ==
  /\ place = [e \in Event |-> Out]
  /\ record = {}

(* An event is taken in at the first stage. *)
Accept(e) ==
  /\ place[e] = Out
  /\ place' = [place EXCEPT ![e] = StageInit]
  /\ UNCHANGED record

(* A stage is done and is not the last one. *)
Advance(e) ==
  \E w \in Worker :
    /\ Handles(w, e.type, place[e])
    /\ WorkerTable[w].next # Done
    /\ place' = [place EXCEPT ![e] = WorkerTable[w].next]
    /\ UNCHANGED record

(* The last stage of the event's type is over. *)
Finish(e) ==
  \E w \in Worker :
    /\ Handles(w, e.type, place[e])
    /\ WorkerTable[w].next = Done
    /\ place' = [place EXCEPT ![e] = Out]
    /\ record' = record \cup {Name(e)}

(* A stage that is not the last one fails: the event stops for good. *)
Fail(e) ==
  /\ CanFail(e.type, place[e])
  /\ \E w \in Worker :
       Handles(w, e.type, place[e]) /\ WorkerTable[w].next # Done
  /\ place' = [place EXCEPT ![e] = Failed]
  /\ UNCHANGED record

(* Old records are removed. *)
Forget ==
  /\ \E kept \in SUBSET record : record' = kept
  /\ UNCHANGED place

Next ==
  \/ \E e \in Event : Accept(e) \/ Advance(e) \/ Finish(e) \/ Fail(e)
  \/ Forget

(* Every event that some worker handles at its stage is eventually moved. *)
Fairness ==
  \A e \in Event : WF_vars(Advance(e) \/ Finish(e) \/ Fail(e))

Spec == Init /\ [][Next]_vars /\ Fairness
===============================================================================
