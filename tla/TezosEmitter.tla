----------------------------- MODULE TezosEmitter -----------------------------
(***************************************************************************)
(* The Tezos event emitter.  A goroutine watches the state of the SignalR  *)
(* client: when it is connected it fetches the levels from the stored one  *)
(* to the head of the chain and then subscribes to transfers and bigmaps.  *)
(* The first message of each subscription fetches once more, from the last *)
(* level this process handled.  All send their events to one channel, and  *)
(* Run pushes what it receives and moves the last stopped level.           *)
(*                                                                         *)
(* The client library is external: it reconnects by itself, and calls each *)
(* method for one message after the other; the methods run concurrently.   *)
(***************************************************************************)
EXTENDS Integers, Sequences, FiniteSets, SequencesExt

CONSTANTS
  Contents,     \* what a level may hold: sequences of kinds, transfers first
  MaxLevels,    \* bound: levels baked
  MaxFaults,    \* bound: failed calls
  MaxDrops,     \* bound: lost connections
  MaxCrashes    \* bound: crashes of the emitter

Kind == {"transfer", "update"}
Method == {"Transfers", "Bigmaps"}
KindFor(m) == IF m = "Transfers" THEN "transfer" ELSE "update"

(* Who fetches levels and sends events to the channel.                     *)
Sender == Method \cup {"observer"}

ASSUME EmitterAssumption ==
  /\ Contents \subseteq Seq(Kind)
  /\ \A kinds \in Contents : \A i, j \in DOMAIN kinds :
       i < j /\ kinds[i] = "update" => kinds[j] = "update"
  /\ {MaxLevels, MaxFaults, MaxDrops, MaxCrashes} \subseteq Nat

VARIABLES
  chain,       \* the kinds of the events of each level
  accepted,    \* the events the event processor accepted
  stored,      \* the level in the parameter store
  running,     \* is the process alive
  connected,   \* the connection; states the goroutine has not seen yet
  notices,
  subscribed,  \* the methods the connection has subscribed to
  inbox,       \* messages received whose method was not called yet
  task,        \* what a sender does: the next page to fetch, what to send
  first,       \* isFirst...EventOnConnected
  eventChan,
  handler,     \* processTokenEvent: the event, and where it is
  last,        \* lastStoppedBlock
  missed,      \* history: events that nobody will ask for
  failed,      \* history: events whose push failed, or whose page failed
  faults, drops, crashes

world == <<chain, accepted, stored>>
connection == <<running, connected, notices, subscribed, inbox>>
history == <<missed, failed>>
bounds == <<faults, drops, crashes>>

vars == <<chain, accepted, stored, running, connected, notices, subscribed, inbox, task,
          first, eventChan, handler, last, missed, failed, faults, drops, crashes>>

Event == [level : 1..MaxLevels, index : Nat \ {0}]
Events == UNION {{[level |-> n, index |-> i] : i \in DOMAIN chain[n]} : n \in DOMAIN chain}

Idle == [at |-> "idle", level |-> 0, upTo |-> 0, queue |-> <<>>, message |-> <<>>]
Free == [at |-> "idle", event |-> <<>>]

(* The events of a level that are of one kind, in their order: the         *)
(* transfers are the first of the level, and the updates the last.         *)
Page(level, kinds, kind) ==
  LET n == Cardinality({i \in DOMAIN kinds : kinds[i] = kind})
      before == IF kind = "transfer" THEN 0 ELSE Len(kinds) - n
  IN  [i \in 1..n |-> [level |-> level, index |-> before + i]]

Init ==
  /\ chain = <<>> /\ accepted = {} /\ stored = 1
  /\ running = FALSE /\ connected = FALSE /\ notices = 0
  /\ subscribed = {} /\ inbox = [m \in Method |-> <<>>]
  /\ task = [s \in Sender |-> Idle]
  /\ first = [m \in Method |-> TRUE]
  /\ eventChan = <<>> /\ handler = Free /\ last = 0
  /\ missed = {} /\ failed = {}
  /\ faults = 0 /\ drops = 0 /\ crashes = 0

Fault == faults < MaxFaults /\ faults' = faults + 1

-------------------------------------------------------------------------------
(* The chain and the connection.                                           *)
BakeLevel(kinds) ==
  /\ Len(chain) < MaxLevels
  /\ chain' = Append(chain, kinds)
  /\ inbox' = [m \in Method |->
       LET page == Page(Len(chain) + 1, kinds, KindFor(m))
       IN  IF m \in subscribed /\ page # <<>> THEN Append(inbox[m], page) ELSE inbox[m]]
  /\ UNCHANGED <<accepted, stored, running, connected, notices, subscribed, task, first,
                 eventChan, handler, last, history, bounds>>

(* Run starts the client; a lost connection is made again.                 *)
Connect ==
  /\ ~ connected
  /\ running' = TRUE /\ connected' = TRUE /\ notices' = notices + 1
  /\ UNCHANGED <<world, subscribed, inbox, task, first, eventChan, handler, last, history, bounds>>

Disconnect ==
  /\ drops < MaxDrops /\ drops' = drops + 1
  /\ connected /\ connected' = FALSE
  /\ subscribed' = {} /\ inbox' = [m \in Method |-> <<>>]
  /\ UNCHANGED <<world, running, notices, task, first, eventChan, handler, last, history,
                 faults, crashes>>

(* The process dies, or panics: the client was closed, or a subscription   *)
(* was answered with an error.  A new life starts from the parameter.      *)
Dead ==
  /\ running' = FALSE /\ connected' = FALSE /\ notices' = 0
  /\ subscribed' = {} /\ inbox' = [m \in Method |-> <<>>]
  /\ task' = [s \in Sender |-> Idle]
  /\ first' = [m \in Method |-> TRUE]
  /\ eventChan' = <<>> /\ handler' = Free /\ last' = 0
  /\ UNCHANGED <<world, history>>

Crash ==
  /\ crashes < MaxCrashes /\ crashes' = crashes + 1
  /\ running
  /\ Dead
  /\ UNCHANGED <<faults, drops>>

-------------------------------------------------------------------------------
(* fetchFromByLastStoppedLevel: read the head of the chain, then for every *)
(* level the pages of transfers and of bigmap updates.  A method goes on   *)
(* with the events of its message.                                         *)
FetchFrom(level, message) ==
  [at |-> "transfer", level |-> level, upTo |-> Len(chain), queue |-> <<>>, message |-> message]

SendOnly(message) ==
  [at |-> "done", level |-> 0, upTo |-> 0, queue |-> message, message |-> <<>>]

Fetches(s) == task[s].at \in Kind /\ task[s].queue = <<>>

(* The place after a page.                                                 *)
NextPage(t) ==
  IF t.at = "transfer" THEN [t EXCEPT !.at = "update"]
  ELSE [t EXCEPT !.at = "transfer", !.level = @ + 1]

FetchPage(s) ==
  /\ Fetches(s) /\ task[s].level <= task[s].upTo
  /\ task' = [task EXCEPT ![s] =
       [NextPage(task[s]) EXCEPT
          !.queue = Page(task[s].level, chain[task[s].level], task[s].at)]]
  /\ UNCHANGED <<world, connection, first, eventChan, handler, last, history, bounds>>

(* An error ends the page, not the fetch: the next page is asked for.      *)
FailPage(s) ==
  /\ Fault
  /\ Fetches(s) /\ task[s].level <= task[s].upTo
  /\ failed' = failed \cup
       (ToSet(Page(task[s].level, chain[task[s].level], task[s].at)) \ accepted)
  /\ task' = [task EXCEPT ![s] = NextPage(@)]
  /\ UNCHANGED <<world, connection, first, eventChan, handler, last, missed, drops, crashes>>

EndFetch(s) ==
  /\ Fetches(s) /\ task[s].level > task[s].upTo
  /\ task' = [task EXCEPT ![s] = SendOnly(task[s].message)]
  /\ UNCHANGED <<world, connection, first, eventChan, handler, last, history, bounds>>

SendEvent(s) ==
  /\ task[s].queue # <<>>
  /\ eventChan' = Append(eventChan, Head(task[s].queue))
  /\ task' = [task EXCEPT ![s].queue = Tail(@)]
  /\ UNCHANGED <<world, connection, first, handler, last, history, bounds>>

Done(s) == task[s].at = "done" /\ task[s].queue = <<>>

-------------------------------------------------------------------------------
(* The goroutine that watches the state of the client.  Mutant: it         *)
(* fetches from the level before the stored one.                           *)
FromLevelBefore == IF stored > 1 THEN stored - 1 ELSE stored

FromLevel == stored

Connected ==
  /\ task["observer"] = Idle /\ notices > 0
  /\ notices' = notices - 1
  /\ task' = [task EXCEPT !["observer"] = FetchFrom(FromLevel, <<>>)]
  /\ UNCHANGED <<world, running, connected, subscribed, inbox, first, eventChan, handler,
                 last, history, bounds>>

(* The parameter or the head of the chain cannot be read.                  *)
ConnectedWithoutFetch ==
  /\ Fault
  /\ task["observer"] = Idle /\ notices > 0
  /\ notices' = notices - 1
  /\ failed' = failed \cup ({e \in Events : e.level >= stored} \ accepted)
  /\ task' = [task EXCEPT !["observer"] = SendOnly(<<>>)]
  /\ UNCHANGED <<world, running, connected, subscribed, inbox, first, eventChan, handler,
                 last, missed, drops, crashes>>

SubscribeTransfers ==
  /\ Done("observer") /\ connected
  /\ first' = [m \in Method |-> TRUE]
  /\ subscribed' = subscribed \cup {"Transfers"}
  /\ task' = [task EXCEPT !["observer"].at = "bigmaps"]
  /\ UNCHANGED <<world, running, connected, notices, inbox, eventChan, handler, last, history,
                 bounds>>

SubscribeBigmaps ==
  /\ task["observer"].at = "bigmaps" /\ connected
  /\ subscribed' = subscribed \cup {"Bigmaps"}
  /\ task' = [task EXCEPT !["observer"] = Idle]
  /\ UNCHANGED <<world, running, connected, notices, inbox, first, eventChan, handler, last,
                 history, bounds>>

(* Without a connection Invoke answers with an error, and the process      *)
(* panics.                                                                 *)
SubscribePanics ==
  /\ Done("observer") \/ task["observer"].at = "bigmaps"
  /\ ~ connected
  /\ Dead /\ UNCHANGED bounds

-------------------------------------------------------------------------------
(* Transfers and Bigmaps: the first message after a connection fetches the *)
(* levels from the last one this life handled, if it handled any.  Without *)
(* a fetch, what was baked before the subscription is missed.              *)
(* Mutant: the first message does not fetch.                               *)
NeverCatchesUp(m) == FALSE

CatchesUp(m) == first[m] /\ last > 0

OnItsWay(e) ==
  \/ e \in ToSet(eventChan) \/ (handler # Free /\ handler.event = e)
  \/ \E s \in Sender : e \in ToSet(task[s].queue) \cup ToSet(task[s].message)
  \/ \E m \in Method : \E i \in DOMAIN inbox[m] : e \in ToSet(inbox[m][i])

CallMethod(m) ==
  /\ task[m] = Idle /\ inbox[m] # <<>>
  /\ inbox' = [inbox EXCEPT ![m] = Tail(@)]
  /\ first' = [first EXCEPT ![m] = FALSE]
  /\ LET message == Head(inbox[m])
     IN  task' = [task EXCEPT ![m] =
           IF CatchesUp(m) THEN FetchFrom(last, message) ELSE SendOnly(message)]
  /\ missed' = IF first[m] /\ last = 0
               THEN missed \cup {e \in Events \ accepted : ~ OnItsWay(e)} ELSE missed
  /\ UNCHANGED <<world, running, connected, notices, subscribed, eventChan, handler, last,
                 failed, bounds>>

(* The head of the chain cannot be read: only the message is sent.         *)
CallMethodWithoutFetch(m) ==
  /\ Fault
  /\ task[m] = Idle /\ inbox[m] # <<>> /\ CatchesUp(m)
  /\ inbox' = [inbox EXCEPT ![m] = Tail(@)]
  /\ first' = [first EXCEPT ![m] = FALSE]
  /\ task' = [task EXCEPT ![m] = SendOnly(Head(inbox[m]))]
  /\ failed' = failed \cup {e \in Events \ accepted : ~ OnItsWay(e)}
  /\ UNCHANGED <<world, running, connected, notices, subscribed, eventChan, handler, last,
                 missed, drops, crashes>>

EndMethod(m) ==
  /\ Done(m)
  /\ task' = [task EXCEPT ![m] = Idle]
  /\ UNCHANGED <<world, connection, first, eventChan, handler, last, history, bounds>>

-------------------------------------------------------------------------------
(* processTokenEvent: push the event, then move the last stopped level and *)
(* store it; a failed push returns at once, a failed store is only logged. *)
Receive ==
  /\ handler = Free /\ eventChan # <<>>
  /\ handler' = [at |-> "push", event |-> Head(eventChan)]
  /\ eventChan' = Tail(eventChan)
  /\ UNCHANGED <<world, connection, task, first, last, history, bounds>>

PushEvent ==
  /\ handler.at = "push"
  /\ accepted' = accepted \cup {handler.event}
  /\ handler' = IF handler.event.level > last THEN [handler EXCEPT !.at = "move"] ELSE Free
  /\ UNCHANGED <<chain, stored, connection, task, first, eventChan, last, history, bounds>>

FailPush ==
  /\ Fault
  /\ handler.at = "push" /\ handler' = Free
  /\ \/ accepted' = accepted \cup {handler.event} /\ UNCHANGED failed
     \/ failed' = failed \cup {handler.event} /\ UNCHANGED accepted
  /\ UNCHANGED <<chain, stored, connection, task, first, eventChan, last, missed, drops, crashes>>

MoveLevel ==
  /\ handler.at = "move"
  /\ last' = handler.event.level
  /\ handler' = [handler EXCEPT !.at = "put"]
  /\ UNCHANGED <<world, connection, task, first, eventChan, history, bounds>>

PutLevel ==
  /\ handler.at = "put" /\ handler' = Free
  /\ stored' = last
  /\ UNCHANGED <<chain, accepted, connection, task, first, eventChan, last, history, bounds>>

FailPut ==
  /\ Fault
  /\ handler.at = "put" /\ handler' = Free
  /\ UNCHANGED <<world, connection, task, first, eventChan, last, history, drops, crashes>>

-------------------------------------------------------------------------------
SenderStep(s) == FetchPage(s) \/ EndFetch(s) \/ SendEvent(s)
ObserverStep == Connected \/ SubscribeTransfers \/ SubscribeBigmaps \/ SubscribePanics
HandlerStep == Receive \/ PushEvent \/ MoveLevel \/ PutLevel
MethodStep(m) == CallMethod(m) \/ EndMethod(m)

Failure ==
  \/ ConnectedWithoutFetch \/ FailPush \/ FailPut
  \/ \E s \in Sender : FailPage(s)
  \/ \E m \in Method : CallMethodWithoutFetch(m)

Next ==
  \/ \E kinds \in Contents : BakeLevel(kinds)
  \/ Connect \/ Disconnect \/ Crash
  \/ ObserverStep \/ HandlerStep \/ Failure
  \/ \E s \in Sender : SenderStep(s)
  \/ \E m \in Method : MethodStep(m)

(* The goroutines run, and the client connects again.                      *)
Fairness ==
  /\ WF_vars(Connect) /\ WF_vars(ObserverStep) /\ WF_vars(HandlerStep)
  /\ \A s \in Sender : WF_vars(SenderStep(s))
  /\ \A m \in Method : WF_vars(MethodStep(m))

Spec == Init /\ [][Next]_vars /\ Fairness
-------------------------------------------------------------------------------
(* The types of the variables; every event names a place of the chain.     *)
TypeOK ==
  /\ chain \in Seq(Contents) /\ Len(chain) <= MaxLevels
  /\ accepted \cup missed \cup failed \subseteq Events
  /\ stored \in 1..MaxLevels /\ last \in 0..MaxLevels
  /\ {running, connected} \subseteq BOOLEAN /\ notices \in Nat
  /\ subscribed \subseteq Method
  /\ inbox \in [Method -> Seq(Seq(Events))]
  /\ \A s \in Sender :
       /\ task[s].at \in Kind \cup {"idle", "done", "bigmaps"}
       /\ task[s].level \in 0..(MaxLevels + 1) /\ task[s].upTo \in 0..MaxLevels
       /\ {task[s].queue, task[s].message} \subseteq Seq(Events)
  /\ first \in [Method -> BOOLEAN]
  /\ eventChan \in Seq(Events)
  /\ handler = Free \/ (handler.at \in {"push", "move", "put"} /\ handler.event \in Events)
  /\ faults \in 0..MaxFaults /\ drops \in 0..MaxDrops /\ crashes \in 0..MaxCrashes

(* While the connection is never lost, every event below the stored level, *)
(* from where the next life fetches, was accepted or was lost for a        *)
(* reason: a failed call, or a first message that came before this life    *)
(* had handled any event.                                                  *)
NoSilentLoss ==
  drops = 0 =>
    \A e \in Events : e.level < stored => e \in accepted \cup missed \cup failed

(* Nor do events overtake each other then: they reach the event processor  *)
(* in the order of the chain, whichever sender brought them first.         *)
Before(d, e) == d.level < e.level \/ (d.level = e.level /\ d.index < e.index)

AcceptedInOrder ==
  drops = 0 =>
    \A e \in accepted, d \in Events :
      Before(d, e) => d \in accepted \cup missed \cup failed

(* Nothing received is lost (events are processed from the last stopped    *)
(* block on).                                                              *)
ReceivedSurvives ==
  \A n \in 1..MaxLevels, i \in 1..2 :
    LET e == [level |-> n, index |-> i]
    IN  OnItsWay(e) ~> e \in accepted \cup missed \cup failed

(* Once a later event of the chain was pushed, so was or will be each      *)
(* event before it (events are processed from the last stopped block on).  *)
PassedIsDelivered ==
  \A n \in 1..MaxLevels, k \in 1..MaxLevels :
    LET d == [level |-> n, index |-> 1]
        e == [level |-> k, index |-> 1]
    IN  n < k => (e \in accepted /\ d \in Events ~> d \in accepted)
===============================================================================
