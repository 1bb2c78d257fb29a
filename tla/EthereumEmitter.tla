--------------------------- MODULE EthereumEmitter ---------------------------
(***************************************************************************)
(* The Ethereum event emitter: logs of the chain are pushed to the event   *)
(* processor.  On a start it reads the last stopped block from the         *)
(* parameter store and fetches the logs from that block on, one block and  *)
(* one kind of logs after the other; then it subscribes, and one goroutine *)
(* per subscription handles what arrives.  Both goroutines move the same   *)
(* last stopped block, and nothing is known of what they left behind.      *)
(***************************************************************************)
EXTENDS Integers, Sequences

CONSTANTS
  Contents,     \* what a block may hold: sequences of kinds of logs
  MaxBlocks,    \* bound: blocks mined
  MaxFaults,    \* bound: failed calls
  MaxDrops,     \* bound: subscriptions that end with an error
  MaxCrashes    \* bound: crashes of the emitter

(* Transfers with four topics are pushed, other transfers are not; the     *)
(* logs of the series registry are those a start fetches again, and those  *)
(* that only the subscription asks for.                                    *)
Kind == {"transfer", "fungible", "series", "optOut"}
Consumer == {"nft", "registry"}
ConsumerOf(kind) == IF kind \in {"transfer", "fungible"} THEN "nft" ELSE "registry"

ASSUME EmitterAssumption ==
  /\ Contents \subseteq Seq(Kind)
  /\ MaxBlocks \in Nat \ {0} /\ {MaxFaults, MaxDrops, MaxCrashes} \subseteq Nat

VARIABLES
  chain,       \* the kinds of the logs of each block
  accepted,    \* the logs the event processor accepted
  stored,      \* the block number in the parameter store
  phase,       \* where Run is; the next block of the backfill and its last one
  channel,     \* the logs a consumer will receive, in the order of the chain
  handler,     \* the log a consumer handles, and where it is
  subscribed,  \* the consumers whose subscription is live
  current,     \* currentLastStoppedBlock
  missed,      \* history: logs that nobody asked for
  failed,      \* history: logs whose handler returned early
  faults, drops, crashes

history == <<missed, failed>>
bounds == <<faults, drops, crashes>>

vars == <<chain, accepted, stored, phase, channel, handler, subscribed, current,
          missed, failed, faults, drops, crashes>>

KindOf(l) == chain[l.block][l.index]
LogsOf(b) == {[block |-> b, index |-> i] : i \in DOMAIN chain[b]}
Logs == UNION {LogsOf(b) : b \in DOMAIN chain}
Before(l, m) == l.block < m.block \/ (l.block = m.block /\ l.index < m.index)

Down == [at |-> "down", block |-> 0, last |-> 0]
Watching == [at |-> "watch", block |-> 0, last |-> 0]
Free == [at |-> "idle", log |-> <<>>, value |-> 0]

Init ==
  /\ chain = <<>> /\ accepted = {} /\ stored = 1
  /\ phase = Down
  /\ channel = [c \in Consumer |-> {}]
  /\ handler = [c \in Consumer |-> Free]
  /\ subscribed = {} /\ current = 0
  /\ missed = {} /\ failed = {}
  /\ faults = 0 /\ drops = 0 /\ crashes = 0

Fault == faults < MaxFaults /\ faults' = faults + 1

(* The logs of a block that a consumer's query returns.                    *)
Returned(logs, kinds, b) ==
  {[block |-> b, index |-> i] : i \in {j \in DOMAIN logs : logs[j] \in kinds}}

Asked(c) == {kind \in Kind : ConsumerOf(kind) = c}

-------------------------------------------------------------------------------
(* A block is mined; live subscriptions deliver its logs.  While nobody    *)
(* will ask for it (a start has read the chain already) its logs are missed *)
Listens(c) == c \in subscribed

MineBlock(logs) ==
  /\ Len(chain) < MaxBlocks
  /\ chain' = Append(chain, logs)
  /\ LET b == Len(chain) + 1
     IN  /\ channel' = [c \in Consumer |->
              IF Listens(c) THEN channel[c] \cup Returned(logs, Asked(c), b) ELSE channel[c]]
         /\ missed' = missed \cup
              {[block |-> b, index |-> i] : i \in
                 {j \in DOMAIN logs : phase.at # "down" /\ ~ Listens(ConsumerOf(logs[j]))}}
  /\ UNCHANGED <<accepted, stored, phase, handler, subscribed, current, failed, bounds>>

(* processLogsSinceLastStoppedBlock: the parameter and the head of the     *)
(* chain.  Mutant: the backfill begins after the last stopped block.       *)
FromNextBlock == stored + 1

FromBlock == stored

Start ==
  /\ phase = Down
  /\ phase' = [at |-> "nft", block |-> FromBlock, last |-> Len(chain)]
  /\ UNCHANGED <<chain, accepted, stored, channel, handler, subscribed, current, history, bounds>>

Quiet == \A c \in Consumer : channel[c] = {} /\ handler[c] = Free

(* FilterLogs for one block and one kind of logs.  Transfers come first;   *)
(* the second query leaves out the topics OptOutSeries and AssignSeries.   *)
Filtered == Kind \ {"optOut"}

FetchLogs ==
  LET b == phase.block
      c == phase.at
  IN  /\ c \in Consumer /\ b <= phase.last /\ Quiet
      /\ channel' = [channel EXCEPT ![c] = Returned(chain[b], Asked(c) \cap Filtered, b)]
      /\ phase' = IF c = "nft" THEN [phase EXCEPT !.at = "registry"]
                  ELSE [phase EXCEPT !.at = "nft", !.block = b + 1]
      /\ UNCHANGED <<chain, accepted, stored, handler, subscribed, current, history, bounds>>

(* The backfill ends, and Watch and the consumers start.                   *)
EndBackfill ==
  /\ phase.at = "nft" /\ phase.block > phase.last /\ Quiet
  /\ phase' = Watching
  /\ UNCHANGED <<chain, accepted, stored, channel, handler, subscribed, current, history, bounds>>

(* The parameter, the block number or a query fails: the rest of the       *)
(* backfill is skipped.                                                    *)
SkipBackfill ==
  /\ Fault
  /\ phase.at \in {"down"} \cup Consumer /\ Quiet
  /\ phase.at # "down" => phase.block <= phase.last
  /\ LET b == IF phase.at = "down" THEN stored ELSE phase.block
     IN  missed' = missed \cup ({l \in Logs : l.block >= b} \ accepted)
  /\ phase' = Watching
  /\ UNCHANGED <<chain, accepted, stored, channel, handler, subscribed, current, failed,
                 drops, crashes>>

(* SubscribeFilterLogs, and the end of a subscription with an error.       *)
Subscribe(c) ==
  /\ phase = Watching /\ c \notin subscribed
  /\ subscribed' = subscribed \cup {c}
  /\ UNCHANGED <<chain, accepted, stored, phase, channel, handler, current, history, bounds>>

DropSubscription(c) ==
  /\ drops < MaxDrops /\ drops' = drops + 1
  /\ c \in subscribed
  /\ subscribed' = subscribed \ {c}
  /\ UNCHANGED <<chain, accepted, stored, phase, channel, handler, current, history, faults, crashes>>

-------------------------------------------------------------------------------
(* processNftTransferLog and processSeriesRegistryLog: push the log,       *)
At(c, place) == handler' = [handler EXCEPT ![c].at = place]

Receive(c) ==
  /\ handler[c] = Free
  /\ \E l \in channel[c] :
       /\ \A m \in channel[c] \ {l} : Before(l, m)
       /\ handler' = [handler EXCEPT ![c] = [at |-> "push", log |-> l, value |-> 0]]
       /\ channel' = [channel EXCEPT ![c] = @ \ {l}]
  /\ UNCHANGED <<chain, accepted, stored, phase, subscribed, current, history, bounds>>

PushEvent(c) ==
  /\ handler[c].at = "push"
  /\ accepted' = IF KindOf(handler[c].log) = "fungible" THEN accepted
                 ELSE accepted \cup {handler[c].log}
  /\ At(c, "check")
  /\ UNCHANGED <<chain, stored, phase, channel, subscribed, current, history, bounds>>

(* The block time or the push fails, or its answer is lost: the handler    *)
(* returns.  Mutant: it goes on.                                           *)
GoesOn(c) == At(c, "check")

Returns(c) == handler' = [handler EXCEPT ![c] = Free]

FailPush(c) ==
  /\ Fault
  /\ handler[c].at = "push" /\ KindOf(handler[c].log) # "fungible"
  /\ \/ accepted' = accepted \cup {handler[c].log} /\ UNCHANGED failed
     \/ failed' = failed \cup {handler[c].log} /\ UNCHANGED accepted
  /\ Returns(c)
  /\ UNCHANGED <<chain, stored, phase, channel, subscribed, current, missed, drops, crashes>>

(* then compare its block with the last stopped block, set that, and store *)
(* it, none of it under a lock; a failed store is only logged.             *)
CheckBlock(c) ==
  /\ handler[c].at = "check"
  /\ IF handler[c].log.block > current THEN At(c, "set")
     ELSE handler' = [handler EXCEPT ![c] = Free]
  /\ UNCHANGED <<chain, accepted, stored, phase, channel, subscribed, current, history, bounds>>

SetBlock(c) ==
  /\ handler[c].at = "set"
  /\ current' = handler[c].log.block
  /\ At(c, "format")
  /\ UNCHANGED <<chain, accepted, stored, phase, channel, subscribed, history, bounds>>

FormatBlock(c) ==
  /\ handler[c].at = "format"
  /\ handler' = [handler EXCEPT ![c].at = "put", ![c].value = current]
  /\ UNCHANGED <<chain, accepted, stored, phase, channel, subscribed, current, history, bounds>>

PutBlock(c) ==
  /\ handler[c].at = "put"
  /\ stored' = handler[c].value
  /\ handler' = [handler EXCEPT ![c] = Free]
  /\ UNCHANGED <<chain, accepted, phase, channel, subscribed, current, history, bounds>>

FailPut(c) ==
  /\ Fault
  /\ handler[c].at = "put"
  /\ handler' = [handler EXCEPT ![c] = Free]
  /\ UNCHANGED <<chain, accepted, stored, phase, channel, subscribed, current, history, drops, crashes>>

(* The process dies, and starts again.                                     *)
Crash ==
  /\ crashes < MaxCrashes /\ crashes' = crashes + 1
  /\ phase # Down /\ phase' = Down
  /\ channel' = [c \in Consumer |-> {}]
  /\ handler' = [c \in Consumer |-> Free]
  /\ subscribed' = {} /\ current' = 0
  /\ UNCHANGED <<chain, accepted, stored, history, faults, drops>>

-------------------------------------------------------------------------------
HandlerStep(c) ==
  \/ Receive(c) \/ PushEvent(c) \/ CheckBlock(c) \/ SetBlock(c)
  \/ FormatBlock(c) \/ PutBlock(c)

BackfillStep == Start \/ FetchLogs \/ EndBackfill

Next ==
  \/ \E logs \in Contents : MineBlock(logs)
  \/ BackfillStep \/ SkipBackfill \/ Crash
  \/ \E c \in Consumer : \/ HandlerStep(c) \/ FailPush(c) \/ FailPut(c)
                         \/ Subscribe(c) \/ DropSubscription(c)

(* The program runs: loops of goroutines, retried subscriptions.           *)
Fairness ==
  /\ WF_vars(BackfillStep)
  /\ \A c \in Consumer : WF_vars(HandlerStep(c)) /\ WF_vars(Subscribe(c))

Spec == Init /\ [][Next]_vars /\ Fairness
-------------------------------------------------------------------------------
TypeOK ==
  /\ chain \in Seq(Contents) /\ Len(chain) <= MaxBlocks
  /\ accepted \subseteq Logs /\ missed \cup failed \subseteq Logs
  /\ stored \in 1..MaxBlocks /\ current \in 0..MaxBlocks
  /\ phase \in [at : {"down", "watch"} \cup Consumer, block : 0..(MaxBlocks + 1),
                last : 0..MaxBlocks]
  /\ channel \in [Consumer -> SUBSET Logs]
  /\ handler \in [Consumer -> {Free} \cup
       [at : {"push", "check", "set", "format", "put"}, log : Logs, value : 0..MaxBlocks]]
  /\ subscribed \subseteq Consumer
  /\ faults \in 0..MaxFaults /\ drops \in 0..MaxDrops /\ crashes \in 0..MaxCrashes

(* A log that is to be pushed and lies below the last stopped block in the *)
(* store, from where the next life starts, has been accepted or was lost   *)
(* for a reason in the emitter's log: a failed call, or a block mined      *)
(* while it was not subscribed.                                            *)
ToPush == {l \in Logs : KindOf(l) # "fungible"}

NoSilentLoss == \A l \in ToPush : l.block < stored => l \in accepted \cup missed \cup failed

(* Transfers reach the event processor in the order of the chain: when one *)
(* is accepted for the first time, every earlier one has been accepted or  *)
(* was lost for such a reason, whichever life had to handle it.            *)
AcceptedInOrder ==
  \A l \in accepted, m \in ToPush :
    Before(m, l) => m \in accepted \cup missed \cup failed

(* The stored block was reached: some log of it was handled, or it is the  *)
(* initial one.                                                            *)
StoredWasHandled ==
  stored > 1 =>
    /\ stored <= Len(chain)
    /\ \E l \in LogsOf(stored) : l \in accepted \/ KindOf(l) = "fungible"

(* Every log is delivered in the end, by the subscription or by the        *)
(* backfill of a later life.                                               *)
DeliveredOrLost ==
  \A b \in 1..MaxBlocks, i \in 1..2 :
    LET l == [block |-> b, index |-> i]
    IN  l \in ToPush ~> l \in accepted \cup missed \cup failed

(* Nothing is missed (the README: events are captured as they happen).     *)
Delivered ==
  \A b \in 1..MaxBlocks, i \in 1..2 :
    LET l == [block |-> b, index |-> i]
    IN  l \in ToPush ~> l \in accepted
===============================================================================
