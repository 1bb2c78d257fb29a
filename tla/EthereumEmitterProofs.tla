------------------------- MODULE EthereumEmitterProofs -------------------------
(***************************************************************************)
(* Proofs about EthereumEmitter, for every number of blocks, faults, drops *)
(* and crashes.  First what holds for any logs, then, for chains whose     *)
(* logs one consumer asks for, that none is lost silently and that they    *)
(* are accepted in order.                                                  *)
(***************************************************************************)
EXTENDS EthereumEmitter, SequenceTheorems, TLAPS

Busy == {"push", "check", "set", "format", "put"}

(* A log of a block has been handled.                                      *)
Handled(l) == l \in accepted \/ KindOf(l) = "fungible"
Reached(b) == b \in 1..Len(chain) /\ \E l \in LogsOf(b) : Handled(l)

(* Backfill and subscriptions take turns, and what the handlers carry to   *)
(* the store is the number of a block that was reached.                    *)
PhaseInv ==
  /\ phase.at = "down" => phase = Down /\ Quiet /\ subscribed = {}
  /\ phase.at = "watch" => phase = Watching
  /\ phase.at \in Consumer =>
       phase.block >= 1 /\ phase.last <= Len(chain) /\ subscribed = {}

HandlerInv ==
  \A c \in Consumer :
    /\ handler[c].at \in {"check", "set", "format", "put"} => Handled(handler[c].log)
    /\ handler[c].at = "format" => current > 0
    /\ handler[c].at = "put" => Reached(handler[c].value)

IInv ==
  /\ TypeOK /\ PhaseInv /\ HandlerInv
  /\ stored = 1 \/ Reached(stored)
  /\ current = 0 \/ Reached(current)

-------------------------------------------------------------------------------
(* The chain whose logs all belong to consumer c, and to what it fetches.  *)
OnlyFor(c) == Contents \subseteq Seq(Asked(c) \cap Filtered)

Settled(l) == Handled(l) \/ l \in missed \cup failed

(* All logs below block b are settled.                                     *)
SettledBelow(b) == \A l \in Logs : l.block < b => Settled(l)

(* What the backfill has not asked for yet.                                *)
Ahead(c, l) ==
  /\ phase.at \in Consumer
  /\ l.block >= phase.block /\ l.block <= phase.last
  /\ l.block = phase.block => phase.at \in {"nft", c}

(* What a consumer has been given and has not pushed.                      *)
InHand(c) == channel[c] \cup (IF handler[c].at = "push" THEN {handler[c].log} ELSE {})

Given(c) == channel[c] \cup (IF handler[c].at \in Busy THEN {handler[c].log} ELSE {})

Pending(c) ==
  \A l \in Logs :
    Settled(l) \/ l \in InHand(c) \/ Ahead(c, l) \/ (phase.at = "down" /\ l.block >= stored)

InTurn(c) ==
  /\ handler[c].at \in Busy => \A m \in channel[c] : Before(handler[c].log, m)
  /\ \A m \in Given(c), l \in Logs : Ahead(c, l) => Before(m, l)

Alone(c) == \A d \in Consumer \ {c} : channel[d] = {} /\ handler[d].at = "idle"

Carried(c) == handler[c].at = "put" => SettledBelow(handler[c].value)

OrderInv(c) ==
  /\ Pending(c) /\ InTurn(c) /\ Alone(c) /\ Carried(c)
  /\ SettledBelow(stored) /\ SettledBelow(current)
  /\ AcceptedInOrder

-------------------------------------------------------------------------------
(* What a log is, and where it comes from.                                 *)
LEMMA LogFacts ==
  ASSUME chain \in Seq(Contents), NEW l \in Logs
  PROVE  /\ l.block \in 1..Len(chain) /\ l.index \in DOMAIN chain[l.block]
         /\ l.index \in Nat /\ KindOf(l) \in Kind
         /\ l \in LogsOf(l.block)
         /\ l = [block |-> l.block, index |-> l.index]
<1>1. PICK b \in 1..Len(chain) : l \in LogsOf(b)
  BY DEF Logs
<1>2. chain[b] \in Seq(Kind)
  BY ElementOfSeq, EmitterAssumption
<1>3. PICK i \in DOMAIN chain[b] : l = [block |-> b, index |-> i]
  BY <1>1 DEF LogsOf
<1>. QED
  BY <1>1, <1>2, <1>3 DEF KindOf

LEMMA LogsAre ==
  ASSUME chain \in Seq(Contents), NEW b \in 1..Len(chain), NEW i \in DOMAIN chain[b]
  PROVE  [block |-> b, index |-> i] \in Logs
  BY DEF Logs, LogsOf

(* Logs of the chain lie one before the other.                             *)
LEMMA BeforeIsTotal ==
  ASSUME chain \in Seq(Contents), NEW l \in Logs, NEW m \in Logs
  PROVE  /\ l = m \/ Before(l, m) \/ Before(m, l)
         /\ ~ (Before(l, m) /\ Before(m, l)) /\ ~ Before(l, l)
<1>1. /\ l.block \in Nat /\ l.index \in Nat /\ l = [block |-> l.block, index |-> l.index]
      /\ m.block \in Nat /\ m.index \in Nat /\ m = [block |-> m.block, index |-> m.index]
  BY LogFacts
<1>. QED
  BY <1>1 DEF Before

LEMMA BeforeIsTransitive ==
  ASSUME chain \in Seq(Contents), NEW k \in Logs, NEW l \in Logs, NEW m \in Logs,
         Before(k, l), Before(l, m)
  PROVE  Before(k, m)
<1>1. /\ k.block \in Nat /\ k.index \in Nat
      /\ l.block \in Nat /\ l.index \in Nat
      /\ m.block \in Nat /\ m.index \in Nat
  BY LogFacts
<1>. QED
  BY <1>1 DEF Before

(* A query returns logs of its block, and all that it asks for.            *)
LEMMA ReturnedFacts ==
  ASSUME chain \in Seq(Contents), NEW b \in 1..Len(chain), NEW kinds
  PROVE  Returned(chain[b], kinds, b) = {l \in LogsOf(b) : KindOf(l) \in kinds}
<1>1. \A i : [block |-> b, index |-> i].block = b /\ [block |-> b, index |-> i].index = i
  OBVIOUS
<1>2. \A i \in DOMAIN chain[b] : KindOf([block |-> b, index |-> i]) = chain[b][i]
  BY DEF KindOf
<1>. QED
  BY <1>2 DEF Returned, LogsOf

-------------------------------------------------------------------------------
(* The chain grows by one block.                                           *)
Fresh(n, logs) == {[block |-> n, index |-> i] : i \in DOMAIN logs}

LEMMA ChainGrows ==
  ASSUME TypeOK, NEW logs \in Contents, MineBlock(logs), NEW n, n = Len(chain) + 1
  PROVE  /\ chain' \in Seq(Contents) /\ Len(chain') = n
         /\ n \in 1..MaxBlocks /\ n \notin 1..Len(chain)
         /\ Logs' = Logs \cup Fresh(n, logs)
         /\ \A l \in Logs : KindOf(l)' = KindOf(l)
         /\ \A b \in 1..Len(chain) : LogsOf(b)' = LogsOf(b)
         /\ \A i \in DOMAIN logs : KindOf([block |-> n, index |-> i])' = logs[i]
<1>1. /\ chain \in Seq(Contents) /\ Len(chain) <= MaxBlocks
      /\ chain' = Append(chain, logs) /\ Len(chain) < MaxBlocks
  BY DEF TypeOK, MineBlock
<1>2. /\ chain' \in Seq(Contents) /\ Len(chain') = n
      /\ \A b \in 1..Len(chain) : chain'[b] = chain[b]
      /\ chain'[n] = logs
  BY <1>1
<1>3. n \in 1..MaxBlocks /\ n \notin 1..Len(chain)
  BY <1>1, EmitterAssumption
<1>4. DOMAIN chain = 1..Len(chain) /\ DOMAIN chain' = 1..n /\ Len(chain) \in Nat
  BY <1>1, <1>2
<1>5. ASSUME NEW b \in 1..Len(chain) PROVE LogsOf(b)' = LogsOf(b)
  <2>1. chain'[b] = chain[b]
    BY <1>2
  <2>. QED
    BY <2>1 DEF LogsOf
<1>6. LogsOf(n)' = Fresh(n, logs)
  BY <1>2 DEF LogsOf, Fresh
<1>7. ASSUME NEW l PROVE l \in Logs' <=> l \in Logs \cup Fresh(n, logs)
  <2>1. l \in Logs' <=> \E b \in DOMAIN chain' : l \in LogsOf(b)'
    BY DEF Logs
  <2>2. l \in Logs <=> \E b \in DOMAIN chain : l \in LogsOf(b)
    BY DEF Logs
  <2>3. \A b : b \in DOMAIN chain' <=> b \in DOMAIN chain \/ b = n
    BY <1>4
  <2>. QED
    BY <2>1, <2>2, <2>3, <1>4, <1>5, <1>6
<1>8. Logs' = Logs \cup Fresh(n, logs)
  BY <1>7
<1>9. ASSUME NEW l \in Logs PROVE KindOf(l)' = KindOf(l)
  <2>1. l.block \in 1..Len(chain)
    BY <1>1, LogFacts
  <2>. QED
    BY <2>1, <1>2 DEF KindOf
<1>10. ASSUME NEW i \in DOMAIN logs
       PROVE  KindOf([block |-> n, index |-> i])' = logs[i]
  BY <1>2 DEF KindOf
<1>. QED
  BY <1>2, <1>3, <1>5, <1>8, <1>9, <1>10

LEMMA SameChain ==
  ASSUME UNCHANGED chain
  PROVE  /\ Logs' = Logs
         /\ \A l : KindOf(l)' = KindOf(l)
         /\ \A b : LogsOf(b)' = LogsOf(b)
<1>1. \A b : LogsOf(b)' = LogsOf(b)
  BY DEF LogsOf
<1>2. \A l : KindOf(l)' = KindOf(l)
  BY DEF KindOf
<1>3. Logs' = UNION {LogsOf(b)' : b \in DOMAIN chain}
  BY DEF Logs
<1>. QED
  BY <1>1, <1>2, <1>3 DEF Logs

(* Only a mined block changes the chain.                                   *)
LEMMA OnlyMining ==
  ASSUME Next, \A logs \in Contents : ~ MineBlock(logs)
  PROVE  UNCHANGED chain
  BY DEF Next, BackfillStep, HandlerStep, Start, FetchLogs, EndBackfill, SkipBackfill, Crash,
     Receive, PushEvent, CheckBlock, SetBlock, FormatBlock, PutBlock, FailPush, FailPut,
     Subscribe, DropSubscription

(* Nothing that was said of a log is taken back.                           *)
LEMMA HistoryGrows ==
  ASSUME TypeOK, [Next]_vars
  PROVE  /\ chain \in Seq(Contents) /\ chain' \in Seq(Contents)
         /\ Len(chain) <= Len(chain') /\ Len(chain') <= MaxBlocks
         /\ Logs \subseteq Logs'
         /\ \A l \in Logs : KindOf(l)' = KindOf(l)
         /\ \A b \in 1..Len(chain) : LogsOf(b)' = LogsOf(b)
         /\ accepted \subseteq accepted' /\ missed \subseteq missed' /\ failed \subseteq failed'
<1>1. chain \in Seq(Contents) /\ Len(chain) <= MaxBlocks
  BY DEF TypeOK
<1>2. /\ accepted \subseteq accepted' /\ missed \subseteq missed' /\ failed \subseteq failed'
  BY DEF Next, BackfillStep, HandlerStep, MineBlock, Start, FetchLogs, EndBackfill,
     SkipBackfill, Crash, Receive, PushEvent, CheckBlock, SetBlock, FormatBlock, PutBlock,
     FailPush, FailPut, Subscribe, DropSubscription, history, vars
<1>3. ASSUME NEW logs \in Contents, MineBlock(logs)
      PROVE  /\ chain' \in Seq(Contents)
             /\ Len(chain) <= Len(chain') /\ Len(chain') <= MaxBlocks
             /\ Logs \subseteq Logs'
             /\ \A l \in Logs : KindOf(l)' = KindOf(l)
             /\ \A b \in 1..Len(chain) : LogsOf(b)' = LogsOf(b)
  <2>1. /\ chain' \in Seq(Contents) /\ Len(chain') = Len(chain) + 1
        /\ Len(chain) + 1 \in 1..MaxBlocks
        /\ Logs' = Logs \cup Fresh(Len(chain) + 1, logs)
        /\ \A l \in Logs : KindOf(l)' = KindOf(l)
        /\ \A b \in 1..Len(chain) : LogsOf(b)' = LogsOf(b)
    BY <1>3, ChainGrows
  <2>. QED
    BY <1>1, <2>1, EmitterAssumption
<1>4. CASE UNCHANGED chain
  BY <1>1, <1>2, <1>4, SameChain
<1>5. UNCHANGED vars => UNCHANGED chain
  BY DEF vars
<1>. QED
  BY <1>1, <1>2, <1>3, <1>4, <1>5, OnlyMining

LEMMA HandledStays ==
  ASSUME TypeOK, [Next]_vars
  PROVE  /\ \A l \in Logs : Handled(l) => Handled(l)'
         /\ \A l \in Logs : Settled(l) => Settled(l)'
         /\ \A b : Reached(b) => Reached(b)'
<1>1. \A l \in Logs : Handled(l) => Handled(l)'
  BY HistoryGrows DEF Handled
<1>2. \A l \in Logs : Settled(l) => Settled(l)'
  BY <1>1, HistoryGrows DEF Settled
<1>3. ASSUME NEW b, Reached(b) PROVE Reached(b)'
  <2>1. PICK l \in LogsOf(b) : Handled(l)
    BY <1>3 DEF Reached
  <2>2. b \in 1..Len(chain) /\ l \in Logs
    BY <1>3, <2>1, HistoryGrows DEF Reached, Logs
  <2>3. b \in 1..Len(chain') /\ l \in LogsOf(b)'
    BY <2>1, <2>2, HistoryGrows
  <2>. QED
    BY <1>1, <2>1, <2>2, <2>3 DEF Reached
<1>. QED
  BY <1>1, <1>2, <1>3

-------------------------------------------------------------------------------
(* What a handler has, busy or free.                                       *)
Handling == [at : Busy, log : Logs, value : 0..MaxBlocks]

LEMMA HandlerFacts ==
  ASSUME TypeOK, NEW c \in Consumer
  PROVE  /\ handler \in [Consumer -> {Free} \cup Handling]
         /\ handler[c].at \in Busy => handler[c] \in Handling
         /\ handler[c].at \notin Busy => handler[c] = Free
         /\ Free.at \notin Busy /\ Free.at = "idle"
<1>1. handler \in [Consumer -> {Free} \cup Handling]
  BY DEF TypeOK, Handling, Busy
<1>2. \A h \in Handling : h.at \in Busy
  BY DEF Handling
<1>3. Free.at = "idle"
  BY DEF Free
<1>. QED
  BY <1>1, <1>2, <1>3 DEF Busy

LEMMA PositiveBound == MaxBlocks \in Nat /\ MaxBlocks >= 1
  BY EmitterAssumption

LEMMA InitIInv == Init => IInv
<1> SUFFICES ASSUME Init PROVE IInv
  OBVIOUS
<1>1. chain = <<>> /\ Len(chain) = 0 /\ chain \in Seq(Contents)
  BY DEF Init
<1>2. TypeOK
  BY <1>1, EmitterAssumption DEF Init, TypeOK, Down
<1>3. PhaseInv
  BY DEF Init, PhaseInv, Down, Quiet, Consumer
<1>4. HandlerInv
  BY DEF Init, HandlerInv, Free
<1>. QED
  BY <1>2, <1>3, <1>4 DEF Init, IInv

(* A block is mined.                                                       *)
LEMMA MineIInv ==
  ASSUME IInv, NEW logs \in Contents, MineBlock(logs)
  PROVE  IInv'
<1> DEFINE n == Len(chain) + 1
<1>1. /\ chain' \in Seq(Contents) /\ Len(chain') = n /\ n \in 1..MaxBlocks
      /\ Logs' = Logs \cup Fresh(n, logs)
  BY ChainGrows DEF IInv
<1>2. TypeOK /\ [Next]_vars
  BY DEF IInv, Next
<1>3. /\ \A l \in Logs : Handled(l) => Handled(l)'
      /\ \A b : Reached(b) => Reached(b)'
  BY <1>2, HandledStays
<1>4. UNCHANGED <<accepted, stored, phase, handler, subscribed, current, failed, faults, drops, crashes>>
  BY DEF MineBlock, bounds
<1>5. channel' \in [Consumer -> SUBSET Logs']
  <2>1. ASSUME NEW c \in Consumer PROVE Returned(logs, Asked(c), n) \subseteq Fresh(n, logs)
    BY DEF Returned, Fresh
  <2>2. channel' = [c \in Consumer |->
          IF Listens(c) THEN channel[c] \cup Returned(logs, Asked(c), n) ELSE channel[c]]
    BY DEF MineBlock
  <2>3. channel \in [Consumer -> SUBSET Logs]
    BY <1>2 DEF TypeOK
  <2>. QED
    BY <1>1, <2>1, <2>2, <2>3
<1>6. missed' \subseteq Logs'
  <2>1. missed' = missed \cup {[block |-> n, index |-> i] : i \in
                 {j \in DOMAIN logs : phase.at # "down" /\ ~ Listens(ConsumerOf(logs[j]))}}
    BY DEF MineBlock
  <2>. QED
    BY <1>1, <1>2, <2>1 DEF TypeOK, Fresh
<1>7. handler' \in [Consumer -> {Free} \cup
       [at : {"push", "check", "set", "format", "put"}, log : Logs', value : 0..MaxBlocks]]
  <2>1. handler \in [Consumer -> {Free} \cup
       [at : {"push", "check", "set", "format", "put"}, log : Logs, value : 0..MaxBlocks]]
    BY <1>2 DEF TypeOK
  <2>. QED
    BY <1>1, <1>4, <2>1
<1>8. TypeOK'
  BY <1>1, <1>2, <1>4, <1>5, <1>6, <1>7 DEF TypeOK
<1>9. PhaseInv'
  <2>1. ASSUME phase.at = "down" PROVE phase = Down /\ Quiet' /\ subscribed = {}
    <3>1. phase = Down /\ Quiet /\ subscribed = {}
      BY <2>1 DEF IInv, PhaseInv
    <3>2. \A c \in Consumer : channel'[c] = channel[c]
      BY <3>1 DEF MineBlock, Listens
    <3>. QED
      BY <1>4, <3>1, <3>2 DEF Quiet
  <2>2. Len(chain) <= Len(chain') /\ Len(chain) \in Nat
    BY <1>1, <1>2 DEF TypeOK
  <2>3. phase.at \in Consumer => phase.last \in Nat
    BY <1>2 DEF TypeOK
  <2>. QED
    BY <1>1, <1>4, <2>1, <2>2, <2>3 DEF IInv, PhaseInv
<1>10. HandlerInv'
  <2> SUFFICES ASSUME NEW c \in Consumer
               PROVE  /\ handler[c].at \in {"check", "set", "format", "put"} => Handled(handler[c].log)'
                      /\ handler[c].at = "format" => current > 0
                      /\ handler[c].at = "put" => Reached(handler[c].value)'
    BY <1>4 DEF HandlerInv
  <2>1. handler[c].at \in Busy => handler[c].log \in Logs
    BY <1>2, HandlerFacts DEF Handling
  <2>2. handler'[c].log = handler[c].log /\ handler'[c].value = handler[c].value
    BY <1>4
  <2>3. /\ handler[c].at \in {"check", "set", "format", "put"} => Handled(handler[c].log)
        /\ handler[c].at = "format" => current > 0
        /\ handler[c].at = "put" => Reached(handler[c].value)
    BY DEF IInv, HandlerInv
  <2>4. handler[c].at \in {"check", "set", "format", "put"} => Handled(handler[c].log)'
    BY <1>4, <2>1, <2>3, HistoryGrows, <1>2 DEF Handled, Busy
  <2>5. handler[c].at = "put" => Reached(handler[c].value)'
    BY <1>3, <1>4, <2>2, <2>3
  <2>. QED
    BY <2>3, <2>4, <2>5
<1>. QED
  BY <1>3, <1>4, <1>8, <1>9, <1>10 DEF IInv

(* A handler goes on, or gives its log up.                                 *)
LEMMA HandlerIInv ==
  ASSUME IInv, [Next]_vars, NEW c \in Consumer, NEW h \in {Free} \cup Handling,
         handler' = [handler EXCEPT ![c] = h], phase.at # "down",
         UNCHANGED <<chain, phase, subscribed, missed, drops, crashes>>,
         channel' \in [Consumer -> SUBSET Logs], faults' \in 0..MaxFaults,
         accepted' \cup failed' \subseteq Logs,
         current' \in 0..MaxBlocks, stored' \in 1..MaxBlocks,
         current' = 0 \/ Reached(current)', stored' = 1 \/ Reached(stored)',
         current > 0 => current' > 0,
         h.at \in {"check", "set", "format", "put"} => Handled(h.log)',
         h.at = "format" => current' > 0,
         h.at = "put" => Reached(h.value)'
  PROVE  IInv'
<1>1. TypeOK /\ Logs' = Logs
  BY SameChain DEF IInv
<1>2. /\ handler \in [Consumer -> {Free} \cup Handling]
      /\ handler' \in [Consumer -> {Free} \cup Handling]
  BY <1>1, HandlerFacts
<1>3. TypeOK'
  BY <1>1, <1>2 DEF TypeOK, Handling, Busy
<1>4. PhaseInv'
  BY DEF IInv, PhaseInv
<1>5. HandlerInv'
  <2> SUFFICES ASSUME NEW d \in Consumer
               PROVE  /\ handler'[d].at \in {"check", "set", "format", "put"} =>
                             Handled(handler[d].log)'
                      /\ handler'[d].at = "format" => current' > 0
                      /\ handler'[d].at = "put" => Reached(handler[d].value)'
    BY DEF HandlerInv
  <2>1. CASE d = c
    BY <1>2, <2>1
  <2>2. CASE d # c
    <3>1. handler'[d] = handler[d]
      BY <1>2, <2>2
    <3>2. handler[d].at \in Busy => handler[d].log \in Logs
      BY <1>1, HandlerFacts DEF Handling
    <3>3. /\ handler[d].at \in {"check", "set", "format", "put"} => Handled(handler[d].log)
          /\ handler[d].at = "format" => current > 0
          /\ handler[d].at = "put" => Reached(handler[d].value)
      BY DEF IInv, HandlerInv
    <3>4. handler[d].at \in {"check", "set", "format", "put"} => Handled(handler[d].log)'
      BY <1>1, <3>1, <3>2, <3>3, HistoryGrows DEF Handled, Busy
    <3>5. handler[d].at = "put" => Reached(handler[d].value)'
      BY <1>1, <3>1, <3>3, HandledStays
    <3>. QED
      BY <3>1, <3>3, <3>4, <3>5
  <2>. QED
    BY <2>1, <2>2
<1>. QED
  BY <1>3, <1>4, <1>5 DEF IInv

(* The process runs while a log is in a channel or a handler.              *)
LEMMA RunsWhenBusy ==
  ASSUME IInv, NEW c \in Consumer, channel[c] # {} \/ handler[c].at \in Busy
  PROVE  phase.at # "down"
  BY HandlerFacts DEF IInv, PhaseInv, Quiet

LEMMA AtPlace ==
  ASSUME TypeOK, NEW c \in Consumer, handler[c].at \in Busy, NEW place \in Busy
  PROVE  LET h == [handler[c] EXCEPT !.at = place]
         IN  /\ [handler EXCEPT ![c].at = place] = [handler EXCEPT ![c] = h]
             /\ h \in Handling /\ h.at = place
             /\ h.log = handler[c].log /\ h.value = handler[c].value
  BY HandlerFacts DEF Handling

LEMMA AliveIInv ==
  ASSUME IInv, NEW c \in Consumer,
         HandlerStep(c) \/ FailPush(c) \/ FailPut(c)
  PROVE  IInv'
<1>1. TypeOK /\ [Next]_vars
  BY DEF IInv, Next
<1>2. /\ channel \in [Consumer -> SUBSET Logs] /\ faults \in 0..MaxFaults
      /\ accepted \subseteq Logs /\ failed \subseteq Logs
      /\ current \in 0..MaxBlocks /\ stored \in 1..MaxBlocks
      /\ handler \in [Consumer -> {Free} \cup Handling]
      /\ chain \in Seq(Contents) /\ Len(chain) <= MaxBlocks
  BY <1>1, HandlerFacts DEF TypeOK
<1>3. /\ stored = 1 \/ Reached(stored)' \/ stored' # stored
      /\ current = 0 \/ Reached(current)' \/ current' # current
  <2>1. \A b : Reached(b) => Reached(b)'
    BY <1>1, HandledStays
  <2>2. (stored = 1 \/ Reached(stored)) /\ (current = 0 \/ Reached(current))
    BY DEF IInv
  <2>3. stored' = stored /\ Reached(stored) => Reached(stored)'
    BY <2>1
  <2>4. current' = current /\ Reached(current) => Reached(current)'
    BY <2>1
  <2>. QED
    BY <2>2, <2>3, <2>4
<1>4. handler[c].at \in Busy =>
        /\ handler[c] \in Handling /\ handler[c].log \in Logs
        /\ handler[c].log.block \in 1..Len(chain)
        /\ handler[c].log \in LogsOf(handler[c].log.block)
        /\ handler[c].value \in 0..MaxBlocks
        /\ phase.at # "down"
  BY <1>1, <1>2, HandlerFacts, RunsWhenBusy, LogFacts DEF Handling
<1>5. Free \in {Free} \cup Handling /\ Free.at = "idle"
  BY DEF Free
<1>6. CASE Receive(c)
  <2>1. PICK l \in channel[c] :
          /\ handler' = [handler EXCEPT ![c] = [at |-> "push", log |-> l, value |-> 0]]
          /\ channel' = [channel EXCEPT ![c] = @ \ {l}]
    BY <1>6 DEF Receive
  <2>2. [at |-> "push", log |-> l, value |-> 0] \in Handling
    BY <1>2, PositiveBound DEF Handling, Busy
  <2>3. channel' \in [Consumer -> SUBSET Logs]
    BY <1>2, <2>1
  <2>4. phase.at # "down"
    BY <2>1, RunsWhenBusy
  <2>5. UNCHANGED <<chain, accepted, stored, phase, subscribed, current, missed, failed,
                    faults, drops, crashes>>
    BY <1>6 DEF Receive, history, bounds
  <2>. QED
    BY <1>1, <1>2, <1>3, <2>1, <2>2, <2>3, <2>4, <2>5, HandlerIInv
<1>7. CASE PushEvent(c)
  <2>1. handler[c].at \in Busy
    BY <1>7 DEF PushEvent, Busy
  <2>2. PICK h \in Handling : /\ h.at = "check" /\ h.log = handler[c].log
                              /\ handler' = [handler EXCEPT ![c] = h]
    BY <1>1, <1>7, <2>1, AtPlace DEF PushEvent, At, Busy
  <2>3. UNCHANGED <<chain, stored, phase, channel, subscribed, current, missed, failed,
                    faults, drops, crashes>>
    BY <1>7 DEF PushEvent, history, bounds
  <2>4. accepted' = IF KindOf(h.log) = "fungible" THEN accepted ELSE accepted \cup {h.log}
    BY <1>7, <2>2 DEF PushEvent
  <2>5. Handled(h.log)'
    <3>1. KindOf(h.log)' = KindOf(h.log)
      BY <2>3, SameChain
    <3>. QED
      BY <2>4, <3>1 DEF Handled
  <2>. QED
    BY <1>1, <1>2, <1>3, <1>4, <2>1, <2>2, <2>3, <2>4, <2>5, HandlerIInv
<1>8. CASE FailPush(c)
  <2>1. handler[c].at \in Busy
    BY <1>8 DEF FailPush, Busy
  <2>2. handler' = [handler EXCEPT ![c] = Free]
    BY <1>8 DEF FailPush, Returns
  <2>3. UNCHANGED <<chain, stored, phase, channel, subscribed, current, missed, drops, crashes>>
    BY <1>8 DEF FailPush
  <2>4. /\ accepted' \subseteq accepted \cup {handler[c].log}
        /\ failed' \subseteq failed \cup {handler[c].log}
    BY <1>8 DEF FailPush
  <2>5. faults' \in 0..MaxFaults
    BY <1>2, <1>8, EmitterAssumption DEF FailPush, Fault
  <2>. QED
    BY <1>1, <1>2, <1>3, <1>4, <1>5, <2>1, <2>2, <2>3, <2>4, <2>5, HandlerIInv
<1>9. CASE CheckBlock(c)
  <2>1. handler[c].at = "check" /\ handler[c].at \in Busy
    BY <1>9 DEF CheckBlock, Busy
  <2>2. PICK h \in Handling : /\ h.at = "set" /\ h.log = handler[c].log
                              /\ [handler EXCEPT ![c].at = "set"] = [handler EXCEPT ![c] = h]
    BY <1>1, <2>1, AtPlace DEF Busy
  <2>3. UNCHANGED <<chain, accepted, stored, phase, channel, subscribed, current, missed, failed,
                    faults, drops, crashes>>
    BY <1>9 DEF CheckBlock, history, bounds
  <2>4. handler' \in {[handler EXCEPT ![c] = h], [handler EXCEPT ![c] = Free]}
    BY <1>9, <2>2 DEF CheckBlock, At
  <2>5. Handled(h.log)'
    <3>1. Handled(h.log)
      BY <2>1, <2>2 DEF IInv, HandlerInv
    <3>. QED
      BY <1>1, <3>1, HandledStays DEF Handling
  <2>. QED
    BY <1>1, <1>2, <1>3, <1>4, <1>5, <2>1, <2>2, <2>3, <2>4, <2>5, HandlerIInv
<1>10. CASE SetBlock(c)
  <2>1. handler[c].at = "set" /\ handler[c].at \in Busy
    BY <1>10 DEF SetBlock, Busy
  <2>2. PICK h \in Handling : /\ h.at = "format" /\ h.log = handler[c].log
                              /\ handler' = [handler EXCEPT ![c] = h]
    BY <1>1, <1>10, <2>1, AtPlace DEF SetBlock, At, Busy
  <2>3. UNCHANGED <<chain, accepted, stored, phase, channel, subscribed, missed, failed,
                    faults, drops, crashes>>
    BY <1>10 DEF SetBlock, history, bounds
  <2>4. current' = h.log.block
    BY <1>10, <2>2 DEF SetBlock
  <2>5. Handled(h.log) /\ Handled(h.log)'
    <3>1. Handled(h.log)
      BY <2>1, <2>2 DEF IInv, HandlerInv
    <3>. QED
      BY <1>1, <3>1, HandledStays DEF Handling
  <2>6. h.log.block \in 1..Len(chain) /\ h.log \in LogsOf(h.log.block)
    BY <1>4, <2>1, <2>2
  <2>7. Reached(h.log.block)'
    <3>1. Reached(h.log.block)
      BY <2>5, <2>6 DEF Reached
    <3>. QED
      BY <1>1, <3>1, HandledStays
  <2>8. Reached(current)'
    BY <2>4, <2>7
  <2>9. current' \in 0..MaxBlocks /\ current' > 0
    BY <1>2, <2>4, <2>6, PositiveBound
  <2>. QED
    BY <1>1, <1>2, <1>3, <1>4, <2>1, <2>2, <2>3, <2>5, <2>8, <2>9, HandlerIInv
<1>11. CASE FormatBlock(c)
  <2>1. handler[c].at = "format" /\ handler[c].at \in Busy
    BY <1>11 DEF FormatBlock, Busy
  <2>2. PICK h \in Handling : /\ h.at = "put" /\ h.log = handler[c].log /\ h.value = current
                              /\ handler' = [handler EXCEPT ![c] = h]
    <3>1. [handler[c] EXCEPT !.at = "put", !.value = current] \in Handling
      BY <1>2, <1>4, <2>1 DEF Handling, Busy
    <3>. QED
      BY <1>2, <1>4, <1>11, <2>1, <3>1 DEF FormatBlock, Handling
  <2>3. UNCHANGED <<chain, accepted, stored, phase, channel, subscribed, current, missed, failed,
                    faults, drops, crashes>>
    BY <1>11 DEF FormatBlock, history, bounds
  <2>4. current > 0 /\ Handled(h.log)
    BY <2>1, <2>2 DEF IInv, HandlerInv
  <2>5. Handled(h.log)'
    BY <1>1, <2>4, HandledStays DEF Handling
  <2>6. Reached(h.value)'
    BY <1>1, <2>2, <2>4, HandledStays DEF IInv
  <2>. QED
    BY <1>1, <1>2, <1>3, <1>4, <2>1, <2>2, <2>3, <2>5, <2>6, HandlerIInv
<1>12. CASE PutBlock(c)
  <2>1. handler[c].at = "put" /\ handler[c].at \in Busy
    BY <1>12 DEF PutBlock, Busy
  <2>2. handler' = [handler EXCEPT ![c] = Free] /\ stored' = handler[c].value
    BY <1>12 DEF PutBlock
  <2>3. UNCHANGED <<chain, accepted, phase, channel, subscribed, current, missed, failed,
                    faults, drops, crashes>>
    BY <1>12 DEF PutBlock, history, bounds
  <2>4. Reached(handler[c].value)
    BY <2>1 DEF IInv, HandlerInv
  <2>5. PICK v : v = handler[c].value
    OBVIOUS
  <2>6. Reached(v)' /\ stored' = v
    BY <1>1, <2>2, <2>4, <2>5, HandledStays
  <2>7. Reached(stored)'
    BY <2>6
  <2>8. v \in 1..Len(chain)
    BY <2>4, <2>5 DEF Reached
  <2>9. stored' \in 1..MaxBlocks
    BY <1>2, <2>6, <2>8, PositiveBound
  <2>. QED
    BY <1>1, <1>2, <1>3, <1>4, <1>5, <2>1, <2>2, <2>3, <2>7, <2>9, HandlerIInv
<1>13. CASE FailPut(c)
  <2>1. handler[c].at \in Busy /\ handler' = [handler EXCEPT ![c] = Free]
    BY <1>13 DEF FailPut, Busy
  <2>2. UNCHANGED <<chain, accepted, stored, phase, channel, subscribed, current, missed, failed,
                    drops, crashes>>
    BY <1>13 DEF FailPut, history
  <2>3. faults' \in 0..MaxFaults
    BY <1>2, <1>13, EmitterAssumption DEF FailPut, Fault
  <2>. QED
    BY <1>1, <1>2, <1>3, <1>4, <1>5, <2>1, <2>2, <2>3, HandlerIInv
<1>. QED
  BY <1>6, <1>7, <1>8, <1>9, <1>10, <1>11, <1>12, <1>13 DEF HandlerStep

(* What the handlers hold stays right while they and the store are left    *)
(* alone.                                                                  *)
LEMMA HandlersRest ==
  ASSUME IInv, [Next]_vars, UNCHANGED <<chain, accepted, stored, handler, current>>
  PROVE  /\ HandlerInv'
         /\ stored' = 1 \/ Reached(stored)'
         /\ current' = 0 \/ Reached(current)'
<1>1. \A b : Reached(b) => Reached(b)'
  BY HandledStays DEF IInv
<1>2. \A l : KindOf(l)' = KindOf(l)
  BY SameChain
<1>3. HandlerInv'
  <2> SUFFICES ASSUME NEW c \in Consumer
               PROVE  /\ handler[c].at \in {"check", "set", "format", "put"} =>
                             Handled(handler[c].log)'
                      /\ handler[c].at = "format" => current > 0
                      /\ handler[c].at = "put" => Reached(handler[c].value)'
    BY DEF HandlerInv
  <2>1. /\ handler[c].at \in {"check", "set", "format", "put"} => Handled(handler[c].log)
        /\ handler[c].at = "format" => current > 0
        /\ handler[c].at = "put" => Reached(handler[c].value)
    BY DEF IInv, HandlerInv
  <2>2. Handled(handler[c].log) => Handled(handler[c].log)'
    BY <1>2 DEF Handled
  <2>3. Reached(handler[c].value) => Reached(handler[c].value)'
    BY <1>1
  <2>. QED
    BY <2>1, <2>2, <2>3
<1>. QED
  BY <1>1, <1>3 DEF IInv

(* Starts, the backfill and subscriptions.                                 *)
LEMMA RunIInv ==
  ASSUME IInv, BackfillStep \/ SkipBackfill
  PROVE  IInv'
<1>1. TypeOK /\ [Next]_vars
  BY DEF IInv, Next
<1>2. UNCHANGED <<chain, accepted, stored, handler, subscribed, current, failed, drops, crashes>>
  BY DEF BackfillStep, Start, FetchLogs, EndBackfill, SkipBackfill, history, bounds
<1>3. Logs' = Logs
  BY <1>2, SameChain
<1>4. /\ channel \in [Consumer -> SUBSET Logs] /\ faults \in 0..MaxFaults
      /\ missed \subseteq Logs /\ stored \in 1..MaxBlocks
      /\ chain \in Seq(Contents) /\ Len(chain) <= MaxBlocks /\ Len(chain) \in Nat
      /\ phase \in [at : {"down", "watch"} \cup Consumer, block : 0..(MaxBlocks + 1),
                     last : 0..MaxBlocks]
  BY <1>1 DEF TypeOK
<1>5. HandlerInv' /\ (stored' = 1 \/ Reached(stored)') /\ (current' = 0 \/ Reached(current)')
  BY <1>1, <1>2, HandlersRest
<1>6. SUFFICES /\ channel' \in [Consumer -> SUBSET Logs] /\ faults' \in 0..MaxFaults
               /\ missed' \subseteq Logs
               /\ phase' \in [at : {"down", "watch"} \cup Consumer, block : 0..(MaxBlocks + 1),
                               last : 0..MaxBlocks]
               /\ phase'.at # "down" /\ PhaseInv'
  BY <1>1, <1>2, <1>3, <1>5 DEF IInv, TypeOK
<1>7. CASE Start
  <2>1. /\ phase = Down /\ phase' = [at |-> "nft", block |-> stored, last |-> Len(chain)]
        /\ UNCHANGED <<channel, missed, faults>>
    BY <1>7 DEF Start, FromBlock, history, bounds
  <2>2. subscribed = {}
    BY <2>1 DEF IInv, PhaseInv, Down
  <2>. QED
    BY <1>2, <1>4, <2>1, <2>2, PositiveBound DEF PhaseInv, Consumer
<1>8. CASE FetchLogs
  <2> DEFINE b == phase.block
             c == phase.at
  <2>1. c \in Consumer /\ b <= phase.last /\ UNCHANGED <<missed, faults>>
    BY <1>8 DEF FetchLogs, history, bounds
  <2>2. b >= 1 /\ phase.last <= Len(chain) /\ subscribed = {}
    BY <2>1 DEF IInv, PhaseInv
  <2>3. b \in 1..Len(chain) /\ phase.last \in 0..MaxBlocks
    <3>1. b \in Nat /\ phase.last \in 0..MaxBlocks
      BY <1>4, PositiveBound
    <3>. QED
      BY <1>4, <2>1, <2>2, <3>1, PositiveBound
  <2>4. Returned(chain[b], Asked(c) \cap Filtered, b) \subseteq Logs
    <3>1. Returned(chain[b], Asked(c) \cap Filtered, b) \subseteq LogsOf(b)
      BY <2>3 DEF Returned, LogsOf
    <3>2. LogsOf(b) \subseteq Logs
      <4>1. b \in DOMAIN chain
        BY <1>4, <2>3
      <4>. QED
        BY <4>1 DEF Logs
    <3>. QED
      BY <3>1, <3>2
  <2>5. channel' \in [Consumer -> SUBSET Logs]
    BY <1>4, <1>8, <2>4 DEF FetchLogs
  <2>6. \/ phase' = [phase EXCEPT !.at = "registry"]
        \/ phase' = [phase EXCEPT !.at = "nft", !.block = b + 1]
    BY <1>8 DEF FetchLogs
  <2>7. /\ phase' \in [at : Consumer, block : 0..(MaxBlocks + 1), last : 0..MaxBlocks]
        /\ phase'.block >= 1 /\ phase'.last = phase.last
    <3>1. b + 1 \in 0..(MaxBlocks + 1) /\ b + 1 >= 1 /\ b \in 0..(MaxBlocks + 1) /\ b >= 1
      BY <1>4, <2>3, PositiveBound
    <3>2. phase = [at |-> c, block |-> b, last |-> phase.last]
      BY <1>4
    <3>3. \/ phase' = [at |-> "registry", block |-> b, last |-> phase.last]
          \/ phase' = [at |-> "nft", block |-> b + 1, last |-> phase.last]
      BY <2>6, <3>2
    <3>. QED
      BY <2>3, <3>1, <3>3 DEF Consumer
  <2>. QED
    BY <1>2, <1>4, <2>1, <2>2, <2>5, <2>7 DEF PhaseInv, Consumer
<1>9. CASE EndBackfill
  <2>1. phase' = Watching /\ UNCHANGED <<channel, missed, faults>>
    BY <1>9 DEF EndBackfill, history, bounds
  <2>. QED
    BY <1>4, <2>1, PositiveBound DEF PhaseInv, Watching, Consumer
<1>10. CASE SkipBackfill
  <2>1. /\ phase' = Watching /\ UNCHANGED channel
        /\ faults < MaxFaults /\ faults' = faults + 1 /\ missed' \subseteq missed \cup Logs
    BY <1>10 DEF SkipBackfill, Fault
  <2>2. faults' \in 0..MaxFaults
    BY <1>4, <2>1, EmitterAssumption
  <2>. QED
    BY <1>4, <2>1, <2>2, PositiveBound DEF PhaseInv, Watching, Consumer
<1>. QED
  BY <1>7, <1>8, <1>9, <1>10 DEF BackfillStep

LEMMA SubscribeIInv ==
  ASSUME IInv, NEW c \in Consumer, Subscribe(c) \/ DropSubscription(c)
  PROVE  IInv'
<1>1. TypeOK /\ [Next]_vars
  BY DEF IInv, Next
<1>2. UNCHANGED <<chain, accepted, stored, phase, channel, handler, current, missed, failed,
                  faults, crashes>>
  BY DEF Subscribe, DropSubscription, history, bounds
<1>3. HandlerInv' /\ (stored' = 1 \/ Reached(stored)') /\ (current' = 0 \/ Reached(current)')
  BY <1>1, <1>2, HandlersRest
<1>4. TypeOK'
  <2>1. subscribed' \subseteq Consumer /\ drops' \in 0..MaxDrops
    BY <1>1, EmitterAssumption DEF TypeOK, Subscribe, DropSubscription, bounds
  <2>. QED
    BY <1>1, <1>2, <2>1, SameChain DEF TypeOK
<1>5. PhaseInv'
  <2>1. phase = Watching
    <3>1. CASE Subscribe(c)
      BY <3>1 DEF Subscribe
    <3>2. CASE DropSubscription(c)
      <4>1. phase.at \notin {"down"} \cup Consumer
        BY <3>2 DEF DropSubscription, IInv, PhaseInv
      <4>. QED
        BY <1>1, <4>1 DEF TypeOK, IInv, PhaseInv
    <3>. QED
      BY <3>1, <3>2
  <2>. QED
    BY <1>2, <2>1 DEF PhaseInv, Watching, Consumer
<1>. QED
  BY <1>3, <1>4, <1>5 DEF IInv

LEMMA CrashIInv ==
  ASSUME IInv, Crash
  PROVE  IInv'
<1>1. TypeOK /\ [Next]_vars
  BY DEF IInv, Next
<1>2. /\ UNCHANGED <<chain, accepted, stored, missed, failed, faults, drops>>
      /\ phase' = Down /\ current' = 0 /\ subscribed' = {}
      /\ channel' = [c \in Consumer |-> {}] /\ handler' = [c \in Consumer |-> Free]
  BY DEF Crash, history
<1>3. crashes' \in 0..MaxCrashes
  BY <1>1, EmitterAssumption DEF TypeOK, Crash
<1>4. Down \in [at : {"down", "watch"} \cup Consumer, block : 0..(MaxBlocks + 1), last : 0..MaxBlocks]
  BY PositiveBound DEF Down
<1>5. TypeOK'
  BY <1>1, <1>2, <1>3, <1>4, SameChain, PositiveBound DEF TypeOK
<1>6. PhaseInv'
  BY <1>2 DEF PhaseInv, Down, Quiet, Consumer
<1>7. HandlerInv'
  BY <1>2 DEF HandlerInv, Free
<1>8. stored' = 1 \/ Reached(stored)'
  BY <1>1, <1>2, HandledStays DEF IInv
<1>. QED
  BY <1>2, <1>5, <1>6, <1>7, <1>8 DEF IInv

LEMMA StepIInv == IInv /\ [Next]_vars => IInv'
<1> SUFFICES ASSUME IInv, [Next]_vars PROVE IInv'
  OBVIOUS
<1>1. CASE UNCHANGED vars
  <2>1. UNCHANGED <<chain, accepted, stored, phase, channel, handler, subscribed, current,
                    missed, failed, faults, drops, crashes>>
    BY <1>1 DEF vars
  <2>2. TypeOK'
    BY <2>1, SameChain DEF IInv, TypeOK
  <2>3. PhaseInv'
    BY <2>1 DEF IInv, PhaseInv, Quiet
  <2>. QED
    BY <2>1, <2>2, <2>3, HandlersRest DEF IInv
<1>. QED
  BY <1>1, MineIInv, AliveIInv, RunIInv, SubscribeIInv, CrashIInv DEF Next

(* Logs, handlers and the store keep their types, whatever the logs are.   *)
THEOREM Invariance == Spec => []IInv
BY InitIInv, StepIInv, PTL DEF Spec

(* The block in the store is one of which a log was handled, although the  *)
(* goroutines set and read currentLastStoppedBlock without a lock.         *)
THEOREM StoredBlockWasHandled == Spec => []StoredWasHandled
<1>1. IInv => StoredWasHandled
  BY DEF IInv, StoredWasHandled, Reached, Handled
<1>. QED
  BY <1>1, Invariance, PTL

-------------------------------------------------------------------------------
(* Every log of such a chain is for consumer c, and a start fetches it.    *)
LEMMA OneConsumer ==
  ASSUME NEW c \in Consumer, OnlyFor(c), chain \in Seq(Contents)
  PROVE  /\ \A l \in Logs : KindOf(l) \in Asked(c) \cap Filtered
         /\ \A logs \in Contents : \A i \in DOMAIN logs : logs[i] \in Asked(c) \cap Filtered
         /\ \A d \in Consumer \ {c} : Asked(c) \cap Asked(d) = {}
<1>1. ASSUME NEW logs \in Contents, NEW i \in DOMAIN logs
      PROVE  logs[i] \in Asked(c) \cap Filtered
  <2>1. logs \in Seq(Asked(c) \cap Filtered)
    BY DEF OnlyFor
  <2>. QED
    BY <2>1, ElementOfSeq
<1>2. ASSUME NEW l \in Logs PROVE KindOf(l) \in Asked(c) \cap Filtered
  <2>1. l.block \in 1..Len(chain) /\ l.index \in DOMAIN chain[l.block]
    BY LogFacts
  <2>2. chain[l.block] \in Contents
    BY <2>1, ElementOfSeq
  <2>. QED
    BY <1>1, <2>1, <2>2 DEF KindOf
<1>3. \A d \in Consumer \ {c} : Asked(c) \cap Asked(d) = {}
  BY DEF Asked
<1>. QED
  BY <1>1, <1>2, <1>3

(* A log that is new lies in a block that is new.                          *)
LEMMA NewLogs ==
  ASSUME TypeOK, [Next]_vars
  PROVE  \A l \in Logs' : l \in Logs \/ l.block = Len(chain) + 1
<1>1. ASSUME NEW logs \in Contents, MineBlock(logs)
      PROVE  \A l \in Logs' : l \in Logs \/ l.block = Len(chain) + 1
  <2>1. Logs' = Logs \cup Fresh(Len(chain) + 1, logs)
    BY <1>1, ChainGrows
  <2>. QED
    BY <2>1 DEF Fresh
<1>2. CASE UNCHANGED chain
  BY <1>2, SameChain
<1>3. UNCHANGED vars => UNCHANGED chain
  BY DEF vars
<1>. QED
  BY <1>1, <1>2, <1>3, OnlyMining

(* What is settled below a block that was reached stays settled.           *)
LEMMA SettledStays ==
  ASSUME TypeOK, [Next]_vars, NEW b \in 0..(Len(chain) + 1), SettledBelow(b)
  PROVE  SettledBelow(b)'
<1>1. chain \in Seq(Contents)
  BY DEF TypeOK
<1>2. ASSUME NEW l \in Logs', l.block < b PROVE Settled(l)'
  <2>1. l \in Logs
    BY <1>1, <1>2, NewLogs
  <2>. QED
    BY <1>2, <2>1, HandledStays DEF SettledBelow
<1>. QED
  BY <1>2 DEF SettledBelow

(* and what is accepted lies behind what is settled.                       *)
LEMMA OrderStays ==
  ASSUME TypeOK, [Next]_vars, AcceptedInOrder, UNCHANGED accepted
  PROVE  AcceptedInOrder'
<1>1. chain \in Seq(Contents) /\ accepted \subseteq Logs
  BY DEF TypeOK
<1>2. ASSUME NEW l \in accepted, NEW m \in Logs', KindOf(m)' # "fungible", Before(m, l)
      PROVE  m \in accepted' \cup missed' \cup failed'
  <2>1. l \in Logs /\ l.block \in 1..Len(chain)
    BY <1>1, LogFacts
  <2>2. m.block = Len(chain) + 1 => ~ Before(m, l)
    BY <1>1, <2>1 DEF Before
  <2>3. m \in Logs
    BY <1>2, <2>2, NewLogs
  <2>4. KindOf(m) # "fungible"
    BY <1>2, <2>3, HistoryGrows
  <2>. QED
    BY <1>2, <2>3, <2>4, HistoryGrows DEF AcceptedInOrder, ToPush
<1>3. ASSUME NEW l \in accepted', NEW m \in ToPush', Before(m, l)
      PROVE  m \in accepted' \cup missed' \cup failed'
  BY <1>2, <1>3 DEF ToPush
<1>. QED
  BY <1>3 DEF AcceptedInOrder, Before

(* The handler has the first of all logs that are not settled.             *)
LEMMA FirstInHand ==
  ASSUME IInv, NEW c \in Consumer, OrderInv(c), handler[c].at \in Busy,
         NEW m \in Logs, Before(m, handler[c].log)
  PROVE  Settled(m)
<1>1. chain \in Seq(Contents) /\ handler[c].log \in Logs
  BY HandlerFacts DEF IInv, TypeOK, Handling
<1>2. \A k \in Logs : Before(handler[c].log, k) \/ k = handler[c].log => k # m
  BY <1>1, BeforeIsTotal
<1>3. m \notin channel[c] /\ m # handler[c].log
  BY <1>1, <1>2, BeforeIsTotal DEF OrderInv, InTurn
<1>4. ~ Ahead(c, m)
  BY <1>1, BeforeIsTotal DEF OrderInv, InTurn, Given
<1>5. phase.at # "down"
  BY RunsWhenBusy
<1>. QED
  BY <1>3, <1>4, <1>5 DEF OrderInv, Pending, InHand

LEMMA HandlerSettles ==
  ASSUME IInv, NEW c \in Consumer, OrderInv(c), handler[c].at \in Busy
  PROVE  SettledBelow(handler[c].log.block)
<1>1. chain \in Seq(Contents) /\ handler[c].log \in Logs
  BY HandlerFacts DEF IInv, TypeOK, Handling
<1>. QED
  BY <1>1, FirstInHand DEF SettledBelow, Before

(* Only consumer c has something to handle.                                *)
LEMMA OnlyHandler ==
  ASSUME IInv, NEW c \in Consumer, OrderInv(c), NEW d \in Consumer,
         HandlerStep(d) \/ FailPush(d) \/ FailPut(d)
  PROVE  d = c
  BY DEF OrderInv, Alone, HandlerStep, Receive, PushEvent, CheckBlock, SetBlock, FormatBlock,
     PutBlock, FailPush, FailPut, Free

(* What the store and the handlers stand for while they are left alone.    *)
LEMMA OrderRests ==
  ASSUME IInv, NEW c \in Consumer, OrderInv(c), [Next]_vars,
         UNCHANGED <<accepted, stored, handler, current>>
  PROVE  /\ Carried(c)' /\ SettledBelow(stored)' /\ SettledBelow(current)'
         /\ AcceptedInOrder'
<1>1. TypeOK /\ Len(chain) \in Nat
  BY DEF IInv, TypeOK
<1>2. stored \in 0..(Len(chain) + 1) /\ current \in 0..(Len(chain) + 1)
  BY <1>1 DEF IInv, Reached
<1>3. PICK s, t : s = stored /\ t = current
  OBVIOUS
<1>4. SettledBelow(s)' /\ SettledBelow(t)'
  BY <1>1, <1>2, <1>3, SettledStays DEF OrderInv
<1>5. PICK v : v = handler[c].value
  OBVIOUS
<1>6. handler[c].at = "put" => SettledBelow(v)'
  <2> SUFFICES ASSUME handler[c].at = "put" PROVE SettledBelow(v)'
    OBVIOUS
  <2>1. Reached(v) /\ SettledBelow(v)
    BY <1>5 DEF IInv, HandlerInv, OrderInv, Carried
  <2>. QED
    BY <1>1, <2>1, SettledStays DEF Reached
<1>7. Carried(c)'
  BY <1>5, <1>6 DEF Carried
<1>8. SettledBelow(stored)' /\ SettledBelow(current)'
  BY <1>3, <1>4
<1>. QED
  BY <1>1, <1>7, <1>8, OrderStays DEF OrderInv

-------------------------------------------------------------------------------
LEMMA InitOrder ==
  ASSUME Init, NEW c \in Consumer
  PROVE  OrderInv(c)
<1>1. Logs = {}
  BY DEF Init, Logs
<1>2. \A d \in Consumer : channel[d] = {} /\ handler[d] = Free /\ handler[d].at = "idle"
  BY DEF Init, Free
<1>. QED
  BY <1>1, <1>2 DEF Init, OrderInv, Pending, InTurn, Alone, Carried, SettledBelow,
     AcceptedInOrder, Given, InHand, Busy

(* A new log is for this life's subscription, or for the next life, or it  *)
(* is missed.                                                              *)
LEMMA MineOrder ==
  ASSUME IInv, NEW c \in Consumer, OnlyFor(c), OrderInv(c),
         NEW logs \in Contents, MineBlock(logs)
  PROVE  OrderInv(c)'
<1>1. PICK n : n = Len(chain) + 1
  OBVIOUS
<1>2. TypeOK /\ [Next]_vars /\ chain \in Seq(Contents) /\ Len(chain) \in Nat
  BY DEF IInv, TypeOK, Next
<1>3. /\ Logs' = Logs \cup Fresh(n, logs) /\ Logs \subseteq Logs'
      /\ \A l \in Logs : l.block \in 1..Len(chain)
      /\ \A l \in Fresh(n, logs) : l.block = n
  BY <1>1, <1>2, ChainGrows, LogFacts DEF Fresh
<1>4. UNCHANGED <<accepted, stored, phase, handler, subscribed, current, failed>>
  BY DEF MineBlock, bounds
<1>5. ASSUME NEW d \in Consumer
      PROVE  channel'[d] = IF d \in subscribed
                           THEN channel[d] \cup Returned(logs, Asked(d), n) ELSE channel[d]
  BY <1>1 DEF MineBlock, Listens
<1>6. Returned(logs, Asked(c), n) = Fresh(n, logs)
      /\ \A d \in Consumer \ {c} : Returned(logs, Asked(d), n) = {}
  BY <1>2, OneConsumer DEF Returned, Fresh
<1>7. handler[c].at \in Busy => handler[c].log \in Logs
  BY <1>2, HandlerFacts DEF Handling
<1>8. channel[c] \subseteq Logs
  BY <1>2 DEF TypeOK
<1>9. Pending(c)'
  <2>1. InHand(c)' = channel'[c] \cup (IF handler[c].at = "push" THEN {handler[c].log} ELSE {})
    BY <1>4 DEF InHand
  <2>2. InHand(c) \subseteq InHand(c)'
    BY <1>5, <2>1 DEF InHand
  <2>3. ASSUME NEW l \in Logs
        PROVE  Settled(l)' \/ l \in InHand(c)' \/ Ahead(c, l)
               \/ (phase.at = "down" /\ l.block >= stored)
    BY <1>2, <2>2, HandledStays DEF OrderInv, Pending
  <2>4. ASSUME NEW l \in Fresh(n, logs)
        PROVE  Settled(l)' \/ l \in InHand(c)' \/ (phase.at = "down" /\ l.block >= stored)
    <3>1. CASE phase.at = "down"
      <4>1. stored \in 1..n
        BY <1>1, <1>2, <3>1 DEF IInv, Reached, TypeOK
      <4>. QED
        BY <1>1, <1>2, <1>3, <3>1, <4>1
    <3>2. CASE c \in subscribed
      BY <1>5, <1>6, <2>1, <3>2
    <3>3. CASE phase.at # "down" /\ c \notin subscribed
      <4>1. missed' = missed \cup {[block |-> n, index |-> i] : i \in
                 {j \in DOMAIN logs : phase.at # "down" /\ ~ Listens(ConsumerOf(logs[j]))}}
        BY <1>1 DEF MineBlock
      <4>2. \A j \in DOMAIN logs : ConsumerOf(logs[j]) = c
        BY <1>2, OneConsumer DEF Asked
      <4>3. l \in missed'
        BY <3>3, <4>1, <4>2 DEF Fresh, Listens
      <4>. QED
        BY <4>3 DEF Settled
    <3>. QED
      BY <3>1, <3>2, <3>3
  <2>. QED
    BY <1>3, <1>4, <2>3, <2>4 DEF Pending, Ahead
<1>10. InTurn(c)'
  <2>1. \A m \in channel'[c] : m \in channel[c] \/ (m \in Fresh(n, logs) /\ c \in subscribed)
    BY <1>5, <1>6
  <2>2. ASSUME handler[c].at \in Busy, NEW m \in channel'[c]
        PROVE  Before(handler[c].log, m)
    <3>1. CASE m \in channel[c]
      BY <2>2, <3>1 DEF OrderInv, InTurn
    <3>2. CASE m \in Fresh(n, logs)
      BY <1>1, <1>2, <1>3, <1>7, <2>2, <3>2 DEF Before
    <3>. QED
      BY <2>1, <3>1, <3>2
  <2>3. ASSUME NEW m \in Given(c)', NEW l \in Logs', Ahead(c, l)
        PROVE  Before(m, l)
    <3>1. phase.at \in Consumer /\ subscribed = {} /\ phase.last <= Len(chain) /\ phase.last \in Nat
      <4>1. phase.at \in Consumer
        BY <2>3 DEF Ahead
      <4>. QED
        BY <1>2, <4>1, PositiveBound DEF IInv, PhaseInv, TypeOK
    <3>2. l \in Logs
      BY <1>1, <1>2, <1>3, <2>3, <3>1 DEF Ahead
    <3>3. m \in Given(c)
      BY <1>4, <2>1, <3>1, <2>3 DEF Given
    <3>. QED
      BY <2>3, <3>2, <3>3 DEF OrderInv, InTurn
  <2>4. \A l : Ahead(c, l)' <=> Ahead(c, l)
    BY <1>4 DEF Ahead
  <2>. QED
    BY <1>4, <2>2, <2>3, <2>4 DEF InTurn, Before
<1>11. Alone(c)'
  BY <1>4, <1>5, <1>6 DEF OrderInv, Alone
<1>. QED
  BY <1>2, <1>4, <1>9, <1>10, <1>11, OrderRests DEF OrderInv

(* A start begins where the store says; the backfill gives the logs of one *)
(* block at a time; a backfill that is skipped leaves them missed.         *)
LEMMA RunOrder ==
  ASSUME IInv, NEW c \in Consumer, OnlyFor(c), OrderInv(c), BackfillStep \/ SkipBackfill
  PROVE  OrderInv(c)'
<1>1. TypeOK /\ [Next]_vars /\ chain \in Seq(Contents) /\ Len(chain) \in Nat
  BY DEF IInv, TypeOK, Next
<1>2. UNCHANGED <<chain, accepted, stored, handler, subscribed, current, failed>>
  BY DEF BackfillStep, Start, FetchLogs, EndBackfill, SkipBackfill, history
<1>3. Logs' = Logs /\ \A l \in Logs : l.block \in 1..Len(chain)
  BY <1>1, <1>2, SameChain, LogFacts
<1>4. Quiet
  BY DEF IInv, PhaseInv, BackfillStep, Start, Down, FetchLogs, EndBackfill, SkipBackfill
<1>5. \A d \in Consumer : channel[d] = {} /\ handler[d] = Free /\ handler[d].at = "idle"
  BY <1>4 DEF Quiet, Free
<1>6. \A l \in Logs : Settled(l) => Settled(l)'
  BY <1>1, HandledStays
<1>7. InHand(c) = {} /\ InHand(c)' = channel'[c] /\ Given(c)' = channel'[c]
  BY <1>2, <1>5 DEF InHand, Given, Busy
<1>8. SUFFICES /\ \A l \in Logs : Settled(l)' \/ l \in channel'[c] \/ Ahead(c, l)'
               /\ \A m \in channel'[c], l \in Logs : Ahead(c, l)' => Before(m, l)
               /\ \A d \in Consumer \ {c} : channel'[d] = {}
  <2>1. Pending(c)'
    BY <1>3, <1>7, <1>8 DEF Pending
  <2>2. InTurn(c)'
    BY <1>2, <1>3, <1>5, <1>7, <1>8 DEF InTurn, Busy, Before
  <2>3. Alone(c)'
    BY <1>2, <1>5, <1>8 DEF Alone
  <2>. QED
    BY <1>1, <1>2, <2>1, <2>2, <2>3, OrderRests DEF OrderInv
<1>9. ASSUME NEW l \in Logs
      PROVE  Settled(l)' \/ Ahead(c, l) \/ (phase.at = "down" /\ l.block >= stored)
  BY <1>6, <1>7 DEF OrderInv, Pending
<1>10. CASE Start
  <2>1. /\ phase = Down /\ phase' = [at |-> "nft", block |-> stored, last |-> Len(chain)]
        /\ UNCHANGED channel
    BY <1>10 DEF Start, FromBlock
  <2>2. \A l \in Logs : l.block >= stored => Ahead(c, l)'
    BY <1>3, <2>1 DEF Ahead, Consumer
  <2>3. \A l : ~ Ahead(c, l)
    BY <2>1 DEF Ahead, Down, Consumer
  <2>. QED
    BY <1>5, <1>9, <2>1, <2>2, <2>3
<1>11. CASE FetchLogs
  <2>1. PICK b, d, e : b = phase.block /\ d = phase.at /\ e = phase.last
    OBVIOUS
  <2>2. /\ d \in Consumer /\ b \in Nat /\ e \in Nat /\ b >= 1 /\ b <= e /\ e <= Len(chain)
        /\ b \in 1..Len(chain)
    <3>1. d \in Consumer /\ b <= e
      BY <1>11, <2>1 DEF FetchLogs
    <3>2. b \in 0..(MaxBlocks + 1) /\ e \in 0..MaxBlocks
      BY <1>1, <2>1 DEF TypeOK
    <3>3. b >= 1 /\ e <= Len(chain)
      BY <2>1, <3>1 DEF IInv, PhaseInv
    <3>. QED
      BY <1>1, <3>1, <3>2, <3>3, PositiveBound
  <2>3. channel' = [channel EXCEPT ![d] = Returned(chain[b], Asked(d) \cap Filtered, b)]
    BY <1>11, <2>1 DEF FetchLogs
  <2>4. Returned(chain[b], Asked(d) \cap Filtered, b) = IF d = c THEN LogsOf(b) ELSE {}
    <3>1. Returned(chain[b], Asked(d) \cap Filtered, b)
            = {l \in LogsOf(b) : KindOf(l) \in Asked(d) \cap Filtered}
      BY <1>1, <2>2, ReturnedFacts
    <3>2. LogsOf(b) \subseteq Logs
      BY <1>1, <2>2, LogsAre DEF LogsOf
    <3>3. \A l \in LogsOf(b) : KindOf(l) \in Asked(c) \cap Filtered
      BY <1>1, <3>2, OneConsumer
    <3>4. d # c => Asked(c) \cap Asked(d) = {}
      BY <2>2 DEF Asked
    <3>. QED
      BY <3>1, <3>3, <3>4
  <2>5. /\ channel'[c] = IF d = c THEN LogsOf(b) ELSE {}
        /\ \A k \in Consumer \ {c} : channel'[k] = {}
    BY <1>1, <1>5, <2>2, <2>3, <2>4 DEF TypeOK
  <2>6. \A m \in LogsOf(b) : m.block = b
    BY DEF LogsOf
  <2>7. phase'.last = e /\ \/ d = "nft" /\ phase'.at = "registry" /\ phase'.block = b
                           \/ d = "registry" /\ phase'.at = "nft" /\ phase'.block = b + 1
    <3>1. phase = [at |-> d, block |-> b, last |-> e]
      BY <1>1, <2>1 DEF TypeOK
    <3>2. phase' = IF d = "nft" THEN [phase EXCEPT !.at = "registry"]
                   ELSE [phase EXCEPT !.at = "nft", !.block = b + 1]
      BY <1>11, <2>1 DEF FetchLogs
    <3>. QED
      BY <2>2, <3>1, <3>2 DEF Consumer
  <2>8. ASSUME NEW l \in Logs, Ahead(c, l)
        PROVE  (d = c /\ l.block = b) \/ Ahead(c, l)'
    <3>1. l.block \in Nat /\ l.block >= b /\ l.block <= e /\ (l.block = b => d \in {"nft", c})
      BY <1>3, <2>1, <2>8 DEF Ahead
    <3>. QED
      BY <2>2, <2>7, <3>1 DEF Ahead, Consumer
  <2>9. ASSUME d = c, NEW l \in Logs, Ahead(c, l)'
        PROVE  l.block > b
    <3>1. l.block \in Nat
      BY <1>3
    <3>. QED
      BY <2>2, <2>7, <2>9, <3>1 DEF Ahead, Consumer
  <2>10. \A l \in Logs : l.block = b => l \in LogsOf(b)
    BY <1>1, LogFacts
  <2>11. phase.at # "down"
    BY <2>1, <2>2 DEF Consumer
  <2>12. \A l \in Logs : Settled(l)' \/ l \in channel'[c] \/ Ahead(c, l)'
    BY <1>9, <2>5, <2>8, <2>10, <2>11
  <2>13. \A m \in channel'[c], l \in Logs : Ahead(c, l)' => Before(m, l)
    BY <2>2, <2>5, <2>6, <2>9 DEF Before
  <2>. QED
    BY <2>5, <2>12, <2>13
<1>12. CASE EndBackfill
  <2>1. /\ phase.at = "nft" /\ phase.block > phase.last /\ phase' = Watching
        /\ UNCHANGED channel
    BY <1>12 DEF EndBackfill
  <2>2. phase.block \in Nat /\ phase.last \in Nat
    BY <1>1, PositiveBound DEF TypeOK
  <2>3. \A l \in Logs : ~ Ahead(c, l)
    BY <1>3, <2>1, <2>2 DEF Ahead
  <2>. QED
    BY <1>5, <1>9, <2>1, <2>3
<1>13. CASE SkipBackfill
  <2>1. /\ phase' = Watching /\ UNCHANGED channel
        /\ missed' = missed \cup ({l \in Logs :
              l.block >= (IF phase.at = "down" THEN stored ELSE phase.block)} \ accepted)
    BY <1>13 DEF SkipBackfill
  <2>2. ASSUME NEW l \in Logs, Ahead(c, l) \/ (phase.at = "down" /\ l.block >= stored)
        PROVE  Settled(l)'
    <3>1. l.block >= (IF phase.at = "down" THEN stored ELSE phase.block)
      BY <2>2 DEF Ahead, Consumer
    <3>2. l \in accepted' \/ l \in missed'
      BY <1>2, <2>1, <3>1
    <3>. QED
      BY <3>2 DEF Settled, Handled
  <2>. QED
    BY <1>5, <1>9, <2>1, <2>2
<1>. QED
  BY <1>10, <1>11, <1>12, <1>13 DEF BackfillStep

LEMMA SubscribeOrder ==
  ASSUME IInv, NEW c \in Consumer, OrderInv(c),
         NEW d \in Consumer, Subscribe(d) \/ DropSubscription(d)
  PROVE  OrderInv(c)'
<1>1. TypeOK /\ [Next]_vars
  BY DEF IInv, Next
<1>2. UNCHANGED <<chain, accepted, stored, phase, channel, handler, current>>
  BY DEF Subscribe, DropSubscription
<1>3. Logs' = Logs /\ \A l \in Logs : Settled(l) => Settled(l)'
  BY <1>1, <1>2, SameChain, HandledStays
<1>4. Pending(c)'
  BY <1>2, <1>3 DEF OrderInv, Pending, InHand, Ahead
<1>5. InTurn(c)'
  BY <1>2, <1>3 DEF OrderInv, InTurn, Given, Ahead, Before
<1>6. Alone(c)'
  BY <1>2 DEF OrderInv, Alone
<1>. QED
  BY <1>1, <1>2, <1>4, <1>5, <1>6, OrderRests DEF OrderInv

(* A handler takes the first log of its channel.                           *)
LEMMA ReceiveOrder ==
  ASSUME IInv, NEW c \in Consumer, OrderInv(c), Receive(c)
  PROVE  OrderInv(c)'
<1>1. TypeOK /\ [Next]_vars
  BY DEF IInv, Next, HandlerStep
<1>2. /\ channel \in [Consumer -> SUBSET Logs]
      /\ handler \in [Consumer -> {Free} \cup Handling]
  BY <1>1, HandlerFacts DEF TypeOK
<1>3. PICK l \in channel[c] :
        /\ \A m \in channel[c] \ {l} : Before(l, m)
        /\ handler' = [handler EXCEPT ![c] = [at |-> "push", log |-> l, value |-> 0]]
        /\ channel' = [channel EXCEPT ![c] = @ \ {l}]
  BY DEF Receive
<1>4. UNCHANGED <<chain, accepted, stored, phase, current>> /\ handler[c].at = "idle"
  BY DEF Receive, Free
<1>5. Logs' = Logs /\ \A k \in Logs : Settled(k) => Settled(k)'
  BY <1>1, <1>4, SameChain, HandledStays
<1>6. /\ handler'[c].at = "push" /\ handler'[c].log = l /\ channel'[c] = channel[c] \ {l}
      /\ \A d \in Consumer \ {c} : handler'[d] = handler[d] /\ channel'[d] = channel[d]
  BY <1>2, <1>3
<1>7. InHand(c)' = channel[c] /\ InHand(c) = channel[c]
      /\ Given(c)' = channel[c] /\ Given(c) = channel[c]
  BY <1>4, <1>6 DEF InHand, Given, Busy
<1>8. \A k : Ahead(c, k)' <=> Ahead(c, k)
  BY <1>4 DEF Ahead
<1>9. Pending(c)'
  BY <1>4, <1>5, <1>7, <1>8 DEF OrderInv, Pending
<1>10. InTurn(c)'
  BY <1>3, <1>5, <1>6, <1>7, <1>8 DEF OrderInv, InTurn, Before
<1>11. Alone(c)'
  BY <1>6 DEF OrderInv, Alone
<1>12. Carried(c)'
  BY <1>6 DEF Carried
<1>13. SettledBelow(stored)' /\ SettledBelow(current)'
  BY <1>4, <1>5 DEF OrderInv, SettledBelow
<1>. QED
  BY <1>1, <1>4, <1>9, <1>10, <1>11, <1>12, <1>13, OrderStays DEF OrderInv

(* A step that leaves the channels alone, and whose handler keeps its log  *)
(* or gives it up, once it is settled.                                     *)
LEMMA HandlerOrder ==
  ASSUME IInv, NEW c \in Consumer, OrderInv(c), [Next]_vars,
         UNCHANGED <<chain, channel, phase>>, handler[c].at \in Busy,
         NEW h \in {Free} \cup Handling, handler' = [handler EXCEPT ![c] = h],
         NEW k, k = handler[c].log, h = Free \/ h.log = k, h.at # "push",
         handler[c].at = "push" => Settled(k)'
  PROVE  /\ Pending(c)' /\ InTurn(c)' /\ Alone(c)'
         /\ \A l \in Logs : Settled(l) => Settled(l)'
         /\ Logs' = Logs
<1>1. TypeOK
  BY DEF IInv
<1>2. handler \in [Consumer -> {Free} \cup Handling]
  BY <1>1, HandlerFacts
<1>3. handler'[c] = h /\ \A d \in Consumer \ {c} : handler'[d] = handler[d]
  BY <1>2
<1>4. Logs' = Logs /\ \A l \in Logs : Settled(l) => Settled(l)'
  BY <1>1, SameChain, HandledStays
<1>5. phase.at # "down"
  BY RunsWhenBusy
<1>6. Free.at = "idle"
  BY DEF Free
<1>7. \A l : Ahead(c, l)' <=> Ahead(c, l)
  BY DEF Ahead
<1>8. InHand(c)' = channel[c]
  BY <1>3 DEF InHand
<1>9. Pending(c)'
  <2>1. ASSUME NEW l \in Logs PROVE Settled(l)' \/ l \in channel[c] \/ Ahead(c, l)
    <3>1. Settled(l) \/ l \in InHand(c) \/ Ahead(c, l)
      BY <1>5 DEF OrderInv, Pending
    <3>2. CASE l \in InHand(c) /\ l \notin channel[c]
      <4>1. handler[c].at = "push" /\ l = k
        BY <3>2 DEF InHand
      <4>. QED
        BY <1>4, <4>1
    <3>. QED
      BY <1>4, <3>1, <3>2
  <2>. QED
    BY <1>4, <1>7, <1>8, <2>1 DEF Pending
<1>10. InTurn(c)'
  <2>1. Given(c)' \subseteq Given(c)
    BY <1>3, <1>6 DEF Given, Busy
  <2>2. handler'[c].at \in Busy => handler'[c].log = k
    BY <1>3, <1>6 DEF Busy
  <2>. QED
    BY <1>4, <1>7, <2>1, <2>2 DEF OrderInv, InTurn, Before
<1>11. Alone(c)'
  BY <1>3 DEF OrderInv, Alone
<1>. QED
  BY <1>4, <1>9, <1>10, <1>11

(* The push: what is accepted now lies behind what is settled.             *)
LEMMA PushOrder ==
  ASSUME IInv, NEW c \in Consumer, OrderInv(c), PushEvent(c) \/ FailPush(c)
  PROVE  OrderInv(c)'
<1>1. TypeOK /\ [Next]_vars
  BY DEF IInv, Next, HandlerStep
<1>2. /\ handler[c].at = "push" /\ handler[c].at \in Busy
      /\ UNCHANGED <<chain, channel, phase, stored, current, missed>>
  BY DEF PushEvent, FailPush, Busy, history
<1>3. PICK k : k = handler[c].log
  OBVIOUS
<1>4. k \in Logs
  BY <1>1, <1>2, <1>3, HandlerFacts DEF Handling
<1>5. /\ accepted' \subseteq accepted \cup {k}
      /\ k \in accepted' \cup failed' \/ KindOf(k) = "fungible"
  BY <1>3 DEF PushEvent, FailPush
<1>6. Settled(k)'
  BY <1>2, <1>5, SameChain DEF Settled, Handled
<1>7. PICK h \in {Free} \cup Handling :
        /\ handler' = [handler EXCEPT ![c] = h]
        /\ h = Free \/ (h.log = k /\ h.at \notin {"push", "put"})
  <2>1. CASE PushEvent(c)
    <3>1. PICK h \in Handling : /\ h.at = "check" /\ h.log = k
                                /\ handler' = [handler EXCEPT ![c] = h]
      BY <1>1, <1>2, <1>3, <2>1, AtPlace DEF PushEvent, At, Busy
    <3>. QED
      BY <3>1
  <2>2. CASE FailPush(c)
    <3>1. Free \in {Free} \cup Handling /\ handler' = [handler EXCEPT ![c] = Free]
      BY <2>2 DEF FailPush, Returns
    <3>. QED
      BY <3>1
  <2>. QED
    BY <2>1, <2>2
<1>8. h.at \notin {"push", "put"}
  BY <1>7 DEF Free
<1>9. /\ Pending(c)' /\ InTurn(c)' /\ Alone(c)'
      /\ \A l \in Logs : Settled(l) => Settled(l)'
      /\ Logs' = Logs
  BY <1>1, <1>2, <1>3, <1>6, <1>7, <1>8, HandlerOrder
<1>10. Carried(c)'
  BY <1>1, <1>7, <1>8, HandlerFacts DEF Carried
<1>11. SettledBelow(stored)' /\ SettledBelow(current)'
  BY <1>2, <1>9 DEF OrderInv, SettledBelow
<1>12. AcceptedInOrder'
  <2>1. ASSUME NEW l \in accepted', NEW m \in Logs, KindOf(m) # "fungible", Before(m, l)
        PROVE  m \in accepted' \cup missed' \cup failed'
    <3>1. m \in accepted \cup missed \cup failed
      <4>1. CASE l = k
        BY <1>2, <1>3, <2>1, <4>1, FirstInHand DEF Settled, Handled
      <4>2. CASE l # k
        BY <1>5, <2>1, <4>2 DEF OrderInv, AcceptedInOrder, ToPush
      <4>. QED
        BY <4>1, <4>2
    <3>. QED
      BY <1>1, <3>1, HistoryGrows
  <2>2. \A l \in accepted', m \in ToPush' : m \in Logs /\ KindOf(m) # "fungible"
    BY <1>2, <1>9, SameChain DEF ToPush
  <2>. QED
    BY <2>1, <2>2 DEF AcceptedInOrder, Before
<1>. QED
  BY <1>9, <1>10, <1>11, <1>12 DEF OrderInv

(* The last stopped block: of the handler's log, of currentLastStopped-    *)
(* Block and of the store in turn.                                         *)
LEMMA BlockOrder ==
  ASSUME IInv, NEW c \in Consumer, OrderInv(c),
         CheckBlock(c) \/ SetBlock(c) \/ FormatBlock(c) \/ PutBlock(c) \/ FailPut(c)
  PROVE  OrderInv(c)'
<1>1. TypeOK /\ [Next]_vars
  BY DEF IInv, Next, HandlerStep
<1>2. /\ handler[c].at \in Busy /\ handler[c].at # "push" /\ handler[c] \in Handling
      /\ UNCHANGED <<chain, accepted, channel, phase>>
  BY <1>1, HandlerFacts DEF CheckBlock, SetBlock, FormatBlock, PutBlock, FailPut, Busy
<1>3. PICK k, v : k = handler[c].log /\ v = handler[c].value
  OBVIOUS
<1>4. SettledBelow(k.block)
  BY <1>2, <1>3, HandlerSettles
<1>5. PICK h \in {Free} \cup Handling :
        /\ handler' = [handler EXCEPT ![c] = h]
        /\ h = Free \/ (h.log = k /\ h.at # "push")
        /\ h.at = "put" => h.value = current /\ UNCHANGED current
  <2>1. CASE CheckBlock(c)
    <3>1. PICK h \in Handling : /\ h.at = "set" /\ h.log = k
                                /\ [handler EXCEPT ![c].at = "set"] = [handler EXCEPT ![c] = h]
      BY <1>1, <1>2, <1>3, AtPlace DEF Busy
    <3>2. handler' \in {[handler EXCEPT ![c] = h], [handler EXCEPT ![c] = Free]}
      BY <2>1, <3>1 DEF CheckBlock, At
    <3>3. h \in {Free} \cup Handling /\ Free \in {Free} \cup Handling /\ Free.at # "put"
      BY DEF Free
    <3>4. CASE handler' = [handler EXCEPT ![c] = h]
      BY <3>1, <3>3, <3>4
    <3>5. CASE handler' = [handler EXCEPT ![c] = Free]
      BY <3>3, <3>5
    <3>. QED
      BY <3>2, <3>4, <3>5
  <2>2. CASE SetBlock(c)
    <3>1. PICK h \in Handling : /\ h.at = "format" /\ h.log = k
                                /\ handler' = [handler EXCEPT ![c] = h]
      BY <1>1, <1>2, <1>3, <2>2, AtPlace DEF SetBlock, At, Busy
    <3>. QED
      BY <3>1
  <2>3. CASE FormatBlock(c)
    <3>1. current \in 0..MaxBlocks
      BY <1>1 DEF TypeOK
    <3>2. PICK h \in Handling : /\ h.at = "put" /\ h.log = k /\ h.value = current
                                /\ handler' = [handler EXCEPT ![c] = h]
      <4>1. PICK h : h = [handler[c] EXCEPT !.at = "put", !.value = current]
        OBVIOUS
      <4>2. h \in Handling /\ h.at = "put" /\ h.log = k /\ h.value = current
        BY <1>2, <1>3, <3>1, <4>1 DEF Handling, Busy
      <4>3. handler' = [handler EXCEPT ![c] = h]
        BY <1>1, <1>2, <2>3, <3>1, <4>1, HandlerFacts DEF FormatBlock, Handling
      <4>. QED
        BY <4>2, <4>3
    <3>. QED
      BY <2>3, <3>2 DEF FormatBlock
  <2>4. CASE PutBlock(c) \/ FailPut(c)
    <3>1. /\ Free \in {Free} \cup Handling /\ handler' = [handler EXCEPT ![c] = Free]
          /\ Free.at # "put"
      BY <2>4 DEF PutBlock, FailPut, Free
    <3>. QED
      BY <3>1
  <2>. QED
    BY <2>1, <2>2, <2>3, <2>4
<1>6. h.at # "push"
  BY <1>5 DEF Free
<1>7. /\ Pending(c)' /\ InTurn(c)' /\ Alone(c)'
      /\ \A l \in Logs : Settled(l) => Settled(l)'
      /\ Logs' = Logs
  BY <1>1, <1>2, <1>3, <1>5, <1>6, HandlerOrder
<1>8. \A b : SettledBelow(b) => SettledBelow(b)'
  BY <1>7 DEF SettledBelow
<1>9. Carried(c)'
  <2>1. handler'[c] = h
    BY <1>1, <1>5, HandlerFacts
  <2>2. PICK t : t = current
    OBVIOUS
  <2>3. SettledBelow(t)'
    BY <1>8, <2>2 DEF OrderInv
  <2>4. h.at = "put" => h.value = t
    BY <1>5, <2>2
  <2>. QED
    BY <2>1, <2>3, <2>4 DEF Carried
<1>10. SettledBelow(current)'
  <2>1. PICK t : t = current /\ SettledBelow(t)'
    BY <1>8 DEF OrderInv
  <2>2. PICK b : b = k.block /\ SettledBelow(b)'
    BY <1>4, <1>8
  <2>3. current' = t \/ current' = b
    BY <1>3, <2>1, <2>2 DEF CheckBlock, SetBlock, FormatBlock, PutBlock, FailPut
  <2>. QED
    BY <2>1, <2>2, <2>3
<1>11. SettledBelow(stored)'
  <2>1. PICK t : t = stored /\ SettledBelow(t)'
    BY <1>8 DEF OrderInv
  <2>2. UNCHANGED stored \/ (handler[c].at = "put" /\ stored' = v)
    BY <1>3 DEF CheckBlock, SetBlock, FormatBlock, PutBlock, FailPut
  <2>3. handler[c].at = "put" => SettledBelow(v)'
    BY <1>3, <1>8 DEF OrderInv, Carried
  <2>. QED
    BY <2>1, <2>2, <2>3
<1>. QED
  BY <1>1, <1>2, <1>7, <1>9, <1>10, <1>11, OrderStays DEF OrderInv

(* The next life fetches all that is not settled.                          *)
LEMMA CrashOrder ==
  ASSUME IInv, NEW c \in Consumer, OrderInv(c), Crash
  PROVE  OrderInv(c)'
<1>1. TypeOK /\ [Next]_vars /\ chain \in Seq(Contents) /\ stored \in Nat
  BY PositiveBound DEF IInv, TypeOK, Next
<1>2. /\ UNCHANGED <<chain, accepted, stored>> /\ phase' = Down /\ current' = 0
      /\ \A d \in Consumer : channel'[d] = {} /\ handler'[d].at = "idle"
  BY DEF Crash, Free
<1>3. Logs' = Logs /\ \A l \in Logs : l.block \in Nat /\ (Settled(l) => Settled(l)')
  BY <1>1, <1>2, SameChain, HandledStays, LogFacts
<1>4. SettledBelow(stored)'
  BY <1>2, <1>3 DEF OrderInv, SettledBelow
<1>5. Pending(c)'
  BY <1>1, <1>2, <1>3, <1>4 DEF Pending, SettledBelow, Down
<1>6. InTurn(c)'
  BY <1>2 DEF InTurn, Given, Busy
<1>7. Alone(c)' /\ Carried(c)' /\ SettledBelow(current)'
  BY <1>2, <1>3 DEF Alone, Carried, SettledBelow
<1>. QED
  BY <1>1, <1>2, <1>4, <1>5, <1>6, <1>7, OrderStays DEF OrderInv

LEMMA StepOrder ==
  ASSUME NEW c \in Consumer, OnlyFor(c), IInv, OrderInv(c), [Next]_vars
  PROVE  OrderInv(c)'
<1>1. CASE UNCHANGED vars
  BY <1>1, SameChain DEF vars, OrderInv, Pending, InTurn, Alone, Carried, SettledBelow, AcceptedInOrder,
     ToPush, Settled, Handled, InHand, Given, Ahead, Before
<1>2. ASSUME NEW d \in Consumer, HandlerStep(d) \/ FailPush(d) \/ FailPut(d)
      PROVE  OrderInv(c)'
  BY <1>2, OnlyHandler, ReceiveOrder, PushOrder, BlockOrder DEF HandlerStep
<1>. QED
  BY <1>1, <1>2, MineOrder, RunOrder, SubscribeOrder, CrashOrder DEF Next

(* While one consumer only has logs, and its logs are those that a start   *)
(* fetches again, the two goroutines keep the order of the chain across    *)
(* crashes, failed calls and ended subscriptions.                          *)
THEOREM OrderIsKept ==
  ASSUME NEW c \in Consumer, OnlyFor(c)
  PROVE  Spec => [](IInv /\ OrderInv(c))
<1>1. Init => IInv /\ OrderInv(c)
  BY InitIInv, InitOrder
<1>2. IInv /\ OrderInv(c) /\ [Next]_vars => (IInv /\ OrderInv(c))'
  BY StepIInv, StepOrder
<1>. QED
  BY <1>1, <1>2, PTL DEF Spec

(* Then no log below the stored block is lost silently,                    *)
THEOREM NothingLostSilently ==
  ASSUME NEW c \in Consumer, OnlyFor(c)
  PROVE  Spec => []NoSilentLoss
<1>1. OrderInv(c) => NoSilentLoss
  BY DEF OrderInv, NoSilentLoss, SettledBelow, ToPush, Settled, Handled
<1>. QED
  BY <1>1, OrderIsKept, PTL

(* and the event processor accepts the logs in the order of the chain.     *)
THEOREM ChainOrderIsKept ==
  ASSUME NEW c \in Consumer, OnlyFor(c)
  PROVE  Spec => []AcceptedInOrder
<1>1. OrderInv(c) => AcceptedInOrder
  BY DEF OrderInv
<1>. QED
  BY <1>1, OrderIsKept, PTL
===============================================================================
