---------------------------- MODULE DocumentProofs -----------------------------
(***************************************************************************)
(* Proofs about TokenOwnership, for every set of owners, processes and     *)
(* callers, every margin and every bound; and about Collections, for any   *)
(* number of servers, series, tokens, artists, events and failures: no     *)
(* asset without its collection, readers miss no token during an update,   *)
(* and a collection at rest is what the contract says.                     *)
(***************************************************************************)
EXTENDS TokenOwnership, Collections, SequenceTheorems, FiniteSetTheorems,
        WellFoundedInduction, TLAPS

-----------------------------------------------------------------------------
(* Ownership and provenance of a token.                                     *)

(* What the actions do to the last record and to the order of a provenance.*)
Ordered(prov) ==
  /\ prov # <<>> /\ prov[Len(prov)] = 1
  /\ \A i \in 1..(Len(prov) - 1) : prov[i] > prov[i + 1]

LEMMA OrderedProvenance == ProvenanceOrdered <=> Ordered(token.prov)
  BY DEF ProvenanceOrdered, Ordered

LEMMA OrderedProvenanceNext == ProvenanceOrdered' <=> Ordered(token.prov')
  BY DEF ProvenanceOrdered, Ordered

(* A whole provenance is ordered, and its newest record is the last log.   *)
LEMMA WholeProvenance ==
  ASSUME NEW n \in Nat \ {0}
  PROVE  /\ Provenance(n) \in Seq(1..n) /\ Ordered(Provenance(n))
         /\ Head(Provenance(n)) = n
<1>1. Provenance(n) \in [1..n -> 1..n]
  BY DEF Provenance
<1>2. Provenance(n) \in Seq(1..n) /\ Len(Provenance(n)) = n
  BY <1>1, SeqDef
<1>3. \A i \in 1..n : Provenance(n)[i] = n + 1 - i
  BY DEF Provenance
<1>. QED
  BY <1>2, <1>3 DEF Ordered

(* Pushing a transfer that is newer than the newest record keeps the order.*)
LEMMA PushedProvenance ==
  ASSUME NEW n \in Nat, NEW prov \in Seq(1..n), Ordered(prov),
         NEW i \in 1..n, i > Head(prov)
  PROVE  /\ <<i>> \o prov \in Seq(1..n) /\ Ordered(<<i>> \o prov)
         /\ Head(<<i>> \o prov) = i
<1> DEFINE pushed == <<i>> \o prov
<1>1. <<i>> \in Seq(1..n) /\ Len(<<i>>) = 1 /\ <<i>>[1] = i
  OBVIOUS
<1>2. /\ pushed \in Seq(1..n) /\ Len(pushed) = 1 + Len(prov)
      /\ \A j \in 1..(1 + Len(prov)) : pushed[j] = IF j <= 1 THEN <<i>>[j] ELSE prov[j - 1]
  BY <1>1, ConcatProperties
<1>3. Len(prov) \in Nat \ {0} /\ Head(prov) = prov[1]
  BY EmptySeq DEF Ordered
<1>4. \A j \in 1..Len(prov) : prov[j] \in 1..n
  OBVIOUS
<1>5. pushed[1] = i /\ \A j \in 2..(1 + Len(prov)) : pushed[j] = prov[j - 1]
  BY <1>1, <1>2, <1>3
<1>6. pushed[Len(pushed)] = 1
  BY <1>2, <1>3, <1>5 DEF Ordered
<1>7. ASSUME NEW j \in 1..(Len(pushed) - 1) PROVE pushed[j] > pushed[j + 1]
  <2>1. CASE j = 1
    BY <2>1, <1>2, <1>3, <1>5
  <2>2. CASE j # 1
    <3>1. j - 1 \in 1..(Len(prov) - 1) /\ (j - 1) + 1 = j
      BY <2>2, <1>2, <1>3
    <3>2. prov[j - 1] > prov[j]
      BY <3>1 DEF Ordered
    <3>. QED
      BY <3>1, <3>2, <1>2, <1>3, <1>5
  <2>. QED
    BY <2>1, <2>2
<1>8. pushed # <<>> /\ Head(pushed) = i
  BY <1>2, <1>3, <1>5
<1>. QED
  BY <1>2, <1>6, <1>7, <1>8 DEF Ordered

-------------------------------------------------------------------------------
(* The type of the workers, without the bound of the event numbers.        *)
Place == {"idle", "read", "fallback", "account", "start"}

(* A write of the token: what each of the store's operations keeps.        *)
TokenOK ==
  /\ token \in [owner : Owner, activity : Nat, prov : Seq(1..Len(chain)), burned : BOOLEAN]
  /\ fresh \subseteq Process
  /\ ProvenanceOrdered /\ ProvenanceBehind

WorkersOK ==
  /\ worker \in [Process -> [Kind -> [event : 0..Len(events), at : Place]]]
  /\ WorkersHaveEvents

EventsOK ==
  /\ events \in Seq([created : Nat, stage : 0..2]) /\ Len(events) \in 1..Len(chain)

ChainOK ==
  /\ chain \in Seq([to : Owner, time : Nat]) /\ Len(chain) \in 1..(MaxTransfers + 1)
  /\ clock \in Nat /\ TimesAscend

RefreshOK ==
  /\ refresh \in [Refresher -> [at : {"idle", "fetch", "token", "holder", "others", "all"},
                                seen : 0..Len(chain)]]
  /\ RefreshesHaveRead

AccountOK == account \in [Owner -> [balance : {0, 1}, time : Int]]

CountsOK ==
  refreshes \in 0..MaxRefreshes /\ faults \in 0..MaxFaults /\ restarts \in 0..MaxRestarts

(* IInv by the parts that single actions write.                            *)
LEMMA Parts ==
  IInv <=> /\ TokenOK /\ WorkersOK /\ EventsOK /\ ChainOK
           /\ RefreshOK /\ AccountOK /\ CountsOK
  BY DEF IInv, TypeOK, TokenOK, WorkersOK, EventsOK, ChainOK, RefreshOK, AccountOK,
         CountsOK, Place

LEMMA PartsNext ==
  IInv' <=> /\ TokenOK' /\ WorkersOK' /\ EventsOK' /\ ChainOK'
            /\ RefreshOK' /\ AccountOK' /\ CountsOK'
  BY DEF IInv, TypeOK, TokenOK, WorkersOK, EventsOK, ChainOK, RefreshOK, AccountOK,
         CountsOK, Place

(* What an action leaves alone stays right.                                *)
LEMMA Kept ==
  ASSUME IInv
  PROVE  /\ UNCHANGED <<token, fresh, chain>> => TokenOK'
         /\ UNCHANGED <<worker, events>> => WorkersOK'
         /\ UNCHANGED <<events, chain>> => EventsOK'
         /\ UNCHANGED <<chain, clock>> => ChainOK'
         /\ UNCHANGED <<refresh, chain>> => RefreshOK'
         /\ UNCHANGED account => AccountOK'
         /\ UNCHANGED <<refreshes, faults, restarts>> => CountsOK'
  BY Parts DEF TokenOK, WorkersOK, EventsOK, ChainOK, RefreshOK, AccountOK, CountsOK,
         ProvenanceOrdered, ProvenanceBehind, WorkersHaveEvents, TimesAscend,
         RefreshesHaveRead

(* A worker moves on with its event.                                       *)
LEMMA GotoKeeps ==
  ASSUME IInv, NEW p \in Process, NEW k \in Kind, NEW place \in Place,
         worker[p][k].event # 0, Goto(p, k, place), UNCHANGED events
  PROVE  WorkersOK'
<1>1. \A q \in Process : \A j \in Kind :
        worker[q][j] \in [event : 0..Len(events), at : Place]
  BY Parts DEF WorkersOK
<1>2. [worker[p][k] EXCEPT !.at = place] \in [event : 0..Len(events), at : Place]
      /\ [worker[p][k] EXCEPT !.at = place].event = worker[p][k].event
  BY <1>1
<1>3. /\ worker' \in [Process -> [Kind -> [event : 0..Len(events), at : Place]]]
      /\ worker' = [worker EXCEPT ![p][k] = [worker[p][k] EXCEPT !.at = place]]
  BY <1>2, Parts DEF Goto, WorkersOK
<1>4. WorkersHaveEvents'
  BY <1>2, <1>3, Parts DEF WorkersOK, WorkersHaveEvents
<1>. QED
  BY <1>3, <1>4 DEF WorkersOK

(* A worker gives its event up; the row has its next stage.                *)
LEMMA FinishKeeps ==
  ASSUME IInv, NEW p \in Process, NEW k \in Kind, NEW stage \in 0..2,
         worker[p][k].event # 0, Finish(p, k, stage), UNCHANGED chain
  PROVE  WorkersOK' /\ EventsOK'
<1> DEFINE i == worker[p][k].event
<1>1. i \in 1..Len(events)
  BY Parts DEF WorkersOK
<1>2. /\ events' \in Seq([created : Nat, stage : 0..2]) /\ Len(events') = Len(events)
  <2>1. events \in Seq([created : Nat, stage : 0..2])
    BY Parts DEF EventsOK
  <2>2. events[i] \in [created : Nat, stage : 0..2]
    BY <1>1, <2>1, ElementOfSeq
  <2>3. [events[i] EXCEPT !.stage = stage] \in [created : Nat, stage : 0..2]
    BY <2>2
  <2>4. events' = [events EXCEPT ![i] = [events[i] EXCEPT !.stage = stage]]
    BY DEF Finish
  <2>. QED
    BY <1>1, <2>1, <2>3, <2>4, ExceptSeq
<1>3. WorkersOK'
  BY <1>2, Parts DEF Finish, Free, Place, WorkersOK, WorkersHaveEvents
<1>4. EventsOK'
  BY <1>2, Parts DEF EventsOK
<1>. QED
  BY <1>3, <1>4

(* A write with an ordered provenance whose newest record is not newer     *)
(* than the activity it writes.                                            *)
LEMMA WriteKeeps ==
  ASSUME IInv, UNCHANGED chain, NEW o \in Owner, NEW t \in Nat, NEW b \in BOOLEAN,
         NEW prov \in Seq(1..Len(chain)), Ordered(prov), chain[Head(prov)].time <= t,
         WriteToken(o, t, prov, b)
  PROVE  TokenOK'
<1>1. token' = [owner |-> o, activity |-> t, prov |-> prov, burned |-> b] /\ fresh' = {}
  BY DEF WriteToken
<1>2. token'.prov = prov /\ token'.activity = t
  BY <1>1
<1>3. ProvenanceOrdered'
  BY <1>2, OrderedProvenanceNext
<1>4. ProvenanceBehind'
  BY <1>2 DEF ProvenanceBehind
<1>. QED
  BY <1>1, <1>3, <1>4 DEF TokenOK

LEMMA RecordOfChain ==
  ASSUME IInv, NEW i \in 1..Len(chain)
  PROVE  chain[i].to \in Owner /\ chain[i].time \in Nat
<1>1. chain \in Seq([to : Owner, time : Nat])
  BY Parts DEF ChainOK
<1>2. chain[i] \in [to : Owner, time : Nat]
  BY <1>1, ElementOfSeq
<1>. QED
  BY <1>2

(* UpdateOwner keeps the provenance and raises the activity.               *)
LEMMA UpdateOwnerKeeps ==
  ASSUME IInv, UNCHANGED chain, NEW o \in Owner, NEW t \in Nat, UpdateOwner(o, t)
  PROVE  TokenOK'
<1>1. /\ Ordered(token.prov) /\ token.prov \in Seq(1..Len(chain))
      /\ token.activity \in Nat /\ token.burned \in BOOLEAN
      /\ chain[Head(token.prov)].time <= token.activity
  BY Parts, OrderedProvenance DEF TokenOK, ProvenanceBehind
<1>2. Head(token.prov) \in 1..Len(chain)
  BY <1>1, HeadTailProperties DEF Ordered
<1>3. chain[Head(token.prov)].time \in Nat
  BY <1>2, RecordOfChain
<1>4. CASE token.activity < t
  <2>1. chain[Head(token.prov)].time <= t
    BY <1>1, <1>3, <1>4
  <2>2. WriteToken(o, t, token.prov, o = BurnAddress)
    BY <1>4 DEF UpdateOwner
  <2>. QED
    BY <1>1, <2>1, <2>2, WriteKeeps
<1>5. CASE ~ (token.activity < t)
  BY <1>5, Kept DEF UpdateOwner
<1>. QED
  BY <1>4, <1>5

(* IndexAccountTokens writes a document or leaves the account alone.       *)
LEMMA AccountKeeps ==
  ASSUME IInv, NEW o \in Owner, NEW t \in Nat, IndexAccountTokens(o, t)
  PROVE  AccountOK'
<1>1. [balance |-> 1, time |-> t] \in [balance : {0, 1}, time : Int]
  OBVIOUS
<1>2. AccountOK
  BY Parts
<1>3. CASE account' = [account EXCEPT ![o] = [balance |-> 1, time |-> t]]
  BY <1>1, <1>2, <1>3 DEF AccountOK
<1>4. CASE account' = account
  BY <1>2, <1>4 DEF AccountOK
<1>. QED
  BY <1>3, <1>4 DEF IndexAccountTokens

(* The transfer and the creation time of the event a worker holds.         *)
LEMMA EventOfWorker ==
  ASSUME IInv, NEW p \in Process, NEW k \in Kind, worker[p][k].at # "idle"
  PROVE  LET i == worker[p][k].event
         IN  /\ i \in 1..Len(chain) /\ i # 0
             /\ chain[i].to \in Owner /\ chain[i].time \in Nat
             /\ events[i].created \in Nat
<1> DEFINE i == worker[p][k].event
<1>1. i \in 1..Len(events) /\ i \in 1..Len(chain)
  BY Parts DEF WorkersOK, WorkersHaveEvents, EventsOK, ChainOK
<1>2. chain[i].to \in Owner /\ chain[i].time \in Nat
  BY <1>1, RecordOfChain
<1>3. events[i] \in [created : Nat, stage : 0..2]
  BY <1>1, ElementOfSeq, Parts DEF EventsOK
<1>. QED
  BY <1>1, <1>2, <1>3
-------------------------------------------------------------------------------
LEMMA InitIInv == Init => IInv
<1> SUFFICES ASSUME Init PROVE IInv
  OBVIOUS
<1>1. chain = <<[to |-> Minter, time |-> 1]>> /\ clock = 1
      /\ events = <<[created |-> 1, stage |-> 0]>>
  BY DEF Init
<1>2. ChainOK
  BY <1>1, OwnershipAssumption DEF ChainOK, TimesAscend
<1>3. EventsOK
  BY <1>1 DEF EventsOK
<1>4. WorkersOK
  BY <1>1 DEF Init, Free, Place, WorkersOK, WorkersHaveEvents
<1>5. TokenOK
  <2>1. token = [owner |-> Minter, activity |-> 1, prov |-> <<1>>, burned |-> FALSE]
        /\ fresh = {}
    BY DEF Init
  <2>2. Ordered(<<1>>)
    BY DEF Ordered
  <2>3. <<1>> \in Seq(1..Len(chain))
    BY <1>1
  <2>4. ProvenanceOrdered
    BY <2>1, <2>2, OrderedProvenance
  <2>5. ProvenanceBehind
    BY <1>1, <2>1 DEF ProvenanceBehind
  <2>. QED
    BY <2>1, <2>3, <2>4, <2>5, OwnershipAssumption DEF TokenOK
<1>6. RefreshOK
  BY <1>1 DEF Init, Dormant, RefreshOK, RefreshesHaveRead
<1>7. AccountOK
  <2>1. -Margin \in Int
    BY OwnershipAssumption
  <2>. QED
    BY <2>1 DEF Init, AccountOK
<1>8. CountsOK
  BY OwnershipAssumption DEF Init, CountsOK
<1>. QED
  BY <1>2, <1>3, <1>4, <1>5, <1>6, <1>7, <1>8, Parts

(* The chain grows; nothing that is recorded moves.                        *)
LEMMA TransferIInv ==
  ASSUME IInv, NEW o \in Owner, Transfer(o)
  PROVE  IInv'
<1>1. PICK t \in {Last(chain).time, clock + 1} :
        /\ chain' = Append(chain, [to |-> o, time |-> t])
        /\ clock' = IF t > clock THEN t ELSE clock
  BY DEF Transfer
<1>2. /\ chain \in Seq([to : Owner, time : Nat]) /\ Len(chain) \in Nat \ {0}
      /\ Len(chain) <= MaxTransfers /\ clock \in Nat
  BY Parts DEF ChainOK, Transfer
<1>3. /\ Last(chain) = chain[Len(chain)] /\ Last(chain).time \in Nat
      /\ \A i \in 1..Len(chain) : chain[i].time \in Nat /\ chain[i].time <= Last(chain).time
      /\ Last(chain).time <= clock
  BY <1>2, RecordOfChain, Parts DEF Last, ChainOK, TimesAscend
<1>4. /\ t \in Nat /\ clock' \in Nat /\ t <= clock' /\ clock <= clock'
      /\ \A i \in 1..Len(chain) : chain[i].time <= t
  BY <1>1, <1>2, <1>3
<1>5. /\ chain' \in Seq([to : Owner, time : Nat]) /\ Len(chain') = Len(chain) + 1
      /\ \A i \in 1..Len(chain) : chain'[i] = chain[i]
      /\ chain'[Len(chain) + 1] = [to |-> o, time |-> t]
  <2>1. [to |-> o, time |-> t] \in [to : Owner, time : Nat]
    BY <1>4
  <2>. QED
    BY <1>1, <1>2, <2>1
<1>6. ChainOK'
  <2>1. DOMAIN chain = 1..Len(chain) /\ DOMAIN chain' = 1..(Len(chain) + 1)
    BY <1>2, <1>5
  <2>2. \A i \in 1..Len(chain) : chain[i].time <= clock'
    BY <1>2, <1>3, <1>4
  <2>3. ASSUME NEW i \in 1..(Len(chain) + 1), NEW j \in 1..(Len(chain) + 1), i <= j
        PROVE  chain'[i].time <= chain'[j].time
    <3>1. CASE j \in 1..Len(chain)
      <4>1. i \in 1..Len(chain) /\ chain[i].time <= chain[j].time
        BY <1>2, <2>1, <2>3, <3>1, Parts DEF ChainOK, TimesAscend
      <4>. QED
        BY <4>1, <3>1, <1>5
    <3>2. CASE j = Len(chain) + 1 /\ i \in 1..Len(chain)
      BY <3>2, <1>4, <1>5
    <3>3. CASE j = Len(chain) + 1 /\ i = j
      BY <3>3, <1>4, <1>5
    <3>. QED
      BY <1>2, <2>3, <3>1, <3>2, <3>3
  <2>4. ASSUME NEW i \in 1..(Len(chain) + 1)
        PROVE  chain'[i].time <= clock'
    BY <1>2, <1>4, <1>5, <2>2
  <2>5. TimesAscend'
    BY <2>1, <2>3, <2>4 DEF TimesAscend
  <2>6. Len(chain') \in 1..(MaxTransfers + 1)
    BY <1>2, <1>5, OwnershipAssumption
  <2>. QED
    BY <1>4, <1>5, <2>5, <2>6 DEF ChainOK
<1>7. UNCHANGED <<events, worker, token, fresh, account, refresh, refreshes, faults, restarts>>
  BY DEF Transfer
<1>8. TokenOK'
  <2>1. /\ token.prov \in Seq(1..Len(chain)) /\ Ordered(token.prov)
    BY Parts, OrderedProvenance DEF TokenOK
  <2>2. Head(token.prov) \in 1..Len(chain)
    BY <2>1, HeadTailProperties DEF Ordered
  <2>3. 1..Len(chain) \subseteq 1..Len(chain')
    BY <1>2, <1>5
  <2>4. token.prov \in Seq(1..Len(chain'))
    BY <2>1, <2>3, SeqMonotonic
  <2>5. token \in [owner : Owner, activity : Nat, prov : Seq(1..Len(chain')), burned : BOOLEAN]
    BY <2>4, Parts DEF TokenOK
  <2>6. ProvenanceBehind'
    BY <2>2, <1>5, <1>7, Parts DEF TokenOK, ProvenanceBehind
  <2>. QED
    BY <2>5, <2>6, <1>7, Parts DEF TokenOK, ProvenanceOrdered
<1>9. EventsOK' /\ RefreshOK'
  BY <1>2, <1>5, <1>7, Parts DEF EventsOK, RefreshOK, RefreshesHaveRead
<1>. QED
  BY <1>6, <1>7, <1>8, <1>9, Kept, PartsNext

(* A new event is newer than all others and no worker holds it.            *)
LEMMA PushIInv ==
  ASSUME IInv, PushEvent
  PROVE  IInv'
<1>1. /\ Len(events) < Len(chain) /\ clock' = clock + 1
      /\ events' = Append(events, [created |-> clock', stage |-> 1])
      /\ UNCHANGED <<chain, worker, token, fresh, account, refresh, refreshes, faults, restarts>>
  BY DEF PushEvent
<1>2. /\ events \in Seq([created : Nat, stage : 0..2]) /\ Len(events) \in Nat \ {0}
      /\ Len(chain) \in Nat /\ clock \in Nat
  BY Parts DEF EventsOK, ChainOK
<1>3. [created |-> clock', stage |-> 1] \in [created : Nat, stage : 0..2]
  BY <1>1, <1>2
<1>4. events' \in Seq([created : Nat, stage : 0..2]) /\ Len(events') = Len(events) + 1
  BY <1>1, <1>2, <1>3
<1>5. EventsOK'
  BY <1>1, <1>2, <1>4 DEF EventsOK
<1>6. WorkersOK'
  <2>1. 0..Len(events) \subseteq 0..Len(events')
    BY <1>2, <1>4
  <2>. QED
    BY <2>1, <1>1, Parts DEF WorkersOK, WorkersHaveEvents
<1>7. ChainOK'
  <2>1. \A i \in DOMAIN chain : chain[i].time <= clock'
    <3>1. ASSUME NEW i \in DOMAIN chain PROVE chain[i].time <= clock'
      <4>1. chain[i].time \in Nat /\ chain[i].time <= clock
        BY RecordOfChain, Parts DEF ChainOK, TimesAscend
      <4>. QED
        BY <4>1, <1>1, <1>2
    <3>. QED
      BY <3>1
  <2>. QED
    BY <2>1, <1>1, <1>2, Parts DEF ChainOK, TimesAscend
<1>. QED
  BY <1>1, <1>5, <1>6, <1>7, Kept, PartsNext

(* A worker takes a row of the queue.                                      *)
LEMMA TakeIInv ==
  ASSUME IInv, NEW p \in Process, NEW k \in Kind, Take(p, k)
  PROVE  IInv'
<1>1. PICK i \in DOMAIN events :
        worker' = [worker EXCEPT ![p][k] = [event |-> i, at |-> "read"]]
  BY DEF Take
<1>2. UNCHANGED <<chain, clock, events, token, account, refresh, refreshes, faults, restarts>>
      /\ fresh' \subseteq fresh \cup {p}
  BY DEF Take
<1>3. i \in 1..Len(events)
  BY Parts DEF EventsOK
<1>4. WorkersOK'
  <2>1. [event |-> i, at |-> "read"] \in [event : 0..Len(events), at : Place] /\ i # 0
    BY <1>3 DEF Place
  <2>2. worker \in [Process -> [Kind -> [event : 0..Len(events), at : Place]]]
        /\ WorkersHaveEvents
    BY Parts DEF WorkersOK
  <2>3. worker' \in [Process -> [Kind -> [event : 0..Len(events), at : Place]]]
    BY <1>1, <2>1, <2>2
  <2>4. WorkersHaveEvents'
    BY <1>1, <2>1, <2>2 DEF WorkersHaveEvents
  <2>. QED
    BY <1>2, <2>3, <2>4 DEF WorkersOK
<1>5. TokenOK'
  BY <1>2, Parts DEF TokenOK, ProvenanceOrdered, ProvenanceBehind
<1>. QED
  BY <1>2, <1>4, <1>5, Kept, PartsNext

(* A stage 1 worker: nothing for a burn, a push or the fallback, then the  *)
(* account token.                                                          *)
LEMMA LatestIInv ==
  ASSUME IInv, NEW p \in Process, LatestStep(p)
  PROVE  IInv'
<1> DEFINE w == worker[p]["latest"]
<1>0. "latest" \in Kind /\ "account" \in Place /\ "fallback" \in Place
  BY DEF Kind, Place
<1>1. w.at # "idle"
  BY DEF LatestStep, SkipBurn, PushProvenance, FallBack, IndexNewOwner
<1>2. /\ w.event \in 1..Len(chain) /\ w.event # 0
      /\ chain[w.event].to \in Owner /\ chain[w.event].time \in Nat
      /\ events[w.event].created \in Nat
  BY <1>0, <1>1, EventOfWorker
<1>3. CASE SkipBurn(p)
  <2>1. Finish(p, "latest", 2)
        /\ UNCHANGED <<chain, clock, token, fresh, account, refresh, refreshes, faults, restarts>>
    BY <1>3 DEF SkipBurn
  <2>. QED
    BY <2>1, <1>0, <1>2, FinishKeeps, Kept, PartsNext
<1>4. CASE PushProvenance(p)
  <2>1. UNCHANGED <<chain, clock, events, account, refresh, refreshes, faults, restarts>>
    BY <1>4 DEF PushProvenance
  <2>2. CASE /\ MayPush(p, w.event)
             /\ WriteToken(chain[w.event].to, chain[w.event].time,
                           <<w.event>> \o token.prov, token.burned)
             /\ Goto(p, "latest", "account")
    <3>1. /\ token.prov \in Seq(1..Len(chain)) /\ Ordered(token.prov)
          /\ token.activity \in Nat /\ token.burned \in BOOLEAN
          /\ chain[Head(token.prov)].time <= token.activity
      BY Parts, OrderedProvenance DEF TokenOK, ProvenanceBehind
    <3>2. Head(token.prov) \in 1..Len(chain)
      BY <3>1, HeadTailProperties DEF Ordered
    <3>3. w.event > Head(token.prov)
      <4>1. chain[Head(token.prov)].time < chain[w.event].time
        BY <2>2, <3>1, <3>2, <1>2, RecordOfChain DEF MayPush
      <4>2. w.event <= Head(token.prov) =>
              chain[w.event].time <= chain[Head(token.prov)].time
        BY <1>2, <3>2, Parts DEF ChainOK, TimesAscend
      <4>. QED
        BY <4>1, <4>2, <3>2, <1>2, RecordOfChain
    <3>4. /\ <<w.event>> \o token.prov \in Seq(1..Len(chain))
          /\ Ordered(<<w.event>> \o token.prov)
          /\ Head(<<w.event>> \o token.prov) = w.event
      BY <3>1, <3>3, <1>2, PushedProvenance, Parts DEF ChainOK
    <3>5. TokenOK'
      <4> DEFINE prov == <<w.event>> \o token.prov
      <4>1. /\ prov \in Seq(1..Len(chain)) /\ Ordered(prov)
            /\ chain[Head(prov)].time <= chain[w.event].time
            /\ WriteToken(chain[w.event].to, chain[w.event].time, prov, token.burned)
        BY <2>2, <3>4, <1>2
      <4> HIDE DEF prov
      <4>. QED
        BY <2>1, <3>1, <4>1, <1>2, WriteKeeps
    <3>6. WorkersOK'
      BY <2>1, <2>2, <1>0, <1>2, GotoKeeps
    <3>. QED
      BY <2>1, <3>5, <3>6, Kept, PartsNext
  <2>3. CASE Goto(p, "latest", "fallback") /\ UNCHANGED <<token, fresh>>
    BY <2>1, <2>3, <1>0, <1>2, GotoKeeps, Kept, PartsNext
  <2>. QED
    BY <2>2, <2>3, <1>4 DEF PushProvenance
<1>5. CASE FallBack(p)
  <2>1. /\ UpdateOwner(chain[w.event].to, events[w.event].created)
        /\ Goto(p, "latest", "account")
        /\ UNCHANGED <<chain, clock, events, account, refresh, refreshes, faults, restarts>>
    BY <1>5 DEF FallBack
  <2>2. TokenOK'
    BY <2>1, <1>2, UpdateOwnerKeeps
  <2>. QED
    BY <2>1, <2>2, <1>0, <1>2, GotoKeeps, Kept, PartsNext
<1>6. CASE IndexNewOwner(p)
  <2>1. /\ IndexAccountTokens(chain[w.event].to, events[w.event].created)
        /\ Finish(p, "latest", 2)
        /\ UNCHANGED <<chain, clock, token, fresh, refresh, refreshes, faults, restarts>>
    BY <1>6 DEF IndexNewOwner
  <2>2. AccountOK'
    BY <2>1, <1>2, AccountKeeps
  <2>. QED
    BY <2>1, <2>2, <1>0, <1>2, FinishKeeps, Kept, PartsNext
<1>. QED
  BY <1>3, <1>4, <1>5, <1>6 DEF LatestStep

(* Stage 2 sets the owner and starts a refresh, or drops it.               *)
LEMMA SyncIInv ==
  ASSUME IInv, NEW p \in Process, NEW k \in Kind, SyncOwner(p, k)
  PROVE  IInv'
<1>1. /\ worker[p][k].at # "idle"
      /\ UpdateOwner(chain[worker[p][k].event].to, events[worker[p][k].event].created)
      /\ Goto(p, k, "start")
      /\ UNCHANGED <<chain, clock, events, account, refresh, refreshes, faults, restarts>>
  BY DEF SyncOwner
<1>2. "start" \in Place
  BY DEF Place
<1>3. TokenOK' /\ WorkersOK'
  BY <1>1, <1>2, EventOfWorker, UpdateOwnerKeeps, GotoKeeps
<1>. QED
  BY <1>1, <1>3, Kept, PartsNext

LEMMA StartIInv ==
  ASSUME IInv, NEW p \in Process, NEW k \in Kind, StartRefresh(p, k)
  PROVE  IInv'
<1>1. /\ worker[p][k].at # "idle" /\ Finish(p, k, 0)
      /\ \/ refresh' = [refresh EXCEPT ![Processor] = [at |-> "fetch", seen |-> 0]]
         \/ UNCHANGED refresh
      /\ UNCHANGED <<chain, clock, token, fresh, account, refreshes, faults, restarts>>
  BY DEF StartRefresh
<1>2. WorkersOK' /\ EventsOK'
  BY <1>1, EventOfWorker, FinishKeeps
<1>3. RefreshOK'
  BY <1>1, Parts DEF RefreshOK, RefreshesHaveRead
<1>. QED
  BY <1>1, <1>2, <1>3, Kept, PartsNext

(* A refresh starts, reads, and writes what it has read.                   *)
LEMMA RequestIInv ==
  ASSUME IInv, NEW r \in Refresher, RequestRefresh(r)
  PROVE  IInv'
<1>1. /\ refreshes < MaxRefreshes /\ refreshes' = refreshes + 1
      /\ refresh' = [refresh EXCEPT ![r] = [at |-> "fetch", seen |-> 0]]
      /\ UNCHANGED <<chain, clock, events, worker, token, fresh, account, faults, restarts>>
  BY DEF RequestRefresh
<1>2. RefreshOK'
  BY <1>1, Parts DEF RefreshOK, RefreshesHaveRead
<1>3. CountsOK'
  BY <1>1, OwnershipAssumption, Parts DEF CountsOK
<1>. QED
  BY <1>1, <1>2, <1>3, Kept, PartsNext

LEMMA RefreshIInv ==
  ASSUME IInv, NEW r \in Refresher, RefreshStep(r)
  PROVE  IInv'
<1>0. /\ refresh \in [Refresher -> [at : {"idle", "fetch", "token", "holder", "others", "all"},
                                    seen : 0..Len(chain)]]
      /\ RefreshesHaveRead /\ Len(chain) \in Nat \ {0}
  BY Parts DEF RefreshOK, ChainOK
<1>1. CASE FetchProvenance(r)
  <2>1. /\ refresh' = [refresh EXCEPT ![r] = [at |-> "token", seen |-> Len(chain)]]
        /\ UNCHANGED <<chain, clock, events, worker, token, fresh, account,
                       refreshes, faults, restarts>>
    BY <1>1 DEF FetchProvenance
  <2>2. RefreshOK'
    BY <1>0, <2>1 DEF RefreshOK, RefreshesHaveRead
  <2>. QED
    BY <2>1, <2>2, Kept, PartsNext
<1>2. ASSUME refresh[r].at \in {"token", "holder", "others", "all"}
      PROVE  refresh[r].seen \in 1..Len(chain)
  BY <1>0, <1>2 DEF RefreshesHaveRead
<1>3. CASE StoreProvenance(r)
  <2> DEFINE n == refresh[r].seen
  <2>1. /\ UpdateTokenProvenance(n) /\ refresh[r].at = "token"
        /\ refresh' = [refresh EXCEPT ![r].at = "holder"]
        /\ UNCHANGED <<chain, clock, events, worker, account, refreshes, faults, restarts>>
    BY <1>3 DEF StoreProvenance
  <2>2. n \in 1..Len(chain) /\ n \in Nat \ {0}
    BY <1>0, <1>2, <2>1
  <2>3. TokenOK'
    <3>1. /\ Provenance(n) \in Seq(1..n) /\ Ordered(Provenance(n))
          /\ Head(Provenance(n)) = n
      BY <2>2, WholeProvenance
    <3>2. 1..n \subseteq 1..Len(chain)
      BY <1>0, <2>2
    <3>3. Provenance(n) \in Seq(1..Len(chain))
      BY <3>1, <3>2, SeqMonotonic
    <3>4. chain[n].to \in Owner /\ chain[n].time \in Nat /\ token.burned \in BOOLEAN
      BY <2>2, RecordOfChain, Parts DEF TokenOK
    <3>. QED
      BY <2>1, <3>1, <3>3, <3>4, WriteKeeps DEF UpdateTokenProvenance
  <2>4. RefreshOK'
    BY <1>0, <2>1, <2>2 DEF RefreshOK, RefreshesHaveRead
  <2>. QED
    BY <2>1, <2>3, <2>4, Kept, PartsNext
<1>4. CASE StoreHolder(r)
  <2> DEFINE n == refresh[r].seen
  <2>1. /\ account' = [account EXCEPT ![chain[n].to] = [balance |-> 1, time |-> chain[n].time]]
        /\ refresh[r].at = "holder" /\ refresh' = [refresh EXCEPT ![r].at = "others"]
        /\ UNCHANGED <<chain, clock, events, worker, token, fresh, refreshes, faults, restarts>>
    BY <1>4 DEF StoreHolder
  <2>2. n \in 1..Len(chain)
    BY <1>2, <2>1
  <2>3. [balance |-> 1, time |-> chain[n].time] \in [balance : {0, 1}, time : Int]
    BY <2>2, RecordOfChain
  <2>4. AccountOK'
    BY <2>1, <2>3, Parts DEF AccountOK
  <2>5. RefreshOK'
    BY <1>0, <2>1, <2>2 DEF RefreshOK, RefreshesHaveRead
  <2>. QED
    BY <2>1, <2>4, <2>5, Kept, PartsNext
<1>5. CASE ClearOthers(r)
  <2>1. /\ refresh' = [refresh EXCEPT ![r] = Dormant]
        /\ UNCHANGED <<chain, clock, events, worker, token, fresh, refreshes, faults, restarts>>
    BY <1>5 DEF ClearOthers
  <2>2. \A o \in Owner : [account[o] EXCEPT !.balance = 0] \in [balance : {0, 1}, time : Int]
    BY Parts DEF AccountOK
  <2>3. AccountOK'
    BY <1>5, <2>2, Parts DEF ClearOthers, AccountOK
  <2>4. RefreshOK'
    BY <1>0, <2>1 DEF Dormant, RefreshOK, RefreshesHaveRead
  <2>. QED
    BY <2>1, <2>3, <2>4, Kept, PartsNext
<1>. QED
  BY <1>1, <1>3, <1>4, <1>5 DEF RefreshStep

(* Failed calls end or divert a stage; crashes and retries start again.    *)
LEMMA FaultIInv ==
  ASSUME IInv,
         \/ \E p \in Process : FailStage1(p) \/ Crash(p)
         \/ \E p \in Process, k \in Kind : FailStage2(p, k)
         \/ \E r \in Refresher : RetryRefresh(r) \/ FailHolder(r)
  PROVE  IInv'
<1>1. Fault => faults' \in 0..MaxFaults
  BY OwnershipAssumption, Parts DEF Fault, CountsOK
<1>2. Restart => restarts' \in 0..MaxRestarts
  BY OwnershipAssumption, Parts DEF Restart, CountsOK
<1>3. ASSUME NEW p \in Process, FailStage1(p) PROVE IInv'
  <2>1. /\ worker[p]["latest"].at # "idle" /\ Fault
        /\ \/ Goto(p, "latest", "fallback") /\ UNCHANGED events
           \/ Finish(p, "latest", 0)
        /\ UNCHANGED <<chain, clock, token, fresh, account, refresh, refreshes, restarts>>
    BY <1>3 DEF FailStage1
  <2>2. "latest" \in Kind /\ "fallback" \in Place
    BY DEF Kind, Place
  <2>3. worker[p]["latest"].event # 0
    BY <2>1, <2>2, EventOfWorker
  <2>4. WorkersOK' /\ EventsOK'
    BY <2>1, <2>2, <2>3, GotoKeeps, FinishKeeps, Kept
  <2>5. CountsOK'
    BY <1>1, <2>1, Parts DEF CountsOK
  <2>. QED
    BY <2>1, <2>4, <2>5, Kept, PartsNext
<1>4. ASSUME NEW p \in Process, NEW k \in Kind, FailStage2(p, k) PROVE IInv'
  <2>1. /\ worker[p][k].at # "idle" /\ Fault
        /\ \/ Goto(p, k, "start") /\ UNCHANGED events
           \/ Finish(p, k, 0)
        /\ UNCHANGED <<chain, clock, token, fresh, account, refresh, refreshes, restarts>>
    BY <1>4 DEF FailStage2
  <2>2. "start" \in Place
    BY DEF Place
  <2>3. worker[p][k].event # 0
    BY <2>1, EventOfWorker
  <2>4. WorkersOK' /\ EventsOK'
    BY <2>1, <2>2, <2>3, GotoKeeps, FinishKeeps, Kept
  <2>5. CountsOK'
    BY <1>1, <2>1, Parts DEF CountsOK
  <2>. QED
    BY <2>1, <2>4, <2>5, Kept, PartsNext
<1>5. ASSUME NEW p \in Process, Crash(p) PROVE IInv'
  <2>1. /\ Restart /\ worker' = [worker EXCEPT ![p] = [k \in Kind |-> Free]]
        /\ fresh' = fresh \ {p}
        /\ UNCHANGED <<chain, clock, events, token, account, refresh, refreshes, faults>>
    BY <1>5 DEF Crash
  <2>2. WorkersOK'
    BY <2>1, Parts DEF WorkersOK, WorkersHaveEvents, EventsOK, Free, Place
  <2>3. TokenOK'
    BY <2>1, Parts DEF TokenOK, ProvenanceOrdered, ProvenanceBehind
  <2>4. CountsOK'
    BY <1>2, <2>1, Parts DEF CountsOK
  <2>. QED
    BY <2>1, <2>2, <2>3, <2>4, Kept, PartsNext
<1>6. ASSUME NEW r \in Refresher, RetryRefresh(r) PROVE IInv'
  <2>1. /\ Restart /\ refresh' = [refresh EXCEPT ![r] = [at |-> "fetch", seen |-> 0]]
        /\ UNCHANGED <<chain, clock, events, worker, token, fresh, account, refreshes, faults>>
    BY <1>6 DEF RetryRefresh
  <2>2. RefreshOK'
    BY <2>1, Parts DEF RefreshOK, RefreshesHaveRead
  <2>3. CountsOK'
    BY <1>2, <2>1, Parts DEF CountsOK
  <2>. QED
    BY <2>1, <2>2, <2>3, Kept, PartsNext
<1>7. ASSUME NEW r \in Refresher, FailHolder(r) PROVE IInv'
  <2>1. /\ Fault /\ refresh[r].at = "holder" /\ refresh' = [refresh EXCEPT ![r].at = "all"]
        /\ UNCHANGED <<chain, clock, events, worker, token, fresh, account, refreshes, restarts>>
    BY <1>7 DEF FailHolder
  <2>2. RefreshOK'
    BY <2>1, Parts DEF RefreshOK, RefreshesHaveRead
  <2>3. CountsOK'
    BY <1>1, <2>1, Parts DEF CountsOK
  <2>. QED
    BY <2>1, <2>2, <2>3, Kept, PartsNext
<1>. QED
  BY <1>3, <1>4, <1>5, <1>6, <1>7

LEMMA NextIInv ==
  ASSUME IInv, [Next]_vars
  PROVE  IInv'
<1>1. CASE UNCHANGED vars
  BY <1>1, Kept, PartsNext DEF vars
<1>2. ASSUME NEW o \in Owner, Transfer(o) PROVE IInv'
  BY <1>2, TransferIInv
<1>3. CASE PushEvent
  BY <1>3, PushIInv
<1>4. ASSUME NEW p \in Process, NEW k \in Kind, WorkerStep(p, k) PROVE IInv'
  BY <1>4, TakeIInv, LatestIInv, SyncIInv, StartIInv DEF WorkerStep
<1>5. ASSUME NEW r \in Refresher, RequestRefresh(r) \/ RefreshStep(r) PROVE IInv'
  BY <1>5, RequestIInv, RefreshIInv
<1>. QED
  BY <1>1, <1>2, <1>3, <1>4, <1>5, FaultIInv DEF Next

(* The inductive invariant of the ownership writes.                        *)
THEOREM Invariance == Spec => []IInv
BY InitIInv, NextIInv, PTL DEF Spec

(* Stage 1's lock, which only holds the last read, and the guard on the    *)
(* last activity keep the pushed history in order between refreshes.       *)
THEOREM HistoryInOrder == Spec => []ProvenanceOrdered
<1>1. IInv => ProvenanceOrdered
  BY DEF IInv
<1>. QED
  BY <1>1, Invariance, PTL

-------------------------------------------------------------------------------
(* The steps that write the token raise its activity or are a refresh.     *)
LEMMA UpdateOwnerAdvances ==
  ASSUME IInv, NEW o, NEW t, UpdateOwner(o, t), token' # token
  PROVE  token'.activity > token.activity
<1>1. token.activity < t /\ token'.activity = t
  BY DEF UpdateOwner, WriteToken
<1>. QED
  BY <1>1

LEMMA StepAdvances ==
  ASSUME IInv, [Next]_vars, token' # token
  PROVE  \/ token'.activity > token.activity
         \/ \E r \in Refresher : refresh[r].at = "token" /\ refresh'[r].at = "holder"
<1>1. CASE UNCHANGED vars
  BY <1>1 DEF vars
<1>2. ASSUME NEW p \in Process, LatestStep(p) PROVE token'.activity > token.activity
  <2>1. CASE PushProvenance(p)
    <3>1. /\ token.activity < chain[worker[p]["latest"].event].time
          /\ token'.activity = chain[worker[p]["latest"].event].time
      BY <2>1 DEF PushProvenance, MayPush, WriteToken
    <3>. QED
      BY <3>1
  <2>2. CASE FallBack(p)
    BY <2>2, UpdateOwnerAdvances DEF FallBack
  <2>. QED
    BY <1>2, <2>1, <2>2 DEF LatestStep, SkipBurn, IndexNewOwner
<1>3. ASSUME NEW p \in Process, NEW k \in Kind, WorkerStep(p, k)
      PROVE  token'.activity > token.activity
  <2>1. CASE SyncOwner(p, k)
    BY <2>1, UpdateOwnerAdvances DEF SyncOwner
  <2>. QED
    BY <1>2, <1>3, <2>1 DEF WorkerStep, Take, StartRefresh
<1>4. ASSUME NEW r \in Refresher, RefreshStep(r)
      PROVE  refresh[r].at = "token" /\ refresh'[r].at = "holder"
  <2>1. StoreProvenance(r)
    BY <1>4 DEF RefreshStep, FetchProvenance, StoreHolder, ClearOthers
  <2>. QED
    BY <2>1, Parts DEF StoreProvenance, RefreshOK
<1>. QED
  BY <1>1, <1>3, <1>4 DEF Next, Transfer, PushEvent, FailStage1, FailStage2, Crash,
     RequestRefresh, RetryRefresh, FailHolder

(* Event workers never write an activity that is not newer, whatever the   *)
(* order of their calls.                                                   *)
THEOREM ActivityAdvances == Spec => WorkersAdvance
<1>1. IInv /\ [Next]_vars =>
        [token' # token =>
           \/ token'.activity > token.activity
           \/ \E r \in Refresher : refresh[r].at = "token" /\ refresh'[r].at = "holder"]_vars
  BY StepAdvances
<1>. QED
  BY <1>1, Invariance, PTL DEF Spec, WorkersAdvance
-------------------------------------------------------------------------------
(* Owner and last activity of a document, next to the transfers and events *)
(* they may come from.                                                     *)
OwnedSince(c, e, owner, activity) ==
  \E i \in DOMAIN c :
    /\ owner = c[i].to
    /\ \/ activity = c[i].time
       \/ i <= Len(e) /\ activity = e[i].created

LEMMA OwnerOfActivityIs ==
  /\ OwnerOfActivity <=> OwnedSince(chain, events, token.owner, token.activity)
  /\ OwnerOfActivity' <=> OwnedSince(chain', events', token'.owner, token'.activity)
  BY DEF OwnerOfActivity, OwnedSince

(* No step takes a transfer or an event away or changes when it happened.  *)
LEMMA RecordsStay ==
  ASSUME IInv, [Next]_vars
  PROVE  /\ DOMAIN chain \subseteq DOMAIN chain' /\ Len(events) <= Len(events')
         /\ \A i \in DOMAIN chain : chain'[i] = chain[i]
         /\ \A i \in 1..Len(events) : events'[i].created = events[i].created
<1>1. /\ chain \in Seq([to : Owner, time : Nat])
      /\ events \in Seq([created : Nat, stage : 0..2])
  BY Parts DEF ChainOK, EventsOK
<1>2. CASE UNCHANGED <<chain, events>>
  BY <1>1, <1>2
<1>3. ASSUME NEW o \in Owner, Transfer(o)
      PROVE  /\ DOMAIN chain \subseteq DOMAIN chain' /\ UNCHANGED events
             /\ \A i \in DOMAIN chain : chain'[i] = chain[i]
  <2>1. UNCHANGED events /\ \E t : chain' = Append(chain, [to |-> o, time |-> t])
    BY <1>3 DEF Transfer
  <2>. QED
    BY <1>1, <2>1
<1>4. ASSUME PushEvent
      PROVE  /\ UNCHANGED chain /\ Len(events) <= Len(events')
             /\ \A i \in 1..Len(events) : events'[i].created = events[i].created
  <2>1. UNCHANGED chain /\ \E r : events' = Append(events, r)
    BY <1>4 DEF PushEvent
  <2>. QED
    BY <1>1, <2>1
<1>5. ASSUME NEW p \in Process, NEW k \in Kind, NEW stage, Finish(p, k, stage), UNCHANGED chain
      PROVE  /\ UNCHANGED chain /\ Len(events) <= Len(events')
             /\ \A i \in 1..Len(events) : events'[i].created = events[i].created
  <2>1. events' = [events EXCEPT ![worker[p][k].event].stage = stage]
    BY <1>5 DEF Finish
  <2>2. Len(events') = Len(events)
    BY <1>1, <2>1
  <2>. QED
    BY <1>1, <1>5, <2>1, <2>2
<1>6. "latest" \in Kind
  BY DEF Kind
<1>7. ASSUME NEW p \in Process, NEW k \in Kind,
             WorkerStep(p, k) \/ FailStage1(p) \/ FailStage2(p, k)
      PROVE  \/ UNCHANGED <<chain, events>>
             \/ /\ UNCHANGED chain
                /\ \E l \in Kind, stage \in 0..2 : Finish(p, l, stage)
  BY <1>6, <1>7 DEF WorkerStep, Take, LatestStep, SkipBurn, PushProvenance, FallBack,
     IndexNewOwner, SyncOwner, StartRefresh, FailStage1, FailStage2
<1>8. ASSUME NEW p \in Process, Crash(p) PROVE UNCHANGED <<chain, events>>
  BY <1>8 DEF Crash
<1>9. ASSUME NEW r \in Refresher,
             RequestRefresh(r) \/ RefreshStep(r) \/ RetryRefresh(r) \/ FailHolder(r)
      PROVE  UNCHANGED <<chain, events>>
  BY <1>9 DEF RequestRefresh, RefreshStep, FetchProvenance, StoreProvenance, StoreHolder,
     ClearOthers, RetryRefresh, FailHolder
<1>10. CASE UNCHANGED vars
  BY <1>10, <1>2 DEF vars
<1>11. ASSUME NEW p \in Process, NEW k \in Kind,
              WorkerStep(p, k) \/ FailStage1(p) \/ FailStage2(p, k)
       PROVE  /\ DOMAIN chain \subseteq DOMAIN chain' /\ Len(events) <= Len(events')
              /\ \A i \in DOMAIN chain : chain'[i] = chain[i]
              /\ \A i \in 1..Len(events) : events'[i].created = events[i].created
  BY <1>2, <1>5, <1>7, <1>11
<1>. QED
  BY <1>1, <1>2, <1>3, <1>4, <1>6, <1>8, <1>9, <1>10, <1>11 DEF Next

(* A written owner and activity are those of one transfer.                 *)
LEMMA WrittenTogether ==
  ASSUME IInv, [Next]_vars
  PROVE  \/ token'.owner = token.owner /\ token'.activity = token.activity
         \/ OwnedSince(chain, events, token'.owner, token'.activity)
<1>1. "latest" \in Kind /\ \A p \in Process, k \in Kind : worker[p][k].at = "idle" \/
        /\ worker[p][k].event \in DOMAIN chain /\ worker[p][k].event <= Len(events)
  <2>1. ASSUME NEW p \in Process, NEW k \in Kind, worker[p][k].at # "idle"
        PROVE  worker[p][k].event \in 1..Len(chain) /\ worker[p][k].event \in 1..Len(events)
    BY <2>1, Parts DEF WorkersOK, WorkersHaveEvents, EventsOK, ChainOK
  <2>2. DOMAIN chain = 1..Len(chain) /\ Len(events) \in Nat
    BY Parts DEF ChainOK, EventsOK
  <2>. QED
    BY <2>1, <2>2 DEF Kind
<1>2. ASSUME NEW p \in Process, NEW k \in Kind, worker[p][k].at # "idle",
             UpdateOwner(chain[worker[p][k].event].to, events[worker[p][k].event].created)
      PROVE  \/ token'.owner = token.owner /\ token'.activity = token.activity
             \/ OwnedSince(chain, events, token'.owner, token'.activity)
  BY <1>1, <1>2 DEF UpdateOwner, WriteToken, OwnedSince
<1>3. ASSUME NEW p \in Process, PushProvenance(p)
      PROVE  \/ token'.owner = token.owner /\ token'.activity = token.activity
             \/ OwnedSince(chain, events, token'.owner, token'.activity)
  BY <1>1, <1>3 DEF PushProvenance, WriteToken, OwnedSince
<1>4. ASSUME NEW r \in Refresher, StoreProvenance(r)
      PROVE  OwnedSince(chain, events, token'.owner, token'.activity)
  <2>1. refresh[r].seen \in DOMAIN chain
    BY <1>4, Parts DEF StoreProvenance, RefreshOK, RefreshesHaveRead, ChainOK
  <2>. QED
    BY <1>4, <2>1 DEF StoreProvenance, UpdateTokenProvenance, WriteToken, OwnedSince
<1>5. ASSUME NEW p \in Process, FallBack(p)
      PROVE  \/ token'.owner = token.owner /\ token'.activity = token.activity
             \/ OwnedSince(chain, events, token'.owner, token'.activity)
  BY <1>1, <1>2, <1>5 DEF FallBack
<1>6. ASSUME NEW p \in Process, NEW k \in Kind, SyncOwner(p, k)
      PROVE  \/ token'.owner = token.owner /\ token'.activity = token.activity
             \/ OwnedSince(chain, events, token'.owner, token'.activity)
  BY <1>2, <1>6 DEF SyncOwner
<1>7. ASSUME NEW p \in Process, NEW k \in Kind, WorkerStep(p, k)
      PROVE  \/ UNCHANGED token \/ PushProvenance(p) \/ FallBack(p) \/ SyncOwner(p, k)
  BY <1>7 DEF WorkerStep, Take, LatestStep, SkipBurn, IndexNewOwner, StartRefresh
<1>8. ASSUME NEW r \in Refresher, RefreshStep(r)
      PROVE  UNCHANGED token \/ StoreProvenance(r)
  BY <1>8 DEF RefreshStep, FetchProvenance, StoreHolder, ClearOthers
<1>9. ASSUME NEW p \in Process, NEW k \in Kind, WorkerStep(p, k)
      PROVE  \/ token'.owner = token.owner /\ token'.activity = token.activity
             \/ OwnedSince(chain, events, token'.owner, token'.activity)
  BY <1>3, <1>5, <1>6, <1>7, <1>9
<1>10. UNCHANGED vars => UNCHANGED token
  BY DEF vars
<1>. QED
  BY <1>4, <1>8, <1>9, <1>10 DEF Next, Transfer, PushEvent, FailStage1, FailStage2, Crash,
     RequestRefresh, RetryRefresh, FailHolder

(* The three writers and their guards never mix the owner of one transfer  *)
(* with the time of another (store.go: UpdateOwner, PushProvenance and     *)
(* UpdateTokenProvenance set both fields in one update).                   *)
THEOREM OwnerAndActivityAgree == Spec => []OwnerOfActivity
<1>1. Init => OwnerOfActivity
  BY DEF Init, OwnerOfActivity
<1>2. OwnerOfActivity /\ IInv /\ [Next]_vars => OwnerOfActivity'
  <2> SUFFICES ASSUME OwnerOfActivity, IInv, [Next]_vars PROVE OwnerOfActivity'
    OBVIOUS
  <2>1. OwnedSince(chain, events, token'.owner, token'.activity)
    BY WrittenTogether, OwnerOfActivityIs
  <2>2. PICK i \in DOMAIN chain :
          /\ token'.owner = chain[i].to
          /\ \/ token'.activity = chain[i].time
             \/ i <= Len(events) /\ token'.activity = events[i].created
    BY <2>1 DEF OwnedSince
  <2>3. /\ i \in DOMAIN chain' /\ chain'[i] = chain[i]
        /\ i <= Len(events) => i <= Len(events') /\ events'[i].created = events[i].created
    BY RecordsStay, Parts DEF ChainOK, EventsOK
  <2>4. OwnedSince(chain', events', token'.owner, token'.activity)
    BY <2>2, <2>3 DEF OwnedSince
  <2>. QED
    BY <2>4, OwnerOfActivityIs
<1>. QED
  BY <1>1, <1>2, Invariance, PTL DEF Spec

-----------------------------------------------------------------------------
(* Collections.                                                             *)

Event == [n : Nat \ {0}, kind : Task, series : Series \cup {None},
          old : Artist \cup {None}, new : Artist \cup {None}]

(* The steps of each handler.                                              *)
IsStep(k, at) ==
  \/ at = "done"
  \/ k = "index" /\ at \in {"tokens", "artists", "collect", "filter", "assets", "total"}
  \/ k = "delete" /\ at \in {"find", "delete"}
  \/ k = "replace" /\ at = "replace"
  \/ k = "creators" /\ at \in {"sync", "update"}

Steps == {"idle", "done", "tokens", "artists", "collect", "filter", "assets", "total",
          "find", "delete", "replace", "sync", "update"}

Handler == [at : Steps,
            event : Event \cup {None}, tokens : SUBSET Token, todo : SUBSET Token,
            artists : SUBSET Artist, run : Nat]

Collection == [creators : SUBSET Artist, items : Nat]

Documents ==
  /\ collections \in [Series -> {None} \cup Collection]
  /\ collectionAssets \in [Series -> [Token -> 0..runs]]
  /\ runs \in Nat
  /\ burned \subseteq Token
  /\ disturbed \in [Series -> BOOLEAN]

Events ==
  /\ contract \in [Series -> [live : BOOLEAN, tokens : SUBSET Token, artists : SUBSET Artist]]
  /\ emitted \in Nat
  /\ queue \subseteq Event
  /\ \A e \in queue : /\ e.n <= emitted
                      /\ IF e.kind = "replace" THEN {e.old, e.new} \subseteq Artist /\ e.old # e.new
                                               ELSE e.series \in Series
  /\ \A e, f \in queue : e.n = f.n => e = f

(* A handler at work is at a step of its kind and has an event of its own. *)
Hands ==
  /\ handlers \in [Server -> [Task -> Handler]]
  /\ \A p \in Server, k \in Task :
       /\ handlers[p][k].run <= runs
       /\ IF Doing(p, k, "idle") THEN EventOf(p, k) = None
          ELSE /\ IsStep(k, handlers[p][k].at)
               /\ EventOf(p, k) \in queue /\ EventOf(p, k).kind = k
  /\ \A p, q \in Server, k, l \in Task :
       EventOf(p, k) = EventOf(q, l) /\ EventOf(p, k) # None => p = q /\ k = l

Leaks ==
  /\ leaked \in [Server -> SUBSET queue]
  /\ \A p, q \in Server, k \in Task : EventOf(q, k) \notin leaked[p]

Types == Documents /\ Events /\ Hands /\ Leaks

-------------------------------------------------------------------------------
LEMMA TaskFacts ==
  /\ Task = {"index", "delete", "replace", "creators"}
  /\ FirstStep["index"] = "tokens" /\ FirstStep["delete"] = "find"
  /\ FirstStep["replace"] = "replace" /\ FirstStep["creators"] = "sync"
  /\ \A k \in Task : IsStep(k, FirstStep[k]) /\ IsStep(k, "done")
<1>1. Task = {"index", "delete", "replace", "creators"}
  BY DEF Task, FirstStep
<1>2. /\ FirstStep["index"] = "tokens" /\ FirstStep["delete"] = "find"
      /\ FirstStep["replace"] = "replace" /\ FirstStep["creators"] = "sync"
  BY DEF FirstStep
<1>. QED
  BY <1>1, <1>2 DEF IsStep

LEMMA NoneIsNothing == None \notin Event /\ None \notin Collection
<1>1. Event \subseteq [n : Nat, kind : Task, series : Series \cup {None},
                       old : Artist \cup {None}, new : Artist \cup {None}]
  BY DEF Event
<1>. QED
  BY <1>1, CollectionsAssumption DEF Collection

LEMMA HandlerSteps == \A k \in Task : \A at : IsStep(k, at) => at # "idle"
BY DEF IsStep

(* What a handler has. *)
LEMMA HandFacts ==
  ASSUME Types, NEW p \in Server, NEW k \in Task
  PROVE  /\ handlers[p][k] \in Handler
         /\ Doing(p, k, "idle") <=> EventOf(p, k) = None
         /\ handlers[p][k].at # "idle" =>
              /\ IsStep(k, handlers[p][k].at)
              /\ EventOf(p, k) \in queue /\ EventOf(p, k) \in Event /\ EventOf(p, k).kind = k
              /\ k # "replace" => SeriesOf(p, k) \in Series
<1>1. /\ handlers[p][k] \in Handler
      /\ IF Doing(p, k, "idle") THEN EventOf(p, k) = None
         ELSE /\ IsStep(k, handlers[p][k].at)
              /\ EventOf(p, k) \in queue /\ EventOf(p, k).kind = k
  BY DEF Types, Hands
<1>2. queue \subseteq Event /\ \A e \in queue : e.kind = "replace" \/ e.series \in Series
  BY DEF Types, Events
<1>. QED
  BY <1>1, <1>2, NoneIsNothing DEF Doing, SeriesOf

(* One handler moves, the others do not.                                   *)
Moved(p, k) ==
  /\ handlers' \in [Server -> [Task -> Handler]]
  /\ \A q \in Server, l \in Task : q # p \/ l # k => handlers'[q][l] = handlers[q][l]

LEMMA Becomes ==
  ASSUME Types, NEW p \in Server, NEW k \in Task, NEW h \in Handler,
         handlers' = [handlers EXCEPT ![p][k] = h]
  PROVE  Moved(p, k) /\ handlers'[p][k] = h
BY DEF Types, Hands, Moved

LEMMA NoHandlerIsHandler ==
  NoHandler \in Handler /\ NoHandler.at = "idle" /\ NoHandler.event = None /\ NoHandler.run = 0
BY DEF NoHandler, Handler, Steps

(* A handler goes on with its event, at the next step.                     *)
GoesOn(p, k, at) ==
  /\ Moved(p, k)
  /\ handlers[p][k].at # "idle" /\ handlers'[p][k].at = at
  /\ handlers'[p][k].event = handlers[p][k].event

LEMMA IndexMoves ==
  ASSUME Types, NEW p \in Server
  PROVE  LET old == handlers[p]["index"]
             new == handlers'[p]["index"]
             s == old.event.series
         IN  /\ ReadTokens(p) => /\ GoesOn(p, "index", "artists") /\ old.at = "tokens"
                                 /\ new.tokens = contract[s].tokens /\ new.run = old.run
             /\ ReadArtists(p) => /\ GoesOn(p, "index", "collect") /\ old.at = "artists"
                                  /\ new.tokens = old.tokens /\ new.run = old.run
                                  /\ new.artists = contract[s].artists
             /\ StoreCollection(p) => /\ GoesOn(p, "index", "filter") /\ old.at = "collect"
                                      /\ new.tokens = old.tokens /\ new.run = runs'
                                      /\ new.artists = old.artists
             /\ FilterBurned(p) => /\ GoesOn(p, "index", "assets") /\ old.at = "filter"
                                   /\ new.tokens = old.tokens \ burned /\ new.todo = new.tokens
                                   /\ new.run = old.run /\ new.artists = old.artists
<1> USE TaskFacts
<1> DEFINE job == handlers[p]["index"]
           s == job.event.series
<1>1. /\ "index" \in Task /\ job \in Handler /\ handlers \in [Server -> [Task -> Handler]]
      /\ runs \in Nat
  BY HandFacts DEF Types, Hands, Documents
<1>2. job.at # "idle" => contract[s].tokens \in SUBSET Token /\ contract[s].artists \in SUBSET Artist
  <2>1. job.at # "idle" => s \in Series
    BY <1>1, HandFacts DEF SeriesOf, EventOf
  <2>. QED
    BY <2>1 DEF Types, Events
<1>3. ASSUME ReadTokens(p)
      PROVE  /\ GoesOn(p, "index", "artists") /\ job.at = "tokens"
             /\ handlers'[p]["index"].tokens = contract[s].tokens
             /\ handlers'[p]["index"].run = job.run
  BY <1>1, <1>2, <1>3 DEF ReadTokens, Goes, GoesOn, Doing, Moved, Handler, Steps, EventOf, SeriesOf
<1>4. ASSUME ReadArtists(p)
      PROVE  /\ GoesOn(p, "index", "collect") /\ job.at = "artists"
             /\ handlers'[p]["index"].tokens = job.tokens
             /\ handlers'[p]["index"].run = job.run
             /\ handlers'[p]["index"].artists = contract[s].artists
  BY <1>1, <1>2, <1>4 DEF ReadArtists, Goes, GoesOn, Doing, Moved, Handler, Steps, EventOf, SeriesOf
<1>5. ASSUME StoreCollection(p)
      PROVE  /\ GoesOn(p, "index", "filter") /\ job.at = "collect"
             /\ handlers'[p]["index"].tokens = job.tokens
             /\ handlers'[p]["index"].run = runs'
             /\ handlers'[p]["index"].artists = job.artists
  <2>1. runs' \in Nat
    BY <1>1, <1>5 DEF StoreCollection
  <2>. QED
    BY <1>1, <1>5, <2>1 DEF StoreCollection, Goes, GoesOn, Doing, Moved, Handler, Steps
<1>6. ASSUME FilterBurned(p)
      PROVE  /\ GoesOn(p, "index", "assets") /\ job.at = "filter"
             /\ handlers'[p]["index"].tokens = job.tokens \ burned
             /\ handlers'[p]["index"].todo = handlers'[p]["index"].tokens
             /\ handlers'[p]["index"].run = job.run /\ handlers'[p]["index"].artists = job.artists
  BY <1>1, <1>6 DEF FilterBurned, Goes, GoesOn, Doing, Moved, Handler, Steps
<1>. QED
  BY <1>3, <1>4, <1>5, <1>6

LEMMA AssetMoves ==
  ASSUME Types, NEW p \in Server
  PROVE  LET old == handlers[p]["index"]
             new == handlers'[p]["index"]
             s == old.event.series
         IN  /\ IndexCollectionAsset(p) =>
                  /\ GoesOn(p, "index", "assets") /\ old.at = "assets"
                  /\ new.tokens = old.tokens /\ new.run = old.run /\ new.artists = old.artists
                  /\ \E t \in old.todo :
                       /\ new.todo = old.todo \ {t}
                       /\ collectionAssets' = [collectionAssets EXCEPT ![s][t] = old.run]
             /\ DeleteDeprecatedCollectionAsset(p) =>
                  /\ GoesOn(p, "index", "total") /\ old.at = "assets" /\ old.todo = {}
                  /\ new.tokens = old.tokens /\ new.run = old.run /\ new.artists = old.artists
             /\ UpdateTotal(p) => GoesOn(p, "index", "done") /\ old.at = "total" /\ new.run = 0
<1> USE TaskFacts
<1> DEFINE job == handlers[p]["index"]
           s == job.event.series
<1>1. "index" \in Task /\ job \in Handler /\ handlers \in [Server -> [Task -> Handler]]
  BY HandFacts DEF Types, Hands
<1>2. ASSUME IndexCollectionAsset(p)
      PROVE  /\ GoesOn(p, "index", "assets") /\ job.at = "assets"
             /\ handlers'[p]["index"].tokens = job.tokens
             /\ handlers'[p]["index"].run = job.run
             /\ handlers'[p]["index"].artists = job.artists
             /\ \E t \in job.todo :
                       /\ handlers'[p]["index"].todo = job.todo \ {t}
                       /\ collectionAssets' = [collectionAssets EXCEPT ![s][t] = job.run]
  <2>1. PICK t \in job.todo :
           /\ collectionAssets' = [collectionAssets EXCEPT ![s][t] = job.run]
           /\ handlers' = [handlers EXCEPT ![p]["index"].todo = @ \ {t}]
    BY <1>2 DEF IndexCollectionAsset, SeriesOf, EventOf
  <2>2. job.at = "assets"
    BY <1>2 DEF IndexCollectionAsset, Doing
  <2>. QED
    BY <1>1, <2>1, <2>2 DEF GoesOn, Moved, Handler
<1>3. ASSUME DeleteDeprecatedCollectionAsset(p)
      PROVE  /\ GoesOn(p, "index", "total") /\ job.at = "assets" /\ job.todo = {}
             /\ handlers'[p]["index"].tokens = job.tokens
             /\ handlers'[p]["index"].run = job.run
             /\ handlers'[p]["index"].artists = job.artists
  BY <1>1, <1>3 DEF DeleteDeprecatedCollectionAsset, Goes, GoesOn, Doing, Moved, Handler, Steps
<1>4. ASSUME UpdateTotal(p)
      PROVE  /\ GoesOn(p, "index", "done") /\ job.at = "total"
             /\ handlers'[p]["index"].run = 0
  <2>1. handlers' = Completes(p, "index") /\ job.at = "total"
    BY <1>4 DEF UpdateTotal, Doing
  <2>. QED
    BY <1>1, <2>1, NoHandlerIsHandler
       DEF Completes, GoesOn, Moved, Handler, Steps, EventOf, NoHandler
<1>. QED
  BY <1>2, <1>3, <1>4

LEMMA OtherMoves ==
  ASSUME Types, NEW p \in Server
  PROVE  /\ FindCollection(p) =>
              \E at \in {"done", "delete"} :
                /\ GoesOn(p, "delete", at) /\ handlers[p]["delete"].at = "find"
                /\ at = "done" <=> collections[SeriesOf(p, "delete")] = None
                /\ handlers'[p]["delete"].run = handlers[p]["delete"].run
         /\ DeleteCollection(p) => /\ GoesOn(p, "delete", "done") /\ handlers[p]["delete"].at = "delete"
                                   /\ handlers'[p]["delete"].run = 0
         /\ ReplaceCollectionCreator(p) =>
                /\ GoesOn(p, "replace", "done") /\ handlers[p]["replace"].at = "replace"
                /\ handlers'[p]["replace"].run = 0
         /\ ReadCreators(p) =>
                /\ GoesOn(p, "creators", "update") /\ handlers[p]["creators"].at = "sync"
                /\ handlers'[p]["creators"].artists = contract[SeriesOf(p, "creators")].artists
                /\ handlers'[p]["creators"].run = handlers[p]["creators"].run
         /\ UpdateCollectionCreators(p) =>
                /\ GoesOn(p, "creators", "done") /\ handlers[p]["creators"].at = "update"
                /\ handlers'[p]["creators"].run = 0
<1> USE TaskFacts
<1>1. /\ handlers \in [Server -> [Task -> Handler]]
      /\ \A k \in Task : handlers[p][k] \in Handler
  BY HandFacts DEF Types, Hands
<1>2. ASSUME FindCollection(p)
      PROVE  \E at \in {"done", "delete"} :
                /\ GoesOn(p, "delete", at) /\ handlers[p]["delete"].at = "find"
                /\ at = "done" <=> collections[SeriesOf(p, "delete")] = None
                /\ handlers'[p]["delete"].run = handlers[p]["delete"].run
  <2> DEFINE at == IF collections[SeriesOf(p, "delete")] = None THEN "done" ELSE "delete"
  <2>1. at \in {"done", "delete"} /\ (at = "done" <=> collections[SeriesOf(p, "delete")] = None)
    OBVIOUS
  <2>2. handlers' = Goes(p, "delete", at) /\ handlers[p]["delete"].at = "find"
    BY <1>2 DEF FindCollection, Doing
  <2> HIDE DEF at
  <2>3. GoesOn(p, "delete", at) /\ handlers'[p]["delete"].run = handlers[p]["delete"].run
    BY <1>1, <2>1, <2>2 DEF Goes, GoesOn, Moved, Handler, Steps
  <2>. QED
    BY <2>1, <2>2, <2>3
<1>3. ASSUME DeleteCollection(p)
      PROVE  /\ GoesOn(p, "delete", "done") /\ handlers[p]["delete"].at = "delete"
             /\ handlers'[p]["delete"].run = 0
  BY <1>1, <1>3, NoHandlerIsHandler
     DEF DeleteCollection, Completes, GoesOn, Doing, Moved, Handler, Steps, EventOf, NoHandler
<1>4. ASSUME ReplaceCollectionCreator(p)
      PROVE  /\ GoesOn(p, "replace", "done") /\ handlers[p]["replace"].at = "replace"
             /\ handlers'[p]["replace"].run = 0
  BY <1>1, <1>4, NoHandlerIsHandler
     DEF ReplaceCollectionCreator, Completes, GoesOn, Doing, Moved, Handler, Steps, EventOf, NoHandler
<1>5. ASSUME ReadCreators(p)
      PROVE  /\ GoesOn(p, "creators", "update") /\ handlers[p]["creators"].at = "sync"
             /\ handlers'[p]["creators"].artists = contract[SeriesOf(p, "creators")].artists
             /\ handlers'[p]["creators"].run = handlers[p]["creators"].run
  <2>1. handlers[p]["creators"].at = "sync"
    BY <1>5 DEF ReadCreators, Doing
  <2>2. contract[SeriesOf(p, "creators")].artists \in SUBSET Artist
    BY <2>1, HandFacts DEF Types, Events
  <2>. QED
    BY <1>1, <1>5, <2>1, <2>2 DEF ReadCreators, Goes, GoesOn, Moved, Handler, Steps
<1>6. ASSUME UpdateCollectionCreators(p)
      PROVE  /\ GoesOn(p, "creators", "done") /\ handlers[p]["creators"].at = "update"
             /\ handlers'[p]["creators"].run = 0
  BY <1>1, <1>6, NoHandlerIsHandler
     DEF UpdateCollectionCreators, Completes, GoesOn, Doing, Moved, Handler, Steps, EventOf, NoHandler
<1>. QED
  BY <1>2, <1>3, <1>4, <1>5, <1>6

-------------------------------------------------------------------------------
(* The types.                                                              *)
LEMMA InitTypes == CollectionsInit => Types
<1> SUFFICES ASSUME CollectionsInit PROVE Types
  OBVIOUS
<1> USE NoHandlerIsHandler
<1>1. Gone \in [live : BOOLEAN, tokens : SUBSET Token, artists : SUBSET Artist]
  BY DEF Gone
<1>2. Documents /\ Events
  BY <1>1 DEF CollectionsInit, Documents, Events
<1>3. handlers \in [Server -> [Task -> Handler]] /\ runs = 0
      /\ \A p \in Server, k \in Task : handlers[p][k] = NoHandler
  BY DEF CollectionsInit
<1>4. Hands /\ Leaks
  BY <1>3 DEF CollectionsInit, Hands, Leaks, Doing, EventOf
<1>. QED
  BY <1>2, <1>4 DEF Types

LEMMA GoesOnHands ==
  ASSUME Types, NEW p \in Server, NEW k \in Task, NEW at, IsStep(k, at), GoesOn(p, k, at),
         handlers'[p][k].run <= runs', runs \in Nat, runs' \in Nat, runs <= runs',
         UNCHANGED <<queue, leaked>>
  PROVE  Hands' /\ Leaks'
<1>1. handlers' \in [Server -> [Task -> Handler]]
  BY DEF GoesOn, Moved
<1>2. \A q \in Server, l \in Task : EventOf(q, l)' = EventOf(q, l)
  BY DEF GoesOn, Moved, EventOf
<1>3. \A q \in Server, l \in Task : handlers[q][l].run \in Nat /\ handlers[q][l].run <= runs
  BY HandFacts DEF Handler, Types, Hands
<1>4. \A q \in Server, l \in Task : handlers'[q][l].run <= runs'
  BY <1>1, <1>3 DEF GoesOn, Moved
<1>5. ASSUME NEW q \in Server, NEW l \in Task
      PROVE  IF Doing(q, l, "idle")' THEN EventOf(q, l)' = None
             ELSE /\ IsStep(l, handlers'[q][l].at)
                  /\ EventOf(q, l)' \in queue' /\ EventOf(q, l)'.kind = l
  BY <1>2, HandFacts, HandlerSteps DEF GoesOn, Moved, Doing
<1>6. \A q, r \in Server, l, m \in Task :
       EventOf(q, l)' = EventOf(r, m)' /\ EventOf(q, l)' # None => q = r /\ l = m
  BY <1>2 DEF Types, Hands
<1>7. Leaks'
  BY <1>2 DEF Types, Leaks
<1>. QED
  BY <1>1, <1>4, <1>5, <1>6, <1>7 DEF Hands

(* Handlers may lose their event, which may leave the queue then.          *)
LEMMA DropsHands ==
  ASSUME Types, UNCHANGED runs, handlers' \in [Server -> [Task -> Handler]],
         \A p \in Server, k \in Task : handlers'[p][k] \in {handlers[p][k], NoHandler},
         queue' \subseteq queue, leaked' \in [Server -> SUBSET queue'],
         \A p \in Server, k \in Task :
           EventOf(p, k)' # None => /\ EventOf(p, k) \in queue'
                                    /\ \A q \in Server : EventOf(p, k) \notin leaked'[q]
  PROVE  Hands' /\ Leaks'
<1>0. \A q \in Server, l \in Task : 0 <= runs
  BY DEF Types, Documents
<1>1. \A q \in Server, l \in Task :
        \/ handlers'[q][l] = handlers[q][l] /\ EventOf(q, l)' = EventOf(q, l)
        \/ handlers'[q][l] = NoHandler /\ EventOf(q, l)' = None
  BY NoHandlerIsHandler DEF EventOf
<1>2. \A q \in Server, l \in Task : handlers'[q][l].run <= runs'
  BY <1>0, <1>1, NoHandlerIsHandler DEF Types, Hands
<1>3. ASSUME NEW q \in Server, NEW l \in Task
      PROVE  IF Doing(q, l, "idle")' THEN EventOf(q, l)' = None
             ELSE /\ IsStep(l, handlers'[q][l].at)
                  /\ EventOf(q, l)' \in queue' /\ EventOf(q, l)'.kind = l
  BY <1>1, HandFacts, NoHandlerIsHandler DEF Doing
<1>4. \A q, r \in Server, l, m \in Task :
       EventOf(q, l)' = EventOf(r, m)' /\ EventOf(q, l)' # None => q = r /\ l = m
  BY <1>1 DEF Types, Hands
<1>5. None \notin queue'
  BY NoneIsNothing DEF Types, Events
<1>6. Leaks'
  BY <1>1, <1>5 DEF Leaks
<1>. QED
  BY <1>2, <1>3, <1>4, <1>6 DEF Hands

LEMMA CardinalityIsNat == \A T \in SUBSET Token : Cardinality(T) \in Nat
BY CollectionsAssumption, FS_Subset, FS_CardinalityType

LEMMA DisturbTypes ==
  ASSUME Types, NEW p, NEW k, NEW S, Disturb(p, k, S)
  PROVE  /\ disturbed' \in [Series -> BOOLEAN]
         /\ \A s \in Series : disturbed[s] => disturbed'[s]
         /\ \A s \in S : s \in Series /\ ~ disturbed'[s] =>
              ~ OthersInFlight(p, k, s) /\ ~ OutOfOrder(p, k)
BY DEF Disturb, Types, Documents

LEMMA IndexTypes ==
  ASSUME Types, NEW p \in Server,
         \/ ReadTokens(p) \/ ReadArtists(p) \/ StoreCollection(p) \/ FilterBurned(p)
         \/ IndexCollectionAsset(p) \/ DeleteDeprecatedCollectionAsset(p) \/ UpdateTotal(p)
  PROVE  Types'
<1> DEFINE job == handlers[p]["index"]
           s == job.event.series
<1>0. "index" \in Task /\ runs \in Nat
  BY TaskFacts DEF Types, Documents
<1>1. /\ job \in Handler /\ handlers[p]["index"].run <= runs
      /\ \E at : IsStep("index", at) /\ GoesOn(p, "index", at)
      /\ UNCHANGED <<contract, emitted, queue, leaked, burned>>
      /\ runs' \in Nat /\ runs <= runs' /\ handlers'[p]["index"].run <= runs'
  <2>1. job \in Handler /\ job.run <= runs /\ job.run \in Nat
    BY <1>0, HandFacts DEF Types, Hands, Handler
  <2>2. /\ UNCHANGED <<contract, emitted, queue, leaked, burned>>
        /\ runs' \in Nat /\ runs <= runs' /\ (StoreCollection(p) \/ runs' = runs)
    BY <1>0 DEF ReadTokens, ReadArtists, StoreCollection, FilterBurned, IndexCollectionAsset,
       DeleteDeprecatedCollectionAsset, UpdateTotal
  <2>3. \A at \in {"artists", "collect", "filter", "assets", "total", "done"} : IsStep("index", at)
    BY DEF IsStep
  <2>4. handlers'[p]["index"].run \in {job.run, runs', 0}
    BY IndexMoves, AssetMoves
  <2>5. \E at \in {"artists", "collect", "filter", "assets", "total", "done"} : GoesOn(p, "index", at)
    BY IndexMoves, AssetMoves
  <2>. QED
    BY <1>0, <2>1, <2>2, <2>3, <2>4, <2>5
<1>2. Hands' /\ Leaks'
  BY <1>0, <1>1, GoesOnHands
<1>3. s \in Series /\ SeriesOf(p, "index") = s /\ job.at # "idle"
  BY <1>0, <1>1, HandFacts DEF GoesOn, SeriesOf, EventOf
<1>4. Events'
  BY <1>1 DEF Types, Events
<1>5. disturbed' \in [Series -> BOOLEAN]
  <2>1. CASE ReadTokens(p)
    BY <2>1 DEF ReadTokens, Types, Documents
  <2>2. CASE UNCHANGED disturbed
    BY <2>2 DEF Types, Documents
  <2>3. CASE Disturb(p, "index", {s})
    BY <2>3, DisturbTypes
  <2>. QED
    BY <1>3, <2>1, <2>2, <2>3 DEF ReadArtists, StoreCollection, FilterBurned, IndexCollectionAsset,
       DeleteDeprecatedCollectionAsset, UpdateTotal, IndexCollection
<1>6. collections' \in [Series -> {None} \cup Collection]
  <2>1. CASE UNCHANGED collections
    BY <2>1 DEF Types, Documents
  <2>2. CASE IndexCollection(p)
    <3>1. [creators |-> job.artists, items |-> Cardinality(job.tokens)] \in Collection
      BY <1>1, CardinalityIsNat DEF Handler, Collection
    <3>. QED
      BY <2>2, <3>1 DEF IndexCollection, Types, Documents
  <2>. QED
    BY <2>1, <2>2 DEF ReadTokens, ReadArtists, StoreCollection, FilterBurned, IndexCollectionAsset,
       DeleteDeprecatedCollectionAsset, UpdateTotal
<1>7. collectionAssets' \in [Series -> [Token -> 0..runs']]
  <2>0. collectionAssets \in [Series -> [Token -> 0..runs']]
    BY <1>0, <1>1 DEF Types, Documents
  <2>1. CASE UNCHANGED collectionAssets
    BY <2>0, <2>1
  <2>2. CASE IndexCollectionAsset(p)
    <3>1. PICK t \in job.todo : collectionAssets' = [collectionAssets EXCEPT ![s][t] = job.run]
      BY <2>2 DEF IndexCollectionAsset, SeriesOf, EventOf
    <3>2. t \in Token /\ job.run \in 0..runs'
      BY <1>0, <1>1 DEF Handler
    <3>. QED
      BY <2>0, <3>1, <3>2
  <2>3. CASE DeleteDeprecatedCollectionAsset(p)
    <3>1. collectionAssets' = [collectionAssets EXCEPT ![s] =
             [t \in Token |-> IF Deprecated(job.run, collectionAssets[s][t]) THEN 0
                              ELSE collectionAssets[s][t]]]
      BY <2>3 DEF DeleteDeprecatedCollectionAsset, SeriesOf, EventOf
    <3>2. [t \in Token |-> IF Deprecated(job.run, collectionAssets[s][t]) THEN 0
                              ELSE collectionAssets[s][t]] \in [Token -> 0..runs']
      BY <1>1, <1>3, <2>0
    <3>. QED
      BY <2>0, <3>1, <3>2
  <2>. QED
    BY <2>1, <2>2, <2>3 DEF ReadTokens, ReadArtists, StoreCollection, FilterBurned, UpdateTotal
<1>. QED
  BY <1>1, <1>2, <1>4, <1>5, <1>6, <1>7 DEF Types, Documents

LEMMA OtherTypes ==
  ASSUME Types, NEW p \in Server,
         \/ FindCollection(p) \/ DeleteCollection(p) \/ ReplaceCollectionCreator(p)
         \/ ReadCreators(p) \/ UpdateCollectionCreators(p)
  PROVE  Types'
<1>0. Task = {"index", "delete", "replace", "creators"} /\ runs \in Nat
  BY TaskFacts DEF Types, Documents
<1>1. PICK k \in Task :
        \E at : /\ IsStep(k, at) /\ GoesOn(p, k, at)
                /\ handlers'[p][k].run \in {handlers[p][k].run, 0}
  <2>1. /\ IsStep("delete", "delete") /\ IsStep("delete", "done") /\ IsStep("replace", "done")
        /\ IsStep("creators", "update") /\ IsStep("creators", "done")
    BY DEF IsStep
  <2>. QED
    BY <1>0, <2>1, OtherMoves
<1>2. UNCHANGED <<contract, emitted, queue, leaked, burned, runs>>
  BY DEF FindCollection, DeleteCollection, ReplaceCollectionCreator, ReadCreators,
     UpdateCollectionCreators
<1>3. handlers[p][k].run \in Nat /\ handlers[p][k].run <= runs
  BY HandFacts DEF Types, Hands, Handler
<1>4. Hands' /\ Leaks'
  BY <1>0, <1>1, <1>2, <1>3, GoesOnHands
<1>5. Events'
  BY <1>2 DEF Types, Events
<1>6. disturbed' \in [Series -> BOOLEAN]
  <2>1. UNCHANGED disturbed \/ \E l, S : Disturb(p, l, S)
    BY DEF FindCollection, DeleteCollection, ReplaceCollectionCreator, ReadCreators,
       UpdateCollectionCreators
  <2>. QED
    BY <2>1, DisturbTypes DEF Types, Documents
<1>7. collections' \in [Series -> {None} \cup Collection]
  <2>0. collections \in [Series -> {None} \cup Collection]
    BY DEF Types, Documents
  <2>1. CASE UNCHANGED collections
    BY <2>0, <2>1
  <2>2. CASE DeleteCollection(p)
    BY <2>0, <2>2 DEF DeleteCollection
  <2>3. CASE ReplaceCollectionCreator(p)
    <3> DEFINE e == EventOf(p, "replace")
    <3>1. e.new \in Artist
      <4>1. e \in queue /\ e.kind = "replace"
        BY <1>0, <2>3, HandFacts DEF ReplaceCollectionCreator, Doing
      <4>. QED
        BY <4>1 DEF Types, Events
    <3>2. \A A \in SUBSET Artist : Replaced(A, e.old, e.new) \in SUBSET Artist
      BY <3>1 DEF Replaced
    <3>3. ASSUME NEW s \in Series PROVE collections'[s] \in {None} \cup Collection
      <4>1. collections'[s] = IF collections[s] = None THEN None
              ELSE [collections[s] EXCEPT !.creators = Replaced(@, e.old, e.new)]
        BY <2>3 DEF ReplaceCollectionCreator
      <4>. QED
        BY <2>0, <3>2, <4>1 DEF Collection
    <3>4. collections' = [s \in Series |-> collections'[s]]
      BY <2>3 DEF ReplaceCollectionCreator
    <3>. QED
      BY <3>3, <3>4
  <2>4. CASE UpdateCollectionCreators(p)
    <3>1. handlers[p]["creators"].artists \in SUBSET Artist
      BY <1>0, HandFacts DEF Handler
    <3>. QED
      BY <2>0, <2>4, <3>1 DEF UpdateCollectionCreators, SyncedCreators, Collection
  <2>. QED
    BY <2>1, <2>2, <2>3, <2>4 DEF FindCollection, ReadCreators
<1>8. collectionAssets' \in [Series -> [Token -> 0..runs']]
  <2>0. collectionAssets \in [Series -> [Token -> 0..runs']] /\ 0 \in 0..runs'
    BY <1>0, <1>2 DEF Types, Documents
  <2>1. CASE DeleteCollection(p)
    BY <2>0, <2>1 DEF DeleteCollection, RemainingAsset
  <2>. QED
    BY <2>0, <2>1 DEF FindCollection, ReplaceCollectionCreator, ReadCreators,
       UpdateCollectionCreators
<1>. QED
  BY <1>0, <1>2, <1>4, <1>5, <1>6, <1>7, <1>8 DEF Types, Documents

(* What the steps of the contract have in common: a newer event.           *)
Emits(kind, s, old, new) ==
  \E e \in Event :
    /\ e.n = emitted + 1 /\ e.kind = kind /\ e.series = s /\ e.old = old /\ e.new = new
    /\ emitted' = emitted + 1 /\ queue' = queue \cup {e}
    /\ \A f \in queue : f.n < e.n
    /\ UNCHANGED <<leaked, handlers, burned, collections, collectionAssets, runs, disturbed>>

LEMMA EmitEmits ==
  ASSUME Types, NEW kind \in Task, NEW s \in Series \cup {None},
         NEW old \in Artist \cup {None}, NEW new \in Artist \cup {None}, Emit(kind, s, old, new)
  PROVE  Emits(kind, s, old, new)
<1> DEFINE e == [n |-> emitted + 1, kind |-> kind, series |-> s, old |-> old, new |-> new]
<1>1. emitted \in Nat
  BY DEF Types, Events
<1>2. e \in Event
  BY <1>1 DEF Event
<1>3. emitted' = emitted + 1 /\ queue' = queue \cup {e}
  BY DEF Emit
<1>4. \A f \in queue : f.n < e.n
  BY <1>1 DEF Types, Events, Event
<1>. QED
  BY <1>2, <1>3, <1>4 DEF Emits, Emit

ContractSteps(kind, s) ==
  \/ kind = "index" /\ \E first \in Registered : RegisterSeries(s, first[1], first[2])
  \/ kind = "index" /\ \E T \in TokenData : UpdateSeries(s, T)
  \/ kind = "delete" /\ DeleteSeries(s)
  \/ kind = "creators" /\ \E A \in ArtistData : Opt(s, A)

LEMMA ContractEmits ==
  ASSUME Types, NEW kind \in Task, NEW s \in Series, ContractSteps(kind, s)
  PROVE  /\ Emits(kind, s, None, None)
         /\ contract' \in [Series -> [live : BOOLEAN, tokens : SUBSET Token, artists : SUBSET Artist]]
         /\ \A r \in Series : r # s => contract'[r] = contract[r]
<1>1. Emit(kind, s, None, None)
  BY DEF ContractSteps, RegisterSeries, UpdateSeries, DeleteSeries, Opt
<1>2. contract \in [Series -> [live : BOOLEAN, tokens : SUBSET Token, artists : SUBSET Artist]]
  BY DEF Types, Events
<1>3. /\ contract' \in [Series -> [live : BOOLEAN, tokens : SUBSET Token, artists : SUBSET Artist]]
      /\ \A r \in Series : r # s => contract'[r] = contract[r]
  <2>1. CASE \E first \in Registered : RegisterSeries(s, first[1], first[2])
    <3>1. PICK first \in Registered : RegisterSeries(s, first[1], first[2])
      BY <2>1
    <3>2. first[1] \in SUBSET Token /\ first[2] \in SUBSET Artist
      BY <3>1, CollectionsAssumption
    <3>. QED
      BY <1>2, <3>1, <3>2 DEF RegisterSeries
  <2>2. CASE \E T \in TokenData : UpdateSeries(s, T)
    <3>1. PICK T \in SUBSET Token : contract' = [contract EXCEPT ![s].tokens = T]
      BY <2>2, CollectionsAssumption DEF UpdateSeries
    <3>. QED
      BY <1>2, <3>1
  <2>3. CASE DeleteSeries(s)
    BY <1>2, <2>3 DEF DeleteSeries, Gone
  <2>4. CASE \E A \in ArtistData : Opt(s, A)
    <3>1. PICK A \in SUBSET Artist : contract' = [contract EXCEPT ![s].artists = A]
      BY <2>4, CollectionsAssumption DEF Opt
    <3>. QED
      BY <1>2, <3>1
  <2>. QED
    BY <2>1, <2>2, <2>3, <2>4 DEF ContractSteps
<1>. QED
  BY <1>1, <1>3, EmitEmits

LEMMA AddressEmits ==
  ASSUME Types, NEW old \in Artist, NEW new \in Artist, UpdateArtistAddress(old, new)
  PROVE  /\ Emits("replace", None, old, new)
         /\ contract' \in [Series -> [live : BOOLEAN, tokens : SUBSET Token, artists : SUBSET Artist]]
         /\ \A s \in Series : /\ contract'[s].live = contract[s].live
                              /\ contract'[s].tokens = contract[s].tokens
                              /\ contract'[s].artists = Replaced(contract[s].artists, old, new)
<1>1. Emits("replace", None, old, new)
  BY TaskFacts, EmitEmits DEF UpdateArtistAddress
<1>2. contract \in [Series -> [live : BOOLEAN, tokens : SUBSET Token, artists : SUBSET Artist]]
  BY DEF Types, Events
<1>3. \A A \in SUBSET Artist : Replaced(A, old, new) \in SUBSET Artist
  BY DEF Replaced
<1>4. ASSUME NEW s \in Series
      PROVE  /\ contract'[s] \in [live : BOOLEAN, tokens : SUBSET Token, artists : SUBSET Artist]
             /\ contract'[s].live = contract[s].live
             /\ contract'[s].tokens = contract[s].tokens
             /\ contract'[s].artists = Replaced(contract[s].artists, old, new)
  <2>1. contract'[s] = [contract[s] EXCEPT !.artists = Replaced(@, old, new)]
    BY DEF UpdateArtistAddress
  <2>. QED
    BY <1>2, <1>3, <2>1
<1>5. contract' = [s \in Series |-> contract'[s]]
  BY DEF UpdateArtistAddress
<1>. QED
  BY <1>1, <1>4, <1>5

LEMMA EmitTypes ==
  ASSUME Types, NEW kind, NEW s, NEW old, NEW new, Emits(kind, s, old, new),
         IF kind = "replace" THEN {old, new} \subseteq Artist /\ old # new ELSE s \in Series,
         contract' \in [Series -> [live : BOOLEAN, tokens : SUBSET Token, artists : SUBSET Artist]]
  PROVE  Types'
<1>1. PICK e \in Event :
         /\ e.n = emitted + 1 /\ e.kind = kind /\ e.series = s /\ e.old = old /\ e.new = new
         /\ emitted' = emitted + 1 /\ queue' = queue \cup {e}
         /\ \A f \in queue : f.n < e.n
         /\ UNCHANGED <<leaked, handlers, burned, collections, collectionAssets, runs, disturbed>>
  BY DEF Emits
<1>2. emitted \in Nat /\ queue \subseteq Event /\ \A f \in queue : f.n \in Nat
  BY DEF Types, Events, Event
<1>3. Documents'
  BY <1>1 DEF Types, Documents
<1>4. Events'
  BY <1>1, <1>2 DEF Types, Events
<1>5. Hands'
  BY <1>1 DEF Types, Hands, Doing, EventOf
<1>6. Leaks'
  <2>1. e \notin queue
    BY <1>1, <1>2
  <2>. QED
    BY <1>1, <2>1 DEF Types, Leaks, EventOf
<1>. QED
  BY <1>3, <1>4, <1>5, <1>6 DEF Types

LEMMA TakeMoves ==
  ASSUME Types, NEW p \in Server, NEW k \in Task, TakeEvent(p, k)
  PROVE  /\ EventOf(p, k) = None
         /\ handlers'[p][k].at = FirstStep[k] /\ handlers'[p][k].run = 0
         /\ handlers'[p][k].event \in Unlocked /\ handlers'[p][k].event.kind = k
         /\ Moved(p, k)
<1>1. PICK e \in Unlocked : e.kind = k /\ handlers' = [handlers EXCEPT ![p][k] =
                               [NoHandler EXCEPT !.at = FirstStep[k], !.event = e]]
  BY DEF TakeEvent
<1>2. e \in Event
  BY <1>1 DEF Unlocked, Types, Events
<1>3. FirstStep[k] \in Steps
  BY TaskFacts DEF Steps
<1>4. NoHandler \in Handler /\ NoHandler.run = 0
  BY NoHandlerIsHandler
<1>5. PICK h : h = [NoHandler EXCEPT !.at = FirstStep[k], !.event = e]
  OBVIOUS
<1>6. h \in Handler /\ h.at = FirstStep[k] /\ h.event = e /\ h.run = 0
  BY <1>2, <1>3, <1>4, <1>5 DEF Handler
<1>7. Moved(p, k) /\ handlers'[p][k] = h
  <2>1. handlers' = [handlers EXCEPT ![p][k] = h]
    BY <1>1, <1>5, Zenon
  <2>. QED
    BY <1>6, <2>1, Becomes
<1>8. EventOf(p, k) = None
  BY HandFacts DEF TakeEvent
<1>. QED
  BY <1>1, <1>6, <1>7, <1>8

LEMMA TakeTypes ==
  ASSUME Types, NEW p \in Server, NEW k \in Task, TakeEvent(p, k)
  PROVE  Types'
<1>1. UNCHANGED <<contract, emitted, queue, leaked, burned, collections, collectionAssets, runs,
                  disturbed>>
  BY DEF TakeEvent
<1>2. PICK e : e = handlers'[p][k].event
  OBVIOUS
<1>3. /\ e \in queue /\ e.kind = k /\ \A q \in Server : e \notin leaked[q]
      /\ \A q \in Server, l \in Task : EventOf(q, l) # e
  <2>1. e \in Event /\ e # None
    BY <1>2, TakeMoves, NoneIsNothing DEF Unlocked, Types, Events
  <2>. QED
    BY <1>2, <2>1, TakeMoves DEF Unlocked, InHand
<1>4. /\ EventOf(p, k)' = e
      /\ \A q \in Server, l \in Task : q # p \/ l # k => EventOf(q, l)' = EventOf(q, l)
  BY <1>2, TakeMoves DEF Moved, EventOf
<1>5. Hands'
  <2>1. \A q \in Server, l \in Task : handlers'[q][l].run <= runs'
    BY <1>1, TakeMoves DEF Moved, Types, Hands, Documents
  <2>2. ASSUME NEW q \in Server, NEW l \in Task
        PROVE  IF Doing(q, l, "idle")' THEN EventOf(q, l)' = None
               ELSE /\ IsStep(l, handlers'[q][l].at)
                    /\ EventOf(q, l)' \in queue' /\ EventOf(q, l)'.kind = l
    <3>1. CASE q = p /\ l = k
      BY <1>1, <1>3, <1>4, <3>1, TakeMoves, TaskFacts, HandlerSteps DEF Doing
    <3>2. CASE ~ (q = p /\ l = k)
      BY <1>1, <1>4, <3>2, TakeMoves, HandFacts DEF Doing, Moved
    <3>. QED
      BY <3>1, <3>2
  <2>3. \A q, r \in Server, l, m \in Task :
       EventOf(q, l)' = EventOf(r, m)' /\ EventOf(q, l)' # None => q = r /\ l = m
    BY <1>3, <1>4 DEF Types, Hands
  <2>4. handlers' \in [Server -> [Task -> Handler]]
    BY TakeMoves DEF Moved
  <2>. QED
    BY <2>1, <2>2, <2>3, <2>4 DEF Hands
<1>6. Leaks'
  BY <1>1, <1>3, <1>4 DEF Types, Leaks
<1>. QED
  BY <1>1, <1>5, <1>6 DEF Types, Documents, Events

(* The steps at which handlers lose their event.                           *)
DropStep ==
  \/ \E p \in Server, k \in Task : FinishEvent(p, k)
  \/ \E p \in Server, k \in Task : LoseCommit(p, k)
  \/ \E p \in Server : NoSeries(p)
  \/ \E p \in Server, k \in Task : Fail(p, k)
  \/ \E p \in Server : RestartServer(p)

(* Only a handler that is done lets its event go. *)
LEMMA DropMoves ==
  ASSUME Types, DropStep
  PROVE  /\ handlers' \in [Server -> [Task -> Handler]]
         /\ \A p \in Server, k \in Task : handlers'[p][k] \in {handlers[p][k], NoHandler}
         /\ leaked' \in [Server -> SUBSET queue']
         /\ \A p \in Server, k \in Task :
               EventOf(p, k)' # None => /\ EventOf(p, k) \in queue'
                                        /\ \A q \in Server : EventOf(p, k) \notin leaked'[q]
         /\ \/ queue' = queue
            \/ \E p \in Server, k \in Task :
                 Doing(p, k, "done") /\ queue' = queue \ {EventOf(p, k)}
         /\ UNCHANGED <<contract, emitted, burned, collections, collectionAssets, runs, disturbed>>
<1>0. handlers \in [Server -> [Task -> Handler]] /\ NoHandler \in Handler
  BY NoHandlerIsHandler DEF Types, Hands
<1>1. /\ leaked \in [Server -> SUBSET queue]
      /\ \A p, q \in Server, k \in Task : EventOf(q, k) \notin leaked[p]
  BY DEF Types, Leaks
<1>2. /\ \A q \in Server, l \in Task : EventOf(q, l) # None => EventOf(q, l) \in queue
      /\ \A p, q \in Server, k, l \in Task :
           EventOf(p, k) = EventOf(q, l) /\ EventOf(p, k) # None => p = q /\ k = l
  BY HandFacts DEF Types, Hands
<1>3. ASSUME NEW p \in Server, NEW k \in Task, handlers' = [handlers EXCEPT ![p][k] = NoHandler]
      PROVE  /\ handlers' \in [Server -> [Task -> Handler]]
             /\ \A q \in Server, l \in Task :
                  handlers'[q][l] = IF q = p /\ l = k THEN NoHandler ELSE handlers[q][l]
             /\ \A q \in Server, l \in Task :
                  EventOf(q, l)' # None => EventOf(q, l)' = EventOf(q, l) /\ ~ (q = p /\ l = k)
  <2>1. /\ handlers' \in [Server -> [Task -> Handler]]
        /\ \A q \in Server, l \in Task :
             handlers'[q][l] = IF q = p /\ l = k THEN NoHandler ELSE handlers[q][l]
    BY <1>0, <1>3
  <2>. QED
    BY <2>1, NoHandlerIsHandler DEF EventOf
<1>4. ASSUME NEW p \in Server, NEW k \in Task, FinishEvent(p, k)
      PROVE  leaked' \in [Server -> SUBSET queue']
             /\ \A q \in Server, l \in Task :
               EventOf(q, l)' # None => /\ EventOf(q, l) \in queue'
                                        /\ \A r \in Server : EventOf(q, l) \notin leaked'[r]
  <2>1. leaked' = leaked /\ queue' = queue \ {EventOf(p, k)}
        /\ handlers' = [handlers EXCEPT ![p][k] = NoHandler]
    BY <1>4 DEF FinishEvent
  <2>2. EventOf(p, k) # None
    BY <1>4, HandFacts DEF FinishEvent, Doing
  <2>3. leaked' \in [Server -> SUBSET queue']
    BY <1>1, <2>1
  <2>4. ASSUME NEW q \in Server, NEW l \in Task, EventOf(q, l)' # None
        PROVE  /\ EventOf(q, l) \in queue'
               /\ \A r \in Server : EventOf(q, l) \notin leaked'[r]
    <3>1. EventOf(q, l) # None /\ ~ (q = p /\ l = k)
      BY <1>3, <2>1, <2>4
    <3>2. EventOf(q, l) # EventOf(p, k)
      BY <1>2, <3>1
    <3>. QED
      BY <1>1, <1>2, <2>1, <3>1, <3>2
  <2>. QED
    BY <2>3, <2>4
<1>5. ASSUME NEW p \in Server, NEW k \in Task, Leak(p, k), ~ Doing(p, k, "idle")
      PROVE  leaked' \in [Server -> SUBSET queue']
             /\ \A q \in Server, l \in Task :
               EventOf(q, l)' # None => /\ EventOf(q, l) \in queue'
                                        /\ \A r \in Server : EventOf(q, l) \notin leaked'[r]
  <2>1. /\ leaked' = [leaked EXCEPT ![p] = @ \cup {EventOf(p, k)}] /\ queue' = queue
        /\ handlers' = [handlers EXCEPT ![p][k] = NoHandler]
    BY <1>5 DEF Leak
  <2>2. EventOf(p, k) \in queue
    BY <1>5, HandFacts DEF Doing
  <2>3. leaked' \in [Server -> SUBSET queue']
    BY <1>1, <2>1, <2>2
  <2>4. ASSUME NEW q \in Server, NEW l \in Task, EventOf(q, l)' # None
        PROVE  /\ EventOf(q, l) \in queue'
               /\ \A r \in Server : EventOf(q, l) \notin leaked'[r]
    <3>1. EventOf(q, l) # None /\ ~ (q = p /\ l = k)
      BY <1>3, <2>1, <2>4
    <3>2. EventOf(q, l) # EventOf(p, k)
      BY <1>2, <3>1
    <3>3. \A r \in Server : leaked'[r] \subseteq leaked[r] \cup {EventOf(p, k)}
      BY <1>1, <2>1
    <3>. QED
      BY <1>1, <1>2, <2>1, <3>1, <3>2, <3>3
  <2>. QED
    BY <2>3, <2>4
<1>6. ASSUME NEW p \in Server, NEW k \in Task, LoseCommit(p, k)
      PROVE  leaked' \in [Server -> SUBSET queue']
             /\ \A q \in Server, l \in Task :
               EventOf(q, l)' # None => /\ EventOf(q, l) \in queue'
                                        /\ \A r \in Server : EventOf(q, l) \notin leaked'[r]
  <2>1. leaked' = leaked /\ queue' = queue /\ handlers' = [handlers EXCEPT ![p][k] = NoHandler]
    BY <1>6 DEF LoseCommit
  <2>. QED
    BY <1>1, <1>2, <1>3, <2>1
<1>7. CASE \E p \in Server, k \in Task : FinishEvent(p, k) \/ LoseCommit(p, k)
                                          \/ (NoSeries(p) /\ k = "index") \/ Fail(p, k)
  <2>1. PICK p \in Server, k \in Task : FinishEvent(p, k) \/ LoseCommit(p, k)
                                          \/ (NoSeries(p) /\ k = "index") \/ Fail(p, k)
    BY <1>7
  <2>2. handlers' = [handlers EXCEPT ![p][k] = NoHandler]
    BY <2>1 DEF FinishEvent, LoseCommit, NoSeries, Fail, Leak
  <2>3. (NoSeries(p) /\ k = "index") \/ Fail(p, k) => Leak(p, k) /\ ~ Doing(p, k, "idle")
    BY DEF NoSeries, Fail, Doing
  <2>4. leaked' \in [Server -> SUBSET queue']
             /\ \A q \in Server, l \in Task :
               EventOf(q, l)' # None => /\ EventOf(q, l) \in queue'
                                        /\ \A r \in Server : EventOf(q, l) \notin leaked'[r]
    BY <1>4, <1>5, <1>6, <2>1, <2>3
  <2>5. /\ \/ queue' = queue
           \/ Doing(p, k, "done") /\ queue' = queue \ {EventOf(p, k)}
        /\ UNCHANGED <<contract, emitted, burned, collections, collectionAssets, runs, disturbed>>
    BY <2>1, <2>3 DEF FinishEvent, LoseCommit, Leak
  <2>6. /\ handlers' \in [Server -> [Task -> Handler]]
        /\ \A q \in Server, l \in Task : handlers'[q][l] \in {handlers[q][l], NoHandler}
    <3>1. /\ handlers' \in [Server -> [Task -> Handler]]
          /\ \A q \in Server, l \in Task :
               handlers'[q][l] = IF q = p /\ l = k THEN NoHandler ELSE handlers[q][l]
      BY <1>3, <2>2
    <3>. QED
      BY <3>1
  <2>. QED
    BY <2>4, <2>5, <2>6
<1>8. CASE \E p \in Server : RestartServer(p)
  <2>1. PICK p \in Server : RestartServer(p)
    BY <1>8
  <2>2. /\ UNCHANGED <<contract, emitted, queue, burned, collections, collectionAssets, runs, disturbed>>
        /\ leaked' = [leaked EXCEPT ![p] = {}]
        /\ handlers' = [handlers EXCEPT ![p] = [k \in Task |-> NoHandler]]
    BY <2>1 DEF RestartServer
  <2>3. /\ handlers' \in [Server -> [Task -> Handler]]
        /\ \A q \in Server, l \in Task :
             handlers'[q][l] = IF q = p THEN NoHandler ELSE handlers[q][l]
    BY <1>0, <2>2
  <2>4. \A q \in Server, l \in Task : EventOf(q, l)' # None => EventOf(q, l)' = EventOf(q, l)
    BY <2>3, NoHandlerIsHandler DEF EventOf
  <2>5. leaked' \in [Server -> SUBSET queue']
    BY <1>1, <2>2
  <2>6. \A q \in Server : leaked'[q] \subseteq leaked[q]
    BY <1>1, <2>2
  <2>. QED
    BY <1>1, <1>2, <2>2, <2>3, <2>4, <2>5, <2>6
<1>9. "index" \in Task
  BY TaskFacts
<1>10. \/ \E p \in Server, k \in Task : FinishEvent(p, k) \/ LoseCommit(p, k)
                                          \/ (NoSeries(p) /\ k = "index") \/ Fail(p, k)
       \/ \E p \in Server : RestartServer(p)
  BY <1>9 DEF DropStep
<1>. QED
  BY <1>7, <1>8, <1>10

LEMMA DropTypes ==
  ASSUME Types, DropStep
  PROVE  Types'
<1>1. /\ UNCHANGED <<contract, emitted, burned, collections, collectionAssets, runs, disturbed>>
      /\ queue' \subseteq queue
  BY DropMoves
<1>2. Hands' /\ Leaks'
  BY <1>1, DropMoves, DropsHands
<1>3. Events' /\ Documents'
  BY <1>1 DEF Types, Events, Documents
<1>. QED
  BY <1>2, <1>3 DEF Types

-------------------------------------------------------------------------------
(* Who moves.                                                              *)
WorkStep(p) ==
  \/ ReadTokens(p) \/ ReadArtists(p) \/ StoreCollection(p) \/ FilterBurned(p)
  \/ IndexCollectionAsset(p) \/ DeleteDeprecatedCollectionAsset(p) \/ UpdateTotal(p)
  \/ FindCollection(p) \/ DeleteCollection(p) \/ ReplaceCollectionCreator(p)
  \/ ReadCreators(p) \/ UpdateCollectionCreators(p)

LEMMA StepOf ==
  ASSUME CollectionsNext
  PROVE  \/ \E s \in Series, kind \in Task : ContractSteps(kind, s)
         \/ \E old, new \in Artist : old # new /\ UpdateArtistAddress(old, new)
         \/ \E t \in Burnable : Burn(t)
         \/ \E p \in Server, k \in Task : TakeEvent(p, k)
         \/ \E p \in Server : WorkStep(p)
         \/ DropStep
<1>1. \A s \in Series, first \in Registered :
         RegisterSeries(s, first[1], first[2]) => ContractSteps("index", s)
  BY DEF ContractSteps
<1>2. \A s \in Series, T \in TokenData : UpdateSeries(s, T) => ContractSteps("index", s)
  BY DEF ContractSteps
<1>3. \A s \in Series : DeleteSeries(s) => ContractSteps("delete", s)
  BY DEF ContractSteps
<1>4. \A s \in Series, A \in ArtistData : Opt(s, A) => ContractSteps("creators", s)
  BY DEF ContractSteps
<1>. QED
  BY <1>1, <1>2, <1>3, <1>4, TaskFacts DEF CollectionsNext, WorkStep, DropStep

LEMMA TypesKept ==
  ASSUME Types, [CollectionsNext]_collectionsVars
  PROVE  Types'
<1>1. CASE UNCHANGED collectionsVars
  BY <1>1 DEF collectionsVars, Types, Documents, Events, Hands, Leaks, Doing, EventOf
<1>2. CASE \E s \in Series, kind \in Task : ContractSteps(kind, s)
  <2>1. PICK s \in Series, kind \in Task : ContractSteps(kind, s)
    BY <1>2
  <2>2. kind # "replace"
    BY <2>1 DEF ContractSteps
  <2>. QED
    BY <2>1, <2>2, ContractEmits, EmitTypes
<1>3. CASE \E old, new \in Artist : old # new /\ UpdateArtistAddress(old, new)
  BY <1>3, AddressEmits, EmitTypes
<1>4. CASE \E t \in Burnable : Burn(t)
  BY <1>4, CollectionsAssumption DEF Burn, Types, Documents, Events, Hands, Leaks, Doing, EventOf
<1>5. CASE \E p \in Server, k \in Task : TakeEvent(p, k)
  BY <1>5, TakeTypes
<1>6. CASE \E p \in Server : WorkStep(p)
  BY <1>6, IndexTypes, OtherTypes DEF WorkStep
<1>7. CASE DropStep
  BY <1>7, DropTypes
<1>. QED
  BY <1>1, <1>2, <1>3, <1>4, <1>5, <1>6, <1>7, StepOf

-------------------------------------------------------------------------------
(* No asset without its collection.                                        *)
WritesAssets(p, s) ==
  handlers[p]["index"].at \in {"filter", "assets", "total"} /\ SeriesOf(p, "index") = s

Clean(s) ==
  /\ \A t \in Token : collectionAssets[s][t] = 0
  /\ \A p \in Server : ~ WritesAssets(p, s)

NoneIsClean(s) == collections[s] = None => Clean(s)

(* A deleted series stays deleted; only then there are events that say so. *)
Lives(s) ==
  /\ contract[s].live => \A e \in queue : e.kind = "delete" => e.series # s
  /\ ~ contract[s].live => contract[s].tokens = {}
  /\ contract[s].live \/ emitted = 0 => NoneIsClean(s)

(* What a step does to a series whose handlers did not take part. *)
SameDocuments(s) == collections'[s] = collections[s] /\ collectionAssets'[s] = collectionAssets[s]

LEMMA CleanKept ==
  ASSUME NEW s \in Series, NoneIsClean(s), collections'[s] = None => collections[s] = None,
         collectionAssets'[s] = collectionAssets[s],
         \A p \in Server : WritesAssets(p, s)' => WritesAssets(p, s)
  PROVE  NoneIsClean(s)'
BY DEF NoneIsClean, Clean

(* The handler of another kind does not index. *)
LEMMA OtherHands ==
  ASSUME Types, NEW p \in Server, NEW k \in Task, k # "index", Moved(p, k), NEW s
  PROVE  \A q \in Server : WritesAssets(q, s)' <=> WritesAssets(q, s)
BY TaskFacts DEF Moved, WritesAssets, SeriesOf, EventOf

LEMMA IndexHands ==
  ASSUME Types, NEW p \in Server, NEW at, GoesOn(p, "index", at), NEW s,
         at \in {"filter", "assets", "total"} =>
           handlers[p]["index"].at \in {"filter", "assets", "total"} \/ SeriesOf(p, "index") # s
  PROVE  \A q \in Server : WritesAssets(q, s)' => WritesAssets(q, s)
BY TaskFacts DEF GoesOn, Moved, WritesAssets, SeriesOf, EventOf

LEMMA CleanByIndex ==
  ASSUME Types, NEW p \in Server, NEW s \in Series, NoneIsClean(s),
         \/ ReadTokens(p) \/ ReadArtists(p) \/ StoreCollection(p) \/ FilterBurned(p)
         \/ IndexCollectionAsset(p) \/ DeleteDeprecatedCollectionAsset(p) \/ UpdateTotal(p)
  PROVE  NoneIsClean(s)'
<1> DEFINE job == handlers[p]["index"]
           own == job.event.series
<1>0. "index" \in Task /\ own = SeriesOf(p, "index")
      /\ \A at \in {"filter", "assets", "total"} : at # "done" /\ at # "artists" /\ at # "collect"
  BY TaskFacts DEF SeriesOf, EventOf
<1>1. job.at # "idle" => own \in Series
  BY <1>0, HandFacts
<1>2. CASE ReadTokens(p) \/ ReadArtists(p)
  <2>1. UNCHANGED <<collections, collectionAssets>>
    BY <1>2 DEF ReadTokens, ReadArtists
  <2>2. \E at \in {"artists", "collect"} : GoesOn(p, "index", at)
    BY <1>2, IndexMoves
  <2>3. \A q \in Server : WritesAssets(q, s)' => WritesAssets(q, s)
    BY <1>0, <2>2, IndexHands
  <2>. QED
    BY <2>1, <2>3, CleanKept
<1>3. CASE StoreCollection(p) \/ UpdateTotal(p)
  <2>1. /\ collectionAssets' = collectionAssets
        /\ collections' = [collections EXCEPT ![own] =
             [creators |-> job.artists, items |-> Cardinality(job.tokens)]]
    BY <1>3 DEF StoreCollection, UpdateTotal, IndexCollection, SeriesOf, EventOf
  <2>2. \E at \in {"filter", "done"} : GoesOn(p, "index", at) /\ job.at # "idle"
    BY <1>3, IndexMoves, AssetMoves DEF GoesOn
  <2>3. CASE own = s
    <3>1. collections'[s] = [creators |-> job.artists, items |-> Cardinality(job.tokens)]
      BY <2>1, <2>3 DEF Types, Documents
    <3>2. [creators |-> job.artists, items |-> Cardinality(job.tokens)] \in Collection
      BY <1>0, HandFacts, CardinalityIsNat DEF Handler, Collection
    <3>. QED
      BY <3>1, <3>2, NoneIsNothing DEF NoneIsClean
  <2>4. CASE own # s
    <3>1. collections'[s] = collections[s]
      BY <2>1, <2>4 DEF Types, Documents
    <3>2. \A q \in Server : WritesAssets(q, s)' => WritesAssets(q, s)
      BY <1>0, <2>2, <2>4, IndexHands
    <3>. QED
      BY <2>1, <3>1, <3>2, CleanKept
  <2>. QED
    BY <2>3, <2>4
<1>4. CASE FilterBurned(p) \/ IndexCollectionAsset(p) \/ DeleteDeprecatedCollectionAsset(p)
  <2>1. /\ collections' = collections
        /\ job.at \in {"filter", "assets"}
        /\ \E at \in {"assets", "total"} : GoesOn(p, "index", at)
    BY <1>4, IndexMoves, AssetMoves DEF FilterBurned, IndexCollectionAsset,
       DeleteDeprecatedCollectionAsset
  <2>2. CASE own = s
    <3>1. WritesAssets(p, s)
      BY <1>0, <2>1, <2>2 DEF WritesAssets
    <3>. QED
      BY <2>1, <3>1 DEF NoneIsClean, Clean
  <2>3. CASE own # s
    <3>1. collectionAssets'[s] = collectionAssets[s]
      BY <1>4, <2>3 DEF FilterBurned, IndexCollectionAsset, DeleteDeprecatedCollectionAsset,
         Types, Documents, SeriesOf, EventOf
    <3>2. \A q \in Server : WritesAssets(q, s)' => WritesAssets(q, s)
      BY <1>0, <2>1, <2>3, IndexHands
    <3>. QED
      BY <2>1, <3>1, <3>2, CleanKept
  <2>. QED
    BY <2>2, <2>3
<1>. QED
  BY <1>2, <1>3, <1>4

LEMMA CleanByOthers ==
  ASSUME Types, NEW p \in Server, NEW s \in Series, NoneIsClean(s),
         \/ FindCollection(p) \/ (DeleteCollection(p) /\ SeriesOf(p, "delete") # s)
         \/ ReplaceCollectionCreator(p) \/ ReadCreators(p) \/ UpdateCollectionCreators(p)
  PROVE  NoneIsClean(s)'
<1>1. \E k \in Task : k # "index" /\ Moved(p, k)
  <2>1. \A k \in {"delete", "replace", "creators"} : k \in Task /\ k # "index"
    BY TaskFacts
  <2>. QED
    BY <2>1, OtherMoves DEF GoesOn
<1>2. \A q \in Server : WritesAssets(q, s)' => WritesAssets(q, s)
  BY <1>1, OtherHands
<1>3. collectionAssets'[s] = collectionAssets[s]
  BY DEF FindCollection, DeleteCollection, ReplaceCollectionCreator, ReadCreators,
     UpdateCollectionCreators, Types, Documents
<1>4. collections'[s] = None => collections[s] = None
  <2>1. CASE FindCollection(p) \/ ReadCreators(p) \/ (DeleteCollection(p) /\ SeriesOf(p, "delete") # s)
    BY <2>1 DEF FindCollection, DeleteCollection, ReadCreators, Types, Documents
  <2>2. CASE ReplaceCollectionCreator(p)
    <3> DEFINE e == EventOf(p, "replace")
    <3>1. collections'[s] = IF collections[s] = None THEN None
              ELSE [collections[s] EXCEPT !.creators = Replaced(@, e.old, e.new)]
      BY <2>2 DEF ReplaceCollectionCreator
    <3>2. collections' \in [Series -> {None} \cup Collection]
      BY <2>2, OtherTypes DEF Types, Documents
    <3>3. SUFFICES ASSUME collections[s] # None PROVE collections'[s] # None
      OBVIOUS
    <3>4. e \in queue /\ e.kind = "replace"
      BY <2>2, HandFacts, TaskFacts DEF ReplaceCollectionCreator, Doing
    <3>5. Replaced(collections[s].creators, e.old, e.new) \in SUBSET Artist
      BY <3>3, <3>4 DEF Types, Documents, Events, Collection, Replaced
    <3>6. collections'[s] \in Collection
      BY <3>1, <3>3, <3>5 DEF Types, Documents, Collection
    <3>. QED
      BY <3>6, NoneIsNothing
  <2>3. CASE UpdateCollectionCreators(p)
    <3>1. collections[s] # None => collections[s] \in Collection
      BY DEF Types, Documents
    <3>2. handlers[p]["creators"].artists \in SUBSET Artist
      BY TaskFacts, HandFacts DEF Handler
    <3>3. collections[s] # None => collections'[s] \in Collection
      BY <2>3, <3>1, <3>2 DEF UpdateCollectionCreators, SyncedCreators, Collection, Types, Documents
    <3>. QED
      BY <3>3, NoneIsNothing
  <2>. QED
    BY <2>1, <2>2, <2>3
<1>. QED
  BY <1>2, <1>3, <1>4, CleanKept

(* A collection that is deleted leaves nothing, unless it is being indexed. *)
LEMMA CleanByDelete ==
  ASSUME Types, NEW p \in Server, NEW s \in Series, DeleteCollection(p), SeriesOf(p, "delete") = s,
         ~ disturbed'[s]
  PROVE  NoneIsClean(s)'
<1>1. ~ OthersInFlight(p, "delete", s)
  BY DisturbTypes DEF DeleteCollection
<1>2. \A q \in Server : WritesAssets(q, s) => FALSE
  BY <1>1, TaskFacts DEF OthersInFlight, InFlight, WritesAssets
<1>3. \A q \in Server : ~ WritesAssets(q, s)'
  <2>1. GoesOn(p, "delete", "done") /\ "delete" \in Task /\ "delete" # "index"
    BY OtherMoves, TaskFacts
  <2>. QED
    BY <1>2, <2>1, OtherHands DEF GoesOn
<1>4. \A t \in Token : collectionAssets'[s][t] = 0
  BY DEF DeleteCollection, RemainingAsset, Types, Documents
<1>. QED
  BY <1>3, <1>4 DEF NoneIsClean, Clean

LEMMA CleanByRest ==
  ASSUME Types, NEW s \in Series, NoneIsClean(s), [CollectionsNext]_collectionsVars,
         \A p \in Server : ~ WorkStep(p)
  PROVE  NoneIsClean(s)' /\ SameDocuments(s)
<1>1. CASE UNCHANGED <<handlers, collections, collectionAssets>>
  BY <1>1, CleanKept DEF WritesAssets, SeriesOf, EventOf, SameDocuments
<1>2. CASE \E p \in Server, k \in Task : TakeEvent(p, k)
  <2>1. PICK p \in Server, k \in Task : TakeEvent(p, k)
    BY <1>2
  <2>2. \A q \in Server : WritesAssets(q, s)' => WritesAssets(q, s)
    BY <2>1, TakeMoves, TaskFacts DEF Moved, WritesAssets, SeriesOf, EventOf
  <2>3. UNCHANGED <<collections, collectionAssets>>
    BY <2>1 DEF TakeEvent
  <2>. QED
    BY <2>2, <2>3, CleanKept DEF SameDocuments
<1>3. CASE DropStep
  <2>1. \A q \in Server : WritesAssets(q, s)' => WritesAssets(q, s)
    BY <1>3, DropMoves, TaskFacts, NoHandlerIsHandler DEF WritesAssets, SeriesOf, EventOf
  <2>2. UNCHANGED <<collections, collectionAssets>>
    BY <1>3, DropMoves
  <2>. QED
    BY <2>1, <2>2, CleanKept DEF SameDocuments
<1>4. CASE UNCHANGED collectionsVars
  BY <1>1, <1>4 DEF collectionsVars
<1>5. CASE \E r \in Series, kind \in Task : ContractSteps(kind, r)
  BY <1>1, <1>5, ContractEmits DEF Emits
<1>6. CASE \E old, new \in Artist : old # new /\ UpdateArtistAddress(old, new)
  BY <1>1, <1>6, AddressEmits DEF Emits
<1>7. CASE \E t \in Burnable : Burn(t)
  BY <1>1, <1>7 DEF Burn
<1>. QED
  BY <1>2, <1>3, <1>4, <1>5, <1>6, <1>7, StepOf

LEMMA WorkUnchanged ==
  ASSUME NEW p \in Server, WorkStep(p)
  PROVE  UNCHANGED <<contract, emitted, queue, leaked, burned>>
BY DEF WorkStep, ReadTokens, ReadArtists, StoreCollection, FilterBurned, IndexCollectionAsset,
   DeleteDeprecatedCollectionAsset, UpdateTotal, FindCollection, DeleteCollection,
   ReplaceCollectionCreator, ReadCreators, UpdateCollectionCreators

LEMMA EventIsNew ==
  ASSUME Types
  PROVE  emitted = 0 => queue = {}
BY DEF Types, Events, Event

LEMMA LivesKept ==
  ASSUME Types, NEW s \in Series, Lives(s), [CollectionsNext]_collectionsVars
  PROVE  Lives(s)'
<1>1. CASE \E p \in Server : WorkStep(p)
  <2>1. PICK p \in Server : WorkStep(p)
    BY <1>1
  <2>2. UNCHANGED <<contract, emitted, queue>>
    BY <2>1, WorkUnchanged
  <2>3. ASSUME contract[s].live \/ emitted = 0 PROVE NoneIsClean(s)'
    <3>1. NoneIsClean(s)
      BY <2>3 DEF Lives
    <3>2. ~ (DeleteCollection(p) /\ SeriesOf(p, "delete") = s)
      <4>1. SUFFICES ASSUME DeleteCollection(p), SeriesOf(p, "delete") = s PROVE FALSE
        OBVIOUS
      <4>2. EventOf(p, "delete") \in queue /\ EventOf(p, "delete").kind = "delete"
        BY <4>1, HandFacts, TaskFacts DEF DeleteCollection, Doing
      <4>. QED
        BY <2>3, <4>1, <4>2, EventIsNew DEF Lives, SeriesOf
    <3>. QED
      BY <2>1, <3>1, <3>2, CleanByIndex, CleanByOthers DEF WorkStep
  <2>. QED
    BY <2>2, <2>3 DEF Lives
<1>2. CASE \A p \in Server : ~ WorkStep(p)
  <2>0. NoneIsClean(s) => NoneIsClean(s)'
    BY <1>2, CleanByRest
  <2>1. CASE UNCHANGED <<contract, emitted>> /\ queue' \subseteq queue
    BY <2>0, <2>1 DEF Lives
  <2>2. CASE \E r \in Series, kind \in Task : ContractSteps(kind, r)
    <3>1. PICK r \in Series, kind \in Task : ContractSteps(kind, r)
      BY <2>2
    <3>2. PICK e \in Event : e.kind = kind /\ e.series = r /\ queue' = queue \cup {e} /\ emitted' = emitted + 1
      BY <3>1, ContractEmits DEF Emits
    <3>3. emitted' # 0
      BY <3>2 DEF Types, Events
    <3>4. CASE r # s
      <4>1. contract'[s] = contract[s]
        BY <3>1, <3>4, ContractEmits
      <4>. QED
        BY <2>0, <3>2, <3>3, <3>4, <4>1 DEF Lives
    <3>5. CASE r = s /\ \E first \in Registered : RegisterSeries(s, first[1], first[2])
      <4>1. contract'[s].live /\ emitted = 0 /\ kind # "delete"
        BY <3>1, <3>2, <3>5 DEF RegisterSeries, Types, Events, Emit, Event
      <4>. QED
        BY <2>0, <3>2, <4>1, EventIsNew DEF Lives
    <3>6. CASE r = s /\ contract'[s].live = contract[s].live /\ contract[s].live /\ kind # "delete"
      BY <2>0, <3>2, <3>6 DEF Lives
    <3>7. CASE r = s /\ DeleteSeries(s)
      BY <2>0, <3>3, <3>7 DEF Lives, DeleteSeries, Gone, Types, Events
    <3>8. (\E T \in TokenData : UpdateSeries(s, T)) \/ (\E A \in ArtistData : Opt(s, A)) =>
             contract'[s].live = contract[s].live /\ contract[s].live
      BY DEF UpdateSeries, Opt, Types, Events
    <3>. QED
      BY <3>1, <3>4, <3>5, <3>6, <3>7, <3>8 DEF ContractSteps
  <2>3. CASE \E old, new \in Artist : old # new /\ UpdateArtistAddress(old, new)
    <3>1. PICK old, new \in Artist : UpdateArtistAddress(old, new)
      BY <2>3
    <3>2. PICK e \in Event : e.kind = "replace" /\ queue' = queue \cup {e} /\ emitted' = emitted + 1
      BY <3>1, AddressEmits DEF Emits
    <3>3. emitted' # 0
      BY <3>2 DEF Types, Events
    <3>4. contract'[s].live = contract[s].live /\ contract'[s].tokens = contract[s].tokens
      BY <3>1, AddressEmits
    <3>. QED
      BY <2>0, <3>2, <3>3, <3>4 DEF Lives
  <2>4. CASE UNCHANGED collectionsVars \/ (\E t \in Burnable : Burn(t))
             \/ (\E p \in Server, k \in Task : TakeEvent(p, k))
    BY <2>1, <2>4 DEF collectionsVars, Burn, TakeEvent
  <2>5. CASE DropStep
    BY <2>1, <2>5, DropMoves
  <2>. QED
    BY <1>2, <2>2, <2>3, <2>4, <2>5, StepOf
<1>. QED
  BY <1>1, <1>2

(* A step that leaves a series undisturbed found it so, or is the read of  *)
(* an update that is alone with it.                                        *)
LEMMA StartsAlone ==
  ASSUME Types, NEW s \in Series, disturbed[s], ~ disturbed'[s], [CollectionsNext]_collectionsVars
  PROVE  \E p \in Server : ReadTokens(p) /\ SeriesOf(p, "index") = s /\ Alone(p, "index")
<1>1. \A p, k, S : Disturb(p, k, S) => disturbed'[s]
  BY DisturbTypes
<1>2. disturbed' # disturbed
  OBVIOUS
<1>3. CASE \E p \in Server : ReadTokens(p)
  <2>1. PICK p \in Server : ReadTokens(p)
    BY <1>3
  <2>. QED
    BY <2>1 DEF ReadTokens, Types, Documents
<1>4. ~ DropStep
  BY <1>2, DropMoves
<1>5. ~ \E r \in Series, kind \in Task : ContractSteps(kind, r)
  BY <1>2, ContractEmits DEF Emits
<1>6. ~ \E old, new \in Artist : old # new /\ UpdateArtistAddress(old, new)
  BY <1>2, AddressEmits DEF Emits
<1>7. \E p \in Server : WorkStep(p)
  BY <1>2, <1>4, <1>5, <1>6, StepOf DEF Burn, TakeEvent, collectionsVars
<1>. QED
  BY <1>1, <1>2, <1>3, <1>7 DEF WorkStep, ReadArtists, StoreCollection, FilterBurned,
     IndexCollectionAsset, DeleteDeprecatedCollectionAsset, UpdateTotal, FindCollection,
     DeleteCollection, ReplaceCollectionCreator, ReadCreators, UpdateCollectionCreators,
     IndexCollection

OrphanInv ==
  /\ Types
  /\ \A s \in Series : Lives(s) /\ (~ disturbed[s] => NoneIsClean(s))

LEMMA OrphanInit == CollectionsInit => OrphanInv
<1> SUFFICES ASSUME CollectionsInit PROVE OrphanInv
  OBVIOUS
<1>1. \A s \in Series : NoneIsClean(s)
  BY TaskFacts, NoHandlerIsHandler DEF CollectionsInit, NoneIsClean, Clean, WritesAssets
<1>2. \A s \in Series : Lives(s)
  BY <1>1 DEF CollectionsInit, Lives, Gone
<1>. QED
  BY <1>1, <1>2, InitTypes DEF OrphanInv

LEMMA OrphanStep ==
  ASSUME OrphanInv, [CollectionsNext]_collectionsVars
  PROVE  OrphanInv'
<1>0. Types /\ Types' /\ \A s \in Series : Lives(s) /\ Lives(s)'
  BY TypesKept, LivesKept DEF OrphanInv
<1>1. ASSUME NEW s \in Series, ~ disturbed'[s]
      PROVE  NoneIsClean(s)'
  <2>1. CASE disturbed[s]
    <3>1. PICK p \in Server : ReadTokens(p) /\ SeriesOf(p, "index") = s
      BY <1>0, <1>1, <2>1, StartsAlone
    <3>2. contract'[s].live
      BY <3>1 DEF ReadTokens
    <3>. QED
      BY <1>0, <3>2 DEF Lives
  <2>2. CASE ~ disturbed[s]
    <3>1. NoneIsClean(s)
      BY <2>2 DEF OrphanInv
    <3>. QED
      BY <1>0, <1>1, <3>1, CleanByIndex, CleanByOthers, CleanByDelete, CleanByRest DEF WorkStep
  <2>. QED
    BY <2>1, <2>2
<1>. QED
  BY <1>0, <1>1 DEF OrphanInv

LEMMA TypesAreTypes == Types => CollectionsTypeOK
<1> SUFFICES ASSUME Types PROVE CollectionsTypeOK
  OBVIOUS
<1>1. ASSUME NEW p \in Server, NEW k \in Task
      PROVE  /\ EventOf(p, k) \in queue \cup {None}
             /\ handlers[p][k].todo \subseteq Token
             /\ handlers[p][k].run \in 0..runs
  BY HandFacts DEF Types, Hands, Documents, Handler
<1>. QED
  BY <1>1 DEF CollectionsTypeOK, Types, Documents, Events, Leaks, Collection

LEMMA OrphanInvImplies == OrphanInv => NoOrphans
BY TypesAreTypes DEF OrphanInv, NoOrphans, NoneIsClean, Clean, Members

(* A collection asset belongs to a collection that is there: an update     *)
(* writes the collection first (series_registry_event_processor.go:119),   *)
(* and a deletion takes both in a transaction (store.go:2079), unless an   *)
(* update was under way.                                                   *)
THEOREM AssetsHaveCollection == CollectionsSpec => []NoOrphans
<1>1. OrphanInv /\ [CollectionsNext]_collectionsVars => OrphanInv'
  BY OrphanStep
<1>. QED
  BY OrphanInit, <1>1, OrphanInvImplies, PTL DEF CollectionsSpec

-------------------------------------------------------------------------------
(* The replacements of artists that the queue holds lead from what is      *)
(* stored to what the contract says.                                       *)
Applies(R, f, n) ==
  \/ \E e \in R : e.n = n /\ f[n] = Replaced(f[n - 1], e.old, e.new)
  \/ f[n] = f[n - 1] /\ \A e \in R : e.n # n

History(R, m, A, B) ==
  \E f \in [0..m -> SUBSET Artist] :
    f[0] = A /\ f[m] = B /\ \A n \in 1..m : Applies(R, f, n)

Replacement == {e \in Event : {e.old, e.new} \subseteq Artist /\ e.old # e.new}

LEMMA LeastOf ==
  ASSUME NEW T, T \subseteq Nat, T # {}
  PROVE  \E t \in T : \A other \in T : other >= t
<1> DEFINE R == OpToRel(<, Nat)
<1>1. \E t \in T : \A other \in T : ~ (<<other, t>> \in R)
  BY NatLessThanWellFounded, WFMin
<1>2. ASSUME NEW t \in T, NEW other \in T, ~ (<<other, t>> \in R) PROVE other >= t
  BY <1>2 DEF OpToRel
<1>. QED
  BY <1>1, <1>2

LEMMA ReplacedIsSet ==
  ASSUME NEW A \in SUBSET Artist, NEW e \in Replacement
  PROVE  /\ Replaced(A, e.old, e.new) \in SUBSET Artist
         /\ e.old \notin Replaced(A, e.old, e.new)
         /\ e.old \notin A => Replaced(A, e.old, e.new) = A
BY DEF Replaced, Replacement

(* Before the first replacement nothing changes.                           *)
LEMMA SameBefore ==
  ASSUME NEW R, NEW m \in Nat, NEW j \in 0..m, NEW f \in [0..m -> SUBSET Artist],
         \A n \in 1..m : Applies(R, f, n), \A e \in R : ~ (e.n \in 1..j)
  PROVE  \A n \in 0..j : f[n] = f[0]
<1> DEFINE T == {n \in 0..j : f[n] # f[0]}
<1> SUFFICES ASSUME T # {} PROVE FALSE
  OBVIOUS
<1>1. T \subseteq Nat
  OBVIOUS
<1>2. PICK n \in T : \A other \in T : other >= n
  BY <1>1, LeastOf
<1>3. n \in 1..j /\ n \in 1..m /\ n - 1 \in 0..j
  BY <1>2
<1>4. f[n - 1] = f[0]
  BY <1>2, <1>3
<1>5. f[n] = f[n - 1]
  BY <1>3 DEF Applies
<1>. QED
  BY <1>2, <1>4, <1>5

LEMMA NoReplacement ==
  ASSUME NEW m \in Nat, NEW A \in SUBSET Artist, NEW B
  PROVE  History({}, m, A, B) <=> A = B
<1>1. ASSUME History({}, m, A, B) PROVE A = B
  <2>1. PICK f \in [0..m -> SUBSET Artist] :
          f[0] = A /\ f[m] = B /\ \A n \in 1..m : Applies({}, f, n)
    BY <1>1 DEF History
  <2>2. PICK R : R = {}
    OBVIOUS
  <2>3. m \in 0..m /\ (\A e \in R : ~ (e.n \in 1..m)) /\ \A n \in 1..m : Applies(R, f, n)
    BY <2>1, <2>2
  <2>4. \A n \in 0..m : f[n] = f[0]
    BY <2>3, SameBefore
  <2>. QED
    BY <2>1, <2>3, <2>4
<1>2. ASSUME A = B PROVE History({}, m, A, B)
  <2> DEFINE f == [n \in 0..m |-> A]
  <2>1. f \in [0..m -> SUBSET Artist] /\ f[0] = A /\ f[m] = B
    BY <1>2
  <2>2. \A n \in 1..m : f[n] = f[n - 1]
    OBVIOUS
  <2>3. \A n \in 1..m : Applies({}, f, n)
    BY <2>2 DEF Applies
  <2>. QED
    BY <2>1, <2>3 DEF History
<1>. QED
  BY <1>1, <1>2

LEMMA LaterEvent ==
  ASSUME NEW R, NEW m \in Nat, NEW A, NEW B, History(R, m, A, B), \A e \in R : e.n <= m /\ e.n \in Nat
  PROVE  History(R, m + 1, A, B)
<1>1. PICK f \in [0..m -> SUBSET Artist] :
         f[0] = A /\ f[m] = B /\ \A n \in 1..m : Applies(R, f, n)
  BY DEF History
<1> DEFINE g == [n \in 0..(m + 1) |-> IF n = m + 1 THEN B ELSE f[n]]
<1>2. m \in 0..m /\ \A n \in 0..(m + 1) : n = m + 1 \/ n \in 0..m
  OBVIOUS
<1>3. g \in [0..(m + 1) -> SUBSET Artist]
  BY <1>1, <1>2
<1>4. g[m + 1] = B /\ \A n \in 0..m : g[n] = f[n]
  OBVIOUS
<1>5. ASSUME NEW n \in 1..(m + 1) PROVE Applies(R, g, n)
  <2>1. CASE n = m + 1
    <3>1. g[n] = g[n - 1] /\ \A e \in R : e.n # n
      BY <1>1, <1>4, <2>1
    <3>. QED
      BY <3>1 DEF Applies
  <2>2. CASE n # m + 1
    <3>1. n \in 1..m /\ n \in 0..m /\ n - 1 \in 0..m
      BY <2>2
    <3>2. g[n] = f[n] /\ g[n - 1] = f[n - 1] /\ Applies(R, f, n)
      BY <1>1, <1>4, <3>1
    <3>. QED
      BY <3>2 DEF Applies
  <2>. QED
    BY <2>1, <2>2
<1>6. g[0] = A
  BY <1>1, <1>4
<1> HIDE DEF g
<1>. QED
  BY <1>3, <1>4, <1>5, <1>6 DEF History

LEMMA LaterReplacement ==
  ASSUME NEW R, NEW m \in Nat, NEW A, NEW B, History(R, m, A, B),
         NEW e \in Replacement, e.n = m + 1, \A r \in R : r.n <= m /\ r.n \in Nat
  PROVE  History(R \cup {e}, m + 1, A, Replaced(B, e.old, e.new))
<1>1. PICK f \in [0..m -> SUBSET Artist] :
         f[0] = A /\ f[m] = B /\ \A n \in 1..m : Applies(R, f, n)
  BY DEF History
<1>2. PICK C : C = Replaced(B, e.old, e.new)
  OBVIOUS
<1> DEFINE g == [n \in 0..(m + 1) |-> IF n = m + 1 THEN C ELSE f[n]]
<1>3. m \in 0..m /\ \A n \in 0..(m + 1) : n = m + 1 \/ n \in 0..m
  OBVIOUS
<1>4. C \in SUBSET Artist
  BY <1>1, <1>2, <1>3, ReplacedIsSet
<1>5. g \in [0..(m + 1) -> SUBSET Artist]
  BY <1>1, <1>3, <1>4
<1>6. g[m + 1] = C /\ \A n \in 0..m : g[n] = f[n]
  OBVIOUS
<1>7. ASSUME NEW n \in 1..(m + 1) PROVE Applies(R \cup {e}, g, n)
  <2>1. CASE n = m + 1
    <3>1. g[n - 1] = B
      BY <1>1, <1>6, <2>1
    <3>. QED
      BY <1>2, <1>6, <2>1, <3>1 DEF Applies
  <2>2. CASE n # m + 1
    <3>1. n \in 1..m /\ n \in 0..m /\ n - 1 \in 0..m /\ e.n # n
      BY <2>2
    <3>2. g[n] = f[n] /\ g[n - 1] = f[n - 1] /\ Applies(R, f, n)
      BY <1>1, <1>6, <3>1
    <3>. QED
      BY <3>1, <3>2 DEF Applies
  <2>. QED
    BY <2>1, <2>2
<1>8. g[0] = A
  BY <1>1, <1>6
<1> HIDE DEF g
<1>. QED
  BY <1>2, <1>5, <1>6, <1>7, <1>8 DEF History

(* The oldest replacement may be applied to what is stored, and be dropped *)
(* when it has no effect any more.                                         *)
LEMMA OldestReplacement ==
  ASSUME NEW R, NEW m \in Nat, NEW A, NEW B, History(R, m, A, B), NEW e \in R, R \subseteq Replacement,
         \A r \in R : r.n \in 1..m /\ r.n >= e.n /\ (r.n = e.n => r = e)
  PROVE  /\ History(R, m, Replaced(A, e.old, e.new), B)
         /\ e.old \notin A => History(R \ {e}, m, A, B)
<1>1. PICK f \in [0..m -> SUBSET Artist] :
         f[0] = A /\ f[m] = B /\ \A n \in 1..m : Applies(R, f, n)
  BY DEF History
<1>2. /\ e.n \in 1..m /\ e.n \in Nat /\ e.n - 1 \in 0..m /\ 0 \in 0..m
      /\ \A r \in R : ~ (r.n \in 1..(e.n - 1))
  OBVIOUS
<1>3. \A n \in 0..(e.n - 1) : f[n] = A
  <2>1. PICK j : j = e.n - 1
    OBVIOUS
  <2>2. j \in 0..m /\ (\A r \in R : ~ (r.n \in 1..j)) /\ \A n \in 1..m : Applies(R, f, n)
    BY <1>1, <1>2, <2>1
  <2>3. \A n \in 0..j : f[n] = f[0]
    BY <2>2, SameBefore
  <2>. QED
    BY <1>1, <2>1, <2>3
<1>4. PICK C : C = Replaced(A, e.old, e.new)
  OBVIOUS
<1>5. C \in SUBSET Artist /\ Replaced(C, e.old, e.new) = C /\ (e.old \notin A => C = A)
  <2>1. A \in SUBSET Artist
    BY <1>1, <1>2
  <2>2. C \in SUBSET Artist /\ e.old \notin C /\ (e.old \notin A => C = A)
    BY <1>4, <2>1, ReplacedIsSet
  <2>. QED
    BY <2>2, ReplacedIsSet
<1>6. f[e.n] = C
  <2>1. f[e.n - 1] = A
    BY <1>2, <1>3
  <2>2. Applies(R, f, e.n)
    BY <1>1, <1>2
  <2>. QED
    BY <1>4, <2>1, <2>2 DEF Applies
<1>7. History(R, m, C, B)
  <2> DEFINE g == [n \in 0..m |-> IF n < e.n THEN C ELSE f[n]]
  <2>1. g \in [0..m -> SUBSET Artist]
    BY <1>1, <1>5
  <2>2. g[0] = C /\ g[m] = B
    BY <1>1, <1>2
  <2>3. ASSUME NEW n \in 1..m PROVE Applies(R, g, n)
    <3>0. n \in 0..m /\ n - 1 \in 0..m
      OBVIOUS
    <3>1. CASE n < e.n
      <4>1. g[n] = g[n - 1] /\ \A r \in R : r.n # n
        BY <1>2, <3>0, <3>1
      <4>. QED
        BY <4>1 DEF Applies
    <3>2. CASE n = e.n
      <4>1. g[n] = C /\ g[n - 1] = C
        BY <1>2, <1>6, <3>0, <3>2
      <4>. QED
        BY <1>5, <3>2, <4>1 DEF Applies
    <3>3. CASE n > e.n
      <4>1. g[n] = f[n] /\ g[n - 1] = f[n - 1]
        BY <1>2, <3>0, <3>3
      <4>2. Applies(R, f, n)
        BY <1>1
      <4>. QED
        BY <4>1, <4>2 DEF Applies
    <3>. QED
      BY <1>2, <3>1, <3>2, <3>3
  <2> HIDE DEF g
  <2>. QED
    BY <2>1, <2>2, <2>3 DEF History
<1>8. ASSUME e.old \notin A PROVE History(R \ {e}, m, A, B)
  <2>1. ASSUME NEW n \in 1..m PROVE Applies(R \ {e}, f, n)
    <3>1. CASE n = e.n
      <4>1. n - 1 \in 0..(e.n - 1)
        BY <1>2, <3>1
      <4>2. f[n] = A /\ f[n - 1] = A
        BY <1>3, <1>5, <1>6, <1>8, <3>1, <4>1
      <4>. QED
        BY <3>1, <4>2 DEF Applies
    <3>2. CASE n # e.n
      BY <1>1, <3>2 DEF Applies
    <3>. QED
      BY <3>1, <3>2
  <2>. QED
    BY <1>1, <2>1 DEF History
<1>. QED
  BY <1>4, <1>7, <1>8

-------------------------------------------------------------------------------
(* What a series is like whose handlers do not get in each other's way.    *)
Done(e) ==
  \E p \in Server : handlers[p][e.kind].event = e /\ handlers[p][e.kind].at = "done"

(* Events that have still to have their effect.                            *)
Pending(kind, s) == {e \in queue : e.kind = kind /\ e.series = s /\ ~ Done(e)}
Replacements == {e \in queue : e.kind = "replace"}
Replacing == {e \in Replacements : ~ Done(e)}
PendingCreators(s) == Pending("index", s) \cup Pending("creators", s)

Indexes(p, s) == InFlight(handlers[p]["index"]) /\ SeriesOf(p, "index") = s

(* What a run of an update has written so far.                             *)
Written(p, s) ==
  LET job == handlers[p]["index"]
      wrote == {t \in Token : collectionAssets[s][t] = job.run}
  IN  /\ job.run # 0
      /\ job.at = "filter" => wrote = {}
      /\ job.at = "assets" => wrote = job.tokens \ job.todo /\ job.todo \subseteq job.tokens
      /\ job.at = "total" => Members(s) = job.tokens

RunsWritten(s) == \A p \in Server : WritesAssets(p, s) => Written(p, s)

(* What an update has read is what the contract says, or a newer update    *)
(* comes.                                                                  *)
Fresh(p, s) ==
  /\ handlers[p]["index"].tokens \subseteq contract[s].tokens
  /\ contract[s].tokens \ handlers[p]["index"].tokens \subseteq burned

Follows(p, s) ==
  Fresh(p, s) \/ \E e \in Pending("index", s) : e.n > EventOf(p, "index").n

TokensInSync(s) ==
  /\ collections[s] # None
  /\ collections[s].items = Cardinality(Members(s))
  /\ Members(s) \subseteq contract[s].tokens
  /\ contract[s].tokens \ Members(s) \subseteq burned

TokensFollow(s) ==
  /\ TokensInSync(s) \/ Pending("index", s) # {}
  /\ \A p \in Server : Indexes(p, s) => Follows(p, s)

HasArtists(p, k, s) ==
  /\ \/ k = "index" /\ handlers[p][k].at \in {"collect", "filter", "assets", "total"}
     \/ k = "creators" /\ handlers[p][k].at = "update"
  /\ SeriesOf(p, k) = s

ArtistsAgree(p, k, s) ==
  \/ handlers[p][k].artists = contract[s].artists
  \/ \E e \in PendingCreators(s) \cup Replacing : e # EventOf(p, k)

CreatorsInSync(s) ==
  /\ collections[s] # None
  /\ History(Replacements, emitted, collections[s].creators, contract[s].artists)

ArtistsFollow(s) ==
  /\ CreatorsInSync(s) \/ PendingCreators(s) # {}
  /\ \A p \in Server, k \in Task : HasArtists(p, k, s) => ArtistsAgree(p, k, s)

(* Replacements are applied in order.                                      *)
Replaces(s) ==
  \A p \in Server : handlers[p]["replace"].at = "done" =>
    /\ \A e \in Replacements : e.n >= EventOf(p, "replace").n
    /\ collections[s] # None => EventOf(p, "replace").old \notin collections[s].creators

(* A deleted series is gone, or its deletion is still to come.             *)
DeletionFollows(s) ==
  \/ Pending("delete", s) # {}
  \/ collections[s] = None /\ \A p \in Server : ~ Indexes(p, s)

Undisturbed(s) ==
  /\ NoneIsClean(s) /\ RunsWritten(s) /\ Replaces(s)
  /\ contract[s].live => TokensFollow(s) /\ ArtistsFollow(s)
  /\ ~ contract[s].live => DeletionFollows(s)

CollectionsIInv ==
  /\ Types
  /\ \A s \in Series : Lives(s) /\ (~ disturbed[s] => Undisturbed(s))

-------------------------------------------------------------------------------
(* Which events are pending.                                               *)
LEMMA DoneFacts ==
  ASSUME Types, NEW p \in Server, NEW k \in Task, handlers[p][k].at # "idle"
  PROVE  Done(EventOf(p, k)) <=> handlers[p][k].at = "done"
<1>1. EventOf(p, k) \in queue /\ EventOf(p, k).kind = k /\ EventOf(p, k) # None
  BY HandFacts, NoneIsNothing
<1>2. \A q \in Server : EventOf(q, k) = EventOf(p, k) => q = p
  BY <1>1 DEF Types, Hands
<1>. QED
  BY <1>1, <1>2 DEF Done, EventOf

LEMMA PendingAtWork ==
  ASSUME Types, NEW p \in Server, NEW k \in Task, NEW at, GoesOn(p, k, at), queue' = queue,
         handlers[p][k].at # "done"
  PROVE  LET own == EventOf(p, k)
         IN  /\ \A e \in queue : e # own => (Done(e)' <=> Done(e))
             /\ own \in queue /\ own.kind = k
             /\ \A e \in queue : e = own => ~ Done(e) /\ (Done(e)' <=> at = "done")
<1> DEFINE own == EventOf(p, k)
<1>0. own \in queue /\ own.kind = k /\ ~ Done(own) /\ own # None
  BY HandFacts, DoneFacts, NoneIsNothing DEF GoesOn
<1>1. ASSUME NEW e \in queue, e # own PROVE Done(e)' <=> Done(e)
  <2>1. e.kind \in Task
    BY DEF Types, Events, Event
  <2>2. \A q \in Server : q # p \/ e.kind # k => handlers'[q][e.kind] = handlers[q][e.kind]
    BY <2>1 DEF GoesOn, Moved
  <2>3. e.kind = k => handlers'[p][e.kind].event # e /\ handlers[p][e.kind].event # e
    BY <1>1 DEF GoesOn, EventOf
  <2>. QED
    BY <2>2, <2>3 DEF Done
<1>2. ASSUME NEW e \in queue, e = own
      PROVE  ~ Done(e) /\ (Done(e)' <=> at = "done")
  <2>1. handlers'[p][k].event = e /\ handlers'[p][k].at = at /\ e.kind = k
    BY <1>0, <1>2 DEF GoesOn, EventOf
  <2>2. \A q \in Server : q # p => handlers'[q][k] = handlers[q][k]
    BY DEF GoesOn, Moved
  <2>3. \A q \in Server : handlers[q][k].event = e => q = p
    BY <1>0, <1>2 DEF Types, Hands, EventOf
  <2>4. ~ Done(e)
    BY <1>0, <1>2
  <2>. QED
    BY <2>1, <2>2, <2>3, <2>4 DEF Done
<1>. QED
  BY <1>0, <1>1, <1>2

LEMMA PendingFacts ==
  ASSUME Types, NEW p \in Server, NEW k \in Task, NEW at, GoesOn(p, k, at), queue' = queue,
         handlers[p][k].at # "done", NEW s
  PROVE  LET own == EventOf(p, k)
         IN  /\ \A kind : Pending(kind, s) \ {own} = Pending(kind, s)' \ {own}
             /\ Replacing \ {own} = Replacing' \ {own} /\ Replacements' = Replacements
             /\ at # "done" => /\ \A kind : Pending(kind, s)' = Pending(kind, s)
                               /\ Replacing' = Replacing
             /\ own.series = s => own \in Pending(k, s)
             /\ own.kind = k /\ (k # "replace" => own \notin Replacing)
<1> DEFINE own == EventOf(p, k)
<1>1. /\ \A e \in queue : e # own => (Done(e)' <=> Done(e))
      /\ own \in queue /\ own.kind = k
      /\ \A e \in queue : e = own => ~ Done(e) /\ (Done(e)' <=> at = "done")
  BY PendingAtWork
<1>2. Replacements' = Replacements
  BY DEF Replacements
<1>3. \A kind : Pending(kind, s) \ {own} = Pending(kind, s)' \ {own}
  BY <1>1 DEF Pending
<1>4. Replacing \ {own} = Replacing' \ {own}
  BY <1>1, <1>2 DEF Replacing, Replacements
<1>5. ASSUME at # "done"
      PROVE  /\ \A kind : Pending(kind, s)' = Pending(kind, s)
             /\ Replacing' = Replacing
  <2>1. \A e \in queue : Done(e)' <=> Done(e)
    BY <1>1, <1>5
  <2>2. \A kind : Pending(kind, s)' = Pending(kind, s)
    BY <2>1 DEF Pending
  <2>3. Replacing' = Replacing
    BY <1>2, <2>1 DEF Replacing, Replacements
  <2>. QED
    BY <2>2, <2>3
<1>7. own.series = s => own \in Pending(k, s)
  BY <1>1 DEF Pending
<1>8. k # "replace" => own \notin Replacing
  BY <1>1 DEF Replacing, Replacements
<1>. QED
  BY <1>1, <1>2, <1>3, <1>4, <1>5, <1>7, <1>8

-------------------------------------------------------------------------------
(* Steps that a series does not notice.                                    *)
Counts(job, s) ==
  \/ InFlight(job) /\ job.event.series = s
  \/ job.at = "done" /\ job.event.kind = "replace"

Unnoticed(s) ==
  /\ contract'[s] = contract[s] /\ SameDocuments(s)
  /\ burned \subseteq burned' /\ emitted' = emitted
  /\ \A kind : Pending(kind, s) \subseteq Pending(kind, s)'
  /\ Replacing \subseteq Replacing' /\ Replacements' = Replacements
  /\ \A p \in Server, k \in Task : handlers'[p][k] = handlers[p][k] \/ ~ Counts(handlers'[p][k], s)

LEMMA NoHandNoticed ==
  ASSUME Types', NEW s, NEW p \in Server, NEW k \in Task, ~ Counts(handlers'[p][k], s)
  PROVE  /\ k = "index" => ~ Indexes(p, s)' /\ ~ WritesAssets(p, s)'
         /\ ~ HasArtists(p, k, s)'
         /\ k = "replace" => handlers'[p][k].at # "done"
<1>1. handlers'[p][k].at # "idle" => handlers'[p][k].event.kind = k
  BY DEF Types, Hands, Doing, EventOf
<1>. QED
  BY <1>1 DEF Counts, Indexes, WritesAssets, HasArtists, InFlight, SeriesOf, EventOf

LEMMA FrameKeeps ==
  ASSUME Types, Types', NEW s \in Series, Undisturbed(s), Unnoticed(s)
  PROVE  Undisturbed(s)'
<1> USE TaskFacts
<1>1. /\ contract'[s] = contract[s] /\ SameDocuments(s)
      /\ burned \subseteq burned' /\ emitted' = emitted
      /\ \A kind : Pending(kind, s) \subseteq Pending(kind, s)'
      /\ Replacing \subseteq Replacing' /\ Replacements' = Replacements
      /\ \A p \in Server, k \in Task : handlers'[p][k] = handlers[p][k] \/ ~ Counts(handlers'[p][k], s)
  BY DEF Unnoticed
<1>2. ASSUME NEW p \in Server, NEW k \in Task,
             \/ k = "index" /\ (Indexes(p, s)' \/ WritesAssets(p, s)')
             \/ HasArtists(p, k, s)'
             \/ k = "replace" /\ handlers'[p][k].at = "done"
      PROVE  handlers'[p][k] = handlers[p][k] /\ EventOf(p, k)' = EventOf(p, k)
  BY <1>1, <1>2, NoHandNoticed DEF EventOf
<1>3. Members(s)' = Members(s)
  BY <1>1 DEF Members, SameDocuments
<1>4. NoneIsClean(s)'
  <2>1. \A p \in Server : WritesAssets(p, s)' => WritesAssets(p, s)
    BY <1>2 DEF WritesAssets, SeriesOf, EventOf
  <2>. QED
    BY <1>1, <2>1, CleanKept DEF Undisturbed, SameDocuments
<1>5. RunsWritten(s)'
  <2>1. SUFFICES ASSUME NEW p \in Server, WritesAssets(p, s)' PROVE Written(p, s)'
    BY DEF RunsWritten
  <2>2. handlers'[p]["index"] = handlers[p]["index"] /\ collectionAssets'[s] = collectionAssets[s]
    BY <1>1, <1>2, <2>1 DEF SameDocuments
  <2>3. WritesAssets(p, s)
    BY <2>1, <2>2 DEF WritesAssets, SeriesOf, EventOf
  <2>4. Written(p, s)
    BY <2>3 DEF Undisturbed, RunsWritten
  <2>. QED
    BY <1>3, <2>2, <2>4 DEF Written
<1>6. Replaces(s)'
  <2>1. SUFFICES ASSUME NEW p \in Server, handlers'[p]["replace"].at = "done"
        PROVE  /\ \A e \in Replacements' : e.n >= EventOf(p, "replace")'.n
               /\ collections'[s] # None => EventOf(p, "replace")'.old \notin collections'[s].creators
    BY DEF Replaces
  <2>2. handlers'[p]["replace"] = handlers[p]["replace"]
        /\ EventOf(p, "replace")' = EventOf(p, "replace")
    BY <1>2, <2>1
  <2>. QED
    BY <1>1, <2>1, <2>2 DEF Undisturbed, Replaces, SameDocuments
<1>7. ASSUME contract'[s].live PROVE TokensFollow(s)'
  <2>1. TokensFollow(s)
    BY <1>1, <1>7 DEF Undisturbed
  <2>2. TokensInSync(s)' \/ Pending("index", s)' # {}
    BY <1>1, <1>3, <2>1 DEF TokensFollow, TokensInSync, SameDocuments
  <2>3. ASSUME NEW p \in Server, Indexes(p, s)' PROVE Follows(p, s)'
    <3>1. handlers'[p]["index"] = handlers[p]["index"] /\ EventOf(p, "index")' = EventOf(p, "index")
      BY <1>2, <2>3
    <3>2. Indexes(p, s)
      BY <2>3, <3>1 DEF Indexes, SeriesOf
    <3>3. Follows(p, s)
      BY <2>1, <3>2 DEF TokensFollow
    <3>. QED
      BY <1>1, <3>1, <3>3 DEF Follows, Fresh
  <2>. QED
    BY <2>2, <2>3 DEF TokensFollow
<1>8. ASSUME contract'[s].live PROVE ArtistsFollow(s)'
  <2>1. ArtistsFollow(s)
    BY <1>1, <1>8 DEF Undisturbed
  <2>2. PendingCreators(s) \subseteq PendingCreators(s)'
    BY <1>1 DEF PendingCreators
  <2>3. CreatorsInSync(s)' \/ PendingCreators(s)' # {}
    BY <1>1, <2>1, <2>2 DEF ArtistsFollow, CreatorsInSync, SameDocuments
  <2>4. ASSUME NEW p \in Server, NEW k \in Task, HasArtists(p, k, s)' PROVE ArtistsAgree(p, k, s)'
    <3>1. handlers'[p][k] = handlers[p][k] /\ EventOf(p, k)' = EventOf(p, k)
      BY <1>2, <2>4
    <3>2. HasArtists(p, k, s)
      BY <2>4, <3>1 DEF HasArtists, SeriesOf
    <3>3. ArtistsAgree(p, k, s)
      BY <2>1, <3>2 DEF ArtistsFollow
    <3>. QED
      BY <1>1, <2>2, <3>1, <3>3 DEF ArtistsAgree
  <2>. QED
    BY <2>3, <2>4 DEF ArtistsFollow
<1>9. ASSUME ~ contract'[s].live PROVE DeletionFollows(s)'
  <2>1. DeletionFollows(s)
    BY <1>1, <1>9 DEF Undisturbed
  <2>2. \A p \in Server : Indexes(p, s)' => Indexes(p, s)
    BY <1>2 DEF Indexes, SeriesOf
  <2>. QED
    BY <1>1, <2>1, <2>2 DEF DeletionFollows, SameDocuments
<1>. QED
  BY <1>4, <1>5, <1>6, <1>7, <1>8, <1>9 DEF Undisturbed

LEMMA TakeUnnoticed ==
  ASSUME Types, NEW s \in Series, NEW p \in Server, NEW k \in Task, TakeEvent(p, k)
  PROVE  Unnoticed(s)
<1>1. UNCHANGED <<contract, emitted, queue, burned, collections, collectionAssets>>
  BY DEF TakeEvent
<1>2. /\ handlers'[p][k].at # "done" /\ ~ InFlight(handlers'[p][k])
      /\ handlers[p][k].at # "done"
      /\ \A q \in Server, l \in Task : q # p \/ l # k => handlers'[q][l] = handlers[q][l]
  <2>1. Doing(p, k, "idle")
    BY DEF TakeEvent
  <2>2. FirstStep[k] \in {"tokens", "find", "replace", "sync"}
    BY TaskFacts
  <2>. QED
    BY <2>1, <2>2, TakeMoves DEF InFlight, Moved, Doing
<1>3. \A e \in queue : Done(e)' <=> Done(e)
  <2>1. \A e \in queue : e.kind \in Task
    BY DEF Types, Events, Event
  <2>. QED
    BY <1>2, <2>1 DEF Done
<1>4. \A kind : Pending(kind, s)' = Pending(kind, s)
  BY <1>1, <1>3 DEF Pending
<1>5. Replacing' = Replacing /\ Replacements' = Replacements
  BY <1>1, <1>3 DEF Replacing, Replacements
<1>6. \A q \in Server, l \in Task : handlers'[q][l] = handlers[q][l] \/ ~ Counts(handlers'[q][l], s)
  BY <1>2 DEF Counts
<1>. QED
  BY <1>1, <1>4, <1>5, <1>6 DEF Unnoticed, SameDocuments

(* What has been done and is then forgotten is done again.                 *)
LEMMA DropPending ==
  ASSUME Types, DropStep, NEW s
  PROVE  /\ \A kind : Pending(kind, s) \subseteq Pending(kind, s)'
         /\ Replacing \subseteq Replacing'
         /\ \/ Replacements' = Replacements
            \/ \E p \in Server : /\ handlers[p]["replace"].at = "done"
                                 /\ EventOf(p, "replace") \in Replacements
                                 /\ Replacements' = Replacements \ {EventOf(p, "replace")}
<1>1. \A e \in queue : Done(e)' => Done(e)
  <2>1. \A e \in queue : e.kind \in Task
    BY DEF Types, Events, Event
  <2>2. \A q \in Server, l \in Task :
          handlers'[q][l].at = "done" => handlers'[q][l] = handlers[q][l]
    BY DropMoves, NoHandlerIsHandler
  <2>. QED
    BY <2>1, <2>2 DEF Done
<1>2. CASE queue' = queue
  BY <1>1, <1>2 DEF Pending, Replacing, Replacements
<1>3. CASE \E p \in Server, k \in Task : Doing(p, k, "done") /\ queue' = queue \ {EventOf(p, k)}
  <2>1. PICK p \in Server, k \in Task : Doing(p, k, "done") /\ queue' = queue \ {EventOf(p, k)}
    BY <1>3
  <2>2. PICK own : own = EventOf(p, k)
    OBVIOUS
  <2>3. own \in queue /\ own.kind = k /\ \A e \in queue : e = own => Done(e)
    BY <2>1, <2>2, HandFacts, DoneFacts DEF Doing, Done, EventOf
  <2>4. queue' = queue \ {own}
    BY <2>1, <2>2
  <2>5. \A kind : Pending(kind, s) \subseteq Pending(kind, s)'
    BY <1>1, <2>3, <2>4 DEF Pending
  <2>6. Replacing \subseteq Replacing'
    BY <1>1, <2>3, <2>4 DEF Replacing, Replacements
  <2>7. Replacements' = Replacements \ {own}
    BY <2>4 DEF Replacements
  <2>8. CASE k = "replace"
    BY <2>1, <2>2, <2>3, <2>5, <2>6, <2>7, <2>8 DEF Replacements, Doing
  <2>9. CASE k # "replace"
    <3>1. own \notin Replacements
      BY <2>3, <2>9 DEF Replacements
    <3>. QED
      BY <2>5, <2>6, <2>7, <3>1
  <2>. QED
    BY <2>8, <2>9
<1>. QED
  BY <1>2, <1>3, DropMoves

LEMMA DropUnnoticed ==
  ASSUME Types, NEW s \in Series, DropStep, Replacements' = Replacements
  PROVE  Unnoticed(s)
<1>1. /\ UNCHANGED <<contract, emitted, burned, collections, collectionAssets>>
      /\ \A p \in Server, k \in Task : handlers'[p][k] \in {handlers[p][k], NoHandler}
  BY DropMoves
<1>2. ~ Counts(NoHandler, s)
  BY NoHandlerIsHandler DEF Counts, InFlight
<1>3. /\ \A kind : Pending(kind, s) \subseteq Pending(kind, s)'
      /\ Replacing \subseteq Replacing'
  BY DropPending
<1>. QED
  BY <1>1, <1>2, <1>3 DEF Unnoticed, SameDocuments

LEMMA BurnUnnoticed ==
  ASSUME NEW s \in Series, NEW t, Burn(t)
  PROVE  Unnoticed(s)
<1>1. UNCHANGED <<contract, emitted, queue, handlers, collections, collectionAssets>>
      /\ burned \subseteq burned'
  BY DEF Burn
<1>2. \A e : Done(e)' <=> Done(e)
  BY <1>1 DEF Done
<1>. QED
  BY <1>1, <1>2 DEF Unnoticed, SameDocuments, Pending, Replacing, Replacements

LEMMA StutterUnnoticed ==
  ASSUME NEW s \in Series, UNCHANGED collectionsVars
  PROVE  Unnoticed(s)
<1>1. UNCHANGED <<contract, emitted, queue, handlers, burned, collections, collectionAssets>>
  BY DEF collectionsVars
<1>2. \A e : Done(e)' <=> Done(e)
  BY <1>1 DEF Done
<1>. QED
  BY <1>1, <1>2 DEF Unnoticed, SameDocuments, Pending, Replacing, Replacements

(* Steps of handlers of another series.                                    *)
LEMMA ElsewhereUnnoticed ==
  ASSUME Types, NEW s \in Series, NEW p \in Server, NEW k \in Task, NEW at, GoesOn(p, k, at),
         WorkStep(p), SeriesOf(p, k) # s, k # "replace", SameDocuments(s),
         handlers[p][k].at # "done"
  PROVE  Unnoticed(s)
<1>1. UNCHANGED <<contract, emitted, queue, burned>>
  BY WorkUnchanged
<1>2. /\ \A kind : Pending(kind, s) \ {EventOf(p, k)} = Pending(kind, s)' \ {EventOf(p, k)}
      /\ Replacing \ {EventOf(p, k)} = Replacing' \ {EventOf(p, k)} /\ Replacements' = Replacements
      /\ EventOf(p, k) \notin Replacing
  BY <1>1, PendingFacts
<1>3. \A kind : EventOf(p, k) \notin Pending(kind, s)
  BY DEF Pending, SeriesOf
<1>4. handlers'[p][k].event = EventOf(p, k) /\ EventOf(p, k).kind = k
  BY HandFacts DEF GoesOn, EventOf
<1>5. ~ Counts(handlers'[p][k], s)
  BY <1>4 DEF Counts, SeriesOf
<1>6. \A q \in Server, l \in Task : handlers'[q][l] = handlers[q][l] \/ ~ Counts(handlers'[q][l], s)
  BY <1>5 DEF GoesOn, Moved
<1>. QED
  BY <1>1, <1>2, <1>3, <1>6 DEF Unnoticed

(* A replacement that is done has no effect any more, and is the oldest.   *)
LEMMA FinishReplace ==
  ASSUME Types, Types', NEW s \in Series, Undisturbed(s), DropStep, Replacements' # Replacements
  PROVE  Undisturbed(s)'
<1> USE TaskFacts
<1>1. /\ UNCHANGED <<contract, emitted, burned, collections, collectionAssets>>
      /\ \A p \in Server, k \in Task : handlers'[p][k] \in {handlers[p][k], NoHandler}
  BY DropMoves
<1>2. PICK p \in Server : /\ handlers[p]["replace"].at = "done"
                          /\ EventOf(p, "replace") \in Replacements
                          /\ Replacements' = Replacements \ {EventOf(p, "replace")}
  BY DropPending
<1>3. /\ \A kind : Pending(kind, s) \subseteq Pending(kind, s)'
      /\ Replacing \subseteq Replacing'
  BY DropPending
<1>4. \A q \in Server, k \in Task : handlers'[q][k].at # "idle" =>
         handlers'[q][k] = handlers[q][k] /\ EventOf(q, k)' = EventOf(q, k)
  BY <1>1, NoHandlerIsHandler DEF EventOf
<1>5. /\ \A q \in Server : Indexes(q, s)' => Indexes(q, s) /\ handlers'[q]["index"].at # "idle"
      /\ \A q \in Server : WritesAssets(q, s)' => WritesAssets(q, s) /\ handlers'[q]["index"].at # "idle"
      /\ \A q \in Server, k \in Task : HasArtists(q, k, s)' => HasArtists(q, k, s) /\ handlers'[q][k].at # "idle"
  <2>1. ASSUME NEW q \in Server
        PROVE  /\ Indexes(q, s)' => Indexes(q, s) /\ handlers'[q]["index"].at # "idle"
               /\ WritesAssets(q, s)' => WritesAssets(q, s) /\ handlers'[q]["index"].at # "idle"
    <3>1. handlers'[q]["index"].at # "idle" => handlers'[q]["index"] = handlers[q]["index"]
      BY <1>4
    <3>. QED
      BY <3>1 DEF Indexes, WritesAssets, InFlight, SeriesOf, EventOf
  <2>2. ASSUME NEW q \in Server, NEW k \in Task
        PROVE  HasArtists(q, k, s)' => HasArtists(q, k, s) /\ handlers'[q][k].at # "idle"
    <3>1. handlers'[q][k].at # "idle" => handlers'[q][k] = handlers[q][k]
      BY <1>4
    <3>. QED
      BY <3>1 DEF HasArtists, SeriesOf, EventOf
  <2>. QED
    BY <2>1, <2>2
<1>6. Members(s)' = Members(s)
  BY <1>1 DEF Members
<1>7. NoneIsClean(s)'
  BY <1>1, <1>5, CleanKept DEF Undisturbed
<1>8. RunsWritten(s)'
  BY <1>1, <1>4, <1>5, <1>6 DEF Undisturbed, RunsWritten, Written
<1>9. Replaces(s)'
  <2>1. SUFFICES ASSUME NEW q \in Server, handlers'[q]["replace"].at = "done"
        PROVE  /\ \A e \in Replacements' : e.n >= EventOf(q, "replace")'.n
               /\ collections'[s] # None => EventOf(q, "replace")'.old \notin collections'[s].creators
    BY DEF Replaces
  <2>2. handlers'[q]["replace"] = handlers[q]["replace"]
        /\ EventOf(q, "replace")' = EventOf(q, "replace")
    BY <1>4, <2>1
  <2>. QED
    BY <1>1, <1>2, <2>1, <2>2 DEF Undisturbed, Replaces
<1>10. ASSUME contract'[s].live PROVE TokensFollow(s)'
  BY <1>1, <1>3, <1>4, <1>5, <1>6, <1>10 DEF Undisturbed, TokensFollow, TokensInSync, Follows, Fresh
<1>11. ASSUME contract'[s].live PROVE ArtistsFollow(s)'
  <2>1. ArtistsFollow(s)
    BY <1>1, <1>11 DEF Undisturbed
  <2>2. PendingCreators(s) \subseteq PendingCreators(s)'
    BY <1>3 DEF PendingCreators
  <2>3. ASSUME CreatorsInSync(s) PROVE CreatorsInSync(s)'
    <3>1. PICK e : e = EventOf(p, "replace")
      OBVIOUS
    <3>2. collections[s] # None /\ History(Replacements, emitted, collections[s].creators, contract[s].artists)
      BY <2>3 DEF CreatorsInSync
    <3>3. e.old \notin collections[s].creators /\ \A r \in Replacements : r.n >= e.n
      BY <1>2, <3>1, <3>2 DEF Undisturbed, Replaces
    <3>4. Replacements \subseteq Replacement /\ emitted \in Nat
          /\ \A r \in Replacements : r.n \in 1..emitted /\ (r.n = e.n => r = e)
      BY <1>2, <3>1 DEF Types, Events, Event, Replacements, Replacement
    <3>5. e \in Replacements
      BY <1>2, <3>1
    <3>6. History(Replacements \ {e}, emitted, collections[s].creators, contract[s].artists)
      BY <3>2, <3>3, <3>4, <3>5, OldestReplacement
    <3>. QED
      BY <1>1, <1>2, <3>1, <3>2, <3>6 DEF CreatorsInSync
  <2>4. ASSUME NEW q \in Server, NEW k \in Task, HasArtists(q, k, s)' PROVE ArtistsAgree(q, k, s)'
    <3>1. ArtistsAgree(q, k, s)
      BY <1>5, <2>1, <2>4 DEF ArtistsFollow
    <3>. QED
      BY <1>1, <1>3, <1>4, <1>5, <2>2, <2>4, <3>1 DEF ArtistsAgree
  <2>. QED
    BY <2>1, <2>2, <2>3, <2>4 DEF ArtistsFollow
<1>12. ASSUME ~ contract'[s].live PROVE DeletionFollows(s)'
  BY <1>1, <1>3, <1>5, <1>12 DEF Undisturbed, DeletionFollows
<1>. QED
  BY <1>7, <1>8, <1>9, <1>10, <1>11, <1>12 DEF Undisturbed

-------------------------------------------------------------------------------
(* The read of an update that nobody else has to do with.                  *)
LEMMA ResetKeeps ==
  ASSUME Types, Types', NEW s \in Series, Lives(s), NEW p \in Server, ReadTokens(p),
         SeriesOf(p, "index") = s, Alone(p, "index")
  PROVE  Undisturbed(s)'
<1> USE TaskFacts
<1>1. /\ GoesOn(p, "index", "artists") /\ handlers[p]["index"].at = "tokens"
      /\ handlers'[p]["index"].tokens = contract[s].tokens /\ contract[s].live
      /\ UNCHANGED <<contract, emitted, queue, burned, collections, collectionAssets>>
  <2>1. contract[s].live /\ UNCHANGED <<contract, emitted, queue, burned, collections, collectionAssets>>
    BY DEF ReadTokens
  <2>. QED
    BY <2>1, IndexMoves DEF SeriesOf, EventOf
<1>2. \A q \in Server, k \in Task : q # p \/ k # "index" => handlers'[q][k].at = "idle"
  <2>1. SUFFICES ASSUME NEW q \in Server, NEW k \in Task, q # p \/ k # "index"
        PROVE  handlers[q][k].at = "idle"
    BY <1>1 DEF GoesOn, Moved
  <2>2. EventOf(p, "index") # None /\ "index" \in Task
    BY <1>1, HandFacts DEF Doing
  <2>3. EventOf(q, k) # None => EventOf(q, k) = EventOf(p, "index")
    BY DEF Alone, InHand
  <2>4. EventOf(q, k) = None
    BY <2>1, <2>2, <2>3 DEF Types, Hands
  <2>. QED
    BY <2>4, HandFacts DEF Doing
<1>3. NoneIsClean(s)'
  BY <1>1, CleanByIndex DEF Lives
<1>4. RunsWritten(s)'
  BY <1>1, <1>2 DEF RunsWritten, WritesAssets, GoesOn
<1>5. Replaces(s)'
  BY <1>2 DEF Replaces
<1>6. EventOf(p, "index") \in Pending("index", s)'
  <2>1. \A kind : Pending(kind, s)' = Pending(kind, s)
    BY <1>1, PendingFacts
  <2>2. EventOf(p, "index") \in Pending("index", s)
    BY <1>1, PendingFacts DEF SeriesOf
  <2>. QED
    BY <2>1, <2>2
<1>7. TokensFollow(s)'
  <2>1. \A q \in Server : Indexes(q, s)' => q = p
    BY <1>2 DEF Indexes, InFlight
  <2>2. Fresh(p, s)'
    BY <1>1 DEF Fresh
  <2>. QED
    BY <1>6, <2>1, <2>2 DEF TokensFollow, Follows
<1>8. ArtistsFollow(s)'
  <2>1. \A q \in Server, k \in Task : ~ HasArtists(q, k, s)'
    BY <1>1, <1>2 DEF HasArtists, GoesOn
  <2>. QED
    BY <1>6, <2>1 DEF ArtistsFollow, PendingCreators
<1>. QED
  BY <1>1, <1>3, <1>4, <1>5, <1>7, <1>8 DEF Undisturbed

-------------------------------------------------------------------------------
(* A new event of the contract.                                            *)
LEMMA EmitPending ==
  ASSUME Types, NEW kind, NEW r, NEW old, NEW new, Emits(kind, r, old, new), NEW s
  PROVE  \E e \in Event :
           /\ e.n = emitted + 1 /\ e.kind = kind /\ e.series = r /\ e.old = old /\ e.new = new
           /\ e \notin queue /\ \A f \in queue : f.n < e.n /\ f.n <= emitted /\ f.n \in Nat
           /\ Pending("index", s) \subseteq Pending("index", s)'
           /\ Pending("creators", s) \subseteq Pending("creators", s)'
           /\ Pending("delete", s) \subseteq Pending("delete", s)'
           /\ kind = "index" /\ r = s => e \in Pending("index", s)'
           /\ kind = "creators" /\ r = s => e \in Pending("creators", s)'
           /\ kind = "delete" /\ r = s => e \in Pending("delete", s)'
           /\ Replacing \subseteq Replacing' /\ (kind = "replace" => e \in Replacing')
           /\ Replacements' = IF kind = "replace" THEN Replacements \cup {e} ELSE Replacements
<1>1. PICK e \in Event :
         /\ e.n = emitted + 1 /\ e.kind = kind /\ e.series = r /\ e.old = old /\ e.new = new
         /\ emitted' = emitted + 1 /\ queue' = queue \cup {e}
         /\ \A f \in queue : f.n < e.n
         /\ UNCHANGED <<leaked, handlers, burned, collections, collectionAssets, runs, disturbed>>
  BY DEF Emits
<1>2. \A f \in queue : f.n \in Nat /\ f.n <= emitted
  BY DEF Types, Events, Event
<1>3. e \notin queue
  BY <1>1, <1>2
<1>4. \A f : Done(f)' <=> Done(f)
  BY <1>1 DEF Done
<1>5. \A f \in Event : f = e => ~ Done(f)
  <2>1. \A q \in Server, k \in Task : handlers[q][k].event # e
    BY <1>3, HandFacts, NoneIsNothing DEF EventOf, Doing
  <2>2. e.kind \in Task
    BY DEF Event
  <2>. QED
    BY <2>1, <2>2 DEF Done
<1>6. /\ Pending("index", s) \subseteq Pending("index", s)'
      /\ Pending("creators", s) \subseteq Pending("creators", s)'
      /\ Pending("delete", s) \subseteq Pending("delete", s)'
  BY <1>1, <1>4 DEF Pending
<1>7. /\ kind = "index" /\ r = s => e \in Pending("index", s)'
      /\ kind = "creators" /\ r = s => e \in Pending("creators", s)'
      /\ kind = "delete" /\ r = s => e \in Pending("delete", s)'
  BY <1>1, <1>4, <1>5 DEF Pending
<1>8. Replacements' = IF kind = "replace" THEN Replacements \cup {e} ELSE Replacements
  BY <1>1 DEF Replacements
<1>9. Replacing \subseteq Replacing' /\ (kind = "replace" => e \in Replacing')
  BY <1>1, <1>4, <1>5, <1>8 DEF Replacing
<1>. QED
  BY <1>1, <1>2, <1>3, <1>6, <1>7, <1>8, <1>9

(* What does not depend on the contract.                                   *)
LEMMA EmitDocuments ==
  ASSUME Types, NEW kind, NEW r, NEW old, NEW new, Emits(kind, r, old, new), NEW s \in Series,
         Undisturbed(s)
  PROVE  /\ NoneIsClean(s)' /\ RunsWritten(s)' /\ Replaces(s)'
         /\ Members(s)' = Members(s)
         /\ UNCHANGED <<handlers, burned, collections, collectionAssets>> /\ emitted' = emitted + 1
<1>1. UNCHANGED <<handlers, burned, collections, collectionAssets>> /\ emitted' = emitted + 1
  BY DEF Emits
<1>2. Members(s)' = Members(s)
  BY <1>1 DEF Members
<1>3. NoneIsClean(s)' /\ RunsWritten(s)'
  BY <1>1, <1>2 DEF Undisturbed, NoneIsClean, Clean, RunsWritten, WritesAssets, Written, SeriesOf, EventOf
<1>4. Replaces(s)'
  <2>1. SUFFICES ASSUME NEW p \in Server, handlers[p]["replace"].at = "done"
        PROVE  /\ \A e \in Replacements' : e.n >= EventOf(p, "replace").n
               /\ collections[s] # None => EventOf(p, "replace").old \notin collections[s].creators
    BY <1>1 DEF Replaces, EventOf
  <2>2. EventOf(p, "replace") \in queue
    BY <2>1, HandFacts, TaskFacts
  <2>3. PICK e : /\ \A f \in queue : f.n < e.n
                 /\ Replacements' \subseteq Replacements \cup {e}
                 /\ e \in Event
    BY EmitPending
  <2>4. e.n \in Nat /\ EventOf(p, "replace").n \in Nat
    BY <2>2, <2>3 DEF Types, Events, Event
  <2>. QED
    BY <2>1, <2>2, <2>3, <2>4 DEF Undisturbed, Replaces
<1>. QED
  BY <1>1, <1>2, <1>3, <1>4

LEMMA EmitTokens ==
  ASSUME Types, NEW kind, NEW r, NEW old, NEW new, Emits(kind, r, old, new), NEW s \in Series,
         Undisturbed(s), TokensFollow(s),
         contract'[s].tokens = contract[s].tokens \/ (kind = "index" /\ r = s)
  PROVE  TokensFollow(s)'
<1>1. /\ UNCHANGED <<handlers, burned, collections, collectionAssets>>
      /\ Members(s)' = Members(s)
  BY EmitDocuments
<1>2. PICK e : /\ e.n = emitted + 1 /\ \A f \in queue : f.n < e.n
               /\ Pending("index", s) \subseteq Pending("index", s)'
               /\ kind = "index" /\ r = s => e \in Pending("index", s)'
  BY EmitPending
<1>3. ASSUME NEW p \in Server, Indexes(p, s)' PROVE Follows(p, s)'
  <2>1. Indexes(p, s) /\ EventOf(p, "index")' = EventOf(p, "index")
    BY <1>1, <1>3 DEF Indexes, SeriesOf, EventOf
  <2>2. Follows(p, s)
    BY <2>1 DEF TokensFollow
  <2>3. CASE kind = "index" /\ r = s
    <3>1. EventOf(p, "index") \in queue
      BY <2>1, HandFacts, TaskFacts DEF Indexes, InFlight
    <3>. QED
      BY <1>2, <2>1, <2>3, <3>1 DEF Follows
  <2>4. CASE contract'[s].tokens = contract[s].tokens
    BY <1>1, <1>2, <2>1, <2>2, <2>4 DEF Follows, Fresh
  <2>. QED
    BY <2>3, <2>4
<1>4. TokensInSync(s)' \/ Pending("index", s)' # {}
  BY <1>1, <1>2 DEF TokensFollow, TokensInSync
<1>. QED
  BY <1>3, <1>4 DEF TokensFollow

LEMMA EmitArtists ==
  ASSUME Types, NEW kind, NEW r, NEW old, NEW new, Emits(kind, r, old, new), NEW s \in Series,
         Undisturbed(s), ArtistsFollow(s),
         \/ r = s /\ kind \in {"index", "creators"}
         \/ kind # "replace" /\ contract'[s].artists = contract[s].artists
         \/ /\ kind = "replace" /\ {old, new} \subseteq Artist /\ old # new
            /\ contract'[s].artists = Replaced(contract[s].artists, old, new)
  PROVE  ArtistsFollow(s)'
<1>1. UNCHANGED <<handlers, burned, collections, collectionAssets>> /\ emitted' = emitted + 1
  BY EmitDocuments
<1>2. PICK e \in Event :
               /\ e.n = emitted + 1 /\ e.kind = kind /\ e.old = old /\ e.new = new
               /\ e \notin queue /\ \A f \in queue : f.n <= emitted /\ f.n \in Nat
               /\ Pending("index", s) \subseteq Pending("index", s)'
               /\ Pending("creators", s) \subseteq Pending("creators", s)'
               /\ kind = "index" /\ r = s => e \in Pending("index", s)'
               /\ kind = "creators" /\ r = s => e \in Pending("creators", s)'
               /\ Replacing \subseteq Replacing' /\ (kind = "replace" => e \in Replacing')
               /\ Replacements' = IF kind = "replace" THEN Replacements \cup {e} ELSE Replacements
  BY EmitPending
<1>3. PendingCreators(s) \subseteq PendingCreators(s)'
  BY <1>2 DEF PendingCreators
<1>4. ASSUME NEW p \in Server, NEW k \in Task, HasArtists(p, k, s)' PROVE ArtistsAgree(p, k, s)'
  <2>1. HasArtists(p, k, s) /\ EventOf(p, k)' = EventOf(p, k)
    BY <1>1, <1>4 DEF HasArtists, SeriesOf, EventOf
  <2>2. ArtistsAgree(p, k, s)
    BY <2>1 DEF ArtistsFollow
  <2>3. EventOf(p, k) \in queue
    BY <2>1, HandFacts DEF HasArtists
  <2>4. e # EventOf(p, k)
    BY <1>2, <2>3
  <2>5. CASE e \in PendingCreators(s)' \cup Replacing'
    BY <2>1, <2>4, <2>5 DEF ArtistsAgree
  <2>6. CASE kind # "replace" /\ contract'[s].artists = contract[s].artists
    BY <1>1, <1>2, <1>3, <2>1, <2>2, <2>6 DEF ArtistsAgree
  <2>. QED
    BY <1>2, <2>5, <2>6 DEF PendingCreators
<1>5. CreatorsInSync(s)' \/ PendingCreators(s)' # {}
  <2>1. CASE PendingCreators(s) # {} \/ (r = s /\ kind \in {"index", "creators"})
    BY <1>2, <1>3, <2>1 DEF PendingCreators
  <2>2. CASE CreatorsInSync(s) /\ ~ (r = s /\ kind \in {"index", "creators"})
    <3>1. /\ emitted \in Nat /\ \A f \in Replacements : f.n <= emitted /\ f.n \in Nat
          /\ collections[s] # None
          /\ History(Replacements, emitted, collections[s].creators, contract[s].artists)
      BY <1>2, <2>2 DEF CreatorsInSync, Types, Events, Replacements
    <3>2. CASE kind # "replace" /\ contract'[s].artists = contract[s].artists
      <4>1. History(Replacements, emitted + 1, collections[s].creators, contract[s].artists)
        BY <3>1, LaterEvent
      <4>. QED
        BY <1>1, <1>2, <3>1, <3>2, <4>1 DEF CreatorsInSync
    <3>3. CASE /\ kind = "replace" /\ {old, new} \subseteq Artist /\ old # new
               /\ contract'[s].artists = Replaced(contract[s].artists, old, new)
      <4>1. e \in Replacement
        BY <1>2, <3>3 DEF Replacement
      <4>2. History(Replacements \cup {e}, emitted + 1, collections[s].creators,
                    Replaced(contract[s].artists, e.old, e.new))
        BY <1>2, <3>1, <4>1, LaterReplacement
      <4>. QED
        BY <1>1, <1>2, <3>1, <3>3, <4>2 DEF CreatorsInSync
    <3>. QED
      BY <2>2, <3>2, <3>3
  <2>. QED
    BY <2>1, <2>2 DEF ArtistsFollow
<1>. QED
  BY <1>4, <1>5 DEF ArtistsFollow

LEMMA EmitDeletion ==
  ASSUME Types, NEW kind, NEW r, NEW old, NEW new, Emits(kind, r, old, new), NEW s \in Series,
         Undisturbed(s), DeletionFollows(s) \/ (r = s /\ kind = "delete")
  PROVE  DeletionFollows(s)'
<1>1. UNCHANGED <<handlers, collections>>
  BY EmitDocuments
<1>2. PICK e : /\ Pending("delete", s) \subseteq Pending("delete", s)'
               /\ kind = "delete" /\ r = s => e \in Pending("delete", s)'
  BY EmitPending
<1>3. \A p \in Server : Indexes(p, s)' => Indexes(p, s)
  BY <1>1 DEF Indexes, SeriesOf, EventOf
<1>. QED
  BY <1>1, <1>2, <1>3 DEF DeletionFollows

(* A series that is registered: there is nothing before that.              *)
LEMMA RegisterKeeps ==
  ASSUME Types, NEW s \in Series, emitted = 0, Emits("index", s, None, None)
  PROVE  TokensFollow(s)' /\ ArtistsFollow(s)'
<1>1. \A p \in Server, k \in Task : handlers'[p][k].at = "idle"
  <2>1. queue = {} /\ handlers' = handlers
    BY EventIsNew DEF Emits
  <2>. QED
    BY <2>1, HandFacts
<1>2. Pending("index", s)' # {}
  BY EmitPending
<1>3. /\ \A p \in Server : ~ Indexes(p, s)'
      /\ \A p \in Server, k \in Task : ~ HasArtists(p, k, s)'
  BY <1>1, TaskFacts DEF Indexes, InFlight, HasArtists
<1>. QED
  BY <1>2, <1>3 DEF TokensFollow, ArtistsFollow, PendingCreators

LEMMA ContractKeeps ==
  ASSUME Types, NEW s \in Series, Undisturbed(s), NEW r \in Series, NEW kind \in Task,
         ContractSteps(kind, r)
  PROVE  Undisturbed(s)'
<1>1. Emits(kind, r, None, None) /\ kind # "replace"
  BY ContractEmits DEF ContractSteps
<1>2. NoneIsClean(s)' /\ RunsWritten(s)' /\ Replaces(s)'
  BY <1>1, EmitDocuments
<1>3. contract \in [Series -> [live : BOOLEAN, tokens : SUBSET Token, artists : SUBSET Artist]]
  BY DEF Types, Events
<1>4. CASE r # s
  <2>1. contract'[s] = contract[s]
    BY <1>4, ContractEmits
  <2>. QED
    BY <1>1, <1>2, <2>1, EmitTokens, EmitArtists, EmitDeletion DEF Undisturbed
<1>5. CASE r = s /\ \E first \in Registered : RegisterSeries(s, first[1], first[2]) /\ kind = "index"
  <2>1. contract'[s].live /\ emitted = 0
    BY <1>3, <1>5 DEF RegisterSeries
  <2>. QED
    BY <1>1, <1>2, <1>5, <2>1, RegisterKeeps DEF Undisturbed
<1>6. CASE r = s /\ kind = "index" /\ \E T \in TokenData : UpdateSeries(s, T)
  <2>1. contract[s].live
    BY <1>6 DEF UpdateSeries
  <2>2. contract'[s].live
    BY <1>3, <1>6, <2>1 DEF UpdateSeries
  <2>. QED
    BY <1>1, <1>2, <1>6, <2>1, <2>2, EmitTokens, EmitArtists DEF Undisturbed
<1>7. CASE r = s /\ kind = "delete" /\ DeleteSeries(s)
  <2>1. ~ contract'[s].live
    BY <1>3, <1>7 DEF DeleteSeries, Gone
  <2>. QED
    BY <1>1, <1>2, <1>7, <2>1, EmitDeletion DEF Undisturbed
<1>8. CASE r = s /\ kind = "creators" /\ \E A \in ArtistData : Opt(s, A)
  <2>1. contract[s].live
    BY <1>8 DEF Opt
  <2>2. contract'[s].live /\ contract'[s].tokens = contract[s].tokens
    BY <1>3, <1>8, <2>1 DEF Opt
  <2>. QED
    BY <1>1, <1>2, <1>8, <2>1, <2>2, EmitTokens, EmitArtists DEF Undisturbed
<1>. QED
  BY <1>4, <1>5, <1>6, <1>7, <1>8 DEF ContractSteps

LEMMA AddressKeeps ==
  ASSUME Types, NEW s \in Series, Undisturbed(s), NEW old \in Artist, NEW new \in Artist, old # new,
         UpdateArtistAddress(old, new)
  PROVE  Undisturbed(s)'
<1>1. /\ Emits("replace", None, old, new)
      /\ contract'[s].live = contract[s].live /\ contract'[s].tokens = contract[s].tokens
      /\ contract'[s].artists = Replaced(contract[s].artists, old, new)
  BY AddressEmits
<1>2. NoneIsClean(s)' /\ RunsWritten(s)' /\ Replaces(s)'
  BY <1>1, EmitDocuments
<1>. QED
  BY <1>1, <1>2, EmitTokens, EmitArtists, EmitDeletion DEF Undisturbed

-------------------------------------------------------------------------------
(* Steps of an update.                                                     *)
LEMMA QuietWrite ==
  ASSUME Types, NEW p \in Server, NEW k \in Task, NEW S, NEW s \in S, s \in Series, Disturb(p, k, S),
         ~ disturbed'[s], handlers[p][k].at # "idle"
  PROVE  /\ \A q \in Server : Indexes(q, s) => q = p /\ k = "index"
         /\ k \in {"index", "creators"} => Replacements = {}
         /\ k = "replace" => \A e \in Replacements : e.n >= EventOf(p, k).n
<1> USE TaskFacts
<1>1. ~ OthersInFlight(p, k, s) /\ ~ OutOfOrder(p, k)
  BY DEF Disturb
<1>2. EventOf(p, k) \in queue /\ EventOf(p, k).kind = k
  BY HandFacts
<1>3. \A q \in Server : Indexes(q, s) => q = p /\ k = "index"
  BY <1>1 DEF OthersInFlight, Indexes
<1>4. k \in {"index", "creators"} => Replacements = {}
  BY <1>1, <1>2 DEF OutOfOrder, Replacements
<1>5. ASSUME k = "replace", NEW e \in Replacements PROVE e.n >= EventOf(p, k).n
  <2>1. e.n \in Nat /\ EventOf(p, k).n \in Nat
    BY <1>2 DEF Types, Events, Event, Replacements
  <2>2. e = EventOf(p, k) \/ ~ (e.n < EventOf(p, k).n)
    BY <1>1, <1>5 DEF OutOfOrder, Replacements
  <2>. QED
    BY <2>1, <2>2
<1>. QED
  BY <1>3, <1>4, <1>5

LEMMA ReplacesKept ==
  ASSUME Types, NEW s \in Series, Replaces(s), NEW p \in Server, NEW k \in Task, k # "replace",
         Moved(p, k), queue' = queue,
         collections'[s] = collections[s] \/ collections'[s] = None \/ Replacements = {}
  PROVE  Replaces(s)'
<1> USE TaskFacts
<1>1. SUFFICES ASSUME NEW q \in Server, handlers'[q]["replace"].at = "done"
      PROVE  /\ \A e \in Replacements' : e.n >= EventOf(q, "replace")'.n
             /\ collections'[s] # None => EventOf(q, "replace")'.old \notin collections'[s].creators
  BY DEF Replaces
<1>2. handlers'[q]["replace"] = handlers[q]["replace"] /\ EventOf(q, "replace")' = EventOf(q, "replace")
  BY DEF Moved, EventOf
<1>3. Replacements' = Replacements
  BY DEF Replacements
<1>4. EventOf(q, "replace") \in Replacements
  BY <1>1, <1>2, HandFacts DEF Replacements
<1>. QED
  BY <1>1, <1>2, <1>3, <1>4 DEF Replaces

(* An update that is under way makes up for what is not in sync yet.       *)
LEMMA IndexUnderway ==
  ASSUME Types, Types', NEW s \in Series, Undisturbed(s), NEW p \in Server, NEW at,
         GoesOn(p, "index", at), at # "done", handlers[p]["index"].at # "done", WorkStep(p),
         SeriesOf(p, "index") = s, NoneIsClean(s)', RunsWritten(s)',
         collections'[s] = collections[s] \/ Replacements = {},
         contract[s].live \/ Indexes(p, s),
         \/ handlers'[p]["index"].tokens = contract[s].tokens
         \/ /\ Indexes(p, s)
            /\ handlers'[p]["index"].tokens \subseteq handlers[p]["index"].tokens
            /\ handlers[p]["index"].tokens \ handlers'[p]["index"].tokens \subseteq burned,
         \/ ~ HasArtists(p, "index", s)'
         \/ handlers'[p]["index"].artists = contract[s].artists
         \/ /\ HasArtists(p, "index", s)
            /\ handlers'[p]["index"].artists = handlers[p]["index"].artists
  PROVE  Undisturbed(s)'
<1> USE TaskFacts
<1>1. UNCHANGED <<contract, emitted, queue, leaked, burned>>
  BY WorkUnchanged
<1>2. /\ \A kind : Pending(kind, s)' = Pending(kind, s)
      /\ Replacing' = Replacing /\ Replacements' = Replacements
      /\ EventOf(p, "index") \in Pending("index", s)
  BY <1>1, PendingFacts DEF SeriesOf
<1>3. /\ PendingCreators(s)' = PendingCreators(s)
      /\ Pending("index", s)' = Pending("index", s) /\ Pending("delete", s)' = Pending("delete", s)
  BY <1>2 DEF PendingCreators
<1>4. EventOf(p, "index")' = EventOf(p, "index")
  BY DEF GoesOn, EventOf
<1>5. \A q \in Server, k \in Task : q # p \/ k # "index" =>
         handlers'[q][k] = handlers[q][k] /\ EventOf(q, k)' = EventOf(q, k)
  BY DEF GoesOn, Moved, EventOf
<1>6. Replaces(s)'
  BY <1>1, ReplacesKept DEF Undisturbed, GoesOn
<1>7. ASSUME contract'[s].live PROVE TokensFollow(s)'
  <2>1. TokensFollow(s)
    BY <1>1, <1>7 DEF Undisturbed
  <2>2. ASSUME NEW q \in Server, Indexes(q, s)' PROVE Follows(q, s)'
    <3>1. CASE q # p
      <4>1. Indexes(q, s) /\ handlers'[q]["index"] = handlers[q]["index"]
            /\ EventOf(q, "index")' = EventOf(q, "index")
        BY <1>5, <2>2, <3>1 DEF Indexes, SeriesOf
      <4>2. Follows(q, s)
        BY <2>1, <4>1 DEF TokensFollow
      <4>. QED
        BY <1>1, <1>3, <4>1, <4>2 DEF Follows, Fresh
    <3>2. CASE q = p /\ handlers'[p]["index"].tokens = contract[s].tokens
      BY <1>1, <3>2 DEF Follows, Fresh
    <3>3. CASE /\ q = p /\ Indexes(p, s)
               /\ handlers'[p]["index"].tokens \subseteq handlers[p]["index"].tokens
               /\ handlers[p]["index"].tokens \ handlers'[p]["index"].tokens \subseteq burned
      <4>1. Follows(p, s)
        BY <2>1, <3>3 DEF TokensFollow
      <4>. QED
        BY <1>1, <1>3, <1>4, <3>3, <4>1 DEF Follows, Fresh
    <3>. QED
      BY <3>1, <3>2, <3>3
  <2>. QED
    BY <1>2, <1>3, <2>2 DEF TokensFollow
<1>8. ASSUME contract'[s].live PROVE ArtistsFollow(s)'
  <2>1. ArtistsFollow(s)
    BY <1>1, <1>8 DEF Undisturbed
  <2>2. ASSUME NEW q \in Server, NEW k \in Task, HasArtists(q, k, s)' PROVE ArtistsAgree(q, k, s)'
    <3>1. \/ handlers'[q][k].artists = contract[s].artists
          \/ HasArtists(q, k, s) /\ handlers'[q][k].artists = handlers[q][k].artists
      BY <1>5, <2>2 DEF HasArtists, SeriesOf
    <3>2. HasArtists(q, k, s) => ArtistsAgree(q, k, s)
      BY <2>1 DEF ArtistsFollow
    <3>3. EventOf(q, k)' = EventOf(q, k)
      BY <1>4, <1>5
    <3>. QED
      BY <1>1, <1>2, <1>3, <3>1, <3>2, <3>3 DEF ArtistsAgree
  <2>. QED
    BY <1>2, <1>3, <2>2 DEF ArtistsFollow, PendingCreators
<1>9. ASSUME ~ contract'[s].live PROVE DeletionFollows(s)'
  BY <1>1, <1>3, <1>9 DEF Undisturbed, DeletionFollows
<1>. QED
  BY <1>6, <1>7, <1>8, <1>9 DEF Undisturbed

LEMMA IndexReads ==
  ASSUME Types, Types', NEW s \in Series, Undisturbed(s), NEW p \in Server,
         SeriesOf(p, "index") = s, ReadTokens(p) \/ ReadArtists(p)
  PROVE  Undisturbed(s)'
<1> USE TaskFacts
<1>1. UNCHANGED <<contract, collections, collectionAssets>>
  BY DEF ReadTokens, ReadArtists
<1>2. \E at \in {"artists", "collect"} :
        /\ GoesOn(p, "index", at)
        /\ handlers[p]["index"].at \in {"tokens", "artists"}
  BY IndexMoves
<1>3. NoneIsClean(s)'
  BY CleanByIndex DEF Undisturbed
<1>4. RunsWritten(s)'
  <2>1. SUFFICES ASSUME NEW q \in Server, WritesAssets(q, s)' PROVE Written(q, s)'
    BY DEF RunsWritten
  <2>2. q # p
    BY <1>2, <2>1 DEF WritesAssets, GoesOn
  <2>3. handlers'[q]["index"] = handlers[q]["index"] /\ WritesAssets(q, s)
    BY <1>2, <2>1, <2>2 DEF WritesAssets, GoesOn, Moved, SeriesOf, EventOf
  <2>4. Members(s)' = Members(s)
    BY <1>1 DEF Members
  <2>. QED
    BY <1>1, <2>3, <2>4 DEF Undisturbed, RunsWritten, Written
<1>5. CASE ReadTokens(p)
  <2>1. /\ GoesOn(p, "index", "artists") /\ handlers[p]["index"].at = "tokens"
        /\ handlers'[p]["index"].tokens = contract[s].tokens
        /\ contract[s].live
    BY <1>5, IndexMoves DEF ReadTokens, SeriesOf, EventOf
  <2>2. ~ HasArtists(p, "index", s)'
    BY <2>1 DEF HasArtists, GoesOn
  <2>. QED
    BY <1>1, <1>3, <1>4, <1>5, <2>1, <2>2, IndexUnderway DEF WorkStep
<1>6. CASE ReadArtists(p)
  <2>1. /\ GoesOn(p, "index", "collect") /\ handlers[p]["index"].at = "artists"
        /\ handlers'[p]["index"].tokens = handlers[p]["index"].tokens
        /\ handlers'[p]["index"].artists = contract[s].artists
    BY <1>6, IndexMoves DEF SeriesOf, EventOf
  <2>2. Indexes(p, s)
    BY <2>1 DEF Indexes, InFlight
  <2>. QED
    BY <1>1, <1>3, <1>4, <1>6, <2>1, <2>2, IndexUnderway DEF WorkStep
<1>. QED
  BY <1>5, <1>6

LEMMA StoreKeeps ==
  ASSUME Types, Types', NEW s \in Series, Undisturbed(s), NEW p \in Server,
         SeriesOf(p, "index") = s, StoreCollection(p), ~ disturbed'[s]
  PROVE  Undisturbed(s)'
<1> USE TaskFacts
<1>1. /\ GoesOn(p, "index", "filter") /\ handlers[p]["index"].at = "collect"
      /\ handlers'[p]["index"].tokens = handlers[p]["index"].tokens
      /\ handlers'[p]["index"].run = runs' /\ runs' = runs + 1
      /\ handlers'[p]["index"].artists = handlers[p]["index"].artists
      /\ collectionAssets' = collectionAssets /\ Disturb(p, "index", {s})
  BY IndexMoves DEF StoreCollection, IndexCollection, SeriesOf, EventOf
<1>2. Replacements = {}
  BY <1>1, QuietWrite
<1>3. NoneIsClean(s)'
  BY CleanByIndex DEF Undisturbed
<1>4. RunsWritten(s)'
  <2>1. SUFFICES ASSUME NEW q \in Server, WritesAssets(q, s)' PROVE Written(q, s)'
    BY DEF RunsWritten
  <2>2. CASE q = p
    <3>1. handlers'[p]["index"].at = "filter"
      BY <1>1 DEF GoesOn
    <3>2. runs \in Nat /\ \A t \in Token : collectionAssets[s][t] \in 0..runs
      BY DEF Types, Documents
    <3>. QED
      BY <1>1, <2>2, <3>1, <3>2 DEF Written
  <2>3. CASE q # p
    <3>1. handlers'[q]["index"] = handlers[q]["index"] /\ WritesAssets(q, s)
      BY <1>1, <2>1, <2>3 DEF WritesAssets, GoesOn, Moved, SeriesOf, EventOf
    <3>2. Members(s)' = Members(s)
      BY <1>1 DEF Members
    <3>. QED
      BY <1>1, <3>1, <3>2 DEF Undisturbed, RunsWritten, Written
  <2>. QED
    BY <2>2, <2>3
<1>5. Indexes(p, s) /\ HasArtists(p, "index", s)
  BY <1>1 DEF Indexes, InFlight, HasArtists
<1>. QED
  BY <1>1, <1>2, <1>3, <1>4, <1>5, IndexUnderway DEF WorkStep

LEMMA FilterKeeps ==
  ASSUME Types, Types', NEW s \in Series, Undisturbed(s), NEW p \in Server,
         SeriesOf(p, "index") = s, FilterBurned(p)
  PROVE  Undisturbed(s)'
<1> USE TaskFacts
<1>1. /\ GoesOn(p, "index", "assets") /\ handlers[p]["index"].at = "filter"
      /\ handlers'[p]["index"].tokens = handlers[p]["index"].tokens \ burned
      /\ handlers'[p]["index"].todo = handlers'[p]["index"].tokens
      /\ handlers'[p]["index"].run = handlers[p]["index"].run
      /\ handlers'[p]["index"].artists = handlers[p]["index"].artists
      /\ UNCHANGED <<collections, collectionAssets>>
  BY IndexMoves DEF FilterBurned
<1>2. NoneIsClean(s)'
  BY CleanByIndex DEF Undisturbed
<1>3. RunsWritten(s)'
  <2>1. SUFFICES ASSUME NEW q \in Server, WritesAssets(q, s)' PROVE Written(q, s)'
    BY DEF RunsWritten
  <2>2. CASE q = p
    <3>1. handlers'[p]["index"].at = "assets"
      BY <1>1 DEF GoesOn
    <3>2. WritesAssets(p, s)
      BY <1>1 DEF WritesAssets
    <3>3. Written(p, s)
      BY <3>2 DEF Undisturbed, RunsWritten
    <3>. QED
      BY <1>1, <2>2, <3>1, <3>3 DEF Written
  <2>3. CASE q # p
    <3>1. handlers'[q]["index"] = handlers[q]["index"] /\ WritesAssets(q, s)
      BY <1>1, <2>1, <2>3 DEF WritesAssets, GoesOn, Moved, SeriesOf, EventOf
    <3>2. Members(s)' = Members(s)
      BY <1>1 DEF Members
    <3>. QED
      BY <1>1, <3>1, <3>2 DEF Undisturbed, RunsWritten, Written
  <2>. QED
    BY <2>2, <2>3
<1>4. Indexes(p, s) /\ HasArtists(p, "index", s)
  BY <1>1 DEF Indexes, InFlight, HasArtists
<1>. QED
  BY <1>1, <1>2, <1>3, <1>4, IndexUnderway DEF WorkStep

(* Only this update writes the assets of the series.                       *)
LEMMA AssetKeeps ==
  ASSUME Types, Types', NEW s \in Series, Undisturbed(s), NEW p \in Server,
         SeriesOf(p, "index") = s, IndexCollectionAsset(p) \/ DeleteDeprecatedCollectionAsset(p),
         ~ disturbed'[s]
  PROVE  Undisturbed(s)'
<1> USE TaskFacts
<1> DEFINE job == handlers[p]["index"]
<1>1. PICK at \in {"assets", "total"} :
        /\ GoesOn(p, "index", at) /\ job.at = "assets"
        /\ handlers'[p]["index"].tokens = job.tokens
        /\ handlers'[p]["index"].run = job.run
        /\ handlers'[p]["index"].artists = job.artists
        /\ IF at = "assets"
             THEN \E t \in job.todo :
                    /\ handlers'[p]["index"].todo = job.todo \ {t}
                    /\ collectionAssets' = [collectionAssets EXCEPT ![s][t] = job.run]
             ELSE /\ job.todo = {}
                  /\ collectionAssets' = [collectionAssets EXCEPT ![s] =
                       [t \in Token |-> IF Deprecated(job.run, @[t]) THEN 0 ELSE @[t]]]
  <2>1. CASE IndexCollectionAsset(p)
    <3>1. PICK t \in job.todo :
            /\ handlers'[p]["index"].todo = job.todo \ {t}
            /\ collectionAssets' = [collectionAssets EXCEPT ![s][t] = job.run]
      BY <2>1, AssetMoves DEF SeriesOf, EventOf
    <3>. QED
      BY <2>1, <3>1, AssetMoves
  <2>2. CASE DeleteDeprecatedCollectionAsset(p)
    <3>1. collectionAssets' = [collectionAssets EXCEPT ![s] =
            [t \in Token |-> IF Deprecated(job.run, @[t]) THEN 0 ELSE @[t]]]
      BY <2>2 DEF DeleteDeprecatedCollectionAsset
    <3>. QED
      BY <2>2, <3>1, AssetMoves
  <2>. QED
    BY <2>1, <2>2
<1>2. collections' = collections /\ Disturb(p, "index", {s})
  BY DEF IndexCollectionAsset, DeleteDeprecatedCollectionAsset
<1>3. \A q \in Server : Indexes(q, s) => q = p
  BY <1>1, <1>2, QuietWrite
<1>4. NoneIsClean(s)'
  BY CleanByIndex DEF Undisturbed
<1>5. WritesAssets(p, s) /\ Indexes(p, s) /\ HasArtists(p, "index", s)
  BY <1>1 DEF WritesAssets, Indexes, InFlight, HasArtists
<1>6. Written(p, s)
  BY <1>5 DEF Undisturbed, RunsWritten
<1>7. collectionAssets \in [Series -> [Token -> Nat]] /\ job.todo \subseteq Token
  BY HandFacts DEF Types, Documents, Hands, Handler
<1>8. Written(p, s)'
  <2>1. handlers'[p]["index"].at = at /\ job.run # 0
        /\ {t \in Token : collectionAssets[s][t] = job.run} = job.tokens \ job.todo
        /\ job.todo \subseteq job.tokens
    BY <1>1, <1>6 DEF GoesOn, Written
  <2>2. CASE at = "assets"
    <3>1. PICK t \in job.todo :
                    /\ handlers'[p]["index"].todo = job.todo \ {t}
                    /\ collectionAssets' = [collectionAssets EXCEPT ![s][t] = job.run]
      BY <1>1, <2>2
    <3>2. \A u \in Token : collectionAssets'[s][u] = IF u = t THEN job.run ELSE collectionAssets[s][u]
      BY <1>7, <3>1
    <3>3. {u \in Token : collectionAssets'[s][u] = job.run}
            = {u \in Token : collectionAssets[s][u] = job.run} \cup {t}
      BY <1>7, <3>1, <3>2
    <3>. QED
      BY <1>1, <2>1, <2>2, <3>1, <3>3 DEF Written
  <2>3. CASE at = "total"
    <3>1. \A u \in Token : collectionAssets'[s][u] =
             IF collectionAssets[s][u] # job.run THEN 0 ELSE collectionAssets[s][u]
      BY <1>1, <1>7, <2>3 DEF Deprecated
    <3>2. Members(s)' = {u \in Token : collectionAssets[s][u] = job.run}
      BY <2>1, <3>1 DEF Members
    <3>3. job.todo = {}
      BY <1>1, <2>3
    <3>. QED
      BY <1>1, <2>1, <2>3, <3>2, <3>3 DEF Written
  <2>. QED
    BY <2>2, <2>3
<1>9. RunsWritten(s)'
  <2>1. \A q \in Server : WritesAssets(q, s)' => q = p
    <3>1. ASSUME NEW q \in Server, q # p, WritesAssets(q, s)' PROVE Indexes(q, s)
      BY <1>1, <3>1 DEF WritesAssets, Indexes, InFlight, GoesOn, Moved, SeriesOf, EventOf
    <3>. QED
      BY <1>3, <3>1
  <2>. QED
    BY <1>8, <2>1 DEF RunsWritten
<1>. QED
  BY <1>1, <1>2, <1>4, <1>5, <1>9, IndexUnderway DEF WorkStep

-------------------------------------------------------------------------------
(* The last write of a handler that nobody gets in the way of.             *)
LEMMA NobodyElse ==
  ASSUME Types, NEW p \in Server, NEW k \in Task, NEW S, NEW s \in S, s \in Series, Disturb(p, k, S),
         ~ disturbed'[s], GoesOn(p, k, "done"), handlers[p][k].at # "done", queue' = queue
  PROVE  /\ \A q \in Server : ~ Indexes(q, s)' /\ ~ WritesAssets(q, s)'
         /\ \A q \in Server, l \in Task : ~ HasArtists(q, l, s)'
         /\ \A e \in Pending("index", s) : e # EventOf(p, k) => e \in Pending("index", s)'
         /\ \A e \in PendingCreators(s) : e # EventOf(p, k) => e \in PendingCreators(s)'
         /\ \A e \in Pending("delete", s) : e # EventOf(p, k) => e \in Pending("delete", s)'
         /\ Replacements' = Replacements
         /\ EventOf(p, k).kind = k
<1> USE TaskFacts
<1>1. ~ OthersInFlight(p, k, s)
  BY DEF Disturb
<1>2. \A q \in Server, l \in Task : InFlight(handlers'[q][l]) => handlers'[q][l].event.series # s
  <2>1. ~ InFlight(handlers'[p][k])
    BY DEF GoesOn, InFlight
  <2>2. \A q \in Server, l \in Task : q # p \/ l # k => handlers'[q][l] = handlers[q][l]
    BY DEF GoesOn, Moved
  <2>. QED
    BY <1>1, <2>1, <2>2 DEF OthersInFlight, SeriesOf, EventOf
<1>3. \A q \in Server : ~ Indexes(q, s)' /\ ~ WritesAssets(q, s)'
  BY <1>2 DEF Indexes, WritesAssets, InFlight, SeriesOf, EventOf
<1>4. \A q \in Server, l \in Task : ~ HasArtists(q, l, s)'
  BY <1>2 DEF HasArtists, InFlight, SeriesOf, EventOf
<1>5. \A e \in queue : e # EventOf(p, k) => (Done(e)' <=> Done(e))
  BY PendingAtWork
<1>6. /\ \A e \in Pending("index", s) : e # EventOf(p, k) => e \in Pending("index", s)'
      /\ \A e \in Pending("delete", s) : e # EventOf(p, k) => e \in Pending("delete", s)'
      /\ \A e \in PendingCreators(s) : e # EventOf(p, k) => e \in PendingCreators(s)'
  BY <1>5 DEF Pending, PendingCreators
<1>7. Replacements' = Replacements /\ EventOf(p, k).kind = k
  BY HandFacts DEF Replacements, GoesOn
<1>. QED
  BY <1>3, <1>4, <1>6, <1>7

LEMMA TotalKeeps ==
  ASSUME Types, Types', NEW s \in Series, Undisturbed(s), NEW p \in Server,
         SeriesOf(p, "index") = s, UpdateTotal(p), ~ disturbed'[s]
  PROVE  Undisturbed(s)'
<1> USE TaskFacts
<1> DEFINE job == handlers[p]["index"]
           own == EventOf(p, "index")
<1>1. /\ GoesOn(p, "index", "done") /\ job.at = "total" /\ Disturb(p, "index", {s})
      /\ UNCHANGED <<contract, emitted, queue, burned, collectionAssets>>
      /\ collections' = [collections EXCEPT ![s] =
             [creators |-> job.artists, items |-> Cardinality(job.tokens)]]
  BY AssetMoves DEF UpdateTotal, IndexCollection, SeriesOf, EventOf
<1>2. /\ \A q \in Server : ~ Indexes(q, s)' /\ ~ WritesAssets(q, s)'
      /\ \A q \in Server, l \in Task : ~ HasArtists(q, l, s)'
      /\ \A e \in Pending("index", s) : e # own => e \in Pending("index", s)'
      /\ \A e \in PendingCreators(s) : e # own => e \in PendingCreators(s)'
      /\ \A e \in Pending("delete", s) : e # own => e \in Pending("delete", s)'
      /\ Replacements' = Replacements /\ own.kind = "index"
  BY <1>1, NobodyElse
<1>3. Replacements = {}
  BY <1>1, QuietWrite
<1>4. NoneIsClean(s)'
  BY CleanByIndex DEF Undisturbed
<1>5. Replaces(s)'
  BY <1>1, <1>3, ReplacesKept DEF Undisturbed, GoesOn
<1>6. /\ collections'[s] # None
      /\ collections'[s].creators = job.artists
      /\ collections'[s].items = Cardinality(job.tokens)
  <2>1. collections'[s] = [creators |-> job.artists, items |-> Cardinality(job.tokens)]
    BY <1>1 DEF Types, Documents
  <2>2. collections'[s] \in Collection
    BY <2>1, HandFacts, CardinalityIsNat DEF Handler, Collection
  <2>. QED
    BY <2>1, <2>2, NoneIsNothing
<1>7. WritesAssets(p, s) /\ Indexes(p, s) /\ HasArtists(p, "index", s)
  BY <1>1 DEF WritesAssets, Indexes, InFlight, HasArtists
<1>8. Members(s)' = job.tokens
  <2>1. Members(s) = job.tokens
    BY <1>1, <1>7 DEF Undisturbed, RunsWritten, Written
  <2>. QED
    BY <1>1, <2>1 DEF Members
<1>9. ASSUME contract'[s].live PROVE TokensFollow(s)'
  <2>1. Follows(p, s)
    BY <1>1, <1>7, <1>9 DEF Undisturbed, TokensFollow
  <2>2. CASE Fresh(p, s)
    BY <1>1, <1>2, <1>6, <1>8, <2>2 DEF Fresh, TokensFollow, TokensInSync
  <2>3. CASE \E e \in Pending("index", s) : e.n > own.n
    <3>1. own.n \in Nat
      BY <1>1, HandFacts DEF Types, Events, Event
    <3>2. \E e \in Pending("index", s) : e # own
      BY <2>3, <3>1
    <3>. QED
      BY <1>2, <3>2 DEF TokensFollow
  <2>. QED
    BY <2>1, <2>2, <2>3 DEF Follows
<1>10. ASSUME contract'[s].live PROVE ArtistsFollow(s)'
  <2>1. ArtistsAgree(p, "index", s)
    BY <1>1, <1>7, <1>10 DEF Undisturbed, ArtistsFollow
  <2>2. CASE job.artists = contract[s].artists
    <3>1. emitted \in Nat /\ job.artists \in SUBSET Artist
      BY HandFacts DEF Types, Events, Handler
    <3>2. History({}, emitted, job.artists, contract[s].artists)
      BY <2>2, <3>1, NoReplacement
    <3>3. CreatorsInSync(s)'
      BY <1>1, <1>2, <1>3, <1>6, <3>2 DEF CreatorsInSync
    <3>. QED
      BY <1>2, <3>3 DEF ArtistsFollow
  <2>3. CASE \E e \in PendingCreators(s) \cup Replacing : e # own
    <3>1. \E e \in PendingCreators(s) : e # own
      BY <1>3, <2>3 DEF Replacing
    <3>. QED
      BY <1>2, <3>1 DEF ArtistsFollow
  <2>. QED
    BY <2>1, <2>2, <2>3 DEF ArtistsAgree
<1>11. ASSUME ~ contract'[s].live PROVE DeletionFollows(s)'
  <2>1. Pending("delete", s) # {}
    BY <1>1, <1>7, <1>11 DEF Undisturbed, DeletionFollows
  <2>2. \A e \in Pending("delete", s) : e # own
    BY <1>2 DEF Pending
  <2>. QED
    BY <1>2, <2>1, <2>2 DEF DeletionFollows
<1>12. RunsWritten(s)'
  BY <1>2 DEF RunsWritten
<1>. QED
  BY <1>4, <1>5, <1>9, <1>10, <1>11, <1>12 DEF Undisturbed

(* A series that has an event that deletes it is deleted.                  *)
LEMMA DeleteKeeps ==
  ASSUME Types, Types', NEW s \in Series, Lives(s), Undisturbed(s), NEW p \in Server,
         SeriesOf(p, "delete") = s, FindCollection(p) \/ DeleteCollection(p), ~ disturbed'[s]
  PROVE  Undisturbed(s)'
<1> USE TaskFacts
<1> DEFINE own == EventOf(p, "delete")
<1>1. /\ UNCHANGED <<contract, emitted, queue, burned>>
      /\ Disturb(p, "delete", {s})
      /\ collections'[s] = collections[s] \/ collections'[s] = None
  BY DEF FindCollection, DeleteCollection, Types, Documents
<1>2. PICK at \in {"done", "delete"} :
        /\ GoesOn(p, "delete", at) /\ handlers[p]["delete"].at \in {"find", "delete"}
        /\ at = "done" => collections'[s] = None
        /\ at = "delete" => UNCHANGED <<collections, collectionAssets>>
  <2>1. CASE FindCollection(p)
    BY <2>1, OtherMoves DEF FindCollection
  <2>2. CASE DeleteCollection(p)
    BY <2>2, OtherMoves DEF DeleteCollection, Types, Documents
  <2>. QED
    BY <2>1, <2>2
<1>3. ~ contract'[s].live
  <2>1. own \in queue /\ own.kind = "delete" /\ own.series = s
    BY <1>2, HandFacts DEF SeriesOf
  <2>. QED
    BY <1>1, <2>1 DEF Lives
<1>4. NoneIsClean(s)'
  BY CleanByOthers, CleanByDelete DEF Undisturbed
<1>5. Replaces(s)'
  BY <1>1, <1>2, ReplacesKept DEF Undisturbed, GoesOn
<1>6. CASE at = "delete"
  <2>1. \A q \in Server : handlers'[q]["index"] = handlers[q]["index"]
    BY <1>2 DEF GoesOn, Moved
  <2>2. \A q \in Server : /\ Indexes(q, s)' => Indexes(q, s)
                          /\ WritesAssets(q, s)' => WritesAssets(q, s)
    BY <2>1 DEF Indexes, WritesAssets, SeriesOf, EventOf
  <2>3. Members(s)' = Members(s)
    BY <1>2, <1>6 DEF Members
  <2>4. RunsWritten(s)'
    BY <1>2, <1>6, <2>1, <2>2, <2>3 DEF Undisturbed, RunsWritten, Written
  <2>5. \A kind : Pending(kind, s)' = Pending(kind, s)
    BY <1>1, <1>2, <1>6, PendingFacts
  <2>6. DeletionFollows(s)'
    BY <1>1, <1>2, <1>3, <1>6, <2>2, <2>5 DEF Undisturbed, DeletionFollows
  <2>. QED
    BY <1>3, <1>4, <1>5, <2>4, <2>6 DEF Undisturbed
<1>7. CASE at = "done"
  <2>1. \A q \in Server : ~ Indexes(q, s)' /\ ~ WritesAssets(q, s)'
    BY <1>1, <1>2, <1>7, NobodyElse
  <2>. QED
    BY <1>2, <1>3, <1>4, <1>5, <1>7, <2>1 DEF Undisturbed, RunsWritten, DeletionFollows
<1>. QED
  BY <1>6, <1>7

LEMMA ReadCreatorsKeeps ==
  ASSUME Types, Types', NEW s \in Series, Undisturbed(s), NEW p \in Server,
         SeriesOf(p, "creators") = s, ReadCreators(p)
  PROVE  Undisturbed(s)'
<1> USE TaskFacts
<1>1. /\ GoesOn(p, "creators", "update") /\ handlers[p]["creators"].at = "sync"
      /\ handlers'[p]["creators"].artists = contract[s].artists
      /\ UNCHANGED <<contract, emitted, queue, burned, collections, collectionAssets>>
  BY OtherMoves DEF ReadCreators
<1>2. /\ \A kind : Pending(kind, s)' = Pending(kind, s)
      /\ Replacing' = Replacing /\ Replacements' = Replacements
  BY <1>1, PendingFacts
<1>3. /\ PendingCreators(s)' = PendingCreators(s)
      /\ Pending("index", s)' = Pending("index", s) /\ Pending("delete", s)' = Pending("delete", s)
  BY <1>2 DEF PendingCreators
<1>4. \A q \in Server, k \in Task : q # p \/ k # "creators" =>
         handlers'[q][k] = handlers[q][k] /\ EventOf(q, k)' = EventOf(q, k)
  BY <1>1 DEF GoesOn, Moved, EventOf
<1>5. \A q \in Server : /\ Indexes(q, s)' => Indexes(q, s)
                        /\ WritesAssets(q, s)' => WritesAssets(q, s)
                        /\ handlers'[q]["index"] = handlers[q]["index"]
                        /\ EventOf(q, "index")' = EventOf(q, "index")
  BY <1>4 DEF Indexes, WritesAssets, SeriesOf
<1>6. Members(s)' = Members(s)
  BY <1>1 DEF Members
<1>7. NoneIsClean(s)'
  BY CleanByOthers DEF Undisturbed
<1>8. RunsWritten(s)'
  BY <1>1, <1>5, <1>6 DEF Undisturbed, RunsWritten, Written
<1>9. Replaces(s)'
  BY <1>1, ReplacesKept DEF Undisturbed, GoesOn
<1>10. ASSUME contract'[s].live PROVE TokensFollow(s)'
  BY <1>1, <1>3, <1>5, <1>6, <1>10 DEF Undisturbed, TokensFollow, TokensInSync, Follows, Fresh
<1>11. ASSUME contract'[s].live PROVE ArtistsFollow(s)'
  <2>1. ArtistsFollow(s)
    BY <1>1, <1>11 DEF Undisturbed
  <2>2. ASSUME NEW q \in Server, NEW k \in Task, HasArtists(q, k, s)' PROVE ArtistsAgree(q, k, s)'
    <3>1. CASE q = p /\ k = "creators"
      BY <1>1, <3>1 DEF ArtistsAgree
    <3>2. CASE q # p \/ k # "creators"
      <4>1. handlers'[q][k] = handlers[q][k] /\ EventOf(q, k)' = EventOf(q, k) /\ HasArtists(q, k, s)
        BY <1>4, <2>2, <3>2 DEF HasArtists, SeriesOf
      <4>2. ArtistsAgree(q, k, s)
        BY <2>1, <4>1 DEF ArtistsFollow
      <4>. QED
        BY <1>1, <1>2, <1>3, <4>1, <4>2 DEF ArtistsAgree
    <3>. QED
      BY <3>1, <3>2
  <2>3. CreatorsInSync(s) => CreatorsInSync(s)'
    BY <1>1, <1>2 DEF CreatorsInSync
  <2>. QED
    BY <1>3, <2>1, <2>2, <2>3 DEF ArtistsFollow
<1>12. ASSUME ~ contract'[s].live PROVE DeletionFollows(s)'
  BY <1>1, <1>3, <1>5, <1>12 DEF Undisturbed, DeletionFollows
<1>. QED
  BY <1>7, <1>8, <1>9, <1>10, <1>11, <1>12 DEF Undisturbed

(* The creators of a collection that is not there are left to the update   *)
(* that makes it.                                                          *)
LEMMA UpdateCreatorsKeeps ==
  ASSUME Types, Types', NEW s \in Series, Undisturbed(s), NEW p \in Server,
         SeriesOf(p, "creators") = s, UpdateCollectionCreators(p), ~ disturbed'[s]
  PROVE  Undisturbed(s)'
<1> USE TaskFacts
<1> DEFINE job == handlers[p]["creators"]
           own == EventOf(p, "creators")
<1>1. /\ GoesOn(p, "creators", "done") /\ job.at = "update" /\ Disturb(p, "creators", {s})
      /\ UNCHANGED <<contract, emitted, queue, burned, collectionAssets>>
  BY OtherMoves DEF UpdateCollectionCreators
<1>2. /\ \A q \in Server : ~ Indexes(q, s)' /\ ~ WritesAssets(q, s)'
      /\ \A q \in Server, l \in Task : ~ HasArtists(q, l, s)'
      /\ \A e \in Pending("index", s) : e # own => e \in Pending("index", s)'
      /\ \A e \in PendingCreators(s) : e # own => e \in PendingCreators(s)'
      /\ \A e \in Pending("delete", s) : e # own => e \in Pending("delete", s)'
      /\ Replacements' = Replacements /\ own.kind = "creators"
  BY <1>1, NobodyElse
<1>3. Replacements = {}
  BY <1>1, QuietWrite
<1>4. NoneIsClean(s)'
  BY CleanByOthers DEF Undisturbed
<1>5. Replaces(s)'
  BY <1>1, <1>3, ReplacesKept DEF Undisturbed, GoesOn
<1>6. IF collections[s] = None THEN collections'[s] = None
      ELSE /\ collections'[s] # None
           /\ collections'[s].creators = job.artists
           /\ collections'[s].items = collections[s].items
  <2>1. collections'[s] = IF collections[s] = None THEN None
                          ELSE [creators |-> job.artists, items |-> collections[s].items]
    BY DEF UpdateCollectionCreators, SyncedCreators, Types, Documents
  <2>2. collections[s] # None => collections[s].items \in Nat
    BY DEF Types, Documents, Collection
  <2>3. collections[s] # None => [creators |-> job.artists, items |-> collections[s].items] \in Collection
    BY <2>2, HandFacts DEF Handler, Collection
  <2>. QED
    BY <2>1, <2>3, NoneIsNothing
<1>7. Members(s)' = Members(s)
  BY <1>1 DEF Members
<1>8. \A e \in Pending("index", s) : e # own
  BY <1>2 DEF Pending
<1>9. ASSUME contract'[s].live PROVE TokensFollow(s)'
  <2>1. TokensFollow(s)
    BY <1>1, <1>9 DEF Undisturbed
  <2>2. TokensInSync(s) => TokensInSync(s)'
    BY <1>1, <1>6, <1>7 DEF TokensInSync
  <2>. QED
    BY <1>2, <1>8, <2>1, <2>2 DEF TokensFollow
<1>10. ASSUME contract'[s].live PROVE ArtistsFollow(s)'
  <2>1. HasArtists(p, "creators", s)
    BY <1>1 DEF HasArtists
  <2>2. ArtistsAgree(p, "creators", s)
    BY <1>1, <1>10, <2>1 DEF Undisturbed, ArtistsFollow
  <2>3. CASE job.artists = contract[s].artists /\ collections[s] # None
    <3>1. emitted \in Nat /\ job.artists \in SUBSET Artist
      BY HandFacts DEF Types, Events, Handler
    <3>2. History({}, emitted, job.artists, contract[s].artists)
      BY <2>3, <3>1, NoReplacement
    <3>3. CreatorsInSync(s)'
      BY <1>1, <1>2, <1>3, <1>6, <2>3, <3>2 DEF CreatorsInSync
    <3>. QED
      BY <1>2, <3>3 DEF ArtistsFollow
  <2>4. CASE \E e \in PendingCreators(s) \cup Replacing : e # own
    <3>1. \E e \in PendingCreators(s) : e # own
      BY <1>3, <2>4 DEF Replacing
    <3>. QED
      BY <1>2, <3>1 DEF ArtistsFollow
  <2>5. CASE collections[s] = None
    <3>1. Pending("index", s) # {}
      BY <1>1, <1>10, <2>5 DEF Undisturbed, TokensFollow, TokensInSync
    <3>2. \E e \in PendingCreators(s) : e # own
      BY <1>8, <3>1 DEF PendingCreators
    <3>. QED
      BY <1>2, <3>2 DEF ArtistsFollow
  <2>. QED
    BY <2>2, <2>3, <2>4, <2>5 DEF ArtistsAgree
<1>11. ASSUME ~ contract'[s].live PROVE DeletionFollows(s)'
  <2>1. DeletionFollows(s)
    BY <1>1, <1>11 DEF Undisturbed
  <2>2. \A e \in Pending("delete", s) : e # own
    BY <1>2 DEF Pending
  <2>. QED
    BY <1>2, <1>6, <2>1, <2>2 DEF DeletionFollows
<1>12. RunsWritten(s)'
  BY <1>2 DEF RunsWritten
<1>. QED
  BY <1>4, <1>5, <1>9, <1>10, <1>11, <1>12 DEF Undisturbed

(* The oldest replacement is applied to every collection.                  *)
LEMMA ReplaceKeeps ==
  ASSUME Types, Types', NEW s \in Series, Undisturbed(s), NEW p \in Server,
         ReplaceCollectionCreator(p), ~ disturbed'[s]
  PROVE  Undisturbed(s)'
<1> USE TaskFacts
<1>0. PICK own : own = EventOf(p, "replace")
  OBVIOUS
<1>1. /\ GoesOn(p, "replace", "done") /\ handlers[p]["replace"].at = "replace"
      /\ Disturb(p, "replace", Series)
      /\ UNCHANGED <<contract, emitted, queue, burned, collectionAssets>>
      /\ collections'[s] = IF collections[s] = None THEN None
           ELSE [collections[s] EXCEPT !.creators = Replaced(@, own.old, own.new)]
  BY <1>0, OtherMoves DEF ReplaceCollectionCreator
<1>2. /\ \A q \in Server : ~ Indexes(q, s)' /\ ~ WritesAssets(q, s)'
      /\ \A q \in Server, l \in Task : ~ HasArtists(q, l, s)'
      /\ \A e \in Pending("index", s) : e # own => e \in Pending("index", s)'
      /\ \A e \in PendingCreators(s) : e # own => e \in PendingCreators(s)'
      /\ \A e \in Pending("delete", s) : e # own => e \in Pending("delete", s)'
      /\ Replacements' = Replacements /\ own.kind = "replace"
  BY <1>0, <1>1, NobodyElse
<1>3. \A e \in Replacements : e.n >= own.n
  BY <1>0, <1>1, QuietWrite
<1>4. own \in Replacements
  BY <1>0, <1>1, <1>2, HandFacts DEF Replacements
<1>5. /\ Replacements \subseteq Replacement
      /\ \A r \in Replacements : r.n \in 1..emitted /\ (r.n = own.n => r = own)
      /\ emitted \in Nat
  BY <1>4 DEF Types, Events, Event, Replacements, Replacement
<1>6. IF collections[s] = None THEN collections'[s] = None
      ELSE /\ collections'[s] # None
           /\ collections'[s].creators = Replaced(collections[s].creators, own.old, own.new)
           /\ collections'[s].items = collections[s].items
           /\ own.old \notin collections'[s].creators
  <2>1. SUFFICES ASSUME collections[s] # None
        PROVE  /\ collections'[s] # None
               /\ collections'[s].creators = Replaced(collections[s].creators, own.old, own.new)
               /\ collections'[s].items = collections[s].items
               /\ own.old \notin collections'[s].creators
    BY <1>1
  <2>2. collections[s] \in Collection
    BY <2>1 DEF Types, Documents
  <2>3. Replaced(collections[s].creators, own.old, own.new) \in SUBSET Artist
        /\ own.old \notin Replaced(collections[s].creators, own.old, own.new)
    BY <1>4, <1>5, <2>2, ReplacedIsSet DEF Collection
  <2>4. collections'[s] \in Collection
        /\ collections'[s].creators = Replaced(collections[s].creators, own.old, own.new)
        /\ collections'[s].items = collections[s].items
    BY <1>1, <2>1, <2>2, <2>3 DEF Collection
  <2>. QED
    BY <2>3, <2>4, NoneIsNothing
<1>7. Members(s)' = Members(s)
  BY <1>1 DEF Members
<1>8. NoneIsClean(s)'
  BY CleanByOthers DEF Undisturbed
<1>9. Replaces(s)'
  <2>1. SUFFICES ASSUME NEW q \in Server, handlers'[q]["replace"].at = "done"
        PROVE  /\ \A e \in Replacements' : e.n >= EventOf(q, "replace")'.n
               /\ collections'[s] # None => EventOf(q, "replace")'.old \notin collections'[s].creators
    BY DEF Replaces
  <2>2. EventOf(p, "replace")' = own
    BY <1>0, <1>1 DEF GoesOn, EventOf
  <2>3. CASE q = p
    BY <1>2, <1>3, <1>6, <2>2, <2>3
  <2>4. CASE q # p
    <3>1. handlers'[q]["replace"] = handlers[q]["replace"]
      BY <1>1, <2>4 DEF GoesOn, Moved
    <3>2. \A e \in Replacements : e.n >= EventOf(q, "replace").n
      BY <2>1, <3>1 DEF Undisturbed, Replaces
    <3>3. EventOf(q, "replace") \in Replacements
      BY <2>1, <3>1, HandFacts DEF Replacements
    <3>4. EventOf(q, "replace").n = own.n
      BY <1>3, <1>4, <1>5, <3>2, <3>3
    <3>5. EventOf(q, "replace") = EventOf(p, "replace") /\ EventOf(p, "replace") # None
      BY <1>0, <1>4, <1>5, <3>3, <3>4, HandFacts, NoneIsNothing DEF Replacement
    <3>. QED
      BY <2>4, <3>5 DEF Types, Hands
  <2>. QED
    BY <2>3, <2>4
<1>10. /\ \A e \in Pending("index", s) : e # own
       /\ \A e \in PendingCreators(s) : e # own
       /\ \A e \in Pending("delete", s) : e # own
  BY <1>2 DEF Pending, PendingCreators
<1>11. ASSUME contract'[s].live PROVE TokensFollow(s)'
  <2>1. TokensFollow(s)
    BY <1>1, <1>11 DEF Undisturbed
  <2>2. TokensInSync(s) => TokensInSync(s)'
    BY <1>1, <1>6, <1>7 DEF TokensInSync
  <2>. QED
    BY <1>2, <1>10, <2>1, <2>2 DEF TokensFollow
<1>12. ASSUME contract'[s].live PROVE ArtistsFollow(s)'
  <2>1. ArtistsFollow(s)
    BY <1>1, <1>12 DEF Undisturbed
  <2>2. ASSUME CreatorsInSync(s) PROVE CreatorsInSync(s)'
    <3>1. collections[s] # None /\ History(Replacements, emitted, collections[s].creators, contract[s].artists)
      BY <2>2 DEF CreatorsInSync
    <3>2. History(Replacements, emitted, Replaced(collections[s].creators, own.old, own.new),
                  contract[s].artists)
      BY <1>3, <1>4, <1>5, <3>1, OldestReplacement
    <3>. QED
      BY <1>1, <1>2, <1>6, <3>1, <3>2 DEF CreatorsInSync
  <2>. QED
    BY <1>2, <1>10, <2>1, <2>2 DEF ArtistsFollow
<1>13. ASSUME ~ contract'[s].live PROVE DeletionFollows(s)'
  BY <1>1, <1>2, <1>6, <1>10, <1>13 DEF Undisturbed, DeletionFollows
<1>14. RunsWritten(s)'
  BY <1>2 DEF RunsWritten
<1>. QED
  BY <1>8, <1>9, <1>11, <1>12, <1>13, <1>14 DEF Undisturbed

(* A handler of another series.                                            *)
LEMMA ElsewhereKeeps ==
  ASSUME Types, Types', NEW s \in Series, Undisturbed(s), NEW p \in Server,
         \/ /\ SeriesOf(p, "index") # s
            /\ \/ ReadTokens(p) \/ ReadArtists(p) \/ StoreCollection(p) \/ FilterBurned(p)
               \/ IndexCollectionAsset(p) \/ DeleteDeprecatedCollectionAsset(p) \/ UpdateTotal(p)
         \/ SeriesOf(p, "delete") # s /\ (FindCollection(p) \/ DeleteCollection(p))
         \/ SeriesOf(p, "creators") # s /\ (ReadCreators(p) \/ UpdateCollectionCreators(p))
  PROVE  Undisturbed(s)'
<1> USE TaskFacts
<1>1. WorkStep(p)
  BY DEF WorkStep
<1>2. SameDocuments(s)
  <2>1. CASE SeriesOf(p, "index") # s /\ (ReadTokens(p) \/ ReadArtists(p) \/ FilterBurned(p))
    BY <2>1 DEF ReadTokens, ReadArtists, FilterBurned, SameDocuments
  <2>2. CASE SeriesOf(p, "index") # s /\ (StoreCollection(p) \/ UpdateTotal(p))
    BY <2>2 DEF StoreCollection, UpdateTotal, IndexCollection, SameDocuments, Types, Documents
  <2>3. CASE SeriesOf(p, "index") # s /\ (IndexCollectionAsset(p) \/ DeleteDeprecatedCollectionAsset(p))
    BY <2>3 DEF IndexCollectionAsset, DeleteDeprecatedCollectionAsset, SameDocuments, Types, Documents
  <2>4. CASE SeriesOf(p, "delete") # s /\ (FindCollection(p) \/ DeleteCollection(p))
    BY <2>4 DEF FindCollection, DeleteCollection, SameDocuments, Types, Documents
  <2>5. CASE SeriesOf(p, "creators") # s /\ (ReadCreators(p) \/ UpdateCollectionCreators(p))
    BY <2>5 DEF ReadCreators, UpdateCollectionCreators, SameDocuments, Types, Documents
  <2>. QED
    BY <2>1, <2>2, <2>3, <2>4, <2>5
<1>3. \E k \in {"index", "delete", "creators"} : \E at :
        GoesOn(p, k, at) /\ handlers[p][k].at # "done" /\ SeriesOf(p, k) # s
  <2>1. CASE /\ SeriesOf(p, "index") # s
            /\ \/ ReadTokens(p) \/ ReadArtists(p) \/ StoreCollection(p) \/ FilterBurned(p)
               \/ IndexCollectionAsset(p) \/ DeleteDeprecatedCollectionAsset(p) \/ UpdateTotal(p)
    <3>1. \E at \in {"artists", "collect", "filter", "assets", "total", "done"} :
            GoesOn(p, "index", at) /\ handlers[p]["index"].at # "done"
      BY <2>1, IndexMoves, AssetMoves
    <3>. QED
      BY <2>1, <3>1
  <2>2. CASE SeriesOf(p, "delete") # s /\ (FindCollection(p) \/ DeleteCollection(p))
    <3>1. \E at \in {"done", "delete"} :
            GoesOn(p, "delete", at) /\ handlers[p]["delete"].at # "done"
      BY <2>2, OtherMoves
    <3>. QED
      BY <2>2, <3>1
  <2>3. CASE SeriesOf(p, "creators") # s /\ (ReadCreators(p) \/ UpdateCollectionCreators(p))
    <3>1. \E at \in {"done", "update"} :
            GoesOn(p, "creators", at) /\ handlers[p]["creators"].at # "done"
      BY <2>3, OtherMoves
    <3>. QED
      BY <2>3, <3>1
  <2>. QED
    BY <2>1, <2>2, <2>3
<1>4. PICK k \in Task : \E at :
        GoesOn(p, k, at) /\ handlers[p][k].at # "done" /\ SeriesOf(p, k) # s /\ k # "replace"
  <2>1. \A k \in {"index", "delete", "creators"} : k \in Task /\ k # "replace"
    OBVIOUS
  <2>. QED
    BY <1>3, <2>1
<1>5. Unnoticed(s)
  BY <1>1, <1>2, <1>4, ElsewhereUnnoticed
<1>. QED
  BY <1>5, FrameKeeps

LEMMA WorkKeeps ==
  ASSUME Types, Types', NEW s \in Series, Lives(s), Undisturbed(s), NEW p \in Server, WorkStep(p),
         ~ disturbed'[s]
  PROVE  Undisturbed(s)'
<1>1. CASE \/ ReadTokens(p) \/ ReadArtists(p) \/ StoreCollection(p) \/ FilterBurned(p)
           \/ IndexCollectionAsset(p) \/ DeleteDeprecatedCollectionAsset(p) \/ UpdateTotal(p)
  BY <1>1, IndexReads, StoreKeeps, FilterKeeps, AssetKeeps, TotalKeeps, ElsewhereKeeps
<1>2. CASE FindCollection(p) \/ DeleteCollection(p)
  BY <1>2, DeleteKeeps, ElsewhereKeeps
<1>3. CASE ReplaceCollectionCreator(p)
  BY <1>3, ReplaceKeeps
<1>4. CASE ReadCreators(p) \/ UpdateCollectionCreators(p)
  BY <1>4, ReadCreatorsKeeps, UpdateCreatorsKeeps, ElsewhereKeeps
<1>. QED
  BY <1>1, <1>2, <1>3, <1>4 DEF WorkStep

LEMMA UndisturbedKept ==
  ASSUME Types, Types', NEW s \in Series, Lives(s), Undisturbed(s), ~ disturbed'[s],
         [CollectionsNext]_collectionsVars
  PROVE  Undisturbed(s)'
<1>1. CASE \E p \in Server : WorkStep(p)
  BY <1>1, WorkKeeps
<1>2. CASE \E r \in Series, kind \in Task : ContractSteps(kind, r)
  BY <1>2, ContractKeeps
<1>3. CASE \E old, new \in Artist : old # new /\ UpdateArtistAddress(old, new)
  BY <1>3, AddressKeeps
<1>4. CASE DropStep
  BY <1>4, DropUnnoticed, FrameKeeps, FinishReplace
<1>5. CASE (\E t \in Burnable : Burn(t)) \/ (\E p \in Server, k \in Task : TakeEvent(p, k))
           \/ UNCHANGED collectionsVars
  <2>1. Unnoticed(s)
    BY <1>5, BurnUnnoticed, TakeUnnoticed, StutterUnnoticed
  <2>. QED
    BY <2>1, FrameKeeps
<1>. QED
  BY <1>1, <1>2, <1>3, <1>4, <1>5, StepOf

-------------------------------------------------------------------------------
LEMMA IInit == CollectionsInit => CollectionsIInv
<1> SUFFICES ASSUME CollectionsInit PROVE CollectionsIInv
  OBVIOUS
<1>1. Types /\ \A s \in Series : Lives(s) /\ NoneIsClean(s)
  BY InitTypes, OrphanInit DEF OrphanInv, CollectionsInit
<1>2. ASSUME NEW s \in Series PROVE Undisturbed(s)
  <2>1. \A p \in Server, k \in Task : handlers[p][k].at = "idle"
    BY NoHandlerIsHandler DEF CollectionsInit
  <2>2. ~ contract[s].live /\ collections[s] = None
    BY DEF CollectionsInit, Gone
  <2>3. \A p \in Server : ~ Indexes(p, s) /\ ~ WritesAssets(p, s) /\ handlers[p]["replace"].at # "done"
    BY <2>1, TaskFacts DEF Indexes, InFlight, WritesAssets
  <2>. QED
    BY <1>1, <2>2, <2>3 DEF Undisturbed, RunsWritten, Replaces, DeletionFollows
<1>. QED
  BY <1>1, <1>2 DEF CollectionsIInv

LEMMA IStep == CollectionsIInv /\ [CollectionsNext]_collectionsVars => CollectionsIInv'
<1> SUFFICES ASSUME CollectionsIInv, [CollectionsNext]_collectionsVars PROVE CollectionsIInv'
  OBVIOUS
<1>1. Types /\ Types'
  BY TypesKept DEF CollectionsIInv
<1>2. ASSUME NEW s \in Series PROVE Lives(s)' /\ (~ disturbed'[s] => Undisturbed(s)')
  <2>1. Lives(s) /\ Lives(s)'
    BY <1>1, LivesKept DEF CollectionsIInv
  <2>2. CASE disturbed[s] /\ ~ disturbed'[s]
    <3>1. \E p \in Server : ReadTokens(p) /\ SeriesOf(p, "index") = s /\ Alone(p, "index")
      BY <1>1, <2>2, StartsAlone
    <3>. QED
      BY <1>1, <2>1, <3>1, ResetKeeps
  <2>3. CASE ~ disturbed[s] /\ ~ disturbed'[s]
    BY <1>1, <2>1, <2>3, UndisturbedKept DEF CollectionsIInv
  <2>. QED
    BY <2>1, <2>2, <2>3
<1>. QED
  BY <1>1, <1>2 DEF CollectionsIInv

(* What holds in every state: the types, and for a series whose handlers   *)
(* did not get in each other's way that updates write what they read, that *)
(* what is stored is what the contract says or an event is still to come   *)
(* that makes it so, and that replacements are applied in order.           *)
THEOREM CollectionsInvariance == CollectionsSpec => []CollectionsIInv
<1>1. CollectionsIInv /\ [CollectionsNext]_collectionsVars => CollectionsIInv'
  BY IStep
<1>. QED
  BY IInit, <1>1, PTL DEF CollectionsSpec

LEMMA InvAtRest == CollectionsIInv => AtRestInSync
<1> SUFFICES ASSUME CollectionsIInv, queue = {}, NEW s \in Series, ~ disturbed[s] PROVE InSync(s)
  BY DEF AtRestInSync
<1>1. Undisturbed(s) /\ Types
  BY DEF CollectionsIInv
<1>2. Replacements = {} /\ PendingCreators(s) = {} /\ Pending("index", s) = {} /\ Pending("delete", s) = {}
  BY DEF Replacements, PendingCreators, Pending
<1>3. CASE contract[s].live
  <2>1. TokensInSync(s) /\ CreatorsInSync(s)
    BY <1>1, <1>2, <1>3 DEF Undisturbed, TokensFollow, ArtistsFollow
  <2>2. collections[s].creators \in SUBSET Artist /\ emitted \in Nat
    BY <1>1, <2>1 DEF CreatorsInSync, Types, Documents, Collection, Events
  <2>3. collections[s].creators = contract[s].artists
    BY <1>2, <2>1, <2>2, NoReplacement DEF CreatorsInSync
  <2>. QED
    BY <1>3, <2>1, <2>3 DEF InSync, TokensInSync
<1>4. CASE ~ contract[s].live
  <2>1. collections[s] = None /\ Clean(s)
    BY <1>1, <1>2, <1>4 DEF Undisturbed, DeletionFollows, NoneIsClean
  <2>. QED
    BY <1>4, <2>1 DEF InSync, Clean, Members
<1>. QED
  BY <1>3, <1>4

(* When every event is processed a collection is what the contract says    *)
(* (series_registry_event_processor.go:24-307), unless handlers of its     *)
(* series got in each other's way since the last update that ran alone.    *)
THEOREM SettledIsInSync == CollectionsSpec => []AtRestInSync
BY CollectionsInvariance, InvAtRest, PTL

LEMMA MembersStay ==
  ASSUME CollectionsIInv, [CollectionsNext]_collectionsVars, NEW s \in Series, NEW t \in Members(s) \ Members(s)',
         ~ disturbed'[s]
  PROVE  \/ t \in burned \/ t \notin contract[s].tokens
         \/ \E e \in queue, p \in Server :
              e.kind = "index" /\ e.series = s /\ EventOf(p, "index") # None
                /\ e.n > EventOf(p, "index").n
<1> USE TaskFacts
<1>1. Types /\ Lives(s) /\ collectionAssets'[s] # collectionAssets[s]
  BY DEF CollectionsIInv, Members
<1>2. Undisturbed(s)
  <2>1. CASE disturbed[s]
    <3>1. \E p \in Server : ReadTokens(p)
      BY <1>1, <2>1, StartsAlone
    <3>. QED
      BY <1>1, <3>1 DEF ReadTokens
  <2>. QED
    BY <2>1 DEF CollectionsIInv
<1>3. PICK p \in Server : WorkStep(p)
  BY <1>1, <1>2, CleanByRest DEF Undisturbed, SameDocuments
<1>4. CASE IndexCollectionAsset(p)
  <2>1. PICK u \in handlers[p]["index"].todo :
          collectionAssets' =
            [collectionAssets EXCEPT ![SeriesOf(p, "index")][u] = handlers[p]["index"].run]
    BY <1>4 DEF IndexCollectionAsset
  <2>2. handlers[p]["index"].at = "assets"
    BY <1>4 DEF IndexCollectionAsset, Doing
  <2>3. SeriesOf(p, "index") = s
    BY <1>1, <2>1 DEF Types, Documents
  <2>4. handlers[p]["index"].run # 0
    BY <1>2, <2>2, <2>3 DEF Undisturbed, RunsWritten, WritesAssets, Written
  <2>. QED
    BY <1>1, <2>1, <2>3, <2>4 DEF Types, Documents, Members
<1>5. CASE DeleteDeprecatedCollectionAsset(p)
  <2> DEFINE job == handlers[p]["index"]
  <2>1. /\ collectionAssets' = [collectionAssets EXCEPT ![SeriesOf(p, "index")] =
             [u \in Token |-> IF Deprecated(job.run, @[u]) THEN 0 ELSE @[u]]]
        /\ job.at = "assets" /\ job.todo = {}
    BY <1>5 DEF DeleteDeprecatedCollectionAsset, Doing
  <2>2. SeriesOf(p, "index") = s
    BY <1>1, <2>1 DEF Types, Documents
  <2>3. WritesAssets(p, s) /\ Indexes(p, s)
    BY <2>1, <2>2 DEF WritesAssets, Indexes, InFlight
  <2>4. {u \in Token : collectionAssets[s][u] = job.run} = job.tokens
    BY <1>2, <2>1, <2>3 DEF Undisturbed, RunsWritten, Written
  <2>5. t \notin job.tokens
    BY <1>1, <2>1, <2>2, <2>4 DEF Members, Deprecated, Types, Documents
  <2>6. CASE contract[s].live
    <3>1. Follows(p, s)
      BY <1>2, <2>3, <2>6 DEF Undisturbed, TokensFollow
    <3>2. CASE Fresh(p, s)
      BY <2>5, <3>2 DEF Fresh
    <3>3. CASE \E e \in Pending("index", s) : e.n > EventOf(p, "index").n
      <4>1. EventOf(p, "index") # None
        BY <1>1, <2>1, HandFacts, NoneIsNothing
      <4>. QED
        BY <3>3, <4>1 DEF Pending
    <3>. QED
      BY <3>1, <3>2, <3>3 DEF Follows
  <2>. QED
    BY <1>1, <2>6 DEF Lives
<1>6. CASE DeleteCollection(p)
  <2>1. SeriesOf(p, "delete") = s /\ Doing(p, "delete", "delete")
    BY <1>1, <1>6 DEF DeleteCollection, Types, Documents
  <2>2. EventOf(p, "delete") \in queue /\ EventOf(p, "delete").kind = "delete"
    BY <1>1, <2>1, HandFacts DEF Doing
  <2>. QED
    BY <1>1, <2>1, <2>2 DEF Lives, SeriesOf
<1>. QED
  BY <1>1, <1>3, <1>4, <1>5, <1>6 DEF WorkStep, ReadTokens, ReadArtists, StoreCollection, FilterBurned,
     UpdateTotal, FindCollection, ReplaceCollectionCreator, ReadCreators, UpdateCollectionCreators

(* A reader of a collection that is being updated never misses a token     *)
(* (lines 199-204: new assets are written before deprecated ones go).      *)
THEOREM ReadersMissNothing == CollectionsSpec => TokensStay
<1>1. CollectionsIInv /\ [CollectionsNext]_collectionsVars =>
        [\A s \in Series : \A t \in Members(s) \ Members(s)' :
           \/ disturbed'[s]
           \/ t \in burned \/ t \notin contract[s].tokens
           \/ \E e \in queue, p \in Server :
                e.kind = "index" /\ e.series = s /\ EventOf(p, "index") # None
                  /\ e.n > EventOf(p, "index").n]_collectionsVars
  BY MembersStay
<1>. QED
  BY CollectionsInvariance, <1>1, PTL DEF CollectionsSpec, TokensStay
================================================================================
