-------------------------- MODULE TezosEmitterProofs ---------------------------
(***************************************************************************)
(* Proofs about TezosEmitter, for any number of levels, of events in a     *)
(* level, of failed calls and of crashes: as long as the connection is     *)
(* never lost and the levels hold events of one kind only, so that one     *)
(* subscription brings them all, no event is passed over without a reason  *)
(* and none overtakes another.  With both kinds the two subscriptions are  *)
(* not ordered, and neither holds.                                         *)
(***************************************************************************)
EXTENDS TezosEmitter, SequenceTheorems, FiniteSetTheorems, TLAPS

-----------------------------------------------------------------------------
(* The invariant.                                                           *)

(* The events of the chain are of one kind, that of one method. *)
OneKind == \E m \in Method : Contents \subseteq Seq({KindFor(m)})

Live == CHOOSE m \in Method : Contents \subseteq Seq({KindFor(m)})

EventsOf(c) == UNION {{[level |-> n, index |-> i] : i \in DOMAIN c[n]} : n \in DOMAIN c}

(* p is all that the level n holds. *)
IsPage(p, n, E) ==
  /\ p \in Seq(E)
  /\ \A i \in DOMAIN p : p[i].level = n /\ p[i].index = i
  /\ \A d \in E : d.level = n => d.index \in DOMAIN p /\ p[d.index] = d

(* What comes before an event of q in the chain is in S or before it in q. *)
InOrder(E, q, S) ==
  \A i \in DOMAIN q : \A d \in E :
    Before(d, q[i]) => d \in S \/ \E j \in 1..(i - 1) : q[j] = d

(* The events of the pages that a fetch has asked for. *)
Passed(t, E) ==
  {e \in E : \/ e.level < t.level
             \/ e.level = t.level /\ t.at = "update" /\ Live = "Transfers"}

TaskOf(E) ==
  [at : Kind \cup {"idle", "done", "bigmaps"}, level : Nat, upTo : Nat,
   queue : Seq(E), message : Seq(E)]

(* What a sender has asked for is sent, but for what it has still to send;  *)
(* S is what was sent, and n the head of the chain.                         *)
Sending(t, E, S, n) ==
  /\ t.at \in Kind =>
       /\ t.level >= 1 /\ t.level <= t.upTo + 1 /\ t.upTo <= n
       /\ t.at = "update" => t.level <= t.upTo
       /\ Passed(t, E) \subseteq S \cup ToSet(t.queue)
  /\ t.at \notin Kind => t.message = <<>>
  /\ t.at \in {"idle", "bigmaps"} => t.queue = <<>>
  /\ InOrder(E, t.queue, S)
  /\ t.message # <<>> =>
       IsPage(t.message, t.message[1].level, E) /\ t.message[1].level <= t.upTo

(* Messages bring whole levels, one after the other. *)
Mail(box, E) ==
  /\ \A i \in DOMAIN box : box[i] # <<>> /\ IsPage(box[i], box[i][1].level, E)
  /\ \A i, j \in DOMAIN box : i < j => box[i][1].level < box[j][1].level

(* What a method has in hand. *)
Waiting(t, box, E) ==
  ToSet(t.queue) \cup ToSet(t.message)
    \cup {e \in E : t.at \in Kind /\ e.level <= t.upTo}
    \cup UNION {ToSet(box[i]) : i \in DOMAIN box}

Settled == accepted \cup missed \cup failed
Pushed == {e \in Events : handler.at = "push" /\ handler.event = e}
Sent == Settled \cup Pushed \cup ToSet(eventChan)

TezosTypes ==
  /\ chain \in Seq(Contents)
  /\ accepted \subseteq Events
  /\ stored \in 1..(Len(chain) + 1) /\ last \in 0..Len(chain)
  /\ notices \in Nat
  /\ inbox \in [Method -> Seq(Seq(Events))]
  /\ task \in [Sender -> TaskOf(Events)]
  /\ first \in [Method -> BOOLEAN]
  /\ eventChan \in Seq(Events)
  /\ \/ handler = Free
     \/ handler \in [at : {"push", "move", "put"}, event : Events]
  /\ drops = 0

(* One connection in a life: one fetch of the observer, which ends before   *)
(* the first message can come.                                              *)
Rested ==
  /\ subscribed = {}
  /\ \A m \in Method : inbox[m] = <<>> /\ task[m].at = "idle"

Fresh ==
  /\ Rested /\ task["observer"].at = "idle"
  /\ eventChan = <<>> /\ handler = Free /\ last = 0

Phase ==
  /\ ~ connected => notices = 0 /\ Fresh
  /\ notices > 0 => notices = 1 /\ Fresh
  /\ task["observer"].at \in Kind \cup {"done"} => Rested
  /\ task["observer"].at = "bigmaps" => "Transfers" \in subscribed
  /\ task["observer"].message = <<>>
  /\ \A m \in Method \ {Live} : inbox[m] = <<>> /\ task[m].at = "idle"
  /\ \A m \in Method : task[m].at # "bigmaps"
  /\ Live \notin subscribed => inbox[Live] = <<>> /\ first[Live]
  /\ first[Live] => task[Live].at = "idle"

(* The handler and the channel. *)
Handled ==
  /\ \A e \in Events : e.level < stored \/ e.level < last => e \in Settled
  /\ \A e \in accepted, d \in Events : Before(d, e) => d \in Settled
  /\ handler.at # "idle" => \A d \in Events : Before(d, handler.event) => d \in Settled
  /\ handler.at \in {"move", "put"} => handler.event \in accepted
  /\ handler.at = "put" => last > 0
  /\ InOrder(Events, eventChan, Settled \cup Pushed)

Senders == \A s \in Sender : Sending(task[s], Events, Sent, Len(chain))

(* After the first message nothing is left out any more. *)
Covered ==
  Live \in subscribed /\ ~ first[Live] =>
    Events \subseteq Sent \cup Waiting(task[Live], inbox[Live], Events)

TezosInv ==
  /\ TezosTypes /\ Phase /\ Handled /\ Senders /\ Covered
  /\ Mail(inbox[Live], Events)

TezosIInv == drops = 0 => TezosInv

-----------------------------------------------------------------------------
(* Lemmas about events, pages and the order of a sequence.                  *)

LEMMA LiveMethod ==
  ASSUME OneKind
  PROVE  Live \in Method /\ Contents \subseteq Seq({KindFor(Live)})
BY DEF OneKind, Live

LEMMA TheEvents == Events = EventsOf(chain)
BY DEF Events, EventsOf

LEMMA EventFields ==
  ASSUME NEW c \in Seq(Contents), EmitterAssumption, NEW e \in EventsOf(c)
  PROVE  /\ e.level \in 1..Len(c) /\ e.index \in DOMAIN c[e.level] /\ e.index \in Nat \ {0}
         /\ e = [level |-> e.level, index |-> e.index]
<1>1. PICK n \in DOMAIN c : \E i \in DOMAIN c[n] : e = [level |-> n, index |-> i]
  BY DEF EventsOf
<1>2. n \in 1..Len(c) /\ c[n] \in Seq(Kind)
  BY DEF EmitterAssumption
<1>3. PICK i \in DOMAIN c[n] : e = [level |-> n, index |-> i]
  BY <1>1
<1>. QED
  BY <1>2, <1>3

LEMMA SizeOfInterval ==
  ASSUME NEW n \in Nat
  PROVE  Cardinality(1..n) = n
BY FS_Interval

(* The page of the one kind is the whole level; the other one is empty. *)
LEMMA PageIsLevel ==
  ASSUME OneKind, EmitterAssumption, NEW c \in Seq(Contents), NEW n \in DOMAIN c, NEW k \in Kind
  PROVE  IF k = KindFor(Live) THEN IsPage(Page(n, c[n], k), n, EventsOf(c))
         ELSE Page(n, c[n], k) = <<>>
<1> DEFINE kinds == c[n]
           P == {i \in DOMAIN kinds : kinds[i] = k}
           size == Cardinality(P)
           before == IF k = "transfer" THEN 0 ELSE Len(kinds) - size
           p == [i \in 1..size |-> [level |-> n, index |-> before + i]]
<1>1. kinds \in Seq({KindFor(Live)}) /\ Len(kinds) \in Nat
  <2>1. c[n] \in Contents
    OBVIOUS
  <2>. QED
    BY <2>1, LiveMethod
<1>2. DOMAIN kinds = 1..Len(kinds) /\ \A i \in 1..Len(kinds) : kinds[i] = KindFor(Live)
  BY <1>1
<1>3. Page(n, c[n], k) = p
  BY DEF Page
<1>4. CASE k = KindFor(Live)
  <2>1. P = 1..Len(kinds)
    BY <1>2, <1>4
  <2>2. size = Len(kinds)
    <3>1. Cardinality(1..Len(kinds)) = Len(kinds)
      BY <1>1, SizeOfInterval
    <3>. QED
      BY <2>1, <3>1
  <2>3. before = 0
    BY <1>1, <2>2
  <2> HIDE DEF before, size, P
  <2>4. p = [i \in 1..Len(kinds) |-> [level |-> n, index |-> i]]
    <3>1. p = [i \in 1..Len(kinds) |-> [level |-> n, index |-> 0 + i]]
      BY <2>2, <2>3
    <3>. QED
      BY <3>1
  <2> HIDE DEF p
  <2>5. \A i \in 1..Len(kinds) : [level |-> n, index |-> i] \in EventsOf(c)
    <3>1. ASSUME NEW i \in 1..Len(kinds)
          PROVE  \E S \in {{[level |-> m, index |-> j] : j \in DOMAIN c[m]} : m \in DOMAIN c} :
                   [level |-> n, index |-> i] \in S
      <4>1. [level |-> n, index |-> i] \in {[level |-> n, index |-> j] : j \in DOMAIN c[n]}
        BY <1>2
      <4>. QED
        BY <4>1
    <3>. QED
      BY <3>1 DEF EventsOf
  <2>6. p \in Seq(EventsOf(c)) /\ DOMAIN p = 1..Len(kinds)
    BY <1>1, <2>4, <2>5
  <2>7. \A i \in DOMAIN p : p[i].level = n /\ p[i].index = i
    BY <2>4
  <2>8. \A d \in EventsOf(c) : d.level = n => d.index \in DOMAIN p /\ p[d.index] = d
    <3>1. SUFFICES ASSUME NEW d \in EventsOf(c), d.level = n
                   PROVE  d.index \in DOMAIN p /\ p[d.index] = d
      OBVIOUS
    <3>2. d.index \in DOMAIN c[n] /\ d = [level |-> n, index |-> d.index]
      BY <3>1, EventFields
    <3>. QED
      BY <1>2, <2>4, <2>6, <3>2
  <2>. QED
    BY <1>3, <1>4, <2>6, <2>7, <2>8 DEF IsPage
<1>5. CASE k # KindFor(Live)
  <2>1. P = {}
    BY <1>2, <1>5
  <2>2. size = 0
    BY <2>1, FS_EmptySet
  <2> HIDE DEF size, before
  <2>3. p = <<>>
    BY <2>2
  <2>. QED
    BY <1>3, <1>5, <2>3
<1>. QED
  BY <1>4, <1>5

LEMMA InOrderMore ==
  ASSUME NEW E, NEW q, NEW S, NEW T, InOrder(E, q, S), S \subseteq T
  PROVE  InOrder(E, q, T)
BY DEF InOrder

LEMMA InOrderTail ==
  ASSUME NEW F, NEW E, NEW q \in Seq(F), NEW S, InOrder(E, q, S), q # <<>>
  PROVE  /\ InOrder(E, Tail(q), S \cup {Head(q)})
         /\ \A d \in E : Before(d, Head(q)) => d \in S
         /\ ToSet(q) = {Head(q)} \cup ToSet(Tail(q))
         /\ Tail(q) \in Seq(F) /\ Head(q) \in F
<1>1. /\ Len(q) \in Nat \ {0} /\ DOMAIN q = 1..Len(q) /\ Head(q) = q[1]
      /\ Tail(q) \in Seq(F) /\ DOMAIN Tail(q) = 1..(Len(q) - 1)
      /\ \A i \in 1..(Len(q) - 1) : Tail(q)[i] = q[i + 1]
  OBVIOUS
<1>2. \A d \in E : Before(d, Head(q)) => d \in S
  <2>1. ~ \E j \in 1..(1 - 1) : TRUE
    OBVIOUS
  <2>. QED
    BY <1>1, <2>1 DEF InOrder
<1>3. ASSUME NEW i \in 1..(Len(q) - 1), NEW d \in E, Before(d, Tail(q)[i]),
             d \notin S \cup {Head(q)}
      PROVE  \E j \in 1..(i - 1) : Tail(q)[j] = d
  <2>1. PICK j \in 1..((i + 1) - 1) : q[j] = d
    BY <1>1, <1>3 DEF InOrder
  <2>2. j - 1 \in 1..(i - 1) /\ (j - 1) + 1 = j
    BY <1>1, <1>3, <2>1
  <2>3. Tail(q)[j - 1] = q[j]
    BY <1>1, <2>2
  <2>. QED
    BY <2>1, <2>2, <2>3
<1>4. ToSet(q) = {Head(q)} \cup ToSet(Tail(q))
  <2>1. \A i \in 1..Len(q) : i = 1 \/ (i - 1 \in 1..(Len(q) - 1) /\ (i - 1) + 1 = i)
    BY <1>1
  <2>2. \A i \in 1..(Len(q) - 1) : i + 1 \in 1..Len(q)
    BY <1>1
  <2>3. \A i \in 1..Len(q) : q[i] = Head(q) \/ q[i] \in ToSet(Tail(q))
    <3>1. \A i \in 1..(Len(q) - 1) : Tail(q)[i] \in ToSet(Tail(q))
      BY <1>1 DEF ToSet
    <3>. QED
      BY <1>1, <2>1, <3>1
  <2>4. \A i \in 1..(Len(q) - 1) : Tail(q)[i] \in ToSet(q)
    BY <1>1, <2>2 DEF ToSet
  <2>5. q[1] \in ToSet(q)
    BY <1>1 DEF ToSet
  <2>. QED
    BY <1>1, <2>3, <2>4, <2>5 DEF ToSet
<1>5. InOrder(E, Tail(q), S \cup {Head(q)})
  BY <1>1, <1>3 DEF InOrder
<1>. QED
  BY <1>1, <1>2, <1>4, <1>5

LEMMA SetOfAppend ==
  ASSUME NEW E, NEW q \in Seq(E), NEW e \in E
  PROVE  ToSet(Append(q, e)) = ToSet(q) \cup {e}
<1> DEFINE r == Append(q, e)
<1>1. /\ Len(q) \in Nat /\ DOMAIN q = 1..Len(q)
      /\ DOMAIN r = 1..(Len(q) + 1)
      /\ \A i \in 1..Len(q) : r[i] = q[i]
      /\ r[Len(q) + 1] = e
  OBVIOUS
<1> HIDE DEF r
<1>2. \A i \in 1..(Len(q) + 1) : i \in 1..Len(q) \/ i = Len(q) + 1
  BY <1>1
<1>3. ToSet(r) = ToSet(q) \cup {e}
  BY <1>1, <1>2 DEF ToSet
<1>. QED
  BY <1>3 DEF r

LEMMA InOrderAppend ==
  ASSUME NEW E, NEW q \in Seq(E), NEW S, NEW e \in E, InOrder(E, q, S),
         \A d \in E : Before(d, e) => d \in S \/ d \in ToSet(q)
  PROVE  InOrder(E, Append(q, e), S)
<1> DEFINE r == Append(q, e)
<1>1. /\ Len(q) \in Nat /\ DOMAIN q = 1..Len(q)
      /\ DOMAIN r = 1..(Len(q) + 1)
      /\ \A i \in 1..Len(q) : r[i] = q[i]
      /\ r[Len(q) + 1] = e
  OBVIOUS
<1> HIDE DEF r
<1>2. \A i \in 1..(Len(q) + 1) : i \in 1..Len(q) \/ i = Len(q) + 1
  BY <1>1
<1>3. ASSUME NEW i \in 1..(Len(q) + 1), NEW d \in E, Before(d, r[i]), d \notin S
      PROVE  \E j \in 1..(i - 1) : r[j] = d
  <2>1. CASE i \in 1..Len(q)
    <3>1. PICK j \in 1..(i - 1) : q[j] = d
      BY <1>1, <1>3, <2>1 DEF InOrder
    <3>2. j \in 1..Len(q)
      BY <1>1, <2>1, <3>1
    <3>. QED
      BY <1>1, <3>1, <3>2
  <2>2. CASE i = Len(q) + 1
    <3>1. PICK j \in 1..Len(q) : q[j] = d
      BY <1>1, <1>3, <2>2 DEF ToSet
    <3>2. j \in 1..(i - 1)
      BY <1>1, <2>2
    <3>. QED
      BY <1>1, <3>1, <3>2
  <2>. QED
    BY <1>2, <2>1, <2>2
<1>. QED
  BY <1>1, <1>3 DEF r, InOrder

(* A level after all those that the queue holds. *)
LEMMA InOrderBaked ==
  ASSUME NEW E, NEW F, NEW q \in Seq(E), NEW S, NEW n \in Nat, InOrder(E, q, S),
         \A e \in E : e.level \in Nat /\ e.level <= n, \A e \in F \ E : e.level = n + 1
  PROVE  InOrder(F, q, S)
<1>1. ASSUME NEW i \in DOMAIN q, NEW d \in F, Before(d, q[i])
      PROVE  d \in E
  <2>1. q[i] \in E /\ q[i].level \in Nat /\ q[i].level <= n
    OBVIOUS
  <2>. QED
    BY <1>1, <2>1 DEF Before
<1>. QED
  BY <1>1 DEF InOrder

(* What is before an event of a whole level and not in it is of an earlier  *)
(* level.                                                                   *)
LEMMA PageInOrder ==
  ASSUME NEW c \in Seq(Contents), EmitterAssumption, NEW p, NEW n \in Nat, NEW S,
         IsPage(p, n, EventsOf(c)),
         \A d \in EventsOf(c) : d.level < n => d \in S
  PROVE  InOrder(EventsOf(c), p, S)
<1>1. SUFFICES ASSUME NEW i \in DOMAIN p, NEW d \in EventsOf(c), Before(d, p[i]), d \notin S
               PROVE  \E j \in 1..(i - 1) : p[j] = d
  BY DEF InOrder
<1>2. /\ p[i].level = n /\ p[i].index = i /\ i \in Nat
      /\ d.level = n => d.index \in DOMAIN p /\ p[d.index] = d
  BY DEF IsPage
<1>3. d.level \in Nat /\ d.index \in Nat \ {0}
  BY EventFields
<1>4. d.level = n /\ d.index < i
  BY <1>1, <1>2 DEF Before
<1>. QED
  BY <1>2, <1>3, <1>4

-----------------------------------------------------------------------------
(* The handler.                                                             *)

LEMMA EventLevels ==
  ASSUME EmitterAssumption, TezosTypes, NEW e \in Events
  PROVE  /\ e.level \in Nat /\ e.level >= 1 /\ e.level <= Len(chain) /\ Len(chain) \in Nat
         /\ e.index \in Nat \ {0}
<1>1. chain \in Seq(Contents) /\ e \in EventsOf(chain)
  BY TheEvents DEF TezosTypes
<1>. QED
  BY <1>1, EventFields

LEMMA SendingMore ==
  ASSUME NEW t, NEW E, NEW S, NEW T, NEW n, Sending(t, E, S, n), S \subseteq T
  PROVE  Sending(t, E, T, n)
<1>1. InOrder(E, t.queue, T)
  BY InOrderMore DEF Sending
<1>. QED
  BY <1>1 DEF Sending

(* What the handler does changes neither the senders nor the connection. *)
LEMMA HandlerKeeps ==
  ASSUME TezosInv, UNCHANGED <<chain, connection, task, first, drops>>,
         TezosTypes', Handled', Sent \subseteq Sent', handler # Free \/ eventChan # <<>>
  PROVE  TezosInv'
<1>1. Events' = Events /\ UNCHANGED <<chain, notices, connected, subscribed, inbox>>
  BY DEF Events, connection
<1>2. Senders'
  <2>1. \A s \in Sender : Sending(task[s], Events, Sent', Len(chain))
    BY SendingMore DEF TezosInv, Senders
  <2>. QED
    BY <1>1, <2>1 DEF Senders
<1>3. Covered'
  BY <1>1 DEF TezosInv, Covered
<1>4. Phase'
  <2>1. connected /\ ~ (notices > 0)
    BY DEF TezosInv, Phase, Fresh
  <2>. QED
    BY <1>1, <2>1 DEF TezosInv, Phase, Rested
<1>5. Mail(inbox'[Live], Events')
  BY <1>1 DEF TezosInv
<1>. QED
  BY <1>2, <1>3, <1>4, <1>5 DEF TezosInv

LEMMA ReceiveInv ==
  ASSUME TezosInv, EmitterAssumption, Receive
  PROVE  TezosInv'
<1> DEFINE h == Head(eventChan)
<1>1. /\ handler = Free /\ eventChan # <<>>
      /\ handler' = [at |-> "push", event |-> h] /\ eventChan' = Tail(eventChan)
      /\ UNCHANGED <<chain, accepted, stored, last, missed, failed, connection, task, first, drops>>
  BY DEF Receive, world, history, bounds
<1>2. Events' = Events /\ Settled' = Settled /\ UNCHANGED <<inbox, notices>>
  BY <1>1 DEF Events, Settled, connection
<1>3. eventChan \in Seq(Events) /\ InOrder(Events, eventChan, Settled \cup Pushed)
  BY DEF TezosInv, TezosTypes, Handled
<1>4. /\ InOrder(Events, Tail(eventChan), (Settled \cup Pushed) \cup {h})
      /\ \A d \in Events : Before(d, h) => d \in Settled \cup Pushed
      /\ ToSet(eventChan) = {h} \cup ToSet(Tail(eventChan))
      /\ Tail(eventChan) \in Seq(Events) /\ h \in Events
  BY <1>1, <1>3, InOrderTail
<1> HIDE DEF h
<1>5. Pushed = {} /\ Pushed' = {h}
  <2>1. Pushed = {}
    BY <1>1 DEF Pushed, Free
  <2>2. Pushed' = {e \in Events : h = e}
    BY <1>1, <1>2 DEF Pushed
  <2>. QED
    BY <1>4, <2>1, <2>2
<1>6. TezosTypes'
  BY <1>1, <1>2, <1>4 DEF TezosInv, TezosTypes
<1>7. InOrder(Events', eventChan', Settled' \cup Pushed')
  BY <1>1, <1>2, <1>4, <1>5
<1>8. Handled'
  BY <1>1, <1>2, <1>4, <1>5, <1>7 DEF TezosInv, Handled
<1>9. Sent \subseteq Sent'
  BY <1>1, <1>2, <1>4, <1>5 DEF Sent
<1>. QED
  BY <1>1, <1>6, <1>8, <1>9, HandlerKeeps

(* The push has ended: its event is accepted, or known to have failed. *)
LEMMA PushEnds ==
  ASSUME TezosInv, EmitterAssumption, handler.at = "push",
         UNCHANGED <<chain, stored, connection, task, first, eventChan, last, missed, drops>>,
         \/ handler' = Free
         \/ handler' = [handler EXCEPT !.at = "move"] /\ handler.event \in accepted',
         accepted \subseteq accepted', accepted' \subseteq accepted \cup {handler.event},
         failed \subseteq failed', handler.event \in accepted' \cup failed'
  PROVE  TezosInv'
<1> DEFINE e == handler.event
<1>1. handler \in [at : {"push", "move", "put"}, event : Events] /\ e \in Events
  BY DEF TezosInv, TezosTypes, Free
<1>2. Events' = Events /\ Settled \cup {e} \subseteq Settled'
  BY DEF Events, Settled
<1>3. Pushed = {e} /\ Pushed' = {}
  <2>1. Pushed' = {}
    BY <1>1 DEF Pushed, Free
  <2>. QED
    BY <1>1, <2>1 DEF Pushed
<1>4. \/ handler' = Free
      \/ /\ handler' \in [at : {"push", "move", "put"}, event : Events]
         /\ handler'.at = "move" /\ handler'.event = e /\ e \in accepted'
  BY <1>1
<1>5. TezosTypes'
  BY <1>1, <1>2, <1>4 DEF TezosInv, TezosTypes, connection
<1>6. InOrder(Events', eventChan', Settled' \cup Pushed')
  <2>1. InOrder(Events, eventChan, Settled')
    BY <1>2, <1>3, InOrderMore DEF TezosInv, Handled
  <2>. QED
    BY <1>2, <1>3, <2>1
<1>7. \A d \in Events : Before(d, e) => d \in Settled
  BY DEF TezosInv, Handled
<1>8. Handled'
  BY <1>2, <1>4, <1>6, <1>7 DEF TezosInv, Handled, Free
<1>9. Sent \subseteq Sent'
  BY <1>2, <1>3 DEF Sent
<1>10. handler # Free
  BY DEF Free
<1>. QED
  BY <1>5, <1>8, <1>9, <1>10, HandlerKeeps

LEMMA PushEventInv ==
  ASSUME TezosInv, EmitterAssumption, PushEvent
  PROVE  TezosInv'
BY PushEnds DEF PushEvent, history, bounds

LEMMA FailPushInv ==
  ASSUME TezosInv, EmitterAssumption, FailPush
  PROVE  TezosInv'
BY PushEnds DEF FailPush

LEMMA MoveLevelInv ==
  ASSUME TezosInv, EmitterAssumption, MoveLevel
  PROVE  TezosInv'
<1> DEFINE e == handler.event
<1>1. /\ handler.at = "move" /\ last' = e.level /\ handler' = [handler EXCEPT !.at = "put"]
      /\ UNCHANGED <<chain, accepted, stored, missed, failed, connection, task, first, eventChan, drops>>
  BY DEF MoveLevel, world, history, bounds
<1>2. Events' = Events /\ Settled' = Settled
  BY <1>1 DEF Events, Settled
<1>3. handler \in [at : {"push", "move", "put"}, event : Events] /\ e \in Events
  BY <1>1 DEF TezosInv, TezosTypes, Free
<1>4. /\ handler' \in [at : {"push", "move", "put"}, event : Events]
      /\ handler'.at = "put" /\ handler'.event = e
  BY <1>1, <1>3
<1>5. /\ \A d \in Events : Before(d, e) => d \in Settled
      /\ e \in accepted
  BY <1>1 DEF TezosInv, Handled
<1>6. e.level \in Nat /\ e.level >= 1 /\ e.level <= Len(chain) /\ Len(chain) \in Nat
  BY <1>3, EventLevels DEF TezosInv
<1>7. Pushed = {} /\ Pushed' = {}
  BY <1>1, <1>4 DEF Pushed
<1>8. TezosTypes'
  BY <1>1, <1>2, <1>4, <1>6 DEF TezosInv, TezosTypes, connection
<1>9. \A d \in Events : d.level < last' => d \in Settled
  BY <1>1, <1>5 DEF Before
<1>10. Handled'
  BY <1>1, <1>2, <1>4, <1>5, <1>6, <1>7, <1>9 DEF TezosInv, Handled
<1>11. Sent' = Sent /\ handler # Free
  BY <1>1, <1>2, <1>7 DEF Sent, Free
<1>. QED
  BY <1>1, <1>8, <1>10, <1>11, HandlerKeeps

(* The level is stored, or it is not: the handler is done. *)
LEMMA PutEnds ==
  ASSUME TezosInv, EmitterAssumption, handler.at = "put", handler' = Free,
         stored' \in {stored, last},
         UNCHANGED <<chain, accepted, connection, task, first, eventChan, last, history, drops>>
  PROVE  TezosInv'
<1>1. Events' = Events /\ Settled' = Settled /\ UNCHANGED <<missed, failed>>
  BY DEF Events, Settled, history
<1>2. Pushed = {} /\ Pushed' = {}
  BY DEF Pushed, Free
<1>3. last > 0
  BY DEF TezosInv, Handled
<1>4. TezosTypes'
  BY <1>1, <1>3 DEF TezosInv, TezosTypes, connection
<1>5. Handled'
  BY <1>1, <1>2, <1>3 DEF TezosInv, Handled, Free
<1>6. Sent' = Sent /\ handler # Free
  BY <1>1, <1>2 DEF Sent, Free
<1>. QED
  BY <1>4, <1>5, <1>6, HandlerKeeps

LEMMA PutLevelInv ==
  ASSUME TezosInv, EmitterAssumption, PutLevel \/ FailPut
  PROVE  TezosInv'
BY PutEnds DEF PutLevel, FailPut, world, bounds

-----------------------------------------------------------------------------
(* The senders.                                                             *)

(* A sender at work goes on, and what it had in hand is sent, is in its     *)
(* hands still or was lost for a reason.                                    *)
LEMMA SenderKeeps ==
  ASSUME TezosInv, OneKind, EmitterAssumption, NEW s \in Sender, NEW t \in TaskOf(Events),
         task' = [task EXCEPT ![s] = t],
         task[s].at \in Kind \cup {"done"}, t.at \in Kind \cup {"done"},
         UNCHANGED <<chain, accepted, stored, connection, first, handler, last, missed, drops>>,
         failed \subseteq failed', ToSet(eventChan) \subseteq ToSet(eventChan'),
         eventChan' \in Seq(Events), InOrder(Events, eventChan', Settled' \cup Pushed),
         Sending(t, Events, Sent', Len(chain)), s = "observer" => t.message = <<>>,
         Waiting(task[s], inbox[Live], Events) \subseteq Sent' \cup Waiting(t, inbox[Live], Events)
  PROVE  TezosInv'
<1>1. Events' = Events /\ UNCHANGED <<notices, connected, subscribed, inbox>>
  BY DEF Events, connection
<1>2. Settled \subseteq Settled' /\ Pushed' = Pushed /\ Sent \subseteq Sent'
  BY <1>1 DEF Settled, Pushed, Sent
<1>3. task \in [Sender -> TaskOf(Events)] /\ task' \in [Sender -> TaskOf(Events)]
      /\ task'[s] = t /\ \A r \in Sender \ {s} : task'[r] = task[r]
  BY DEF TezosInv, TezosTypes
<1>4. task[s].at # "idle"
  BY DEF Kind
<1>5. ~ Fresh
  BY <1>4 DEF Fresh, Rested, Sender
<1>6. connected /\ ~ (notices > 0)
  BY <1>5 DEF TezosInv, Phase
<1>7. s = "observer" \/ s = Live
  BY <1>4 DEF TezosInv, Phase, Sender
<1>8. TezosTypes'
  BY <1>1, <1>3 DEF TezosInv, TezosTypes, connection
<1>9. Handled'
  BY <1>1, <1>2 DEF TezosInv, Handled
<1>10. Senders'
  <2>1. \A r \in Sender : Sending(task[r], Events, Sent', Len(chain))
    BY <1>2, SendingMore DEF TezosInv, Senders
  <2>. QED
    BY <1>1, <1>3, <2>1 DEF Senders
<1>11. Covered'
  <2>1. SUFFICES ASSUME Live \in subscribed, ~ first[Live]
                 PROVE  Events \subseteq Sent' \cup Waiting(task'[Live], inbox[Live], Events)
    BY <1>1 DEF Covered
  <2>2. Events \subseteq Sent \cup Waiting(task[Live], inbox[Live], Events)
    BY <2>1 DEF TezosInv, Covered
  <2>3. CASE s = Live
    BY <1>2, <1>3, <2>2, <2>3
  <2>4. CASE s # Live
    <3>1. Live \in Sender
      BY LiveMethod DEF Sender
    <3>2. task'[Live] = task[Live]
      BY <1>3, <2>4, <3>1
    <3>. QED
      BY <1>2, <2>2, <3>2
  <2>. QED
    BY <2>3, <2>4
<1>12. Phase'
  <2>1. \A m \in Method : m # s => task'[m] = task[m]
    BY <1>3 DEF Sender
  <2>2. s = "observer" \/ (task'["observer"] = task["observer"] /\ s = Live /\ Live \in Method)
    BY <1>3, <1>7 DEF Sender
  <2>3. task[s].at \notin {"idle", "bigmaps"} /\ t.at \notin {"idle", "bigmaps"}
    BY DEF Kind
  <2>4. CASE s = "observer"
    <3>1. Rested /\ \A m \in Method : task'[m] = task[m]
      BY <2>1, <2>4 DEF TezosInv, Phase, Method
    <3>2. Live \in Method
      BY LiveMethod
    <3>. QED
      BY <1>1, <1>3, <1>6, <2>3, <2>4, <3>1, <3>2 DEF TezosInv, Phase, Rested
  <2>5. CASE s # "observer"
    <3>1. task[Live].at # "idle" /\ task'["observer"] = task["observer"] /\ s = Live /\ Live \in Method
      BY <1>4, <2>2, <2>5
    <3>2. ~ first[Live] /\ task["observer"].at \notin Kind \cup {"done"} /\ Live \in subscribed
      BY <3>1 DEF TezosInv, Phase, Rested
    <3>3. \A m \in Method : task'[m].at # "bigmaps"
      BY <1>3, <2>1, <2>3, <3>1 DEF TezosInv, Phase
    <3>. QED
      BY <1>1, <1>6, <2>1, <3>1, <3>2, <3>3 DEF TezosInv, Phase
  <2>. QED
    BY <2>4, <2>5
<1>13. Mail(inbox'[Live], Events')
  BY <1>1 DEF TezosInv
<1>. QED
  BY <1>8, <1>9, <1>10, <1>11, <1>12, <1>13 DEF TezosInv

LEMMA TaskFields ==
  ASSUME TezosInv, NEW s \in Sender
  PROVE  /\ task[s] \in TaskOf(Events)
         /\ task[s].level \in Nat /\ task[s].upTo \in Nat
         /\ task[s].queue \in Seq(Events) /\ task[s].message \in Seq(Events)
         /\ task[s].at \in Kind \cup {"idle", "done", "bigmaps"}
         /\ Sending(task[s], Events, Sent, Len(chain))
         /\ Len(chain) \in Nat
BY DEF TezosInv, TezosTypes, TaskOf, Senders

LEMMA TaskQueue ==
  ASSUME NEW E, NEW t \in TaskOf(E), NEW q \in Seq(E), NEW u, u = [t EXCEPT !.queue = q]
  PROVE  /\ u \in TaskOf(E) /\ u.queue = q /\ u.at = t.at /\ u.level = t.level
         /\ u.upTo = t.upTo /\ u.message = t.message
BY DEF TaskOf

LEMMA TaskPage ==
  ASSUME NEW E, NEW t \in TaskOf(E), t.at \in Kind
  PROVE  /\ NextPage(t) \in TaskOf(E) /\ NextPage(t).queue = t.queue
         /\ NextPage(t).upTo = t.upTo /\ NextPage(t).message = t.message
         /\ t.at = "transfer" => NextPage(t).at = "update" /\ NextPage(t).level = t.level
         /\ t.at = "update" => NextPage(t).at = "transfer" /\ NextPage(t).level = t.level + 1
<1>1. CASE t.at = "transfer"
  BY <1>1 DEF TaskOf, NextPage, Kind
<1>2. CASE t.at = "update"
  <2>1. NextPage(t) = [t EXCEPT !.at = "transfer", !.level = t.level + 1]
    BY <1>2 DEF NextPage
  <2>2. t.level + 1 \in Nat
    BY DEF TaskOf
  <2>. QED
    BY <1>2, <2>1, <2>2 DEF TaskOf, Kind
<1>. QED
  BY <1>1, <1>2 DEF Kind

LEMMA EmptyOrder ==
  ASSUME NEW E, NEW S
  PROVE  InOrder(E, <<>>, S) /\ ToSet(<<>>) = {}
BY DEF InOrder, ToSet

LEMMA SendEventInv ==
  ASSUME TezosInv, OneKind, EmitterAssumption, NEW s \in Sender, SendEvent(s)
  PROVE  TezosInv'
<1> DEFINE g == task[s]
           e == Head(g.queue)
           t == [g EXCEPT !.queue = Tail(g.queue)]
<1>1. /\ g.queue # <<>> /\ task' = [task EXCEPT ![s] = t] /\ eventChan' = Append(eventChan, e)
      /\ UNCHANGED <<chain, accepted, stored, connection, first, handler, last, missed, failed, drops>>
  BY DEF SendEvent, world, history, bounds
<1>2. /\ g \in TaskOf(Events) /\ g.queue \in Seq(Events)
      /\ Sending(g, Events, Sent, Len(chain))
  BY TaskFields
<1>3. /\ InOrder(Events, Tail(g.queue), Sent \cup {e})
      /\ \A d \in Events : Before(d, e) => d \in Sent
      /\ ToSet(g.queue) = {e} \cup ToSet(Tail(g.queue))
      /\ Tail(g.queue) \in Seq(Events) /\ e \in Events
  <2>1. InOrder(Events, g.queue, Sent)
    BY <1>2 DEF Sending
  <2> HIDE DEF g
  <2>. QED
    BY <1>1, <1>2, <2>1, InOrderTail
<1>4. /\ InOrder(Events, eventChan', Settled \cup Pushed)
      /\ eventChan' \in Seq(Events) /\ ToSet(eventChan') = ToSet(eventChan) \cup {e}
  <2>1. eventChan \in Seq(Events) /\ InOrder(Events, eventChan, Settled \cup Pushed)
    BY DEF TezosInv, TezosTypes, Handled
  <2>2. \A d \in Events : Before(d, e) => d \in Settled \cup Pushed \/ d \in ToSet(eventChan)
    BY <1>3 DEF Sent
  <2> DEFINE S == Settled \cup Pushed
  <2>3. /\ InOrder(Events, Append(eventChan, e), S)
        /\ Append(eventChan, e) \in Seq(Events)
        /\ ToSet(Append(eventChan, e)) = ToSet(eventChan) \cup {e}
    <3>1. e \in Events
      BY <1>3
    <3>2. /\ eventChan \in Seq(Events) /\ InOrder(Events, eventChan, S)
          /\ \A d \in Events : Before(d, e) => d \in S \/ d \in ToSet(eventChan)
      BY <2>1, <2>2
    <3> HIDE DEF e, t, g, S
    <3>3. InOrder(Events, Append(eventChan, e), S)
      BY <3>1, <3>2, InOrderAppend, Zenon
    <3>4. Append(eventChan, e) \in Seq(Events)
      BY <3>1, <3>2
    <3>5. ToSet(Append(eventChan, e)) = ToSet(eventChan) \cup {e}
      BY <3>1, <3>2, SetOfAppend
    <3>. QED
      BY <3>3, <3>4, <3>5, Zenon
  <2>. QED
    BY <1>1, <2>3
<1>5. Settled' = Settled /\ Pushed' = Pushed /\ Sent' = Sent \cup {e}
  BY <1>1, <1>4 DEF Settled, Pushed, Sent, Events
<1>6. /\ t \in TaskOf(Events) /\ t.queue = Tail(g.queue) /\ t.at = g.at /\ t.level = g.level
      /\ t.upTo = g.upTo /\ t.message = g.message
  <2>1. g \in TaskOf(Events) /\ Tail(g.queue) \in Seq(Events)
    BY <1>2, <1>3
  <2>2. t = [g EXCEPT !.queue = Tail(g.queue)]
    OBVIOUS
  <2> HIDE DEF t, g
  <2>. QED
    BY <2>1, <2>2 DEF TaskOf
<1> HIDE DEF t, e
<1>7. g.at \in Kind \cup {"done"}
  BY <1>1, TaskFields DEF Sending
<1>8. Passed(t, Events) = Passed(g, Events)
  BY <1>6 DEF Passed
<1>9. Sending(t, Events, Sent', Len(chain))
  BY <1>2, <1>3, <1>5, <1>6, <1>7, <1>8 DEF Sending, Kind
<1>10. Waiting(g, inbox[Live], Events) \subseteq Sent' \cup Waiting(t, inbox[Live], Events)
  BY <1>3, <1>5, <1>6 DEF Waiting
<1>11. s = "observer" => t.message = <<>>
  BY <1>6 DEF TezosInv, Phase
<1>. QED
  BY <1>1, <1>4, <1>5, <1>6, <1>7, <1>9, <1>10, <1>11, SenderKeeps

LEMMA EndFetchInv ==
  ASSUME TezosInv, OneKind, EmitterAssumption, NEW s \in Sender, EndFetch(s)
  PROVE  TezosInv'
<1> DEFINE g == task[s]
           t == SendOnly(g.message)
<1>1. /\ g.at \in Kind /\ g.queue = <<>> /\ g.level > g.upTo /\ task' = [task EXCEPT ![s] = t]
      /\ UNCHANGED <<chain, accepted, stored, connection, first, handler, last, missed, failed,
                     eventChan, drops>>
  BY DEF EndFetch, Fetches, world, history, bounds
<1>2. /\ g \in TaskOf(Events) /\ g.message \in Seq(Events) /\ g.level \in Nat /\ g.upTo \in Nat
      /\ Sending(g, Events, Sent, Len(chain))
  BY TaskFields
<1>3. /\ t \in TaskOf(Events) /\ t.at = "done" /\ t.queue = g.message /\ t.message = <<>>
  BY <1>2 DEF TaskOf, SendOnly
<1> HIDE DEF t
<1>4. Settled' = Settled /\ Pushed' = Pushed /\ Sent' = Sent /\ Events' = Events
  BY <1>1 DEF Settled, Pushed, Sent, Events
<1>5. \A d \in Events : d.level <= g.upTo => d \in Sent
  <2>1. Passed(g, Events) \subseteq Sent
    BY <1>1, <1>2, EmptyOrder DEF Sending
  <2>2. \A d \in Events : d.level \in Nat
    BY EventLevels DEF TezosInv
  <2>. QED
    BY <1>1, <1>2, <2>1, <2>2 DEF Passed
<1>6. InOrder(Events, g.message, Sent)
  <2>1. CASE g.message = <<>>
    BY <2>1, EmptyOrder
  <2>2. CASE g.message # <<>>
    <3> DEFINE n == g.message[1].level
    <3>1. IsPage(g.message, n, Events) /\ n <= g.upTo
      BY <1>2, <2>2 DEF Sending
    <3>2. n \in Nat
      <4>1. g.message[1] \in Events
        BY <1>2, <2>2
      <4>. QED
        BY <4>1, EventLevels DEF TezosInv
    <3> HIDE DEF n
    <3>3. \A d \in Events : d.level < n => d \in Sent
      <4>1. \A d \in Events : d.level \in Nat
        BY EventLevels DEF TezosInv
      <4>. QED
        BY <1>2, <1>5, <3>1, <3>2, <4>1
    <3>. QED
      BY <3>1, <3>2, <3>3, PageInOrder, TheEvents DEF TezosInv, TezosTypes
  <2>. QED
    BY <2>1, <2>2
<1>7. Sending(t, Events, Sent', Len(chain))
  BY <1>3, <1>4, <1>6 DEF Sending, Kind
<1>8. Waiting(g, inbox[Live], Events) \subseteq Sent' \cup Waiting(t, inbox[Live], Events)
  BY <1>1, <1>3, <1>4, <1>5, EmptyOrder DEF Waiting
<1>9. eventChan \in Seq(Events) /\ InOrder(Events, eventChan, Settled \cup Pushed)
  BY DEF TezosInv, TezosTypes, Handled
<1>. QED
  BY <1>1, <1>3, <1>4, <1>7, <1>8, <1>9, SenderKeeps

(* The page of a fetch: all of a level, or nothing of it. *)
LEMMA NextPageFacts ==
  ASSUME TezosInv, OneKind, EmitterAssumption, NEW s \in Sender, NEW t, NEW q,
         Fetches(s), task[s].level <= task[s].upTo,
         q = Page(task[s].level, chain[task[s].level], task[s].at),
         t \in {NextPage(task[s]), [NextPage(task[s]) EXCEPT !.queue = q]}
  PROVE  /\ t \in TaskOf(Events) /\ t.at \in Kind /\ t.upTo = task[s].upTo
         /\ t.message = task[s].message /\ t.level >= 1 /\ t.level <= t.upTo + 1
         /\ t.at = "update" => t.level <= t.upTo
         /\ InOrder(Events, q, Sent) /\ q \in Seq(Events)
         /\ Passed(t, Events) \subseteq Sent \cup ToSet(q)
<1> DEFINE g == task[s]
           n == g.level
<1>1. /\ g.at \in Kind /\ g.queue = <<>> /\ n <= g.upTo
      /\ q = Page(n, chain[n], g.at)
  BY DEF Fetches
<1>2. /\ g \in TaskOf(Events) /\ n \in Nat /\ g.upTo \in Nat
      /\ Sending(g, Events, Sent, Len(chain)) /\ Len(chain) \in Nat
  BY TaskFields
<1>3. n >= 1 /\ g.upTo <= Len(chain) /\ Passed(g, Events) \subseteq Sent
  BY <1>1, <1>2, EmptyOrder DEF Sending
<1>4. chain \in Seq(Contents) /\ n \in DOMAIN chain
  <2>1. chain \in Seq(Contents)
    BY DEF TezosInv, TezosTypes
  <2>. QED
    BY <1>1, <1>2, <1>3, <2>1
<1>5. IF g.at = KindFor(Live) THEN IsPage(q, n, Events) ELSE q = <<>>
  BY <1>1, <1>4, PageIsLevel, TheEvents
<1>6. q \in Seq(Events)
  <2>1. CASE q = <<>>
    BY <2>1
  <2>. QED
    BY <1>5, <2>1 DEF IsPage
<1>7. /\ t \in TaskOf(Events) /\ t.upTo = g.upTo /\ t.message = g.message
      /\ g.at = "transfer" => t.at = "update" /\ t.level = n
      /\ g.at = "update" => t.at = "transfer" /\ t.level = n + 1
  <2>1. NextPage(g) \in TaskOf(Events)
    BY <1>1, <1>2, TaskPage
  <2>2. \/ t = NextPage(g)
        \/ /\ t \in TaskOf(Events) /\ t.at = NextPage(g).at /\ t.level = NextPage(g).level
           /\ t.upTo = NextPage(g).upTo /\ t.message = NextPage(g).message
    <3>1. CASE t = NextPage(g)
      BY <3>1
    <3>2. CASE t = [NextPage(g) EXCEPT !.queue = q]
      BY <1>6, <2>1, <3>2, TaskQueue
    <3>. QED
      BY <3>1, <3>2
  <2>. QED
    BY <1>1, <1>2, <2>1, <2>2, TaskPage
<1>8. \A d \in Events : d.level \in Nat
  BY EventLevels DEF TezosInv
<1>9. \A d \in Events : d.level < n => d \in Sent
  BY <1>3 DEF Passed
<1>10. InOrder(Events, q, Sent)
  <2>1. CASE g.at = KindFor(Live)
    BY <1>2, <1>4, <1>5, <1>9, <2>1, PageInOrder, TheEvents
  <2>2. CASE g.at # KindFor(Live)
    BY <1>5, <2>2, EmptyOrder
  <2>. QED
    BY <2>1, <2>2
<1>11. Passed(t, Events) \subseteq Sent \cup ToSet(q)
  <2>1. Live \in {"Transfers", "Bigmaps"} /\ KindFor(Live) \in Kind
        /\ (Live = "Transfers" <=> KindFor(Live) = "transfer")
    BY LiveMethod DEF Method, KindFor, Kind
  <2>2. CASE g.at = KindFor(Live)
    <3>1. \A d \in Events : d.level = n => d \in ToSet(q)
      BY <1>5, <2>2 DEF IsPage, ToSet
    <3>2. \A d \in Passed(t, Events) : d.level < n \/ d.level = n
      BY <1>1, <1>2, <1>7, <1>8 DEF Passed, Kind
    <3>. QED
      BY <1>9, <3>1, <3>2 DEF Passed
  <2>3. CASE g.at # KindFor(Live)
    <3>1. Passed(t, Events) \subseteq Passed(g, Events)
      <4>1. CASE g.at = "transfer"
        BY <1>2, <1>7, <1>8, <2>1, <2>3, <4>1 DEF Passed
      <4>2. CASE g.at = "update"
        BY <1>2, <1>7, <1>8, <2>1, <2>3, <4>2 DEF Passed, Kind
      <4>. QED
        BY <1>1, <4>1, <4>2 DEF Kind
    <3>. QED
      BY <1>3, <3>1
  <2>. QED
    BY <2>2, <2>3
<1>. QED
  BY <1>1, <1>2, <1>3, <1>6, <1>7, <1>10, <1>11 DEF Kind

(* The page is fetched, or lost with a failed call. *)
LEMMA PageTaken ==
  ASSUME TezosInv, OneKind, EmitterAssumption, NEW s \in Sender, NEW t, NEW q,
         Fetches(s), task[s].level <= task[s].upTo,
         q = Page(task[s].level, chain[task[s].level], task[s].at),
         \/ t = [NextPage(task[s]) EXCEPT !.queue = q] /\ failed' = failed
         \/ t = NextPage(task[s]) /\ failed' = failed \cup (ToSet(q) \ accepted),
         task' = [task EXCEPT ![s] = t],
         UNCHANGED <<chain, accepted, stored, connection, first, handler, last, missed,
                     eventChan, drops>>
  PROVE  TezosInv'
<1> DEFINE g == task[s]
<1>1. /\ t \in TaskOf(Events) /\ t.at \in Kind /\ t.upTo = g.upTo
      /\ t.message = g.message /\ t.level >= 1 /\ t.level <= t.upTo + 1
      /\ t.at = "update" => t.level <= t.upTo
      /\ InOrder(Events, q, Sent) /\ q \in Seq(Events)
      /\ Passed(t, Events) \subseteq Sent \cup ToSet(q)
  BY NextPageFacts
<1>2. /\ g \in TaskOf(Events) /\ Sending(g, Events, Sent, Len(chain))
      /\ g.at \in Kind /\ g.queue = <<>>
  BY TaskFields DEF Fetches
<1>3. \/ t.queue = q /\ failed' = failed
      \/ t.queue = <<>> /\ failed' = failed \cup (ToSet(q) \ accepted)
  <2>1. NextPage(g) \in TaskOf(Events) /\ NextPage(g).queue = <<>>
    BY <1>2, TaskPage
  <2>2. CASE t = [NextPage(g) EXCEPT !.queue = q] /\ failed' = failed
    BY <2>1, <2>2 DEF TaskOf
  <2>3. CASE t = NextPage(g) /\ failed' = failed \cup (ToSet(q) \ accepted)
    BY <2>1, <2>3
  <2>. QED
    BY <2>2, <2>3
<1>4. Settled \subseteq Settled' /\ Pushed' = Pushed /\ Sent \subseteq Sent'
      /\ Sent \cup ToSet(q) \subseteq Sent' \cup ToSet(t.queue)
  BY <1>3 DEF Settled, Pushed, Sent, Events
<1>5. InOrder(Events, t.queue, Sent')
  <2>1. CASE t.queue = q
    BY <1>1, <1>4, <2>1, InOrderMore
  <2>2. CASE t.queue = <<>>
    BY <2>2, EmptyOrder
  <2>. QED
    BY <1>3, <2>1, <2>2
<1>6. Sending(t, Events, Sent', Len(chain))
  <2>1. t.at \notin {"idle", "bigmaps"}
    BY <1>1 DEF Kind
  <2>2. g.upTo <= Len(chain)
    BY <1>2 DEF Sending
  <2>3. t.message # <<>> =>
          IsPage(t.message, t.message[1].level, Events) /\ t.message[1].level <= t.upTo
    BY <1>1, <1>2 DEF Sending
  <2>. QED
    BY <1>1, <1>4, <1>5, <2>1, <2>2, <2>3 DEF Sending
<1>7. Waiting(g, inbox[Live], Events) \subseteq Sent' \cup Waiting(t, inbox[Live], Events)
  BY <1>1, <1>2, EmptyOrder DEF Waiting
<1>8. /\ eventChan' \in Seq(Events) /\ InOrder(Events, eventChan', Settled' \cup Pushed)
  <2>1. eventChan \in Seq(Events) /\ InOrder(Events, eventChan, Settled \cup Pushed)
    BY DEF TezosInv, TezosTypes, Handled
  <2>. QED
    BY <1>4, <2>1, InOrderMore
<1>9. s = "observer" => t.message = <<>>
  BY <1>1 DEF TezosInv, Phase
<1>10. failed \subseteq failed'
  BY <1>3
<1>. QED
  BY <1>1, <1>2, <1>6, <1>7, <1>8, <1>9, <1>10, SenderKeeps

LEMMA FetchPageInv ==
  ASSUME TezosInv, OneKind, EmitterAssumption, NEW s \in Sender, FetchPage(s)
  PROVE  TezosInv'
<1> DEFINE q == Page(task[s].level, chain[task[s].level], task[s].at)
           t == [NextPage(task[s]) EXCEPT !.queue = q]
<1>1. /\ Fetches(s) /\ task[s].level <= task[s].upTo
      /\ task' = [task EXCEPT ![s] = t]
      /\ UNCHANGED <<chain, accepted, stored, connection, first, handler, last, missed, failed,
                     eventChan, drops>>
  BY DEF FetchPage, world, history, bounds
<1>2. t = [NextPage(task[s]) EXCEPT !.queue = q]
  OBVIOUS
<1>3. q = Page(task[s].level, chain[task[s].level], task[s].at)
  OBVIOUS
<1> HIDE DEF q, t
<1>. QED
  BY <1>1, <1>2, <1>3, PageTaken

LEMMA FailPageInv ==
  ASSUME TezosInv, OneKind, EmitterAssumption, NEW s \in Sender, FailPage(s)
  PROVE  TezosInv'
<1> DEFINE q == Page(task[s].level, chain[task[s].level], task[s].at)
           t == NextPage(task[s])
<1>1. /\ Fetches(s) /\ task[s].level <= task[s].upTo
      /\ task' = [task EXCEPT ![s] = t] /\ failed' = failed \cup (ToSet(q) \ accepted)
      /\ UNCHANGED <<chain, accepted, stored, connection, first, handler, last, missed,
                     eventChan, drops>>
  BY DEF FailPage, world
<1>2. q = Page(task[s].level, chain[task[s].level], task[s].at) /\ t = NextPage(task[s])
  OBVIOUS
<1> HIDE DEF q, t
<1>. QED
  BY <1>1, <1>2, PageTaken

-----------------------------------------------------------------------------
(* The observer.                                                            *)

(* The observer takes up a connection: it fetches from the stored level, or *)
(* a failed call has settled everything from there on.                      *)
LEMMA TakenUp ==
  ASSUME TezosInv, OneKind, EmitterAssumption, notices > 0, notices' = notices - 1, NEW t,
         \/ t = FetchFrom(stored, <<>>) /\ failed' = failed
         \/ t = SendOnly(<<>>)
            /\ failed' = failed \cup ({e \in Events : e.level >= stored} \ accepted),
         task' = [task EXCEPT !["observer"] = t],
         UNCHANGED <<chain, accepted, stored, running, connected, subscribed, inbox, first,
                     handler, last, missed, eventChan, drops>>
  PROVE  TezosInv'
<1>1. notices = 1 /\ Fresh /\ notices' = 0 /\ connected
  BY DEF TezosInv, Phase
<1>2. Events' = Events /\ Pushed' = Pushed
  BY DEF Events, Pushed
<1>3. Settled \subseteq Settled' /\ Sent \subseteq Sent' /\ Settled' \subseteq Sent'
  BY <1>2 DEF Settled, Sent
<1>4. stored \in Nat /\ stored >= 1 /\ stored <= Len(chain) + 1 /\ Len(chain) \in Nat
  BY DEF TezosInv, TezosTypes
<1>5. /\ t \in TaskOf(Events) /\ t.queue = <<>> /\ t.message = <<>>
      /\ \/ t.at = "transfer" /\ t.level = stored /\ t.upTo = Len(chain)
         \/ t.at = "done"
  <2>1. <<>> \in Seq(Events)
    OBVIOUS
  <2>2. CASE t = FetchFrom(stored, <<>>)
    BY <1>4, <2>1, <2>2 DEF FetchFrom, TaskOf, Kind
  <2>3. CASE t = SendOnly(<<>>)
    BY <2>1, <2>3 DEF SendOnly, TaskOf
  <2>. QED
    BY <2>2, <2>3
<1>6. Sending(t, Events, Sent', Len(chain))
  <2>1. \A e \in Events : e.level < stored => e \in Settled'
    BY <1>3 DEF TezosInv, Handled
  <2>. QED
    BY <1>3, <1>4, <1>5, <2>1, EmptyOrder DEF Sending, Passed, Kind
<1>7. task' \in [Sender -> TaskOf(Events)] /\ task'["observer"] = t
      /\ \A r \in Sender \ {"observer"} : task'[r] = task[r]
  BY <1>5 DEF TezosInv, TezosTypes, Sender
<1>8. \A m \in Method : task'[m] = task[m]
  BY <1>7 DEF Sender, Method
<1>9. TezosTypes'
  BY <1>1, <1>2, <1>7 DEF TezosInv, TezosTypes
<1>10. Handled'
  <2>1. InOrder(Events, eventChan, Settled' \cup Pushed)
    BY <1>3, InOrderMore DEF TezosInv, Handled
  <2>. QED
    BY <1>2, <1>3, <2>1 DEF TezosInv, Handled
<1>11. Senders'
  <2>1. \A r \in Sender : Sending(task[r], Events, Sent', Len(chain))
    BY <1>3, SendingMore DEF TezosInv, Senders
  <2>. QED
    BY <1>2, <1>6, <1>7, <2>1 DEF Senders
<1>12. Covered'
  BY <1>1 DEF Covered, Fresh, Rested
<1>13. Phase'
  <2>1. Rested'
    BY <1>1, <1>8 DEF Fresh, Rested
  <2>2. t.at # "bigmaps"
    BY <1>5
  <2>3. Live \in Method
    BY LiveMethod
  <2>. QED
    BY <1>1, <1>5, <1>7, <1>8, <2>1, <2>2, <2>3 DEF TezosInv, Phase
<1>14. Mail(inbox'[Live], Events')
  BY <1>2 DEF TezosInv
<1>. QED
  BY <1>9, <1>10, <1>11, <1>12, <1>13, <1>14 DEF TezosInv

LEMMA ConnectedInv ==
  ASSUME TezosInv, OneKind, EmitterAssumption, Connected \/ ConnectedWithoutFetch
  PROVE  TezosInv'
<1>1. CASE Connected
  BY <1>1, TakenUp DEF Connected, FromLevel, world, history, bounds
<1>2. CASE ConnectedWithoutFetch
  BY <1>2, TakenUp DEF ConnectedWithoutFetch, world
<1>. QED
  BY <1>1, <1>2

(* A sender that has nothing in hand changes its place. *)
LEMMA EmptyHanded ==
  ASSUME TezosInv, OneKind, EmitterAssumption, NEW s \in Sender, NEW t \in TaskOf(Events),
         t.queue = <<>>, t.message = <<>>, t.at \notin Kind,
         task' = [task EXCEPT ![s] = t],
         UNCHANGED <<chain, accepted, stored, notices, inbox, handler, last, missed, failed,
                     eventChan, drops>>,
         first' \in [Method -> BOOLEAN], Phase', Covered'
  PROVE  TezosInv'
<1>1. Events' = Events /\ Pushed' = Pushed /\ Settled' = Settled /\ Sent' = Sent
  BY DEF Events, Pushed, Settled, Sent
<1>2. task \in [Sender -> TaskOf(Events)] /\ task' \in [Sender -> TaskOf(Events)]
      /\ task'[s] = t /\ \A r \in Sender \ {s} : task'[r] = task[r]
  BY DEF TezosInv, TezosTypes
<1>3. TezosTypes'
  BY <1>1, <1>2 DEF TezosInv, TezosTypes
<1>4. Handled'
  BY <1>1 DEF TezosInv, Handled
<1>5. Senders'
  <2>1. Sending(t, Events, Sent, Len(chain))
    BY EmptyOrder DEF Sending
  <2>. QED
    BY <1>1, <1>2, <2>1 DEF TezosInv, Senders
<1>6. Mail(inbox'[Live], Events')
  BY <1>1 DEF TezosInv
<1>. QED
  BY <1>3, <1>4, <1>5, <1>6 DEF TezosInv

LEMMA SubscribeTransfersInv ==
  ASSUME TezosInv, OneKind, EmitterAssumption, SubscribeTransfers
  PROVE  TezosInv'
<1> DEFINE g == task["observer"]
           t == [g EXCEPT !.at = "bigmaps"]
<1>1. /\ g.at = "done" /\ g.queue = <<>> /\ connected
      /\ first' = [m \in Method |-> TRUE] /\ subscribed' = subscribed \cup {"Transfers"}
      /\ task' = [task EXCEPT !["observer"] = t]
      /\ UNCHANGED <<chain, accepted, stored, notices, inbox, handler, last, missed, failed,
                     eventChan, drops, connected>>
  BY DEF SubscribeTransfers, Done, world, history, bounds
<1>2. g \in TaskOf(Events) /\ Sending(g, Events, Sent, Len(chain))
  BY TaskFields DEF Sender
<1>3. t = [g EXCEPT !.at = "bigmaps"]
  OBVIOUS
<1>4. g.message = <<>>
  BY <1>1, <1>2 DEF Sending, Kind
<1> HIDE DEF t
<1>5. t \in TaskOf(Events) /\ t.queue = <<>> /\ t.message = <<>> /\ t.at = "bigmaps"
  <2> HIDE DEF g
  <2>. QED
    BY <1>1, <1>2, <1>3, <1>4 DEF TaskOf
<1>6. Rested /\ ~ (notices > 0)
  BY <1>1 DEF TezosInv, Phase, Fresh
<1>7. task'["observer"] = t /\ \A m \in Method : task'[m] = task[m]
  BY <1>1 DEF TezosInv, TezosTypes, Sender, Method
<1>8. Live \in Method
  BY LiveMethod
<1>9. Phase'
  BY <1>1, <1>5, <1>6, <1>7, <1>8 DEF TezosInv, Phase, Rested, Kind
<1>10. Covered'
  BY <1>1, <1>8 DEF Covered
<1>. QED
  BY <1>1, <1>5, <1>9, <1>10, EmptyHanded DEF Sender, Kind

LEMMA SubscribeBigmapsInv ==
  ASSUME TezosInv, OneKind, EmitterAssumption, SubscribeBigmaps
  PROVE  TezosInv'
<1> DEFINE g == task["observer"]
<1>1. /\ g.at = "bigmaps" /\ connected
      /\ first' = first /\ subscribed' = subscribed \cup {"Bigmaps"}
      /\ task' = [task EXCEPT !["observer"] = Idle]
      /\ UNCHANGED <<chain, accepted, stored, notices, inbox, handler, last, missed, failed,
                     eventChan, drops, connected>>
  BY DEF SubscribeBigmaps, world, history, bounds
<1>2. Idle \in TaskOf(Events) /\ Idle.queue = <<>> /\ Idle.message = <<>> /\ Idle.at = "idle"
  BY DEF TaskOf, Idle
<1>3. "Transfers" \in subscribed /\ ~ (notices > 0)
  BY <1>1 DEF TezosInv, Phase, Fresh
<1>4. task'["observer"] = Idle /\ \A m \in Method : task'[m] = task[m]
  BY <1>1 DEF TezosInv, TezosTypes, Sender, Method
<1>5. Live \in Method
  BY LiveMethod
<1>6. Phase'
  BY <1>1, <1>2, <1>3, <1>4, <1>5 DEF TezosInv, Phase, Kind
<1>7. Covered'
  <2>1. Events' = Events /\ Sent' = Sent
    BY <1>1 DEF Events, Sent, Settled, Pushed
  <2>2. Live \in subscribed' /\ ~ first'[Live] => Live \in subscribed /\ ~ first[Live]
    BY <1>1 DEF TezosInv, Phase
  <2>. QED
    BY <1>1, <1>4, <1>5, <2>1, <2>2 DEF TezosInv, Covered
<1>8. first' \in [Method -> BOOLEAN]
  BY <1>1 DEF TezosInv, TezosTypes
<1>. QED
  BY <1>1, <1>2, <1>6, <1>7, <1>8, EmptyHanded DEF Sender, Kind

LEMMA EndMethodInv ==
  ASSUME TezosInv, OneKind, EmitterAssumption, NEW m \in Method, EndMethod(m)
  PROVE  TezosInv'
<1> DEFINE g == task[m]
<1>1. /\ g.at = "done" /\ g.queue = <<>>
      /\ task' = [task EXCEPT ![m] = Idle]
      /\ UNCHANGED <<chain, accepted, stored, notices, inbox, handler, last, missed, failed,
                     eventChan, drops, connected, subscribed, first>>
  BY DEF EndMethod, Done, world, history, bounds, connection
<1>2. Idle \in TaskOf(Events) /\ Idle.queue = <<>> /\ Idle.message = <<>> /\ Idle.at = "idle"
  BY DEF TaskOf, Idle
<1>3. g \in TaskOf(Events) /\ Sending(g, Events, Sent, Len(chain)) /\ g.message = <<>>
  BY <1>1, TaskFields DEF Sender, Sending, Kind
<1>4. m = Live /\ ~ Fresh /\ ~ Rested /\ ~ first[Live]
  BY <1>1 DEF TezosInv, Phase, Fresh, Rested
<1>5. /\ task'[m] = Idle /\ task'["observer"] = task["observer"]
      /\ \A r \in Method \ {m} : task'[r] = task[r]
  BY <1>1 DEF TezosInv, TezosTypes, Sender, Method
<1>6. Phase'
  BY <1>1, <1>2, <1>4, <1>5 DEF TezosInv, Phase
<1>7. Covered'
  <2>1. Events' = Events /\ Sent' = Sent
    BY <1>1 DEF Events, Sent, Settled, Pushed
  <2>2. Waiting(g, inbox[Live], Events) \subseteq Waiting(Idle, inbox[Live], Events)
    BY <1>1, <1>2, <1>3, EmptyOrder DEF Waiting, Kind
  <2>. QED
    BY <1>1, <1>4, <1>5, <2>1, <2>2 DEF TezosInv, Covered
<1>8. first' \in [Method -> BOOLEAN]
  BY <1>1 DEF TezosInv, TezosTypes
<1>. QED
  BY <1>1, <1>2, <1>6, <1>7, <1>8, EmptyHanded DEF Sender, Kind

-----------------------------------------------------------------------------
(* The process and its connection.                                          *)

LEMMA DeadInv ==
  ASSUME TezosInv, OneKind, EmitterAssumption, Dead, drops' = drops
  PROVE  TezosInv'
<1>1. /\ connected' = FALSE /\ notices' = 0 /\ subscribed' = {}
      /\ inbox' = [m \in Method |-> <<>>] /\ task' = [s \in Sender |-> Idle]
      /\ first' = [m \in Method |-> TRUE]
      /\ eventChan' = <<>> /\ handler' = Free /\ last' = 0
      /\ UNCHANGED <<chain, accepted, stored, missed, failed>>
  BY DEF Dead, world, history
<1>2. Events' = Events /\ Pushed' = {} /\ Settled' = Settled /\ Sent' = Settled
  <2>1. Pushed' = {}
    BY <1>1 DEF Pushed, Free
  <2>. QED
    BY <1>1, <2>1, EmptyOrder DEF Events, Settled, Sent
<1>3. Idle \in TaskOf(Events) /\ Idle.queue = <<>> /\ Idle.message = <<>> /\ Idle.at = "idle"
  BY DEF TaskOf, Idle
<1>4. Live \in Method /\ Live \in Sender
  BY LiveMethod DEF Sender
<1>5. TezosTypes'
  <2>1. inbox' \in [Method -> Seq(Seq(Events))]
    BY <1>1
  <2>. QED
    BY <1>1, <1>2, <1>3, <2>1 DEF TezosInv, TezosTypes
<1>6. Handled'
  <2>1. \A e \in Events : ~ e.level < 0
    BY EventLevels DEF TezosInv
  <2>. QED
    BY <1>1, <1>2, <2>1, EmptyOrder DEF TezosInv, Handled, Free
<1>7. Senders'
  <2>1. Sending(Idle, Events, Settled, Len(chain))
    BY <1>3, EmptyOrder DEF Sending, Kind
  <2>. QED
    BY <1>1, <1>2, <2>1 DEF Senders
<1>8. Phase'
  BY <1>1, <1>3, <1>4 DEF Phase, Fresh, Rested, Kind, Sender
<1>9. Covered'
  BY <1>1 DEF Covered
<1>10. Mail(inbox'[Live], Events')
  BY <1>1, <1>4 DEF Mail
<1>. QED
  BY <1>5, <1>6, <1>7, <1>8, <1>9, <1>10 DEF TezosInv

LEMMA CrashInv ==
  ASSUME TezosInv, OneKind, EmitterAssumption, Crash \/ SubscribePanics
  PROVE  TezosInv'
BY DeadInv DEF Crash, SubscribePanics, bounds

LEMMA ConnectInv ==
  ASSUME TezosInv, OneKind, EmitterAssumption, Connect
  PROVE  TezosInv'
<1>1. /\ connected' = TRUE /\ notices' = notices + 1 /\ notices = 0 /\ Fresh
      /\ UNCHANGED <<chain, accepted, stored, inbox, handler, last, missed, failed, task,
                     eventChan, drops, subscribed, first>>
  BY DEF Connect, world, history, bounds, TezosInv, Phase
<1>2. Events' = Events /\ Pushed' = Pushed /\ Settled' = Settled /\ Sent' = Sent /\ Fresh'
  BY <1>1 DEF Events, Pushed, Settled, Sent, Fresh, Rested
<1>3. TezosTypes' /\ Handled' /\ Senders' /\ Covered'
  BY <1>1, <1>2 DEF TezosInv, TezosTypes, Handled, Senders, Covered
<1>4. Phase'
  BY <1>1, <1>2 DEF TezosInv, Phase, Rested
<1>. QED
  BY <1>1, <1>2, <1>3, <1>4 DEF TezosInv

-----------------------------------------------------------------------------
(* The methods.                                                             *)

LEMMA MailTail ==
  ASSUME NEW E, NEW box \in Seq(Seq(E)), Mail(box, E), box # <<>>
  PROVE  /\ Mail(Tail(box), E) /\ Tail(box) \in Seq(Seq(E)) /\ Head(box) \in Seq(E)
         /\ Head(box) # <<>> /\ IsPage(Head(box), Head(box)[1].level, E)
         /\ \A i \in DOMAIN Tail(box) :
              Head(box)[1].level < Tail(box)[i][1].level /\ IsPage(Tail(box)[i], Tail(box)[i][1].level, E)
         /\ \A i \in DOMAIN box : box[i] = Head(box) \/ \E j \in DOMAIN Tail(box) : box[i] = Tail(box)[j]
<1>1. /\ Len(box) \in Nat \ {0} /\ DOMAIN box = 1..Len(box) /\ Head(box) = box[1] /\ box[1] \in Seq(E)
      /\ Tail(box) \in Seq(Seq(E)) /\ DOMAIN Tail(box) = 1..(Len(box) - 1)
      /\ \A i \in 1..(Len(box) - 1) : Tail(box)[i] = box[i + 1]
  OBVIOUS
<1>2. \A i \in 1..(Len(box) - 1) : i + 1 \in 1..Len(box) /\ 1 < i + 1
  BY <1>1
<1>3. 1 \in 1..Len(box)
  BY <1>1
<1> DEFINE tail == Tail(box)
<1>4. DOMAIN tail = 1..(Len(box) - 1) /\ \A i \in 1..(Len(box) - 1) : tail[i] = box[i + 1]
  BY <1>1
<1> HIDE DEF tail
<1>5. \A i \in DOMAIN tail : tail[i] # <<>> /\ IsPage(tail[i], tail[i][1].level, E)
  BY <1>1, <1>2, <1>4 DEF Mail
<1>6. \A i, j \in DOMAIN tail : i < j => tail[i][1].level < tail[j][1].level
  <2>1. SUFFICES ASSUME NEW i \in 1..(Len(box) - 1), NEW j \in 1..(Len(box) - 1), i < j
                 PROVE  tail[i][1].level < tail[j][1].level
    BY <1>4
  <2>2. i + 1 \in DOMAIN box /\ j + 1 \in DOMAIN box /\ i + 1 < j + 1
    BY <1>1, <2>1
  <2>3. box[i + 1][1].level < box[j + 1][1].level
    BY <2>2 DEF Mail
  <2>. QED
    BY <1>4, <2>3
<1>7. \A i \in DOMAIN tail : box[1][1].level < tail[i][1].level
  BY <1>1, <1>2, <1>3, <1>4 DEF Mail
<1>8. \A i \in DOMAIN box : box[i] = box[1] \/ \E j \in DOMAIN tail : box[i] = tail[j]
  <2>1. \A i \in 1..Len(box) : i = 1 \/ (i - 1 \in 1..(Len(box) - 1) /\ (i - 1) + 1 = i)
    BY <1>1
  <2>2. ASSUME NEW i \in 1..Len(box), i # 1
        PROVE  \E j \in DOMAIN tail : box[i] = tail[j]
    <3>1. i - 1 \in DOMAIN tail /\ tail[i - 1] = box[i]
      BY <1>4, <2>1, <2>2
    <3>. QED
      BY <3>1
  <2>. QED
    BY <1>1, <2>2
<1>9. Mail(tail, E)
  BY <1>5, <1>6 DEF Mail
<1>10. box[1] # <<>> /\ IsPage(box[1], box[1][1].level, E)
  BY <1>1, <1>3 DEF Mail
<1>. QED
  BY <1>1, <1>5, <1>7, <1>8, <1>9, <1>10 DEF tail

(* Where an event on its way can be when the method of the chain is idle    *)
(* and has messages.                                                        *)
LEMMA WhereOnItsWay ==
  ASSUME TezosInv, OneKind, EmitterAssumption, task[Live].at = "idle", inbox[Live] # <<>>,
         NEW e \in Events, OnItsWay(e)
  PROVE  e \in Sent \/ \E i \in DOMAIN inbox[Live] : e \in ToSet(inbox[Live][i])
<1>1. Live \in Method /\ Live \in subscribed
  BY LiveMethod DEF TezosInv, Phase
<1>2. \A m \in Method \ {Live} : inbox[m] = <<>> /\ task[m].at = "idle"
  BY DEF TezosInv, Phase
<1>3. task["observer"].at \notin Kind \cup {"done"}
  BY <1>1 DEF TezosInv, Phase, Rested
<1>4. ASSUME NEW s \in Sender
      PROVE  task[s].queue = <<>> /\ task[s].message = <<>>
  <2>1. task[s].at \in {"idle", "bigmaps"}
    <3>1. CASE s \in Method
      BY <1>2, <3>1
    <3>2. CASE s = "observer"
      BY <1>3, <3>2, TaskFields
    <3>. QED
      BY <3>1, <3>2 DEF Sender
  <2>. QED
    BY <2>1, TaskFields DEF Sending, Kind
<1>5. CASE e \in ToSet(eventChan)
  BY <1>5 DEF Sent
<1>6. CASE handler # Free /\ handler.event = e
  <2>1. handler.at \in {"push", "move", "put"}
    BY <1>6 DEF TezosInv, TezosTypes
  <2>2. e \in Pushed \cup accepted
    BY <1>6, <2>1 DEF TezosInv, Handled, Pushed
  <2>. QED
    BY <2>2 DEF Sent, Settled
<1>7. CASE \E s \in Sender : e \in ToSet(task[s].queue) \cup ToSet(task[s].message)
  BY <1>4, <1>7, EmptyOrder
<1>8. CASE \E m \in Method : \E i \in DOMAIN inbox[m] : e \in ToSet(inbox[m][i])
  BY <1>2, <1>8
<1>. QED
  BY <1>5, <1>6, <1>7, <1>8 DEF OnItsWay

(* The method of the chain takes a message: it fetches first, or nothing    *)
(* before the message is left that was not sent or lost for a reason.       *)
LEMMA MessageTaken ==
  ASSUME TezosInv, OneKind, EmitterAssumption, task[Live].at = "idle", inbox[Live] # <<>>, NEW t,
         inbox' = [inbox EXCEPT ![Live] = Tail(inbox[Live])],
         first' = [first EXCEPT ![Live] = FALSE],
         task' = [task EXCEPT ![Live] = t],
         UNCHANGED <<chain, accepted, stored, connected, notices, subscribed, handler, last,
                     eventChan, drops>>,
         missed \subseteq missed', failed \subseteq failed',
         \/ t = FetchFrom(last, Head(inbox[Live])) /\ last > 0
         \/ /\ t = SendOnly(Head(inbox[Live]))
            /\ first[Live] => \A e \in Events \ accepted : OnItsWay(e) \/ e \in Settled'
  PROVE  TezosInv'
<1> DEFINE box == inbox[Live]
           h == Head(box)
           rest == Tail(box)
           n == h[1].level
<1>1. Live \in Method /\ Live \in Sender /\ Live # "observer"
  BY LiveMethod DEF Sender, Method
<1>2. Live \in subscribed /\ ~ Fresh /\ ~ Rested /\ connected /\ ~ (notices > 0)
      /\ task["observer"].at \notin Kind \cup {"done"}
  BY <1>1 DEF TezosInv, Phase, Fresh, Rested
<1>3. Events' = Events /\ Pushed' = Pushed /\ Settled \subseteq Settled' /\ Sent \subseteq Sent'
      /\ Settled' \subseteq Sent'
  BY DEF Events, Pushed, Settled, Sent
<1>4. /\ Mail(rest, Events) /\ rest \in Seq(Seq(Events)) /\ h \in Seq(Events)
      /\ h # <<>> /\ IsPage(h, n, Events)
      /\ \A i \in DOMAIN rest : n < rest[i][1].level /\ IsPage(rest[i], rest[i][1].level, Events)
      /\ \A i \in DOMAIN box : box[i] = h \/ \E j \in DOMAIN rest : box[i] = rest[j]
  <2>1. box \in Seq(Seq(Events)) /\ Mail(box, Events) /\ box # <<>>
    BY <1>1 DEF TezosInv, TezosTypes
  <2> HIDE DEF box
  <2>. QED
    BY <2>1, MailTail
<1>5. task \in [Sender -> TaskOf(Events)] /\ inbox \in [Method -> Seq(Seq(Events))]
      /\ first \in [Method -> BOOLEAN]
      /\ Len(chain) \in Nat /\ last \in Nat /\ last <= Len(chain)
  BY DEF TezosInv, TezosTypes
<1>6. task[Live].queue = <<>> /\ task[Live].message = <<>>
  BY <1>1, TaskFields DEF Sending, Kind
<1>7. /\ inbox'[Live] = rest /\ \A m \in Method \ {Live} : inbox'[m] = inbox[m]
      /\ inbox' \in [Method -> Seq(Seq(Events))]
  BY <1>1, <1>4, <1>5
<1> HIDE DEF rest, h, n, box
<1>8. n \in Nat /\ n <= Len(chain) /\ n = h[1].level
  <2>1. h[1] \in Events
    BY <1>4
  <2>. QED
    BY <2>1, EventLevels DEF TezosInv, n
<1>9. /\ t \in TaskOf(Events)
      /\ \/ /\ t.at = "transfer" /\ t.level = last /\ t.upTo = Len(chain) /\ t.queue = <<>>
            /\ t.message = h /\ last > 0
         \/ t.at = "done" /\ t.queue = h /\ t.message = <<>> /\ t = SendOnly(h)
  <2>1. <<>> \in Seq(Events)
    OBVIOUS
  <2>2. CASE t = FetchFrom(last, h) /\ last > 0
    BY <1>4, <1>5, <2>1, <2>2 DEF FetchFrom, TaskOf, Kind
  <2>3. CASE t = SendOnly(h)
    BY <1>4, <2>1, <2>3 DEF SendOnly, TaskOf
  <2>. QED
    BY <2>2, <2>3 DEF h, box
<1>10. ASSUME t.at = "done"
       PROVE  \A e \in Events : \/ e \in Sent' \/ e \in ToSet(h)
                                \/ \E i \in DOMAIN rest : e \in ToSet(rest[i])
  <2>1. ASSUME NEW e \in Events
        PROVE  e \in Sent' \/ \E i \in DOMAIN box : e \in ToSet(box[i])
    <3>1. CASE first[Live]
      <4>1. e \in accepted \/ OnItsWay(e) \/ e \in Settled'
        BY <1>10, <3>1, <1>9 DEF FetchFrom
      <4>2. CASE OnItsWay(e)
        BY <1>3, <2>1, <4>2, WhereOnItsWay DEF box
      <4>. QED
        BY <1>3, <4>1, <4>2 DEF Settled, Sent
    <3>2. CASE ~ first[Live]
      <4>1. e \in Sent \cup Waiting(task[Live], box, Events)
        BY <1>2, <3>2 DEF TezosInv, Covered, box
      <4>. QED
        BY <1>3, <1>6, <4>1, EmptyOrder DEF Waiting, Kind
    <3>. QED
      BY <3>1, <3>2
  <2>. QED
    BY <1>4, <2>1
<1>11. Sending(t, Events, Sent', Len(chain))
  <2>1. CASE t.at = "transfer"
    <3>1. Passed(t, Events) \subseteq Sent'
      BY <1>3, <1>9, <2>1 DEF Passed, TezosInv, Handled
    <3>. QED
      BY <1>4, <1>5, <1>8, <1>9, <2>1, <3>1, EmptyOrder DEF Sending, Kind
  <2>2. CASE t.at = "done"
    <3>1. ASSUME NEW d \in Events, d.level < n
          PROVE  d \in Sent'
      <4>1. d \notin ToSet(h)
        BY <1>4, <1>8, <3>1 DEF IsPage, ToSet
      <4>2. ASSUME NEW i \in DOMAIN rest
            PROVE  d \notin ToSet(rest[i])
        <5>1. /\ n < rest[i][1].level
              /\ \A j \in DOMAIN rest[i] : rest[i][j].level = rest[i][1].level
          BY <1>4, <4>2 DEF IsPage
        <5>2. d.level \in Nat
          BY EventLevels DEF TezosInv
        <5>3. CASE d \in ToSet(rest[i])
          <6>1. d.level = rest[i][1].level
            BY <5>1, <5>3 DEF ToSet
          <6>. QED
            BY <1>8, <3>1, <5>1, <5>2, <6>1
        <5>. QED
          BY <5>3
      <4>. QED
        BY <1>10, <2>2, <4>1, <4>2
    <3>2. InOrder(Events, h, Sent')
      BY <1>4, <1>8, <3>1, PageInOrder, TheEvents DEF TezosInv, TezosTypes
    <3>. QED
      BY <1>9, <2>2, <3>2 DEF Sending, Kind
  <2>. QED
    BY <1>9, <2>1, <2>2
<1>12. /\ task' \in [Sender -> TaskOf(Events)] /\ task'[Live] = t
       /\ \A r \in Sender \ {Live} : task'[r] = task[r]
  BY <1>1, <1>5, <1>9
<1>13. first' \in [Method -> BOOLEAN] /\ ~ first'[Live]
  BY <1>1, <1>5
<1>14. TezosTypes'
  BY <1>3, <1>7, <1>12, <1>13 DEF TezosInv, TezosTypes
<1>15. Handled'
  <2>1. InOrder(Events, eventChan, Settled' \cup Pushed)
    BY <1>3, InOrderMore DEF TezosInv, Handled
  <2>. QED
    BY <1>3, <2>1 DEF TezosInv, Handled
<1>16. Senders'
  <2>1. \A r \in Sender : Sending(task[r], Events, Sent', Len(chain))
    BY <1>3, SendingMore DEF TezosInv, Senders
  <2>. QED
    BY <1>3, <1>11, <1>12, <2>1 DEF Senders
<1>17. Covered'
  <2>1. ASSUME NEW e \in Events
        PROVE  e \in Sent' \cup Waiting(t, rest, Events)
    <3>1. CASE t.at = "transfer"
      <4>1. e.level <= Len(chain)
        BY EventLevels DEF TezosInv
      <4>. QED
        BY <1>9, <3>1, <4>1 DEF Waiting, Kind
    <3>2. CASE t.at = "done"
      BY <1>9, <1>10, <3>2 DEF Waiting
    <3>. QED
      BY <1>9, <3>1, <3>2
  <2>. QED
    BY <1>3, <1>7, <1>12, <2>1 DEF Covered
<1>18. Phase'
  <2>1. \A m \in Method \ {Live} : task'[m] = task[m]
    BY <1>12 DEF Sender
  <2>2. task'["observer"] = task["observer"]
    BY <1>1, <1>12 DEF Sender
  <2>3. t.at # "bigmaps"
    BY <1>9
  <2>. QED
    BY <1>1, <1>2, <1>7, <1>12, <1>13, <2>1, <2>2, <2>3 DEF TezosInv, Phase
<1>19. Mail(inbox'[Live], Events')
  BY <1>3, <1>4, <1>7
<1>. QED
  BY <1>14, <1>15, <1>16, <1>17, <1>18, <1>19 DEF TezosInv

LEMMA CallMethodInv ==
  ASSUME TezosInv, OneKind, EmitterAssumption, NEW m \in Method,
         CallMethod(m) \/ CallMethodWithoutFetch(m)
  PROVE  TezosInv'
<1>1. task[m] = Idle /\ inbox[m] # <<>>
  BY DEF CallMethod, CallMethodWithoutFetch
<1>2. m = Live /\ task[m].at = "idle"
  BY <1>1 DEF TezosInv, Phase, Idle
<1>3. last \in Nat
  BY DEF TezosInv, TezosTypes
<1>4. CASE CallMethod(m)
  <2> DEFINE t == IF CatchesUp(m) THEN FetchFrom(last, Head(inbox[m])) ELSE SendOnly(Head(inbox[m]))
  <2>1. /\ task' = [task EXCEPT ![m] = t]
        /\ inbox' = [inbox EXCEPT ![m] = Tail(inbox[m])]
        /\ first' = [first EXCEPT ![m] = FALSE]
        /\ UNCHANGED <<chain, accepted, stored, connected, notices, subscribed, handler, last,
                       eventChan, drops, failed>>
        /\ missed' = IF first[m] /\ last = 0
                     THEN missed \cup {e \in Events \ accepted : ~ OnItsWay(e)} ELSE missed
    BY <1>4 DEF CallMethod, world, bounds
  <2>2. \/ t = FetchFrom(last, Head(inbox[m])) /\ last > 0
        \/ /\ t = SendOnly(Head(inbox[m]))
           /\ first[m] => \A e \in Events \ accepted : OnItsWay(e) \/ e \in Settled'
    BY <1>3, <2>1 DEF CatchesUp, Settled
  <2>3. missed \subseteq missed' /\ failed \subseteq failed'
    BY <2>1
  <2> HIDE DEF t
  <2>. QED
    BY <1>1, <1>2, <2>1, <2>2, <2>3, MessageTaken
<1>5. CASE CallMethodWithoutFetch(m)
  <2> DEFINE t == SendOnly(Head(inbox[m]))
  <2>1. /\ task' = [task EXCEPT ![m] = t]
        /\ inbox' = [inbox EXCEPT ![m] = Tail(inbox[m])]
        /\ first' = [first EXCEPT ![m] = FALSE]
        /\ UNCHANGED <<chain, accepted, stored, connected, notices, subscribed, handler, last,
                       eventChan, drops, missed>>
        /\ failed' = failed \cup {e \in Events \ accepted : ~ OnItsWay(e)}
    BY <1>5 DEF CallMethodWithoutFetch, world
  <2>2. /\ t = SendOnly(Head(inbox[m]))
        /\ \A e \in Events \ accepted : OnItsWay(e) \/ e \in Settled'
    BY <2>1 DEF Settled
  <2>3. missed \subseteq missed' /\ failed \subseteq failed'
    BY <2>1
  <2> HIDE DEF t
  <2>. QED
    BY <1>1, <1>2, <2>1, <2>2, <2>3, MessageTaken
<1>. QED
  BY <1>4, <1>5

-----------------------------------------------------------------------------
(* A new level.                                                             *)

LEMMA SeqOfMore ==
  ASSUME NEW S, NEW T, S \subseteq T
  PROVE  Seq(S) \subseteq Seq(T)
OBVIOUS

LEMMA Baked ==
  ASSUME EmitterAssumption, NEW c \in Seq(Contents), NEW kinds \in Contents
  PROVE  LET d == Append(c, kinds)
         IN  /\ d \in Seq(Contents) /\ Len(d) = Len(c) + 1 /\ Len(d) \in DOMAIN d
             /\ d[Len(c) + 1] = kinds /\ Len(c) \in Nat
             /\ EventsOf(c) \subseteq EventsOf(d)
             /\ \A e \in EventsOf(d) \ EventsOf(c) : e.level = Len(c) + 1
<1> DEFINE d == Append(c, kinds)
<1>1. /\ d \in Seq(Contents) /\ Len(d) = Len(c) + 1 /\ Len(c) \in Nat
      /\ DOMAIN d = 1..(Len(c) + 1) /\ DOMAIN c = 1..Len(c)
      /\ \A n \in 1..Len(c) : n \in DOMAIN d /\ d[n] = c[n]
      /\ d[Len(c) + 1] = kinds
  OBVIOUS
<1> HIDE DEF d
<1>2. EventsOf(c) \subseteq EventsOf(d)
  BY <1>1 DEF EventsOf
<1>3. ASSUME NEW e \in EventsOf(d), e.level # Len(c) + 1
      PROVE  e \in EventsOf(c)
  <2>1. PICK n \in DOMAIN d : \E i \in DOMAIN d[n] : e = [level |-> n, index |-> i]
    BY DEF EventsOf
  <2>2. n \in 1..Len(c) /\ d[n] = c[n]
    BY <1>1, <1>3, <2>1
  <2>. QED
    BY <1>1, <2>1, <2>2 DEF EventsOf
<1>. QED
  BY <1>1, <1>2, <1>3 DEF d

LEMMA PageBaked ==
  ASSUME NEW E, NEW F, NEW p, NEW n, IsPage(p, n, E), E \subseteq F,
         \A e \in F \ E : e.level # n
  PROVE  IsPage(p, n, F)
<1>1. p \in Seq(F)
  BY SeqOfMore DEF IsPage
<1>. QED
  BY <1>1 DEF IsPage

LEMMA SendingBaked ==
  ASSUME NEW E, NEW F, NEW n \in Nat, NEW t \in TaskOf(E), NEW S, Sending(t, E, S, n), E \subseteq F,
         \A e \in E : e.level \in Nat /\ e.level <= n, \A e \in F \ E : e.level = n + 1
  PROVE  t \in TaskOf(F) /\ Sending(t, F, S, n + 1)
<1>1. Seq(E) \subseteq Seq(F)
  BY SeqOfMore
<1>2. t \in TaskOf(F) /\ t.queue \in Seq(E) /\ t.message \in Seq(E)
      /\ t.level \in Nat /\ t.upTo \in Nat
  BY <1>1 DEF TaskOf
<1>3. InOrder(F, t.queue, S)
  BY <1>2, InOrderBaked DEF Sending
<1>4. ASSUME t.at \in Kind
      PROVE  Passed(t, F) \subseteq Passed(t, E)
  <2>1. /\ t.level <= t.upTo + 1 /\ t.upTo <= n
        /\ t.at = "update" => t.level <= t.upTo
    BY <1>4 DEF Sending
  <2>2. t.level <= n + 1 /\ (t.at = "update" => t.level <= n)
    BY <1>2, <2>1
  <2>3. ASSUME NEW e \in F \ E, \/ e.level < t.level
                                \/ e.level = t.level /\ t.at = "update"
        PROVE  FALSE
    <3>1. e.level = n + 1
      BY <2>3
    <3>. QED
      BY <1>2, <2>2, <2>3, <3>1
  <2>. QED
    BY <2>3 DEF Passed
<1>5. ASSUME t.message # <<>>
      PROVE  IsPage(t.message, t.message[1].level, F)
  <2>1. t.message[1] \in E
    BY <1>2, <1>5
  <2>2. \A e \in F \ E : e.level # t.message[1].level
    BY <2>1
  <2>. QED
    BY <1>5, <2>2, PageBaked DEF Sending
<1>6. t.at \in Kind => t.upTo <= n + 1
  BY <1>2 DEF Sending
<1>. QED
  BY <1>2, <1>3, <1>4, <1>5, <1>6 DEF Sending

LEMMA MailAppend ==
  ASSUME NEW E, NEW box \in Seq(Seq(E)), NEW p \in Seq(E), NEW n, Mail(box, E), p # <<>>,
         IsPage(p, n, E), \A i \in DOMAIN box : box[i][1].level < n
  PROVE  Mail(Append(box, p), E)
<1> DEFINE r == Append(box, p)
<1>1. /\ Len(box) \in Nat /\ DOMAIN box = 1..Len(box) /\ DOMAIN r = 1..(Len(box) + 1)
      /\ \A i \in 1..Len(box) : r[i] = box[i]
      /\ r[Len(box) + 1] = p
  OBVIOUS
<1> HIDE DEF r
<1>2. \A i \in 1..(Len(box) + 1) : i \in 1..Len(box) \/ i = Len(box) + 1
  BY <1>1
<1>3. p[1].level = n
  BY DEF IsPage
<1>4. \A i \in DOMAIN r : r[i] # <<>> /\ IsPage(r[i], r[i][1].level, E)
  BY <1>1, <1>2, <1>3 DEF Mail
<1>5. ASSUME NEW i \in DOMAIN r, NEW j \in DOMAIN r, i < j
      PROVE  r[i][1].level < r[j][1].level
  <2>1. i \in 1..Len(box)
    BY <1>1, <1>5
  <2>2. CASE j \in 1..Len(box)
    BY <1>1, <1>5, <2>1, <2>2 DEF Mail
  <2>3. CASE j = Len(box) + 1
    BY <1>1, <1>3, <2>1, <2>3
  <2>. QED
    BY <1>1, <1>2, <2>2, <2>3
<1>. QED
  BY <1>4, <1>5 DEF r, Mail

LEMMA BakeLevelInv ==
  ASSUME TezosInv, OneKind, EmitterAssumption, NEW kinds \in Contents, BakeLevel(kinds)
  PROVE  TezosInv'
<1> DEFINE n == Len(chain)
           page(m) == Page(n + 1, kinds, KindFor(m))
           p == page(Live)
<1>1. /\ chain' = Append(chain, kinds)
      /\ inbox' = [m \in Method |-> IF m \in subscribed /\ page(m) # <<>>
                                      THEN Append(inbox[m], page(m)) ELSE inbox[m]]
      /\ UNCHANGED <<accepted, stored, connected, notices, subscribed, task, first, handler, last,
                     eventChan, drops, missed, failed>>
  BY DEF BakeLevel, history, bounds
<1>2. chain \in Seq(Contents) /\ Live \in Method /\ KindFor(Live) \in Kind
  BY LiveMethod DEF TezosInv, TezosTypes, KindFor, Kind
<1>3. /\ chain' \in Seq(Contents) /\ Len(chain') = n + 1 /\ n + 1 \in DOMAIN chain'
      /\ chain'[n + 1] = kinds /\ n \in Nat
      /\ EventsOf(chain) \subseteq EventsOf(chain')
      /\ \A e \in EventsOf(chain') \ EventsOf(chain) : e.level = n + 1
  BY <1>1, <1>2, Baked
<1>4. Events' = EventsOf(chain') /\ Events = EventsOf(chain)
  BY DEF Events, EventsOf
<1>5. IsPage(p, n + 1, Events') /\ p \in Seq(Events')
  <2>1. p = Page(n + 1, chain'[n + 1], KindFor(Live))
    BY <1>3
  <2> DEFINE c == chain'
             k == n + 1
  <2>2. c \in Seq(Contents) /\ k \in DOMAIN c
    BY <1>3
  <2> HIDE DEF c, k
  <2>3. IsPage(Page(k, c[k], KindFor(Live)), k, EventsOf(c))
    BY <1>2, <2>2, PageIsLevel
  <2>. QED
    BY <1>4, <2>1, <2>3 DEF c, k, IsPage
<1>6. \A m \in Method \ {Live} : page(m) = <<>>
  <2>1. \A m \in Method \ {Live} : KindFor(m) \in Kind /\ KindFor(m) # KindFor(Live)
    BY <1>2 DEF Method, Kind, KindFor
  <2>. QED
    BY <1>3, <2>1, PageIsLevel
<1> HIDE DEF page
<1>7. \A e \in Events : e.level \in Nat /\ e.level >= 1 /\ e.level <= n
  BY EventLevels DEF TezosInv
<1>8. Events \subseteq Events' /\ \A e \in Events' \ Events : e.level = n + 1 /\ e \in ToSet(p)
  <2>1. \A e \in Events' : e.level = n + 1 => e \in ToSet(p)
    BY <1>5 DEF IsPage, ToSet
  <2>. QED
    BY <1>3, <1>4, <2>1
<1> HIDE DEF p, n
<1>9. /\ \A m \in Method \ {Live} : inbox'[m] = inbox[m]
      /\ inbox'[Live] = IF Live \in subscribed /\ p # <<>> THEN Append(inbox[Live], p)
                        ELSE inbox[Live]
  BY <1>1, <1>2, <1>6 DEF p
<1>10. inbox \in [Method -> Seq(Seq(Events))]
       /\ inbox' \in [Method -> Seq(Seq(Events'))]
       /\ inbox[Live] \in Seq(Seq(Events')) /\ inbox[Live] \in Seq(Seq(Events))
  <2> DEFINE E == Seq(Events)
             F == Seq(Events')
  <2>1. E \subseteq F
    BY <1>8, SeqOfMore
  <2>2. inbox \in [Method -> Seq(E)]
    BY DEF TezosInv, TezosTypes
  <2>3. p \in F
    BY <1>5
  <2> HIDE DEF E, F
  <2>4. Seq(E) \subseteq Seq(F)
    BY <2>1, SeqOfMore
  <2>5. \A m \in Method : inbox[m] \in Seq(F)
    BY <2>2, <2>4
  <2>6. \A m \in Method : inbox'[m] \in Seq(F)
    <3>1. Append(inbox[Live], p) \in Seq(F)
      BY <1>2, <2>3, <2>5
    <3>. QED
      BY <1>2, <1>9, <2>5, <3>1
  <2>7. inbox' = [m \in Method |-> inbox'[m]]
    BY <1>1
  <2>8. inbox' \in [Method -> Seq(F)]
    BY <2>6, <2>7
  <2>. QED
    BY <1>2, <2>2, <2>5, <2>8 DEF E, F
<1>11. Pushed' = Pushed /\ Settled' = Settled /\ Sent' = Sent
  <2>1. handler.at = "push" => handler.event \in Events
    BY DEF TezosInv, TezosTypes, Free
  <2>2. Pushed' = Pushed
    BY <1>1, <1>8, <2>1 DEF Pushed
  <2>. QED
    BY <1>1, <2>2 DEF Settled, Sent
<1>12. TezosTypes'
  <2>1. task \in [Sender -> TaskOf(Events')]
    <3>1. TaskOf(Events) \subseteq TaskOf(Events')
      BY <1>8, SeqOfMore DEF TaskOf
    <3>. QED
      BY <3>1 DEF TezosInv, TezosTypes
  <2>2. eventChan \in Seq(Events')
    BY <1>8, SeqOfMore DEF TezosInv, TezosTypes
  <2>3. \/ handler = Free
        \/ handler \in [at : {"push", "move", "put"}, event : Events']
    BY <1>8 DEF TezosInv, TezosTypes
  <2>4. stored \in 1..((n + 1) + 1) /\ last \in 0..(n + 1)
    BY <1>3 DEF TezosInv, TezosTypes, n
  <2>5. accepted \subseteq Events'
    BY <1>8 DEF TezosInv, TezosTypes
  <2>. QED
    BY <1>1, <1>3, <1>10, <2>1, <2>2, <2>3, <2>4, <2>5 DEF TezosInv, TezosTypes
<1>13. Handled'
  <2>1. ASSUME NEW e \in Events', e.level < stored \/ e.level < last
        PROVE  e \in Settled
    <3>1. stored \in Nat /\ stored <= n + 1 /\ last \in Nat /\ last <= n
      BY <1>3 DEF TezosInv, TezosTypes, n
    <3>2. e \in Events
      BY <1>3, <1>8, <2>1, <3>1
    <3>. QED
      BY <2>1, <3>2 DEF TezosInv, Handled
  <2>2. ASSUME NEW e \in Events, NEW d \in Events', Before(d, e)
        PROVE  d \in Events
    BY <1>3, <1>7, <1>8, <2>2 DEF Before
  <2>3. \A e \in accepted, d \in Events' : Before(d, e) => d \in Settled
    BY <2>2 DEF TezosInv, TezosTypes, Handled
  <2>4. handler.at # "idle" => \A d \in Events' : Before(d, handler.event) => d \in Settled
    <3>1. handler.at # "idle" => handler.event \in Events
      BY DEF TezosInv, TezosTypes, Free
    <3>. QED
      BY <2>2, <3>1 DEF TezosInv, Handled
  <2>5. InOrder(Events', eventChan, Settled \cup Pushed)
    <3>1. eventChan \in Seq(Events) /\ InOrder(Events, eventChan, Settled \cup Pushed)
      BY DEF TezosInv, TezosTypes, Handled
    <3>2. (\A e \in Events : e.level \in Nat /\ e.level <= n) /\ \A e \in Events' \ Events : e.level = n + 1
      BY <1>7, <1>8
    <3>. QED
      BY <1>3, <3>1, <3>2, InOrderBaked
  <2>. QED
    BY <1>1, <1>11, <2>1, <2>3, <2>4, <2>5 DEF TezosInv, Handled
<1>14. Senders'
  <2>1. ASSUME NEW s \in Sender
        PROVE  Sending(task[s], Events', Sent, n + 1)
    <3>1. task[s] \in TaskOf(Events) /\ Sending(task[s], Events, Sent, n)
      BY TaskFields DEF n
    <3>. QED
      BY <1>3, <1>7, <1>8, <3>1, SendingBaked
  <2>. QED
    BY <1>1, <1>3, <1>11, <2>1 DEF Senders
<1>15. Covered'
  <2>1. SUFFICES ASSUME Live \in subscribed, ~ first[Live], NEW e \in Events', e \notin Sent
                 PROVE  e \in Waiting(task[Live], inbox'[Live], Events')
    BY <1>1, <1>11 DEF Covered
  <2>2. CASE e \in Events
    <3>1. e \in Waiting(task[Live], inbox[Live], Events)
      BY <2>1, <2>2 DEF TezosInv, Covered
    <3>2. \A i \in DOMAIN inbox[Live] : i \in DOMAIN inbox'[Live] /\ inbox'[Live][i] = inbox[Live][i]
      BY <1>5, <1>9, <1>10
    <3>. QED
      BY <1>8, <3>1, <3>2 DEF Waiting
  <2>3. CASE e \notin Events
    <3>1. e \in ToSet(p) /\ p # <<>>
      BY <1>8, <2>3, EmptyOrder
    <3>2. inbox'[Live] = Append(inbox[Live], p)
      BY <1>9, <2>1, <3>1
    <3>3. Len(inbox[Live]) + 1 \in DOMAIN inbox'[Live] /\ inbox'[Live][Len(inbox[Live]) + 1] = p
      BY <1>5, <1>10, <3>2
    <3>. QED
      BY <3>1, <3>3 DEF Waiting
  <2>. QED
    BY <2>2, <2>3
<1>16. Phase'
  <2>1. subscribed = {} => \A m \in Method : inbox'[m] = inbox[m]
    BY <1>9
  <2>2. Live \notin subscribed => inbox'[Live] = inbox[Live]
    BY <1>9
  <2>3. Rested => Rested'
    BY <1>1, <2>1 DEF Rested
  <2>4. Fresh => Fresh'
    BY <1>1, <2>3 DEF Fresh
  <2>. QED
    BY <1>1, <1>2, <1>9, <2>2, <2>3, <2>4 DEF TezosInv, Phase
<1>17. Mail(inbox'[Live], Events')
  <2>1. ASSUME NEW i \in DOMAIN inbox[Live]
        PROVE  inbox[Live][i][1].level < n + 1 /\ inbox[Live][i] # <<>>
               /\ IsPage(inbox[Live][i], inbox[Live][i][1].level, Events')
    <3>1. /\ inbox[Live][i] # <<>> /\ inbox[Live][i] \in Seq(Events)
          /\ IsPage(inbox[Live][i], inbox[Live][i][1].level, Events)
      BY <1>10 DEF TezosInv, Mail
    <3>2. inbox[Live][i][1] \in Events
      BY <3>1
    <3> DEFINE k == inbox[Live][i][1].level
    <3>3. k \in Nat /\ k <= n
      BY <1>7, <3>2
    <3> HIDE DEF k
    <3>4. k < n + 1 /\ \A e \in Events' \ Events : e.level # k
      BY <1>3, <1>8, <3>3
    <3>5. IsPage(inbox[Live][i], k, Events)
      BY <3>1 DEF k
    <3>6. IsPage(inbox[Live][i], k, Events')
      BY <1>8, <3>4, <3>5, PageBaked
    <3>. QED
      BY <3>1, <3>4, <3>6 DEF k
  <2>2. Mail(inbox[Live], Events')
    BY <2>1 DEF TezosInv, Mail
  <2>3. CASE Live \in subscribed /\ p # <<>>
    BY <1>5, <1>9, <1>10, <2>1, <2>2, <2>3, MailAppend
  <2>. QED
    BY <1>9, <2>2, <2>3
<1>. QED
  BY <1>12, <1>13, <1>14, <1>15, <1>16, <1>17 DEF TezosInv

-----------------------------------------------------------------------------
(* The theorems.                                                            *)

LEMMA TezosInit ==
  ASSUME OneKind, EmitterAssumption, Init
  PROVE  TezosInv
<1>1. /\ chain = <<>> /\ accepted = {} /\ stored = 1 /\ connected = FALSE /\ notices = 0
      /\ subscribed = {} /\ inbox = [m \in Method |-> <<>>] /\ task = [s \in Sender |-> Idle]
      /\ first = [m \in Method |-> TRUE] /\ eventChan = <<>> /\ handler = Free /\ last = 0
      /\ missed = {} /\ failed = {} /\ drops = 0
  BY DEF Init
<1>2. Events = {}
  BY <1>1 DEF Events
<1>3. Idle \in TaskOf(Events) /\ Idle.queue = <<>> /\ Idle.message = <<>> /\ Idle.at = "idle"
  BY DEF TaskOf, Idle
<1>4. Live \in Method /\ Live \in Sender
  BY LiveMethod DEF Sender
<1>5. TezosTypes
  <2>1. chain \in Seq(Contents) /\ Len(chain) = 0
    BY <1>1
  <2>2. inbox \in [Method -> Seq(Seq(Events))]
    BY <1>1
  <2>. QED
    BY <1>1, <1>3, <2>1, <2>2 DEF TezosTypes
<1>6. Handled
  BY <1>1, <1>2, EmptyOrder DEF Handled, Free
<1>7. Senders
  BY <1>1, <1>3, EmptyOrder DEF Senders, Sending, Kind
<1>8. Phase
  BY <1>1, <1>3, <1>4 DEF Phase, Fresh, Rested, Kind, Sender
<1>9. Covered /\ Mail(inbox[Live], Events)
  BY <1>1, <1>4 DEF Covered, Mail
<1>. QED
  BY <1>5, <1>6, <1>7, <1>8, <1>9 DEF TezosInv

LEMMA TezosNext ==
  ASSUME TezosInv, OneKind, EmitterAssumption, Next, drops' = 0
  PROVE  TezosInv'
<1>1. CASE \E kinds \in Contents : BakeLevel(kinds)
  BY <1>1, BakeLevelInv
<1>2. CASE Connect
  BY <1>2, ConnectInv
<1>3. CASE Disconnect
  BY <1>3 DEF Disconnect, TezosInv, TezosTypes
<1>4. CASE Crash
  BY <1>4, CrashInv
<1>5. CASE ObserverStep
  BY <1>5, ConnectedInv, SubscribeTransfersInv, SubscribeBigmapsInv, CrashInv DEF ObserverStep
<1>6. CASE HandlerStep
  BY <1>6, ReceiveInv, PushEventInv, MoveLevelInv, PutLevelInv DEF HandlerStep
<1>7. CASE Failure
  BY <1>7, ConnectedInv, FailPushInv, PutLevelInv, FailPageInv, CallMethodInv DEF Failure
<1>8. CASE \E s \in Sender : SenderStep(s)
  BY <1>8, FetchPageInv, EndFetchInv, SendEventInv DEF SenderStep
<1>9. CASE \E m \in Method : MethodStep(m)
  BY <1>9, CallMethodInv, EndMethodInv DEF MethodStep
<1>. QED
  BY <1>1, <1>2, <1>3, <1>4, <1>5, <1>6, <1>7, <1>8, <1>9 DEF Next

(* Lost connections are counted. *)
LEMMA DropsCount ==
  ASSUME Next
  PROVE  drops' = drops \/ drops' = drops + 1
<1>1. CASE \E kinds \in Contents : BakeLevel(kinds)
  BY <1>1 DEF BakeLevel, bounds
<1>2. CASE Connect \/ Disconnect \/ Crash
  BY <1>2 DEF Connect, Disconnect, Crash, bounds
<1>3. CASE ObserverStep
  BY <1>3 DEF ObserverStep, Connected, SubscribeTransfers, SubscribeBigmaps, SubscribePanics,
              bounds
<1>4. CASE HandlerStep
  BY <1>4 DEF HandlerStep, Receive, PushEvent, MoveLevel, PutLevel, bounds
<1>5. CASE Failure
  <2>1. CASE ConnectedWithoutFetch \/ FailPush \/ FailPut
    BY <2>1 DEF ConnectedWithoutFetch, FailPush, FailPut
  <2>2. CASE \E s \in Sender : FailPage(s)
    BY <2>2 DEF FailPage
  <2>3. CASE \E m \in Method : CallMethodWithoutFetch(m)
    BY <2>3 DEF CallMethodWithoutFetch
  <2>. QED
    BY <1>5, <2>1, <2>2, <2>3 DEF Failure
<1>6. ASSUME NEW s \in Sender, SenderStep(s)
      PROVE  drops' = drops
  BY <1>6 DEF SenderStep, FetchPage, EndFetch, SendEvent, bounds
<1>7. ASSUME NEW m \in Method, MethodStep(m)
      PROVE  drops' = drops
  BY <1>7 DEF MethodStep, CallMethod, EndMethod, bounds
<1>. QED
  BY <1>1, <1>2, <1>3, <1>4, <1>5, <1>6, <1>7 DEF Next

(* The invariant: as long as no connection was lost, everything before the  *)
(* event that is pushed, sent or asked for is settled or goes before it.    *)
THEOREM TezosCorrect ==
  ASSUME OneKind
  PROVE  Spec => [](drops \in Nat /\ TezosIInv)
<1>1. Init => drops \in Nat /\ TezosIInv
  <2>1. SUFFICES ASSUME Init PROVE drops \in Nat /\ TezosIInv
    OBVIOUS
  <2>2. drops = 0
    BY <2>1 DEF Init
  <2>3. TezosInv
    BY <2>1, TezosInit, EmitterAssumption
  <2>. QED
    BY <2>2, <2>3 DEF TezosIInv
<1>2. (drops \in Nat /\ TezosIInv) /\ [Next]_vars => (drops \in Nat /\ TezosIInv)'
  <2>1. SUFFICES ASSUME drops \in Nat, TezosIInv, [Next]_vars
                 PROVE  drops' \in Nat /\ TezosIInv'
    OBVIOUS
  <2>2. CASE Next
    <3>1. drops' \in Nat /\ (drops' = 0 => drops = 0)
      BY <2>1, <2>2, DropsCount
    <3>. QED
      BY <2>1, <2>2, <3>1, TezosNext, EmitterAssumption DEF TezosIInv
  <2>3. CASE UNCHANGED vars
    <3>1. /\ UNCHANGED <<chain, accepted, stored, connected, notices, subscribed, inbox, task,
                         first, eventChan, handler, last, missed, failed, drops>>
      BY <2>3 DEF vars
    <3>2. Events' = Events /\ Pushed' = Pushed /\ Settled' = Settled /\ Sent' = Sent
      BY <3>1 DEF Events, Pushed, Settled, Sent
    <3>. QED
      BY <2>1, <3>1, <3>2 DEF TezosIInv, TezosInv, TezosTypes, Phase, Fresh, Rested, Handled,
                              Senders, Covered
  <2>. QED
    BY <2>1, <2>2, <2>3
<1>. QED
  BY <1>1, <1>2, PTL DEF Spec

(* While the connection is never lost, every event below the stored level,  *)
(* from where the next life fetches (service.go:216-229), was accepted or   *)
(* was lost for a reason, if the chain holds events of one kind.            *)
THEOREM NothingIsLostSilently ==
  ASSUME OneKind
  PROVE  Spec => []NoSilentLoss
<1>1. TezosIInv => NoSilentLoss
  BY DEF TezosIInv, TezosInv, Handled, NoSilentLoss, Settled
<1>. QED
  BY <1>1, TezosCorrect, PTL

(* Nor do events overtake each other then, whichever sender brought them.   *)
THEOREM NothingOvertakes ==
  ASSUME OneKind
  PROVE  Spec => []AcceptedInOrder
<1>1. TezosIInv => AcceptedInOrder
  BY DEF TezosIInv, TezosInv, Handled, AcceptedInOrder, Settled
<1>. QED
  BY <1>1, TezosCorrect, PTL
================================================================================
