--------------------------- MODULE ImageIndexerProofs ---------------------------
(***************************************************************************)
(* Proofs about ImageIndexer, for any number of documents, workers, faults *)
(* and new URLs: a thumbnail that was written to a document is kept, and   *)
(* images without a row stay within what faults account for.               *)
(***************************************************************************)
EXTENDS ImageIndexer, FiniteSetTheorems, WellFoundedInduction, TLAPS

Steps == InTransaction \cup {"taken", "refused", "clean", "write"}
Working == [at : Steps, job : Job, image : Nat]
Waiting == [at : {"look", "done"}]
Sending == [at : {"send"}, job : Job]

(* Where a job for document d is.                                          *)
InChannel(i, d) == i \in DOMAIN channel /\ channel[i].doc = d
Sends(k, d) == watcher[k].at = "send" /\ watcher[k].job.doc = d
Works(w, d) == worker[w].at # "idle" /\ worker[w].job.doc = d

HasJob(d) ==
  \/ \E i \in DOMAIN channel : InChannel(i, d)
  \/ \E k \in Watcher : Sends(k, d)
  \/ \E w \in Worker : Works(w, d)

Types ==
  /\ doc \in [Doc -> [version : 0..MaxVersion, thumb : Nat,
                      failed : BOOLEAN, recent : BOOLEAN]]
  /\ meta \in [Doc -> Nat]
  /\ cloud \subseteq Nat \ {NoImage} /\ cleaned \subseteq Nat \ {NoImage}
  /\ IsFiniteSet(cloud) /\ IsFiniteSet(cleaned)
  /\ channel \in Seq(Job) /\ Len(channel) <= Capacity
  /\ closed \in BOOLEAN
  /\ watcher \in [Watcher -> Waiting \cup Sending]
  /\ worker \in [Worker -> {NoJob} \cup Working]
  /\ \A w \in Worker : worker[w].at \in {"uploaded", "clean"} => worker[w].image # NoImage
  /\ phase \in {"running", "stopping", "down"}
  /\ faults \in 0..MaxFaults /\ late \subseteq Doc

(* A document that was never late has one job at most, was checked within  *)
(* the interval, and has no thumbnail while it has one.                    *)
OneJob(d) ==
  /\ \A i, j \in DOMAIN channel : InChannel(i, d) /\ InChannel(j, d) => i = j
  /\ \A k, l \in Watcher : Sends(k, d) /\ Sends(l, d) => k = l
  /\ \A v, w \in Worker : Works(v, d) /\ Works(w, d) => v = w
  /\ \A i \in DOMAIN channel, k \in Watcher : ~ (InChannel(i, d) /\ Sends(k, d))
  /\ \A i \in DOMAIN channel, w \in Worker : ~ (InChannel(i, d) /\ Works(w, d))
  /\ \A k \in Watcher, w \in Worker : ~ (Sends(k, d) /\ Works(w, d))

Claimed(d) == HasJob(d) => doc[d].recent /\ doc[d].thumb = NoImage

(* Rows and workers never share an image, but a worker the one of its row. *)
Apart ==
  /\ \A d, e \in Doc : meta[d] = meta[e] /\ meta[d] # NoImage => d = e
  /\ \A v, w \in Worker :
       worker[v].image = worker[w].image /\ worker[v].image # NoImage => v = w
  /\ \A w \in Worker, d \in Doc :
       worker[w].image = meta[d] /\ meta[d] # NoImage => worker[w].job.doc = d

(* One transaction per row; what it has done so far.                       *)
Transactions ==
  /\ \A v, w \in Worker :
       worker[v].at \in InTransaction /\ worker[w].at \in InTransaction
         /\ worker[v].job.doc = worker[w].job.doc => v = w
  /\ \A w \in Worker :
       /\ worker[w].at \in {"taken", "locked", "cleared", "refused"} =>
            worker[w].image = NoImage
       /\ worker[w].at \in {"cleared", "uploaded"} => meta[worker[w].job.doc] \notin cloud
       /\ worker[w].at = "uploaded" => worker[w].image \in cloud

(* What a worker is about to write.                                        *)
Kept(d, i) == i \in {NoImage} \cup cleaned \/ (i \in cloud /\ i = meta[d])

Written ==
  \A w \in Worker :
    worker[w].at = "write" /\ worker[w].job.doc \notin late =>
      Kept(worker[w].job.doc, worker[w].image)

Images == Apart /\ Transactions /\ Written /\ ThumbnailIsKept

IInv ==
  /\ Types
  /\ \A d \in Doc \ late : OneJob(d) /\ Claimed(d)
  /\ Images

(* The workers that may leave an image behind once the context is          *)
(* cancelled.                                                              *)
Holders == {w \in Worker : worker[w].at \in InTransaction \cup {"clean"}}

OrphanInv ==
  /\ closed => phase = "stopping"
  /\ IF phase = "stopping"
       THEN Cardinality(Orphans) + Cardinality(Holders) <= faults * Cardinality(Worker)
       ELSE Cardinality(Orphans) <= faults * Cardinality(Worker)

-------------------------------------------------------------------------------
(* Images have new ids.                                                    *)
LEMMA LeastOf ==
  ASSUME NEW T, T \subseteq Nat, T # {}
  PROVE  \E t \in T : \A other \in T : other >= t
<1> DEFINE R == OpToRel(<, Nat)
<1>1. \E t \in T : \A other \in T : ~ (<<other, t>> \in R)
  BY NatLessThanWellFounded, WFMin
<1>2. ASSUME NEW t \in T, NEW other \in T, ~ (<<other, t>> \in R) PROVE other >= t
  BY <1>2 DEF OpToRel
<1>. QED
  BY <1>1, <1>2

LEMMA FreeIdExists ==
  ASSUME NEW S, IsFiniteSet(S)
  PROVE  \E i \in 1..(Cardinality(S) + 1) : i \notin S /\ 1..(i - 1) \subseteq S
<1> DEFINE n == Cardinality(S) + 1
           T == {i \in 1..n : i \notin S}
<1>1. Cardinality(S) \in Nat /\ n \in Nat
  BY FS_CardinalityType
<1>2. T # {}
  <2> SUFFICES ASSUME T = {} PROVE FALSE
    OBVIOUS
  <2>1. 1..n \in SUBSET S
    OBVIOUS
  <2>2. Cardinality(1..n) <= Cardinality(S)
    BY <2>1, FS_Subset
  <2>3. Cardinality(1..n) = n
    BY <1>1, FS_Interval
  <2>. QED
    BY <1>1, <2>2, <2>3
<1>3. T \subseteq Nat
  BY <1>1
<1> HIDE DEF T
<1>4. PICK i \in T : \A j \in T : j >= i
  BY <1>2, <1>3, LeastOf
<1>5. i \in 1..n /\ i \notin S
  BY <1>4 DEF T
<1>6. ASSUME NEW j \in 1..(i - 1) PROVE j \in S
  <2>1. j \in 1..n /\ ~ (j >= i)
    BY <1>1, <1>5
  <2>. QED
    BY <1>4, <2>1 DEF T
<1>. QED
  BY <1>5, <1>6

LEMMA RangeIsFinite ==
  ASSUME NEW S, IsFiniteSet(S), NEW f, f = [x \in S |-> f[x]]
  PROVE  /\ IsFiniteSet({f[x] : x \in S})
         /\ Cardinality({f[x] : x \in S}) <= Cardinality(S)
<1>1. f \in Surjection(S, {f[x] : x \in S})
  BY DEF Surjection
<1>. QED
  BY <1>1, FS_Surjection

LEMMA NewIdIsFree ==
  ASSUME Types
  PROVE  NewImage \in Nat \ {NoImage} /\ NewImage \notin Referred
<1>1. IsFiniteSet({meta[d] : d \in Doc})
  <2>1. meta = [d \in Doc |-> meta[d]]
    BY DEF Types
  <2>. QED
    BY <2>1, ImageAssumption, RangeIsFinite
<1>2. IsFiniteSet({doc[d].thumb : d \in Doc})
  <2>1. PICK f : f = [d \in Doc |-> doc[d].thumb]
    OBVIOUS
  <2>2. f = [d \in Doc |-> f[d]] /\ {f[d] : d \in Doc} = {doc[d].thumb : d \in Doc}
    BY <2>1
  <2>3. IsFiniteSet({f[d] : d \in Doc})
    BY <2>2, ImageAssumption, RangeIsFinite
  <2>. QED
    BY <2>2, <2>3
<1>3. IsFiniteSet({worker[w].image : w \in Worker})
  <2>1. PICK f : f = [w \in Worker |-> worker[w].image]
    OBVIOUS
  <2>2. f = [w \in Worker |-> f[w]] /\ {f[w] : w \in Worker} = {worker[w].image : w \in Worker}
    BY <2>1
  <2>3. IsFiniteSet({f[w] : w \in Worker})
    BY <2>2, ImageAssumption, RangeIsFinite
  <2>. QED
    BY <2>2, <2>3
<1>4. IsFiniteSet(Referred)
  BY <1>1, <1>2, <1>3, FS_Union DEF Referred, Types
<1>5. \E i \in 1..(Cardinality(Referred) + 1) : i \notin Referred /\ 1..(i - 1) \subseteq Referred
  BY <1>4, FreeIdExists
<1>6. NewImage \in 1..(Cardinality(Referred) + 1) /\ NewImage \notin Referred
  BY <1>5 DEF NewImage
<1>7. Cardinality(Referred) \in Nat
  BY <1>4, FS_CardinalityType
<1>. QED
  BY <1>6, <1>7 DEF NoImage

-------------------------------------------------------------------------------
(* What a worker has, and what its steps make of it.                       *)
LEMMA WorkerFacts ==
  ASSUME Types, NEW w \in Worker
  PROVE  /\ worker[w].at # "idle" <=> worker[w] \in Working
         /\ worker[w].at = "idle" <=> worker[w] = NoJob
         /\ worker[w].image \in Nat
         /\ worker[w] \in Working =>
              /\ worker[w].at \in Steps /\ worker[w].job \in Job
              /\ worker[w].job.doc \in Doc /\ worker[w].job.version \in 0..MaxVersion
<1>1. worker[w] \in {NoJob} \cup Working
  BY DEF Types
<1>2. NoJob.at = "idle" /\ NoJob.image \in Nat
  BY DEF NoJob, NoImage
<1>3. \A x \in Working : /\ x.at \in Steps /\ x.at # "idle" /\ x.image \in Nat
                         /\ x.job \in Job /\ x.job.doc \in Doc
                         /\ x.job.version \in 0..MaxVersion
  BY DEF Working, Steps, InTransaction, Job
<1>. QED
  BY <1>1, <1>2, <1>3

Moved(w, x) == worker' = [worker EXCEPT ![w] = x]

LEMMA GotoMoves ==
  ASSUME Types, NEW w \in Worker, worker[w].at # "idle", NEW at \in Steps, Goto(w, at)
  PROVE  \E x \in Working : /\ Moved(w, x) /\ x.at = at
                            /\ x.job = worker[w].job /\ x.image = worker[w].image
<1>1. worker[w] \in Working /\ worker \in [Worker -> {NoJob} \cup Working]
  BY WorkerFacts DEF Types
<1>2. PICK x : x = [at |-> at, job |-> worker[w].job, image |-> worker[w].image]
  OBVIOUS
<1>3. x \in Working /\ x.at = at /\ x.job = worker[w].job /\ x.image = worker[w].image
  BY <1>1, <1>2 DEF Working
<1>4. Moved(w, x)
  BY <1>1, <1>2 DEF Goto, Moved
<1>. QED
  BY <1>3, <1>4

(* All steps but the first: the worker goes on with its job or drops it.   *)
LEMMA StepMoves ==
  ASSUME Types, NEW w \in Worker, WorkerStep(w), ~ Take(w)
  PROVE  /\ worker[w] \in Working /\ UNCHANGED <<channel, closed, watcher, phase, late>>
         /\ \E x \in {NoJob} \cup Working :
              Moved(w, x) /\ (x # NoJob => x.job = worker[w].job)
<1>1. worker[w].at # "idle" /\ UNCHANGED <<channel, closed, watcher, phase, late>>
  BY DEF WorkerStep, Lock, RemoveOld, Refuse, Upload, Commit, Clean, WriteBack, MarkFailed,
     mongo, images, process, InTransaction
<1>2. worker[w] \in Working
  BY <1>1, WorkerFacts
<1>3. CASE Drop(w)
  BY <1>1, <1>2, <1>3 DEF Drop, Moved
<1>4. CASE \E at \in Steps : Goto(w, at)
  BY <1>1, <1>2, <1>4, GotoMoves
<1>5. CASE \E i \in Nat : worker' = [worker EXCEPT ![w] =
             [at |-> "uploaded", job |-> @.job, image |-> i]]
  <2>1. PICK i \in Nat : worker' = [worker EXCEPT ![w] =
             [at |-> "uploaded", job |-> @.job, image |-> i]]
    BY <1>5
  <2>2. PICK x : x = [at |-> "uploaded", job |-> worker[w].job, image |-> i]
    OBVIOUS
  <2>3. x \in Working /\ x.job = worker[w].job
    BY <1>2, <2>2 DEF Working, Steps, InTransaction
  <2>4. Moved(w, x)
    BY <2>1, <2>2 DEF Moved, Types
  <2>. QED
    BY <1>1, <1>2, <2>3, <2>4
<1>6. \/ Drop(w)
      \/ \E at \in Steps : Goto(w, at)
      \/ \E i \in Nat : worker' = [worker EXCEPT ![w] =
             [at |-> "uploaded", job |-> @.job, image |-> i]]
  <2>1. {"locked", "cleared", "refused", "write", "clean"} \subseteq Steps
    BY DEF Steps, InTransaction
  <2>2. NewImage \in Nat
    BY NewIdIsFree
  <2>3. Lock(w) \/ RemoveOld(w) \/ Refuse(w) \/ Upload(w)
        \/ Commit(w) \/ Clean(w) \/ WriteBack(w) \/ MarkFailed(w)
    BY DEF WorkerStep
  <2>4. Upload(w) => Drop(w) \/ worker' = [worker EXCEPT ![w] =
             [at |-> "uploaded", job |-> @.job, image |-> NewImage]]
    BY DEF Upload
  <2>. QED
    BY <2>1, <2>2, <2>3, <2>4 DEF Lock, RemoveOld, Refuse, Commit, Clean, WriteBack, MarkFailed
<1>. QED
  BY <1>3, <1>4, <1>5, <1>6

-------------------------------------------------------------------------------
(* The types.                                                              *)
LEMMA InitTypes == Init => Types
<1> SUFFICES ASSUME Init PROVE Types
  OBVIOUS
<1>1. IsFiniteSet({})
  BY FS_EmptySet
<1>2. 0 \in 0..MaxVersion /\ 0 \in 0..MaxFaults /\ Capacity \in Nat
  BY ImageAssumption
<1>3. << >> \in Seq(Job) /\ Len(<< >>) = 0
  OBVIOUS
<1>4. /\ watcher \in [Watcher -> Waiting \cup Sending]
      /\ worker \in [Worker -> {NoJob} \cup Working]
      /\ \A w \in Worker : worker[w].at = "idle"
  BY DEF Init, Waiting, NoJob
<1>5. NoImage \in Nat /\ {TRUE, FALSE} \subseteq BOOLEAN
  BY DEF NoImage
<1>6. /\ meta \in [Doc -> Nat]
      /\ doc \in [Doc -> [version : 0..MaxVersion, thumb : Nat,
                          failed : BOOLEAN, recent : BOOLEAN]]
  BY <1>2, <1>5 DEF Init
<1>7. cloud = {} /\ cleaned = {} /\ late = {} /\ channel = << >> /\ faults = 0
      /\ phase = "running" /\ closed = FALSE
  BY DEF Init
<1>8. IsFiniteSet(cloud) /\ IsFiniteSet(cleaned) /\ channel \in Seq(Job) /\ Len(channel) <= Capacity
  BY <1>1, <1>2, <1>3, <1>7
<1>. QED
  BY <1>2, <1>4, <1>6, <1>7, <1>8 DEF Types

LEMMA FaultTypes ==
  ASSUME Types, Fault
  PROVE  faults' \in 0..MaxFaults /\ faults' = faults + 1
  BY ImageAssumption DEF Types, Fault

(* A job is taken from the channel; a failure leaves it to nobody.         *)
LEMMA TakeFacts ==
  ASSUME Types, NEW w \in Worker, Take(w)
  PROVE  /\ channel # << >> /\ Head(channel) \in Job /\ channel' = Tail(channel)
         /\ channel' \in Seq(Job) /\ Len(channel') = Len(channel) - 1 /\ Len(channel) >= 1
         /\ \A i \in DOMAIN channel' : i + 1 \in DOMAIN channel /\ channel'[i] = channel[i + 1]
         /\ Head(channel) = channel[1]
         /\ worker[w] = NoJob
         /\ \/ UNCHANGED worker
            \/ \E x \in Working : /\ Moved(w, x) /\ x.at = "taken" /\ x.image = NoImage
                                  /\ x.job = Head(channel)
         /\ UNCHANGED <<doc, meta, cloud, closed, watcher, phase, cleaned, late>>
         /\ faults' \in 0..MaxFaults
<1>1. channel \in Seq(Job) /\ channel # << >> /\ worker[w] = NoJob
  BY WorkerFacts DEF Types, Take, MayTake
<1>2. channel' = Tail(channel)
  BY DEF Take
<1>3. /\ Head(channel) \in Job /\ channel' \in Seq(Job)
      /\ Len(channel') = Len(channel) - 1 /\ Len(channel) >= 1
      /\ \A i \in DOMAIN channel' : i + 1 \in DOMAIN channel /\ channel'[i] = channel[i + 1]
      /\ Head(channel) = channel[1]
  BY <1>1, <1>2
<1>4. PICK x : x = [at |-> "taken", job |-> Head(channel), image |-> NoImage]
  OBVIOUS
<1>5. x \in Working /\ x.at = "taken" /\ x.image = NoImage /\ x.job = Head(channel)
  BY <1>3, <1>4 DEF Working, Steps, NoImage
<1>6. UNCHANGED worker \/ Moved(w, x)
  BY <1>1, <1>4 DEF Take, Moved, Types
<1>7. faults' \in 0..MaxFaults
  BY FaultTypes DEF Take, Succeeds, Fails, Types
<1>. QED
  BY <1>1, <1>2, <1>3, <1>5, <1>6, <1>7 DEF Take, mongo, images

LEMMA WorkerTypes ==
  ASSUME Types, NEW w \in Worker, WorkerStep(w)
  PROVE  Types'
<1>1. CASE Take(w)
  <2>1. /\ channel' \in Seq(Job) /\ Len(channel') <= Capacity
        /\ faults' \in 0..MaxFaults
        /\ UNCHANGED <<doc, meta, cloud, closed, watcher, phase, cleaned, late>>
    <3>1. Len(channel) <= Capacity /\ Len(channel) \in Nat /\ Capacity \in Nat
      BY ImageAssumption DEF Types
    <3>. QED
      BY <1>1, <3>1, TakeFacts
  <2>2. /\ worker' \in [Worker -> {NoJob} \cup Working]
        /\ \A v \in Worker : worker'[v].at \in {"uploaded", "clean"} => worker'[v].image # NoImage
    BY <1>1, TakeFacts DEF Types, Moved
  <2>. QED
    BY <2>1, <2>2 DEF Types
<1>2. CASE ~ Take(w)
  <2>1. /\ worker[w] \in Working /\ UNCHANGED <<channel, closed, watcher, phase, late>>
        /\ worker' \in [Worker -> {NoJob} \cup Working]
    BY <1>2, StepMoves DEF Types, Moved
  <2>2. /\ worker[w].job.doc \in Doc /\ worker[w].image \in Nat /\ worker[w].at \in Steps
        /\ worker[w].at \in {"uploaded", "clean"} => worker[w].image # NoImage
    BY <2>1, WorkerFacts DEF Types
  <2>3. faults' \in 0..MaxFaults
    BY <1>2, FaultTypes DEF WorkerStep, Lock, RemoveOld, Refuse, Upload, Commit, Clean,
       WriteBack, MarkFailed, Succeeds, Fails, Types
  <2>4. doc' \in [Doc -> [version : 0..MaxVersion, thumb : Nat,
                          failed : BOOLEAN, recent : BOOLEAN]]
    <3>1. CASE UNCHANGED doc
      BY <3>1 DEF Types
    <3>2. CASE doc' = [doc EXCEPT ![worker[w].job.doc].thumb = worker[w].image]
      BY <2>2, <3>2 DEF Types
    <3>3. CASE doc' = Marked(w)
      BY <2>2, <3>3 DEF Types, Marked
    <3>. QED
      BY <1>2, <3>1, <3>2, <3>3 DEF WorkerStep, Lock, RemoveOld, Refuse, Upload, Commit, Clean,
         WriteBack, MarkFailed, mongo
  <2>5. meta' \in [Doc -> Nat]
    <3>1. Recorded(w) \in [Doc -> Nat]
      BY <2>2 DEF Types, Recorded
    <3>. QED
      BY <1>2, <3>1 DEF WorkerStep, Lock, RemoveOld, Refuse, Upload, Commit, Clean,
         WriteBack, MarkFailed, images, Types
  <2>6. /\ cloud' \subseteq Nat \ {NoImage} /\ IsFiniteSet(cloud')
    <3>1. NewImage \in Nat \ {NoImage}
      BY NewIdIsFree
    <3>2. \/ UNCHANGED cloud \/ cloud' = cloud \cup {NewImage}
          \/ \E i : cloud' = cloud \ {i}
      BY <1>2 DEF WorkerStep, Lock, RemoveOld, Refuse, Upload, Commit, Clean,
         WriteBack, MarkFailed, images
    <3>3. cloud \subseteq Nat \ {NoImage} /\ IsFiniteSet(cloud)
      BY DEF Types
    <3>4. IsFiniteSet(cloud \cup {NewImage}) /\ \A i : IsFiniteSet(cloud \ {i})
      BY <3>3, FS_AddElement, FS_RemoveElement
    <3>. QED
      BY <3>1, <3>2, <3>3, <3>4
  <2>7. /\ cleaned' \subseteq Nat \ {NoImage} /\ IsFiniteSet(cleaned')
    <3>1. UNCHANGED cleaned
          \/ (worker[w].at = "clean" /\ cleaned' = cleaned \cup {worker[w].image})
      BY <1>2 DEF WorkerStep, Lock, RemoveOld, Refuse, Upload, Commit, Clean,
         WriteBack, MarkFailed, images
    <3>2. cleaned \subseteq Nat \ {NoImage} /\ IsFiniteSet(cleaned)
      BY DEF Types
    <3>3. \A i : IsFiniteSet(cleaned \cup {i})
      BY <3>2, FS_AddElement
    <3>. QED
      BY <2>2, <3>1, <3>2, <3>3
  <2>8. ASSUME NEW v \in Worker, worker'[v].at \in {"uploaded", "clean"}
        PROVE  worker'[v].image # NoImage
    <3>1. CASE v # w
      BY <1>2, <2>8, <3>1, StepMoves DEF Types, Moved
    <3>2. CASE v = w
      <4>1. worker \in [Worker -> {NoJob} \cup Working]
        BY DEF Types
      <4>2. \/ Upload(w) /\ worker'[w].image = NewImage
            \/ worker[w].at = "uploaded" /\ worker'[w].image = worker[w].image
        BY <1>2, <2>8, <3>2, <4>1 DEF WorkerStep, Lock, RemoveOld, Refuse, Upload, Commit, Clean,
           WriteBack, MarkFailed, Goto, Drop, NoJob
      <4>. QED
        BY <2>2, <3>2, <4>2, NewIdIsFree
    <3>. QED
      BY <3>1, <3>2
  <2>. QED
    BY <2>1, <2>3, <2>4, <2>5, <2>6, <2>7, <2>8 DEF Types
<1>. QED
  BY <1>1, <1>2

(* The documents, the watchers and the process.                            *)
LEMMA GoDownTypes ==
  ASSUME Types, GoDown, faults' \in 0..MaxFaults, UNCHANGED <<doc, meta, cloud, cleaned, late>>
  PROVE  Types'
<1>1. channel' \in Seq(Job) /\ Len(channel') <= Capacity
  BY ImageAssumption DEF GoDown
<1>2. /\ watcher' \in [Watcher -> Waiting \cup Sending]
      /\ worker' \in [Worker -> {NoJob} \cup Working]
      /\ \A w \in Worker : worker'[w].at = "idle"
  BY DEF GoDown, Waiting, NoJob
<1>. QED
  BY <1>1, <1>2 DEF Types, GoDown

LEMMA ClaimFacts ==
  ASSUME Types, NEW k \in Watcher, Claim(k)
  PROVE  /\ watcher[k].at = "look"
         /\ \E d \in Doc, x \in Sending :
              /\ WithoutThumbnail(d) /\ doc' = [doc EXCEPT ![d].recent = TRUE]
              /\ watcher' = [watcher EXCEPT ![k] = x] /\ x.at = "send" /\ x.job.doc = d
         /\ UNCHANGED <<meta, cloud, channel, closed, worker, phase, faults, cleaned, late>>
<1>1. PICK d \in Watched(k) :
         /\ WithoutThumbnail(d)
         /\ doc' = [doc EXCEPT ![d].recent = TRUE]
         /\ watcher' = [watcher EXCEPT ![k] =
              [at |-> "send", job |-> [doc |-> d, version |-> doc[d].version]]]
  BY DEF Claim
<1>2. d \in Doc
  BY DEF Watched, Doc
<1>3. doc[d].version \in 0..MaxVersion
  BY <1>2 DEF Types
<1>4. PICK x : x = [at |-> "send", job |-> [doc |-> d, version |-> doc[d].version]]
  OBVIOUS
<1>5. x \in Sending /\ x.at = "send" /\ x.job.doc = d
  BY <1>2, <1>3, <1>4 DEF Sending, Job
<1>. QED
  BY <1>1, <1>2, <1>4, <1>5 DEF Claim, images

LEMMA WatcherFacts ==
  ASSUME Types, NEW k \in Watcher
  PROVE  /\ watcher[k].at = "send" <=> watcher[k] \in Sending
         /\ watcher[k] \in Sending => watcher[k].job \in Job /\ watcher[k].job.doc \in Doc
<1>1. watcher[k] \in Waiting \cup Sending
  BY DEF Types
<1>. QED
  BY <1>1 DEF Waiting, Sending, Job

LEMMA SendFacts ==
  ASSUME Types, NEW k \in Watcher, Send(k)
  PROVE  /\ watcher[k] \in Sending /\ channel \in Seq(Job)
         /\ channel' = Append(channel, watcher[k].job)
         /\ channel' \in Seq(Job) /\ Len(channel') = Len(channel) + 1
         /\ Len(channel') <= Capacity
         /\ \A i \in DOMAIN channel : channel'[i] = channel[i]
         /\ channel'[Len(channel) + 1] = watcher[k].job
         /\ watcher' = [watcher EXCEPT ![k] = [at |-> "look"]]
         /\ UNCHANGED <<doc, meta, cloud, closed, worker, phase, faults, cleaned, late>>
<1>1. channel \in Seq(Job) /\ watcher[k].at = "send" /\ Len(channel) \in Nat
  BY DEF Types, Send
<1>2. watcher[k] \in Sending /\ watcher[k].job \in Job
  BY <1>1, WatcherFacts
<1>3. channel' = Append(channel, watcher[k].job) /\ Len(channel) < Capacity
  BY DEF Send, HasRoom
<1>4. Capacity \in Nat
  BY ImageAssumption
<1>. QED
  BY <1>1, <1>2, <1>3, <1>4 DEF Send, mongo, images

LEMMA WatcherTypes ==
  ASSUME Types, NEW k \in Watcher, WatcherStep(k)
  PROVE  Types'
<1>1. CASE Claim(k)
  <2>1. PICK d \in Doc, x \in Sending :
          /\ doc' = [doc EXCEPT ![d].recent = TRUE] /\ watcher' = [watcher EXCEPT ![k] = x]
    BY <1>1, ClaimFacts
  <2>2. doc' \in [Doc -> [version : 0..MaxVersion, thumb : Nat,
                          failed : BOOLEAN, recent : BOOLEAN]]
    BY <2>1 DEF Types
  <2>3. watcher' \in [Watcher -> Waiting \cup Sending]
    BY <2>1 DEF Types
  <2>4. UNCHANGED <<meta, cloud, channel, closed, worker, phase, faults, cleaned, late>>
    BY <1>1, ClaimFacts
  <2>. QED
    BY <2>2, <2>3, <2>4 DEF Types
<1>2. CASE Send(k)
  <2>1. watcher' \in [Watcher -> Waiting \cup Sending]
    <3>1. watcher' = [watcher EXCEPT ![k] = [at |-> "look"]] /\ [at |-> "look"] \in Waiting
      BY <1>2 DEF Send, Waiting
    <3>2. watcher \in [Watcher -> Waiting \cup Sending]
      BY DEF Types
    <3>. QED
      BY <3>1, <3>2
  <2>2. channel' \in Seq(Job) /\ Len(channel') <= Capacity
    BY <1>2, SendFacts
  <2>3. UNCHANGED <<doc, meta, cloud, closed, worker, phase, faults, cleaned, late>>
    BY <1>2, SendFacts
  <2>. QED
    BY <2>1, <2>2, <2>3 DEF Types
<1>3. CASE Panic(k)
  <2>1. GoDown /\ UNCHANGED <<doc, meta, cloud, cleaned, late, faults>>
    BY <1>3 DEF Panic, mongo, images
  <2>. QED
    BY <2>1, GoDownTypes DEF Types
<1>4. CASE Finish(k)
  <2>1. watcher' \in [Watcher -> Waiting \cup Sending] /\ closed' \in BOOLEAN
    BY <1>4 DEF Types, Waiting, Finish
  <2>. QED
    BY <1>4, <2>1 DEF Types, Finish, mongo, images
<1>. QED
  BY <1>1, <1>2, <1>3, <1>4 DEF WatcherStep

LEMMA StepTypes == Types /\ [Next]_vars => Types'
<1> SUFFICES ASSUME Types, [Next]_vars PROVE Types'
  OBVIOUS
<1>1. CASE UNCHANGED vars
  BY <1>1 DEF vars, Types
<1>2. ASSUME NEW d \in Asset, IndexAsset(d) PROVE Types'
  <2>1. d \in Doc /\ doc[d].version \in 0..MaxVersion /\ doc[d].version < MaxVersion
    BY <1>2 DEF IndexAsset, Types, Doc
  <2>2. doc[d].version + 1 \in 0..MaxVersion
    BY <2>1, ImageAssumption
  <2>3. doc' \in [Doc -> [version : 0..MaxVersion, thumb : Nat,
                          failed : BOOLEAN, recent : BOOLEAN]]
    BY <1>2, <2>1, <2>2 DEF IndexAsset, Types, NoImage
  <2>. QED
    BY <1>2, <2>3 DEF IndexAsset, Types, images, process
<1>3. ASSUME NEW d \in Doc, Expire(d) PROVE Types'
  <2>1. doc' \in [Doc -> [version : 0..MaxVersion, thumb : Nat,
                          failed : BOOLEAN, recent : BOOLEAN]]
    BY <1>3 DEF Expire, Types
  <2>2. late' \subseteq Doc
    BY <1>3 DEF Expire, Types
  <2>. QED
    BY <1>3, <2>1, <2>2 DEF Expire, Types, images, process
<1>4. CASE Stop
  <2>1. faults' \in 0..MaxFaults
    BY <1>4, FaultTypes DEF Stop
  <2>. QED
    BY <1>4, <2>1 DEF Stop, Types, mongo, images
<1>5. CASE Crash
  <2>1. faults' \in 0..MaxFaults /\ GoDown /\ UNCHANGED <<doc, meta, cloud, cleaned, late>>
    BY <1>5, FaultTypes DEF Crash, mongo, images
  <2>. QED
    BY <2>1, GoDownTypes
<1>6. CASE Exit
  <2>1. GoDown /\ UNCHANGED <<doc, meta, cloud, cleaned, late, faults>>
    BY <1>6 DEF Exit, mongo, images
  <2>. QED
    BY <2>1, GoDownTypes DEF Types
<1>7. CASE Start
  BY <1>7 DEF Start, Types, mongo, images
<1>. QED
  BY <1>1, <1>2, <1>3, <1>4, <1>5, <1>6, <1>7, WorkerTypes, WatcherTypes DEF Next

-------------------------------------------------------------------------------
(* Jobs move from watchers to the channel to workers.                      *)
LEMMA BusyIsHasJob ==
  ASSUME NEW d
  PROVE  Busy(d) <=> HasJob(d)
<1>1. \A j : j \in Jobs <=> \/ \E i \in DOMAIN channel : j = channel[i]
                            \/ \E k \in Watcher : watcher[k].at = "send" /\ j = watcher[k].job
                            \/ \E w \in Worker : worker[w].at # "idle" /\ j = worker[w].job
  BY DEF Jobs
<1>. QED
  BY <1>1 DEF Busy, HasJob, InChannel, Sends, Works

(* One job of d at most, and none where there was none.                    *)
JobsStay(d) == OneJob(d)' /\ (HasJob(d)' => HasJob(d))

LEMMA MovedJobs ==
  ASSUME Types, NEW w \in Worker, worker[w] \in Working, NEW x \in {NoJob} \cup Working,
         Moved(w, x), x # NoJob => x.job = worker[w].job, UNCHANGED <<channel, watcher>>,
         NEW d \in Doc, OneJob(d)
  PROVE  /\ JobsStay(d)
         /\ worker[w].job.doc = d /\ x = NoJob => ~ HasJob(d)'
<1>1. worker'[w] = x /\ \A v \in Worker \ {w} : worker'[v] = worker[v]
  BY DEF Types, Moved
<1>2. worker[w].at # "idle" /\ NoJob.at = "idle"
  BY WorkerFacts DEF NoJob
<1>3. \A v \in Worker : Works(v, d)' => Works(v, d) /\ (v = w => x # NoJob)
  BY <1>1, <1>2 DEF Works
<1>4. \A i : InChannel(i, d)' <=> InChannel(i, d)
  BY DEF InChannel
<1>5. \A k : Sends(k, d)' <=> Sends(k, d)
  BY DEF Sends
<1>6. JobsStay(d)
  BY <1>3, <1>4, <1>5 DEF JobsStay, OneJob, HasJob
<1>7. ASSUME worker[w].job.doc = d, x = NoJob PROVE ~ HasJob(d)'
  <2>1. Works(w, d)
    BY <1>2, <1>7 DEF Works
  <2>. QED
    BY <1>3, <1>4, <1>5, <1>7, <2>1 DEF OneJob, HasJob
<1>. QED
  BY <1>6, <1>7

LEMMA TakenJobs ==
  ASSUME Types, NEW w \in Worker, Take(w), NEW d \in Doc, OneJob(d)
  PROVE  JobsStay(d)
<1>1. /\ Len(channel) >= 1 /\ channel \in Seq(Job)
      /\ \A i \in DOMAIN channel' : i + 1 \in DOMAIN channel /\ channel'[i] = channel[i + 1]
      /\ DOMAIN channel' \subseteq Nat \ {0} /\ 1 \in DOMAIN channel
  BY TakeFacts DEF Types
<1>2. \A i \in DOMAIN channel' : InChannel(i, d)' => InChannel(i + 1, d) /\ i + 1 # 1
  BY <1>1 DEF InChannel
<1>3. \A k : Sends(k, d)' <=> Sends(k, d)
  BY TakeFacts DEF Sends
<1>4. \A v \in Worker : Works(v, d)' => Works(v, d) \/ (v = w /\ InChannel(1, d))
  <2>1. worker \in [Worker -> {NoJob} \cup Working]
    BY DEF Types
  <2>2. \A v \in Worker \ {w} : worker'[v] = worker[v]
    BY <2>1, TakeFacts DEF Moved
  <2>3. Works(w, d)' => Works(w, d) \/ InChannel(1, d)
    BY <1>1, <2>1, TakeFacts DEF Moved, Works, InChannel
  <2>. QED
    BY <2>2, <2>3 DEF Works
<1>5. ~ Works(w, d)
  BY TakeFacts DEF Works, NoJob
<1>6. HasJob(d)' => HasJob(d)
  BY <1>1, <1>2, <1>3, <1>4 DEF HasJob
<1>7. OneJob(d)'
  <2>1. ASSUME NEW i \in DOMAIN channel', NEW j \in DOMAIN channel', InChannel(i, d)', InChannel(j, d)'
        PROVE  i = j
    <3>1. i + 1 = j + 1
      BY <1>1, <1>2, <2>1 DEF OneJob
    <3>. QED
      BY <1>1, <3>1
  <2>2. \A v, u \in Worker : Works(v, d)' /\ Works(u, d)' => v = u
    BY <1>1, <1>4, <1>5 DEF OneJob
  <2>3. \A i \in DOMAIN channel', v \in Worker : ~ (InChannel(i, d)' /\ Works(v, d)')
    BY <1>1, <1>2, <1>4 DEF OneJob
  <2>4. \A i \in DOMAIN channel', k \in Watcher : ~ (InChannel(i, d)' /\ Sends(k, d)')
    BY <1>1, <1>2, <1>3 DEF OneJob
  <2>5. \A k \in Watcher, v \in Worker : ~ (Sends(k, d)' /\ Works(v, d)')
    BY <1>1, <1>3, <1>4 DEF OneJob
  <2>6. \A k, l \in Watcher : Sends(k, d)' /\ Sends(l, d)' => k = l
    BY <1>3 DEF OneJob
  <2>. QED
    BY <2>1, <2>2, <2>3, <2>4, <2>5, <2>6 DEF OneJob
<1>. QED
  BY <1>6, <1>7 DEF JobsStay

LEMMA SentJobs ==
  ASSUME Types, NEW k \in Watcher, Send(k), NEW d \in Doc, OneJob(d)
  PROVE  JobsStay(d)
<1>1. PICK n : n = Len(channel) + 1
  OBVIOUS
<1>2. /\ channel \in Seq(Job) /\ channel' \in Seq(Job) /\ Len(channel') = n
      /\ \A i \in DOMAIN channel : channel'[i] = channel[i]
      /\ channel'[n] = watcher[k].job /\ watcher[k].at = "send"
      /\ UNCHANGED worker
  BY <1>1, SendFacts, WatcherFacts
<1>3. /\ \A i : i \in DOMAIN channel' <=> i \in DOMAIN channel \/ i = n
      /\ n \notin DOMAIN channel
  BY <1>1, <1>2
<1>4. \A l \in Watcher : Sends(l, d)' => Sends(l, d) /\ l # k
  <2>1. watcher' = [watcher EXCEPT ![k] = [at |-> "look"]] /\ watcher \in [Watcher -> Waiting \cup Sending]
    BY DEF Types, Send
  <2>2. watcher'[k].at = "look" /\ \A l \in Watcher \ {k} : watcher'[l] = watcher[l]
    BY <2>1
  <2>. QED
    BY <2>2 DEF Sends
<1>5. \A i : InChannel(i, d)' => InChannel(i, d) \/ (i = n /\ Sends(k, d))
  BY <1>2, <1>3 DEF InChannel, Sends
<1>6. \A i : InChannel(i, d) => i # n
  BY <1>3 DEF InChannel
<1>7. \A v : Works(v, d)' <=> Works(v, d)
  BY <1>2 DEF Works
<1>8. HasJob(d)' => HasJob(d)
  BY <1>3, <1>4, <1>5, <1>7 DEF HasJob, InChannel
<1>9. OneJob(d)'
  <2>1. \A i, j \in DOMAIN channel' : InChannel(i, d)' /\ InChannel(j, d)' => i = j
    BY <1>3, <1>5 DEF OneJob, InChannel
  <2>2. \A l, m \in Watcher : Sends(l, d)' /\ Sends(m, d)' => l = m
    BY <1>4 DEF OneJob
  <2>3. \A v, u \in Worker : Works(v, d)' /\ Works(u, d)' => v = u
    BY <1>7 DEF OneJob
  <2>4. \A i \in DOMAIN channel', l \in Watcher : ~ (InChannel(i, d)' /\ Sends(l, d)')
    BY <1>3, <1>4, <1>5 DEF OneJob, InChannel
  <2>5. \A i \in DOMAIN channel', v \in Worker : ~ (InChannel(i, d)' /\ Works(v, d)')
    BY <1>3, <1>5, <1>7 DEF OneJob, InChannel
  <2>6. \A l \in Watcher, v \in Worker : ~ (Sends(l, d)' /\ Works(v, d)')
    BY <1>4, <1>7 DEF OneJob
  <2>. QED
    BY <2>1, <2>2, <2>3, <2>4, <2>5, <2>6 DEF OneJob
<1>. QED
  BY <1>8, <1>9 DEF JobsStay

LEMMA ClaimedJobs ==
  ASSUME Types, NEW k \in Watcher, NEW x \in Sending, watcher' = [watcher EXCEPT ![k] = x],
         watcher[k].at = "look", UNCHANGED <<channel, worker>>,
         NEW d \in Doc, OneJob(d)
  PROVE  IF x.job.doc = d THEN HasJob(d) \/ OneJob(d)' ELSE JobsStay(d)
<1>1. watcher'[k] = x /\ \A l \in Watcher \ {k} : watcher'[l] = watcher[l]
  BY DEF Types
<1>2. \A l \in Watcher : Sends(l, d)' => Sends(l, d) \/ (l = k /\ x.job.doc = d)
  BY <1>1 DEF Sends
<1>3. \A i : InChannel(i, d)' <=> InChannel(i, d)
  BY DEF InChannel
<1>4. \A v : Works(v, d)' <=> Works(v, d)
  BY DEF Works
<1>5. ~ Sends(k, d)
  BY DEF Sends
<1>6. CASE x.job.doc = d /\ ~ HasJob(d)
  BY <1>2, <1>3, <1>4, <1>6 DEF OneJob, HasJob
<1>7. CASE x.job.doc # d
  BY <1>2, <1>3, <1>4, <1>7 DEF OneJob, HasJob, JobsStay
<1>. QED
  BY <1>6, <1>7

LEMMA NoJobsLeft ==
  ASSUME GoDown, NEW d
  PROVE  OneJob(d)' /\ ~ HasJob(d)'
<1>1. \A i \in DOMAIN channel' : FALSE
  BY DEF GoDown
<1>2. \A k \in Watcher : ~ Sends(k, d)'
  BY DEF GoDown, Sends
<1>3. \A w \in Worker : ~ Works(w, d)'
  BY DEF GoDown, Works, NoJob
<1>. QED
  BY <1>1, <1>2, <1>3 DEF OneJob, HasJob

(* A step that leaves a document checked and without a thumbnail.          *)
LEMMA StillClaimed ==
  ASSUME NEW d, OneJob(d), Claimed(d), JobsStay(d),
         doc[d].recent => doc'[d].recent, doc'[d].thumb \in {doc[d].thumb, NoImage}
  PROVE  OneJob(d)' /\ Claimed(d)'
<1>1. HasJob(d)' => HasJob(d)
  BY DEF JobsStay
<1>2. HasJob(d) => doc[d].recent /\ doc[d].thumb = NoImage
  BY DEF Claimed
<1>3. HasJob(d)' => doc'[d].recent /\ doc'[d].thumb = NoImage
  BY <1>1, <1>2
<1>. QED
  BY <1>3 DEF JobsStay, Claimed

LEMMA WorkerKeepsJobs ==
  ASSUME Types, NEW w \in Worker, WorkerStep(w), NEW d \in Doc, OneJob(d), Claimed(d)
  PROVE  OneJob(d)' /\ Claimed(d)'
<1>1. CASE Take(w)
  <2>1. JobsStay(d)
    BY <1>1, TakenJobs
  <2>2. doc' = doc
    BY <1>1, TakeFacts
  <2>. QED
    BY <2>1, <2>2, StillClaimed
<1>2. CASE ~ Take(w)
  <2>1. PICK x \in {NoJob} \cup Working : Moved(w, x) /\ (x # NoJob => x.job = worker[w].job)
    BY <1>2, StepMoves
  <2>2. worker[w] \in Working /\ UNCHANGED <<channel, watcher>>
    BY <1>2, StepMoves
  <2>3. JobsStay(d) /\ (worker[w].job.doc = d /\ x = NoJob => ~ HasJob(d)')
    BY <2>1, <2>2, MovedJobs
  <2>4. CASE WriteBack(w) /\ worker[w].job.doc = d
    <3>1. worker'[w] = NoJob /\ worker'[w] = x
      BY <2>1, <2>4 DEF WriteBack, Drop, Types, Moved
    <3>. QED
      BY <2>3, <2>4, <3>1 DEF JobsStay, Claimed
  <2>5. CASE ~ (WriteBack(w) /\ worker[w].job.doc = d)
    <3>1. \A e \in Doc : doc[e] \in [version : 0..MaxVersion, thumb : Nat,
                                     failed : BOOLEAN, recent : BOOLEAN]
      BY DEF Types
    <3>2. worker[w].job.doc \in Doc /\ doc = [e \in Doc |-> doc[e]]
      BY <2>2, WorkerFacts DEF Types
    <3>3. \/ doc' = doc \/ doc' = Marked(w)
          \/ WriteBack(w) /\ doc' = [doc EXCEPT ![worker[w].job.doc].thumb = worker[w].image]
      BY <1>2 DEF WorkerStep, Lock, RemoveOld, Refuse, Upload, Commit, Clean,
         WriteBack, MarkFailed, mongo
    <3>4. doc' = Marked(w) => doc'[d].recent = doc[d].recent /\ doc'[d].thumb = doc[d].thumb
      BY <3>1, <3>2 DEF Marked
    <3>5. WriteBack(w) /\ doc' = [doc EXCEPT ![worker[w].job.doc].thumb = worker[w].image]
            => doc'[d] = doc[d]
      BY <2>5, <3>2
    <3>6. (doc[d].recent => doc'[d].recent) /\ doc'[d].thumb = doc[d].thumb
      BY <3>3, <3>4, <3>5
    <3>. QED
      BY <2>3, <3>6, StillClaimed
  <2>. QED
    BY <2>4, <2>5
<1>. QED
  BY <1>1, <1>2

(* A document that is claimed was not checked of late: no job runs for it. *)
LEMMA WatcherKeepsJobs ==
  ASSUME Types, NEW k \in Watcher, WatcherStep(k), NEW d \in Doc, OneJob(d), Claimed(d)
  PROVE  OneJob(d)' /\ Claimed(d)'
<1>1. CASE Claim(k)
  <2>1. PICK e \in Doc, x \in Sending :
          /\ WithoutThumbnail(e) /\ doc' = [doc EXCEPT ![e].recent = TRUE]
          /\ watcher' = [watcher EXCEPT ![k] = x] /\ x.at = "send" /\ x.job.doc = e
    BY <1>1, ClaimFacts
  <2>2. watcher[k].at = "look" /\ UNCHANGED <<channel, worker>>
    BY <1>1, ClaimFacts
  <2>3. IF x.job.doc = d THEN HasJob(d) \/ OneJob(d)' ELSE JobsStay(d)
    BY <2>1, <2>2, ClaimedJobs
  <2>4. doc \in [Doc -> [version : 0..MaxVersion, thumb : Nat,
                         failed : BOOLEAN, recent : BOOLEAN]]
    BY DEF Types
  <2>5. CASE e = d
    <3>1. doc[d].thumb = NoImage /\ ~ doc[d].recent
      BY <2>1, <2>5 DEF WithoutThumbnail
    <3>2. OneJob(d)'
      BY <2>1, <2>3, <2>5, <3>1 DEF Claimed
    <3>3. doc'[d].recent /\ doc'[d].thumb = NoImage
      BY <2>1, <2>4, <2>5, <3>1
    <3>. QED
      BY <3>2, <3>3 DEF Claimed
  <2>6. CASE e # d
    <3>1. doc'[d] = doc[d]
      BY <2>1, <2>4, <2>6
    <3>. QED
      BY <2>1, <2>3, <2>6, <3>1, StillClaimed
  <2>. QED
    BY <2>5, <2>6
<1>2. CASE Send(k)
  <2>1. doc' = doc
    BY <1>2, SendFacts
  <2>. QED
    BY <1>2, <2>1, SentJobs, StillClaimed
<1>3. CASE Panic(k)
  BY <1>3, NoJobsLeft DEF Panic, Claimed
<1>4. CASE Finish(k)
  <2>1. /\ \A l \in Watcher : Sends(l, d)' => Sends(l, d)
        /\ \A i : InChannel(i, d)' <=> InChannel(i, d)
        /\ \A v : Works(v, d)' <=> Works(v, d)
        /\ UNCHANGED <<doc, channel>>
    BY <1>4 DEF Finish, Types, mongo, Sends, InChannel, Works
  <2>2. JobsStay(d)
    BY <2>1 DEF JobsStay, OneJob, HasJob
  <2>. QED
    BY <2>1, <2>2, StillClaimed
<1>. QED
  BY <1>1, <1>2, <1>3, <1>4 DEF WatcherStep

LEMMA StepKeepsJobs ==
  ASSUME Types, \A d \in Doc \ late : OneJob(d) /\ Claimed(d), [Next]_vars
  PROVE  \A d \in Doc \ late' : OneJob(d)' /\ Claimed(d)'
<1>1. late \subseteq late'
  BY StepMoves, TakeFacts, ClaimFacts, SendFacts
  DEF Next, vars, IndexAsset, Expire, WatcherStep, Panic, Finish, WorkerStep, Stop, Crash, Exit,
      Start, mongo
<1> SUFFICES ASSUME NEW d \in Doc \ late' PROVE OneJob(d)' /\ Claimed(d)'
  OBVIOUS
<1>2. OneJob(d) /\ Claimed(d)
  BY <1>1
<1>3. doc \in [Doc -> [version : 0..MaxVersion, thumb : Nat,
                       failed : BOOLEAN, recent : BOOLEAN]]
  BY DEF Types
<1>4. UNCHANGED <<channel, watcher, worker>> => JobsStay(d)
  BY <1>2 DEF JobsStay, OneJob, HasJob, InChannel, Sends, Works
<1>5. ASSUME NEW e \in Asset, IndexAsset(e) PROVE OneJob(d)' /\ Claimed(d)'
  <2>1. doc'[d].recent = doc[d].recent /\ doc'[d].thumb \in {doc[d].thumb, NoImage}
    BY <1>3, <1>5 DEF IndexAsset, Doc
  <2>2. JobsStay(d)
    BY <1>4, <1>5 DEF IndexAsset, process
  <2>. QED
    BY <1>2, <2>1, <2>2, StillClaimed
<1>6. ASSUME NEW e \in Doc, Expire(e) PROVE OneJob(d)' /\ Claimed(d)'
  <2>1. JobsStay(d)
    BY <1>4, <1>6 DEF Expire, process
  <2>2. CASE e = d
    <3>1. ~ Busy(d)
      BY <1>6, <2>2 DEF Expire
    <3>2. ~ HasJob(d)
      BY <3>1, BusyIsHasJob
    <3>. QED
      BY <2>1, <3>2 DEF JobsStay, Claimed
  <2>3. CASE e # d
    <3>1. doc'[d] = doc[d]
      BY <1>3, <1>6, <2>3 DEF Expire
    <3>. QED
      BY <1>2, <2>1, <3>1, StillClaimed
  <2>. QED
    BY <2>2, <2>3
<1>7. CASE GoDown
  BY <1>7, NoJobsLeft DEF Claimed
<1>8. CASE Stop \/ Start \/ UNCHANGED vars
  <2>1. UNCHANGED <<doc, channel, watcher, worker>>
    BY <1>8 DEF Stop, Start, vars, mongo
  <2>. QED
    BY <1>2, <1>4, <2>1, StillClaimed
<1>. QED
  BY <1>2, <1>5, <1>6, <1>7, <1>8, WorkerKeepsJobs, WatcherKeepsJobs DEF Next, Crash, Exit

-------------------------------------------------------------------------------
(* The images of rows, workers and thumbnails.                             *)
LEMMA MovedOnly ==
  ASSUME Types, NEW w \in Worker, NEW x, Moved(w, x)
  PROVE  worker'[w] = x /\ \A v \in Worker \ {w} : worker'[v] = worker[v]
  BY DEF Types, Moved

(* A document that is being worked on has no thumbnail.                    *)
LEMMA WorkedOn ==
  ASSUME IInv, NEW w \in Worker, worker[w] \in Working, worker[w].job.doc \notin late
  PROVE  /\ doc[worker[w].job.doc].thumb = NoImage
         /\ \A v \in Worker :
              worker[v] \in Working /\ worker[v].job.doc = worker[w].job.doc => v = w
<1>1. worker[w].job.doc \in Doc \ late /\ Works(w, worker[w].job.doc)
  BY WorkerFacts DEF IInv, Works
<1>2. HasJob(worker[w].job.doc)
  BY <1>1 DEF HasJob
<1>3. \A v \in Worker : worker[v] \in Working => worker[v].at # "idle"
  BY WorkerFacts DEF IInv
<1>. QED
  BY <1>1, <1>2, <1>3 DEF IInv, Claimed, OneJob, Works

(* The thumbnails, when images only come or are noted as removed.          *)
LEMMA KeptStays ==
  ASSUME NEW d, NEW i, Kept(d, i), cleaned \subseteq cleaned', meta'[d] = meta[d],
         cloud \subseteq cloud' \cup cleaned'
  PROVE  Kept(d, i)'
  BY DEF Kept

(* A job ends, with an image left behind or not.                           *)
LEMMA DroppedImages ==
  ASSUME IInv, NEW w \in Worker, Drop(w), UNCHANGED <<meta, cleaned, late>>,
         cloud' \in {cloud, cloud \cup {NewImage}},
         \A d \in Doc \ late : Kept(d, doc'[d].thumb)
  PROVE  Images'
<1>1. worker'[w] = NoJob /\ \A v \in Worker \ {w} : worker'[v] = worker[v]
  BY MovedOnly DEF Drop, Moved, IInv
<1>2. NoJob.at = "idle" /\ NoJob.image = NoImage
  BY DEF NoJob
<1>3. \A d \in Doc : meta[d] # NewImage
  BY NewIdIsFree DEF IInv, Referred
<1>4. Apart'
  BY <1>1, <1>2 DEF IInv, Images, Apart
<1>5. \A v \in Worker : worker'[v].at # "idle" => worker'[v] = worker[v]
  BY <1>1, <1>2
<1>6. \A v \in Worker : worker[v].at # "idle" => worker[v].job.doc \in Doc
  BY WorkerFacts DEF IInv
<1>7. Transactions'
  <2>1. \A v, u \in Worker :
          worker'[v].at \in InTransaction /\ worker'[u].at \in InTransaction
            /\ worker'[v].job.doc = worker'[u].job.doc => v = u
    BY <1>5 DEF IInv, Images, Transactions, InTransaction
  <2>2. ASSUME NEW v \in Worker
        PROVE  /\ worker'[v].at \in {"taken", "locked", "cleared", "refused"} =>
                    worker'[v].image = NoImage
               /\ worker'[v].at \in {"cleared", "uploaded"} => meta[worker'[v].job.doc] \notin cloud'
               /\ worker'[v].at = "uploaded" => worker'[v].image \in cloud'
    BY <1>3, <1>5, <1>6 DEF IInv, Images, Transactions
  <2>. QED
    BY <2>1, <2>2 DEF Transactions
<1>8. \A d, i : Kept(d, i) => Kept(d, i)'
  BY DEF Kept
<1>9. Written'
  BY <1>5, <1>8 DEF IInv, Images, Written
<1>10. ThumbnailIsKept'
  BY <1>8 DEF ThumbnailIsKept, Kept
<1>. QED
  BY <1>4, <1>7, <1>9, <1>10 DEF Images

(* The rows, the images and the documents do not change.                   *)
LEMMA SameImages ==
  ASSUME IInv, NEW w \in Worker, NEW x \in Working, Moved(w, x),
         UNCHANGED <<meta, cloud, cleaned, late, doc>>,
         x.image = NoImage, x.at \in {"taken", "locked", "refused"},
         x.at = "locked" => \A v \in Worker : ~ Locks(v, x.job.doc)
  PROVE  Images'
<1>1. worker'[w] = x /\ \A v \in Worker \ {w} : worker'[v] = worker[v]
  BY MovedOnly DEF IInv
<1>2. Apart'
  BY <1>1 DEF IInv, Images, Apart
<1>3. Transactions'
  <2>1. ASSUME NEW v \in Worker, NEW u \in Worker,
               worker'[v].at \in InTransaction, worker'[u].at \in InTransaction,
               worker'[v].job.doc = worker'[u].job.doc
        PROVE  v = u
    <3>1. \A t \in Worker \ {w} :
            x.at \in InTransaction =>
              ~ (worker[t].at \in InTransaction /\ worker[t].job.doc = x.job.doc)
      BY DEF Locks, InTransaction
    <3>. QED
      BY <1>1, <2>1, <3>1 DEF IInv, Images, Transactions
  <2>2. ASSUME NEW v \in Worker
        PROVE  /\ worker'[v].at \in {"taken", "locked", "cleared", "refused"} =>
                    worker'[v].image = NoImage
               /\ worker'[v].at \in {"cleared", "uploaded"} => meta[worker'[v].job.doc] \notin cloud
               /\ worker'[v].at = "uploaded" => worker'[v].image \in cloud
    BY <1>1 DEF IInv, Images, Transactions
  <2>. QED
    BY <2>1, <2>2 DEF Transactions
<1>4. \A d, i : Kept(d, i)' <=> Kept(d, i)
  BY DEF Kept
<1>5. Written'
  BY <1>1, <1>4 DEF IInv, Images, Written
<1>6. ThumbnailIsKept'
  BY DEF IInv, Images, ThumbnailIsKept
<1>. QED
  BY <1>2, <1>3, <1>5, <1>6 DEF Images

LEMMA RemovedImages ==
  ASSUME IInv, NEW w \in Worker, RemoveOld(w), worker[w] \in Working
  PROVE  Images'
<1>1. UNCHANGED <<doc, late, meta, cleaned>>
  BY DEF RemoveOld, mongo
<1>2. CASE Drop(w) /\ UNCHANGED cloud
  <2>1. \A d \in Doc \ late : Kept(d, doc'[d].thumb)
    BY <1>1 DEF IInv, Images, ThumbnailIsKept, Kept
  <2>. QED
    BY <1>1, <1>2, <2>1, DroppedImages
<1>3. CASE Goto(w, "cleared") /\ cloud' = cloud \ {meta[worker[w].job.doc]}
  <2>1. PICK x \in Working : /\ Moved(w, x) /\ x.at = "cleared"
                             /\ x.job = worker[w].job /\ x.image = worker[w].image
    BY <1>3, WorkerFacts, GotoMoves DEF RemoveOld, IInv, Steps, InTransaction
  <2>2. worker'[w] = x /\ \A v \in Worker \ {w} : worker'[v] = worker[v]
    BY <2>1, MovedOnly DEF IInv
  <2>3. /\ worker[w].at = "locked" /\ worker[w].image = NoImage
        /\ worker[w].job.doc \in Doc /\ NoImage \notin cloud
    BY WorkerFacts DEF RemoveOld, IInv, Images, Transactions, Types
  <2>4. Apart'
    BY <1>1, <2>1, <2>2, <2>3 DEF IInv, Images, Apart
  <2>5. Transactions'
    <3>1. \A v, u \in Worker :
            worker'[v].at \in InTransaction /\ worker'[u].at \in InTransaction
              /\ worker'[v].job.doc = worker'[u].job.doc => v = u
      BY <2>1, <2>2, <2>3 DEF IInv, Images, Transactions, InTransaction
    <3>2. ASSUME NEW v \in Worker
          PROVE  /\ worker'[v].at \in {"taken", "locked", "cleared", "refused"} =>
                      worker'[v].image = NoImage
                 /\ worker'[v].at \in {"cleared", "uploaded"} => meta'[worker'[v].job.doc] \notin cloud'
      BY <1>1, <1>3, <2>1, <2>2, <2>3 DEF IInv, Images, Transactions
    <3>3. ASSUME NEW v \in Worker, worker'[v].at = "uploaded"
          PROVE  worker'[v].image \in cloud'
      <4>1. v # w /\ worker[v].at = "uploaded" /\ worker'[v] = worker[v]
        BY <2>1, <2>2, <3>3
      <4>2. worker[v].image \in cloud
        BY <4>1 DEF IInv, Images, Transactions
      <4>3. CASE worker[v].image = meta[worker[w].job.doc]
        <5>1. worker[v].job.doc = worker[w].job.doc
          BY <2>3, <4>2, <4>3 DEF IInv, Images, Apart
        <5>. QED
          BY <2>3, <4>1, <5>1 DEF IInv, Images, Transactions, InTransaction
      <4>. QED
        BY <1>3, <4>1, <4>2, <4>3
    <3>. QED
      BY <3>1, <3>2, <3>3 DEF Transactions
  <2>6. ASSUME NEW d \in Doc \ late, NEW i, Kept(d, i), i # NoImage,
               i \notin cleaned, d # worker[w].job.doc
        PROVE  Kept(d, i)'
    <3>1. i \in cloud /\ i = meta[d]
      BY <2>6 DEF Kept
    <3>2. i # meta[worker[w].job.doc]
      BY <2>3, <2>6, <3>1 DEF IInv, Images, Apart
    <3>. QED
      BY <1>1, <1>3, <3>1, <3>2 DEF Kept
  <2>7. \A d \in Doc \ late : \A i : Kept(d, i) /\ d # worker[w].job.doc => Kept(d, i)'
    BY <1>1, <2>6 DEF Kept
  <2>8. Written'
    <3> SUFFICES ASSUME NEW v \in Worker, NEW d, NEW i, worker'[v].at = "write",
                        d = worker'[v].job.doc, i = worker'[v].image, d \notin late'
                 PROVE  Kept(d, i)'
      BY DEF Written, Kept
    <3>1. v # w /\ worker'[v] = worker[v]
      BY <2>1, <2>2
    <3>2. worker[v] \in Working /\ worker[v].job.doc \in Doc
      BY <3>1, WorkerFacts DEF IInv
    <3>3. worker[v].job.doc # worker[w].job.doc
      BY <1>1, <3>1, <3>2, WorkedOn
    <3>4. Kept(d, i)
      BY <1>1, <3>1 DEF IInv, Images, Written
    <3>. QED
      BY <1>1, <2>7, <3>1, <3>2, <3>3, <3>4
  <2>9. ThumbnailIsKept'
    <3> SUFFICES ASSUME NEW d \in Doc \ late, NEW i, i = doc[d].thumb PROVE Kept(d, i)'
      BY <1>1 DEF ThumbnailIsKept, Kept
    <3>1. Kept(d, i)
      BY DEF IInv, Images, ThumbnailIsKept, Kept
    <3>2. d = worker[w].job.doc => i = NoImage
      BY WorkedOn
    <3>. QED
      BY <2>7, <3>1, <3>2 DEF Kept
  <2>. QED
    BY <2>4, <2>5, <2>8, <2>9 DEF Images
<1>4. CASE Goto(w, "cleared") /\ UNCHANGED cloud /\ meta[worker[w].job.doc] \notin cloud
  BY <1>3, <1>4
<1>. QED
  BY <1>2, <1>3, <1>4 DEF RemoveOld

LEMMA UploadedImages ==
  ASSUME IInv, NEW w \in Worker, Upload(w), worker[w] \in Working
  PROVE  Images'
<1>1. UNCHANGED <<doc, late, meta, cleaned>>
  BY DEF Upload, mongo
<1>2. CASE Drop(w)
  <2>1. \A d \in Doc \ late : Kept(d, doc'[d].thumb)
    BY <1>1 DEF IInv, Images, ThumbnailIsKept, Kept
  <2>2. cloud' \in {cloud, cloud \cup {NewImage}}
    BY DEF Upload
  <2>. QED
    BY <1>1, <1>2, <2>1, <2>2, DroppedImages
<1>3. CASE /\ cloud' = cloud \cup {NewImage}
           /\ worker' = [worker EXCEPT ![w] =
                [at |-> "uploaded", job |-> @.job, image |-> NewImage]]
  <2>1. PICK n : n = NewImage
    OBVIOUS
  <2>2. PICK x : x = [at |-> "uploaded", job |-> worker[w].job, image |-> n]
    OBVIOUS
  <2>3. x.at = "uploaded" /\ x.job = worker[w].job /\ x.image = n
    BY <2>2
  <2>4. worker'[w] = x /\ \A v \in Worker \ {w} : worker'[v] = worker[v]
    BY <1>3, <2>1, <2>2 DEF IInv, Types
  <2>5. /\ n \in Nat \ {NoImage} /\ n \notin cloud
        /\ \A d \in Doc : meta[d] # n
        /\ \A v \in Worker : worker[v].image # n
    BY <2>1, NewIdIsFree DEF IInv, Referred
  <2>6. worker[w].at = "cleared" /\ cloud' = cloud \cup {n}
    BY <1>3, <2>1 DEF Upload
  <2>7. Apart'
    BY <1>1, <2>3, <2>4, <2>5 DEF IInv, Images, Apart
  <2>8. Transactions'
    <3>1. \A v, u \in Worker :
            worker'[v].at \in InTransaction /\ worker'[u].at \in InTransaction
              /\ worker'[v].job.doc = worker'[u].job.doc => v = u
      BY <2>3, <2>4, <2>6 DEF IInv, Images, Transactions, InTransaction
    <3>2. \A v \in Worker : worker[v].at # "idle" => worker[v].job.doc \in Doc
      BY WorkerFacts DEF IInv
    <3>3. ASSUME NEW v \in Worker
          PROVE  /\ worker'[v].at \in {"taken", "locked", "cleared", "refused"} =>
                      worker'[v].image = NoImage
                 /\ worker'[v].at \in {"cleared", "uploaded"} => meta'[worker'[v].job.doc] \notin cloud'
                 /\ worker'[v].at = "uploaded" => worker'[v].image \in cloud'
      BY <1>1, <2>3, <2>4, <2>5, <2>6, <3>2 DEF IInv, Images, Transactions
    <3>. QED
      BY <3>1, <3>3 DEF Transactions
  <2>9. \A d, i : Kept(d, i) => Kept(d, i)'
    BY <1>1, <1>3 DEF Kept
  <2>10. Written'
    BY <1>1, <2>3, <2>4, <2>9 DEF IInv, Images, Written
  <2>11. ThumbnailIsKept'
    BY <1>1, <2>6 DEF IInv, Images, ThumbnailIsKept
  <2>. QED
    BY <2>7, <2>8, <2>10, <2>11 DEF Images
<1>. QED
  BY <1>2, <1>3 DEF Upload

(* The row takes the image of the worker, or stays as it is.               *)
LEMMA CommittedImages ==
  ASSUME IInv, NEW w \in Worker, Commit(w), worker[w] \in Working
  PROVE  Images'
<1>1. UNCHANGED <<doc, late, cloud, cleaned>> /\ worker[w].at = "uploaded"
  BY DEF Commit, mongo
<1>2. PICK d0, i0 : d0 = worker[w].job.doc /\ i0 = worker[w].image
  OBVIOUS
<1>3. /\ d0 \in Doc /\ i0 \in cloud /\ i0 \in Nat \ {NoImage}
      /\ meta[d0] \notin cloud /\ meta[d0] # i0
  BY <1>1, <1>2, WorkerFacts DEF IInv, Images, Transactions, Types
<1>4. \/ meta' = meta
      \/ meta'[d0] = i0 /\ \A e \in Doc \ {d0} : meta'[e] = meta[e]
  BY <1>2, <1>3 DEF Commit, Recorded, IInv, Types
<1>5. PICK x \in Working : /\ Moved(w, x) /\ x.at \in {"write", "clean"}
                           /\ (x.at = "write" => meta'[d0] = i0)
                           /\ x.job.doc = d0 /\ x.image = i0
  <2>1. \E at \in Steps : /\ Goto(w, at) /\ at \in {"write", "clean"}
                          /\ (at = "write" => meta'[d0] = i0)
    <3>1. {"write", "clean"} \subseteq Steps
      BY DEF Steps
    <3>2. Recorded(w)[d0] = i0
      BY <1>2, <1>3 DEF Recorded, IInv, Types
    <3>. QED
      BY <3>1, <3>2 DEF Commit
  <2>. QED
    BY <1>1, <1>2, <2>1, GotoMoves DEF IInv
<1>6. worker'[w] = x /\ \A v \in Worker \ {w} : worker'[v] = worker[v]
  BY <1>5, MovedOnly DEF IInv
<1>7. \A v \in Worker \ {w} :
        /\ worker[v].image # i0
        /\ worker[v].at \in InTransaction => worker[v].job.doc # d0
  BY <1>1, <1>2, <1>3 DEF IInv, Images, Apart, Transactions, InTransaction
<1>8. \A e \in Doc \ {d0} : meta[e] # i0
  BY <1>2, <1>3 DEF IInv, Images, Apart
<1>9. Apart'
  <2>1. \A d, e \in Doc : meta'[d] = meta'[e] /\ meta'[d] # NoImage => d = e
    BY <1>4, <1>8 DEF IInv, Images, Apart
  <2>2. \A v, u \in Worker :
          worker'[v].image = worker'[u].image /\ worker'[v].image # NoImage => v = u
    BY <1>5, <1>6, <1>7 DEF IInv, Images, Apart
  <2>3. ASSUME NEW v \in Worker, NEW d \in Doc,
               worker'[v].image = meta'[d], meta'[d] # NoImage
        PROVE  worker'[v].job.doc = d
    <3>1. CASE v = w
      BY <1>5, <1>6, <1>4, <1>8, <2>3, <3>1
    <3>2. CASE v # w
      BY <1>4, <1>6, <1>7, <2>3, <3>2 DEF IInv, Images, Apart
    <3>. QED
      BY <3>1, <3>2
  <2>. QED
    BY <2>1, <2>2, <2>3 DEF Apart
<1>10. Transactions'
  <2>1. \A v \in Worker : worker'[v].at \in InTransaction => v # w
    BY <1>5, <1>6 DEF InTransaction
  <2>2. \A v, u \in Worker :
          worker'[v].at \in InTransaction /\ worker'[u].at \in InTransaction
            /\ worker'[v].job.doc = worker'[u].job.doc => v = u
    BY <1>6, <2>1 DEF IInv, Images, Transactions
  <2>3. ASSUME NEW v \in Worker
        PROVE  /\ worker'[v].at \in {"taken", "locked", "cleared", "refused"} =>
                    worker'[v].image = NoImage
               /\ worker'[v].at \in {"cleared", "uploaded"} => meta'[worker'[v].job.doc] \notin cloud'
               /\ worker'[v].at = "uploaded" => worker'[v].image \in cloud'
    <3>1. CASE v = w
      BY <1>5, <1>6, <3>1
    <3>2. CASE v # w
      <4>1. worker'[v] = worker[v]
        BY <1>6, <3>2
      <4>2. worker[v].at \in {"cleared", "uploaded"} =>
              meta'[worker[v].job.doc] = meta[worker[v].job.doc]
        BY <1>4, <1>7, <3>2, WorkerFacts DEF InTransaction, IInv
      <4>. QED
        BY <1>1, <4>1, <4>2 DEF IInv, Images, Transactions
    <3>. QED
      BY <3>1, <3>2
  <2>. QED
    BY <2>2, <2>3 DEF Transactions
<1>11. \A d \in Doc \ {d0} : \A i : Kept(d, i) => Kept(d, i)'
  BY <1>1, <1>4 DEF Kept
<1>12. Written'
  <2> SUFFICES ASSUME NEW v \in Worker, NEW d, NEW i, worker'[v].at = "write",
                      d = worker'[v].job.doc, i = worker'[v].image, d \notin late'
               PROVE  Kept(d, i)'
    BY DEF Written, Kept
  <2>1. CASE v = w
    BY <1>1, <1>3, <1>5, <1>6, <2>1 DEF Kept
  <2>2. CASE v # w
    <3>1. worker'[v] = worker[v] /\ worker[v] \in Working
      BY <1>6, <2>2, WorkerFacts DEF IInv
    <3>2. d \in Doc \ {d0}
      BY <1>1, <1>2, <2>2, <3>1, WorkedOn, WorkerFacts DEF IInv
    <3>3. Kept(d, i)
      BY <1>1, <3>1 DEF IInv, Images, Written
    <3>. QED
      BY <1>11, <3>2, <3>3
  <2>. QED
    BY <2>1, <2>2
<1>13. ThumbnailIsKept'
  <2> SUFFICES ASSUME NEW d \in Doc \ late, NEW i, i = doc[d].thumb PROVE Kept(d, i)'
    BY <1>1 DEF ThumbnailIsKept, Kept
  <2>1. Kept(d, i)
    BY DEF IInv, Images, ThumbnailIsKept, Kept
  <2>2. d = d0 => i = NoImage
    BY <1>2, WorkedOn
  <2>. QED
    BY <1>11, <2>1, <2>2 DEF Kept
<1>. QED
  BY <1>9, <1>10, <1>12, <1>13 DEF Images

LEMMA CleanedImages ==
  ASSUME IInv, NEW w \in Worker, Clean(w), worker[w] \in Working
  PROVE  Images'
<1>1. UNCHANGED <<doc, late, meta>> /\ worker[w].at = "clean"
  BY DEF Clean, mongo
<1>2. CASE Drop(w) /\ UNCHANGED <<cloud, cleaned>>
  <2>1. \A d \in Doc \ late : Kept(d, doc'[d].thumb)
    BY <1>1 DEF IInv, Images, ThumbnailIsKept, Kept
  <2>. QED
    BY <1>1, <1>2, <2>1, DroppedImages
<1>3. CASE /\ cloud' = cloud \ {worker[w].image}
           /\ cleaned' = cleaned \cup {worker[w].image}
           /\ Goto(w, "write")
  <2>1. PICK x \in Working : /\ Moved(w, x) /\ x.at = "write"
                             /\ x.job = worker[w].job /\ x.image = worker[w].image
    BY <1>1, <1>3, GotoMoves DEF IInv, Steps
  <2>2. worker'[w] = x /\ \A v \in Worker \ {w} : worker'[v] = worker[v]
    BY <2>1, MovedOnly DEF IInv
  <2>3. worker[w].image # NoImage
    BY <1>1 DEF IInv, Types
  <2>4. Apart'
    BY <1>1, <2>1, <2>2 DEF IInv, Images, Apart
  <2>5. Transactions'
    <3>1. \A v \in Worker : worker'[v].at # "write" => v # w /\ worker'[v] = worker[v]
      BY <2>1, <2>2
    <3>2. \A v, u \in Worker :
            worker'[v].at \in InTransaction /\ worker'[u].at \in InTransaction
              /\ worker'[v].job.doc = worker'[u].job.doc => v = u
      BY <3>1 DEF IInv, Images, Transactions, InTransaction
    <3>3. ASSUME NEW v \in Worker, worker'[v].at = "uploaded"
          PROVE  worker'[v].image \in cloud'
      BY <1>3, <2>3, <3>1, <3>3 DEF IInv, Images, Transactions, Apart
    <3>4. ASSUME NEW v \in Worker
          PROVE  /\ worker'[v].at \in {"taken", "locked", "cleared", "refused"} =>
                      worker'[v].image = NoImage
                 /\ worker'[v].at \in {"cleared", "uploaded"} => meta'[worker'[v].job.doc] \notin cloud'
      BY <1>1, <1>3, <3>1 DEF IInv, Images, Transactions
    <3>. QED
      BY <3>2, <3>3, <3>4 DEF Transactions
  <2>6. \A d, i : Kept(d, i) => Kept(d, i)'
    BY <1>1, <1>3 DEF Kept
  <2>7. Written'
    <3> SUFFICES ASSUME NEW v \in Worker, NEW d, NEW i, worker'[v].at = "write",
                        d = worker'[v].job.doc, i = worker'[v].image, d \notin late'
                 PROVE  Kept(d, i)'
      BY DEF Written, Kept
    <3>1. CASE v = w
      BY <1>3, <2>1, <2>2, <3>1 DEF Kept
    <3>2. CASE v # w
      BY <1>1, <2>2, <2>6, <3>2 DEF IInv, Images, Written
    <3>. QED
      BY <3>1, <3>2
  <2>8. ThumbnailIsKept'
    <3> SUFFICES ASSUME NEW d \in Doc \ late, NEW i, i = doc[d].thumb PROVE Kept(d, i)'
      BY <1>1 DEF ThumbnailIsKept, Kept
    <3>1. Kept(d, i)
      BY DEF IInv, Images, ThumbnailIsKept, Kept
    <3>. QED
      BY <2>6, <3>1
  <2>. QED
    BY <2>4, <2>5, <2>7, <2>8 DEF Images
<1>. QED
  BY <1>2, <1>3 DEF Clean

LEMMA WorkerImages ==
  ASSUME IInv, NEW w \in Worker, WorkerStep(w)
  PROVE  Images'
<1>1. CASE Take(w)
  <2>1. UNCHANGED <<meta, cloud, cleaned, late, doc>>
    BY <1>1, TakeFacts DEF IInv
  <2>2. CASE UNCHANGED worker
    BY <2>1, <2>2 DEF IInv, Images, Apart, Transactions, Written, Kept, ThumbnailIsKept
  <2>3. CASE \E x \in Working : Moved(w, x) /\ x.at = "taken" /\ x.image = NoImage
    BY <2>1, <2>3, SameImages
  <2>. QED
    BY <1>1, <2>2, <2>3, TakeFacts DEF IInv
<1>2. CASE ~ Take(w)
  <2>1. worker[w] \in Working
    BY <1>2, StepMoves DEF IInv
  <2>2. \A d \in Doc \ late : Kept(d, doc[d].thumb)
    BY DEF IInv, Images, ThumbnailIsKept, Kept
  <2>3. worker[w].at # "idle"
    BY <2>1, WorkerFacts DEF IInv
  <2>4. CASE Lock(w)
    <3>1. UNCHANGED <<meta, cloud, cleaned, late, doc>> /\ worker[w].at = "taken"
      BY <2>4 DEF Lock, mongo, images
    <3>2. CASE Drop(w)
      BY <2>2, <3>1, <3>2, DroppedImages
    <3>3. CASE Goto(w, "locked") /\ \A v \in Worker : ~ Locks(v, worker[w].job.doc)
      <4>1. PICK x \in Working : /\ Moved(w, x) /\ x.at = "locked"
                                 /\ x.job = worker[w].job /\ x.image = worker[w].image
        BY <2>3, <3>3, GotoMoves DEF IInv, Steps, InTransaction
      <4>2. x.image = NoImage
        BY <3>1, <4>1 DEF IInv, Images, Transactions
      <4>. QED
        BY <3>1, <3>3, <4>1, <4>2, SameImages
    <3>. QED
      BY <2>4, <3>2, <3>3 DEF Lock
  <2>5. CASE Refuse(w)
    <3>1. UNCHANGED <<meta, cloud, cleaned, late, doc>> /\ worker[w].at = "cleared"
      BY <2>5 DEF Refuse, mongo, images
    <3>2. PICK x \in Working : /\ Moved(w, x) /\ x.at = "refused" /\ x.image = worker[w].image
      BY <2>3, <2>5, GotoMoves DEF IInv, Steps, Refuse
    <3>3. x.image = NoImage
      BY <3>1, <3>2 DEF IInv, Images, Transactions
    <3>. QED
      BY <3>1, <3>2, <3>3, SameImages
  <2>6. CASE WriteBack(w) \/ MarkFailed(w)
    <3>1. Drop(w) /\ UNCHANGED <<meta, cloud, cleaned, late>>
      BY <2>6 DEF WriteBack, MarkFailed, images
    <3>2. worker[w].job.doc \in Doc
      BY <2>1, WorkerFacts DEF IInv
    <3>3. doc \in [Doc -> [version : 0..MaxVersion, thumb : Nat,
                           failed : BOOLEAN, recent : BOOLEAN]]
      BY DEF IInv, Types
    <3>4. ASSUME NEW d \in Doc \ late PROVE Kept(d, doc'[d].thumb)
      <4>1. \/ doc'[d].thumb = doc[d].thumb
            \/ WriteBack(w) /\ d = worker[w].job.doc /\ doc'[d].thumb = worker[w].image
        <5>1. CASE doc' = doc
          BY <5>1
        <5>2. CASE doc' = Marked(w)
          BY <3>2, <3>3, <5>2 DEF Marked
        <5>3. CASE WriteBack(w) /\ doc' = [doc EXCEPT ![worker[w].job.doc].thumb = worker[w].image]
          BY <3>2, <3>3, <5>3
        <5>. QED
          BY <2>6, <5>1, <5>2, <5>3 DEF WriteBack, MarkFailed
      <4>2. WriteBack(w) /\ d = worker[w].job.doc => Kept(d, worker[w].image)
        BY DEF WriteBack, IInv, Images, Written
      <4>. QED
        BY <2>2, <4>1, <4>2
    <3>. QED
      BY <3>1, <3>4, DroppedImages
  <2>. QED
    BY <1>2, <2>1, <2>4, <2>5, <2>6, RemovedImages, UploadedImages, CommittedImages,
       CleanedImages DEF WorkerStep
<1>. QED
  BY <1>1, <1>2

(* The rest of the steps create no image and remove none.                  *)
LEMMA OtherImages ==
  ASSUME IInv, UNCHANGED <<meta, cloud, cleaned>>, late \subseteq late',
         UNCHANGED worker \/ worker' = [w \in Worker |-> NoJob],
         \A d \in Doc : doc'[d].thumb \in {doc[d].thumb, NoImage}
  PROVE  Images'
<1>1. \A v \in Worker : worker'[v] = worker[v] \/ worker'[v] = NoJob
  OBVIOUS
<1>2. NoJob.at = "idle" /\ NoJob.image = NoImage
  BY DEF NoJob
<1>3. Apart'
  BY <1>1, <1>2 DEF IInv, Images, Apart
<1>4. Transactions'
  <2>1. \A v \in Worker : worker'[v].at # "idle" => worker'[v] = worker[v]
    BY <1>1, <1>2
  <2>2. \A v, u \in Worker :
          worker'[v].at \in InTransaction /\ worker'[u].at \in InTransaction
            /\ worker'[v].job.doc = worker'[u].job.doc => v = u
    BY <2>1 DEF IInv, Images, Transactions, InTransaction
  <2>3. ASSUME NEW v \in Worker
        PROVE  /\ worker'[v].at \in {"taken", "locked", "cleared", "refused"} =>
                    worker'[v].image = NoImage
               /\ worker'[v].at \in {"cleared", "uploaded"} => meta'[worker'[v].job.doc] \notin cloud'
               /\ worker'[v].at = "uploaded" => worker'[v].image \in cloud'
    BY <2>1 DEF IInv, Images, Transactions
  <2>. QED
    BY <2>2, <2>3 DEF Transactions
<1>5. Written'
  BY <1>1, <1>2 DEF IInv, Images, Written, Kept
<1>6. ThumbnailIsKept'
  BY DEF IInv, Images, ThumbnailIsKept
<1>. QED
  BY <1>3, <1>4, <1>5, <1>6 DEF Images

LEMMA StepImages ==
  ASSUME IInv, [Next]_vars
  PROVE  Images'
<1>1. doc \in [Doc -> [version : 0..MaxVersion, thumb : Nat,
                       failed : BOOLEAN, recent : BOOLEAN]]
  BY DEF IInv, Types
<1>2. ASSUME NEW d \in Asset, IndexAsset(d) PROVE Images'
  <2>1. \A e \in Doc : doc'[e].thumb \in {doc[e].thumb, NoImage}
    BY <1>1, <1>2 DEF IndexAsset, Doc
  <2>. QED
    BY <1>2, <2>1, OtherImages DEF IndexAsset, images
<1>3. ASSUME NEW d \in Doc, Expire(d) PROVE Images'
  <2>1. \A e \in Doc : doc'[e].thumb = doc[e].thumb
    BY <1>1, <1>3 DEF Expire
  <2>. QED
    BY <1>3, <2>1, OtherImages DEF Expire, images
<1>4. ASSUME NEW k \in Watcher, Claim(k) PROVE Images'
  <2>1. PICK d \in Doc : doc' = [doc EXCEPT ![d].recent = TRUE]
    BY <1>4, ClaimFacts DEF IInv
  <2>2. \A e \in Doc : doc'[e].thumb = doc[e].thumb
    BY <1>1, <2>1
  <2>. QED
    BY <1>4, <2>2, OtherImages DEF Claim, images
<1>5. ASSUME NEW k \in Watcher, Send(k) \/ Panic(k) \/ Finish(k) PROVE Images'
  BY <1>5, OtherImages DEF Send, Panic, Finish, GoDown, mongo, images
<1>6. CASE Stop \/ Crash \/ Exit \/ Start \/ UNCHANGED vars
  BY <1>6, OtherImages DEF Stop, Crash, Exit, Start, GoDown, mongo, images, vars
<1>. QED
  BY <1>2, <1>3, <1>4, <1>5, <1>6, WorkerImages DEF Next, WatcherStep

-------------------------------------------------------------------------------
(* The inductive invariant: jobs, transactions and images keep together    *)
(* over all interleavings, faults, shutdowns and restarts.                 *)
THEOREM Invariance == Spec => []IInv
<1>1. ASSUME Init PROVE IInv
  <2>1. Types
    BY <1>1, InitTypes
  <2>2. \A d \in Doc : ~ HasJob(d) /\ OneJob(d)
    BY <1>1 DEF Init, HasJob, OneJob, InChannel, Sends, Works, NoJob
  <2>3. \A w \in Worker : worker[w].at = "idle" /\ worker[w].image = NoImage
    BY <1>1 DEF Init, NoJob
  <2>4. \A d \in Doc : meta[d] = NoImage /\ doc[d].thumb = NoImage
    BY <1>1 DEF Init
  <2>5. Apart /\ Transactions /\ Written
    BY <2>3, <2>4 DEF Apart, Transactions, Written, InTransaction
  <2>6. ThumbnailIsKept
    BY <2>4 DEF ThumbnailIsKept
  <2>. QED
    BY <2>1, <2>2, <2>5, <2>6 DEF IInv, Claimed, Images
<1>2. ASSUME IInv, [Next]_vars PROVE IInv'
  <2>1. Types'
    BY <1>2, StepTypes DEF IInv
  <2>2. \A d \in Doc \ late' : OneJob(d)' /\ Claimed(d)'
    BY <1>2, StepKeepsJobs DEF IInv
  <2>3. Images'
    BY <1>2, StepImages
  <2>. QED
    BY <2>1, <2>2, <2>3 DEF IInv
<1>. QED
  BY <1>1, <1>2, PTL DEF Spec

(* A thumbnail in MongoDB is the image that PostgreSQL records and         *)
(* Cloudflare has, unless the image was removed after its transaction had  *)
(* failed or a job took longer than the retry interval.                    *)
THEOREM ThumbnailsAreKept == Spec => []ThumbnailIsKept
  BY Invariance, PTL DEF IInv, Images

-------------------------------------------------------------------------------
(* The images that no row has.                                             *)
LEMMA OrphanIs ==
  ASSUME NEW y
  PROVE  /\ y \in Orphans <=>
              /\ y \in cloud /\ \A d \in Doc : y # meta[d]
              /\ \A v \in Worker : worker[v].at \in {"uploaded", "clean"} => y # worker[v].image
         /\ y \in Orphans' <=>
              /\ y \in cloud' /\ \A d \in Doc : y # meta'[d]
              /\ \A v \in Worker : worker'[v].at \in {"uploaded", "clean"} => y # worker'[v].image
  BY DEF Orphans, InHand

LEMMA Counts ==
  ASSUME Types
  PROVE  /\ Cardinality(Worker) \in Nat \ {0}
         /\ IsFiniteSet(Orphans) /\ Cardinality(Orphans) \in Nat
         /\ IsFiniteSet(Holders) /\ Cardinality(Holders) \in Nat
         /\ Cardinality(Holders) <= Cardinality(Worker)
         /\ IsFiniteSet(InHand) /\ Cardinality(InHand) <= Cardinality(Holders)
         /\ Cardinality(InHand) \in Nat
<1>1. Cardinality(Worker) \in Nat \ {0}
  BY ImageAssumption, FS_EmptySet, FS_CardinalityType
<1>2. IsFiniteSet(Orphans)
  <2>1. Orphans \subseteq cloud /\ IsFiniteSet(cloud)
    BY DEF Orphans, Types
  <2>. QED
    BY <2>1, FS_Subset
<1>3. IsFiniteSet(Holders) /\ Cardinality(Holders) <= Cardinality(Worker)
  <2>1. Holders \subseteq Worker
    BY DEF Holders
  <2>. QED
    BY <2>1, ImageAssumption, FS_Subset
<1>4. IsFiniteSet(InHand) /\ Cardinality(InHand) <= Cardinality(Holders)
  <2>1. PICK U : U = {w \in Worker : worker[w].at \in {"uploaded", "clean"}}
    OBVIOUS
  <2>2. U \subseteq Holders
    BY <2>1 DEF Holders, InTransaction
  <2>3. IsFiniteSet(U) /\ Cardinality(U) <= Cardinality(Holders) /\ Cardinality(U) \in Nat
    BY <1>3, <2>2, FS_Subset, FS_CardinalityType
  <2>4. PICK f : f = [w \in U |-> worker[w].image]
    OBVIOUS
  <2>5. f = [w \in U |-> f[w]] /\ {f[w] : w \in U} = InHand
    BY <2>1, <2>4 DEF InHand
  <2>6. IsFiniteSet({f[w] : w \in U}) /\ Cardinality({f[w] : w \in U}) <= Cardinality(U)
    BY <2>3, <2>5, RangeIsFinite
  <2>7. Cardinality(InHand) \in Nat /\ Cardinality(Holders) \in Nat
    BY <1>3, <2>5, <2>6, FS_CardinalityType
  <2>. QED
    BY <2>3, <2>5, <2>6, <2>7
<1>5. Cardinality(Orphans) \in Nat /\ Cardinality(Holders) \in Nat /\ Cardinality(InHand) \in Nat
  BY <1>2, <1>3, <1>4, FS_CardinalityType
<1>. QED
  BY <1>1, <1>2, <1>3, <1>4, <1>5

(* What a step of a worker leaves behind.                                  *)
LeavesNone == Orphans' \subseteq Orphans /\ (phase = "stopping" => Holders' \subseteq Holders)

LeavesOne(w) ==
  /\ \E x : Orphans' \subseteq Orphans \cup {x}
  /\ w \in Holders /\ Holders' \subseteq Holders \ {w}
  /\ Fails

LEMMA DroppedOrphans ==
  ASSUME Types, NEW w \in Worker, Drop(w), meta' = meta, cloud' = cloud,
         worker[w].at # "clean", worker[w].at # "uploaded"
  PROVE  LeavesNone
<1>1. worker'[w] = NoJob /\ \A v \in Worker \ {w} : worker'[v] = worker[v]
  BY MovedOnly DEF Drop, Moved
<1>2. NoJob.at = "idle"
  BY DEF NoJob
<1>3. Orphans' \subseteq Orphans
  <2> SUFFICES ASSUME NEW y, y \in Orphans' PROVE y \in Orphans
    OBVIOUS
  <2>. QED
    BY <1>1, OrphanIs
<1>4. Holders' \subseteq Holders
  BY <1>1, <1>2 DEF Holders, InTransaction
<1>. QED
  BY <1>3, <1>4 DEF LeavesNone

LEMMA DroppedOne ==
  ASSUME Types, NEW w \in Worker, Drop(w), meta' = meta, NEW x, cloud' \subseteq cloud \cup {x},
         worker[w].image \in {NoImage, x}, w \in Holders, Fails
  PROVE  LeavesOne(w)
<1>1. worker'[w] = NoJob /\ \A v \in Worker \ {w} : worker'[v] = worker[v]
  BY MovedOnly DEF Drop, Moved
<1>2. NoJob.at = "idle"
  BY DEF NoJob
<1>3. Orphans' \subseteq Orphans \cup {x}
  <2> SUFFICES ASSUME NEW y, y \in Orphans', y # x PROVE y \in Orphans
    OBVIOUS
  <2>1. y \in cloud /\ y # NoImage
    BY OrphanIs DEF Types
  <2>. QED
    BY <1>1, <2>1, OrphanIs
<1>4. Holders' \subseteq Holders \ {w}
  BY <1>1, <1>2 DEF Holders, InTransaction
<1>. QED
  BY <1>3, <1>4 DEF LeavesOne

LEMMA WorkerLeaves ==
  ASSUME IInv, NEW w \in Worker, WorkerStep(w)
  PROVE  LeavesNone \/ LeavesOne(w)
<1>1. CASE Take(w)
  <2>1. UNCHANGED <<meta, cloud>>
    BY <1>1, TakeFacts DEF IInv
  <2>2. CASE UNCHANGED worker
    BY <2>1, <2>2 DEF LeavesNone, Orphans, InHand, Holders
  <2>3. CASE \E x \in Working : Moved(w, x) /\ x.at = "taken" /\ x.image = NoImage
    <3>1. PICK x \in Working : Moved(w, x) /\ x.at = "taken"
      BY <2>3
    <3>2. /\ worker'[w] = x /\ \A v \in Worker \ {w} : worker'[v] = worker[v]
          /\ worker[w].at = "idle"
      BY <1>1, <3>1, MovedOnly DEF IInv, Take, MayTake
    <3>3. Orphans' \subseteq Orphans
      <4> SUFFICES ASSUME NEW y, y \in Orphans' PROVE y \in Orphans
        OBVIOUS
      <4>. QED
        BY <2>1, <3>2, OrphanIs
    <3>4. Holders' \subseteq Holders
      BY <3>1, <3>2 DEF Holders, InTransaction
    <3>. QED
      BY <3>3, <3>4 DEF LeavesNone
  <2>. QED
    BY <1>1, <2>2, <2>3, TakeFacts DEF IInv
<1>2. CASE ~ Take(w)
  <2>1. worker[w] \in Working /\ worker[w].at # "idle"
    BY <1>2, StepMoves, WorkerFacts DEF IInv
  <2>2. worker[w].at \in InTransaction \cup {"clean"} => w \in Holders
    BY DEF Holders
  (* A job goes on and its image stays in hand or in the row. *)
  <2>3. ASSUME NEW at \in Steps, Goto(w, at), UNCHANGED meta, cloud' \subseteq cloud,
               worker[w].at \notin {"uploaded", "clean"} \/ worker[w].image \notin cloud',
               phase = "stopping" => worker[w].at \in InTransaction \cup {"clean"}
        PROVE  LeavesNone
    <3>1. PICK x \in Working : /\ Moved(w, x) /\ x.at = at
                               /\ x.job = worker[w].job /\ x.image = worker[w].image
      BY <2>1, <2>3, GotoMoves DEF IInv
    <3>2. worker'[w] = x /\ \A v \in Worker \ {w} : worker'[v] = worker[v]
      BY <3>1, MovedOnly DEF IInv
    <3>3. Orphans' \subseteq Orphans
      <4> SUFFICES ASSUME NEW y, y \in Orphans' PROVE y \in Orphans
        OBVIOUS
      <4>. QED
        BY <2>3, <3>2, OrphanIs
    <3>4. phase = "stopping" => Holders' \subseteq Holders
      BY <2>2, <2>3, <3>2 DEF Holders
    <3>. QED
      BY <3>3, <3>4 DEF LeavesNone
  <2>4. CASE Lock(w)
    <3>1. UNCHANGED <<meta, cloud>> /\ worker[w].at = "taken"
      BY <2>4 DEF Lock, images
    <3>2. Drop(w) \/ (Goto(w, "locked") /\ phase # "stopping")
      BY <2>4 DEF Lock, Succeeds
    <3>3. CASE Drop(w)
      BY <3>1, <3>3, DroppedOrphans DEF IInv
    <3>4. CASE Goto(w, "locked") /\ phase # "stopping"
      BY <2>3, <3>1, <3>4 DEF Steps, InTransaction
    <3>. QED
      BY <3>2, <3>3, <3>4
  <2>5. CASE RemoveOld(w)
    <3>1. UNCHANGED meta /\ cloud' \subseteq cloud /\ worker[w].at = "locked"
      BY <2>5 DEF RemoveOld
    <3>2. CASE Goto(w, "cleared")
      BY <2>3, <3>1, <3>2 DEF Steps, InTransaction
    <3>3. CASE Drop(w) /\ UNCHANGED cloud
      BY <3>1, <3>3, DroppedOrphans DEF IInv
    <3>. QED
      BY <2>5, <3>2, <3>3 DEF RemoveOld
  <2>6. CASE Refuse(w)
    <3>1. UNCHANGED <<meta, cloud>> /\ worker[w].at = "cleared" /\ Goto(w, "refused")
      BY <2>6 DEF Refuse, images
    <3>. QED
      BY <2>3, <3>1 DEF Steps, InTransaction
  <2>7. CASE Upload(w)
    <3>1. meta' = meta /\ worker[w].at = "cleared" /\ worker[w].image = NoImage
      BY <2>7 DEF Upload, IInv, Images, Transactions
    <3>2. CASE Fails /\ cloud' \subseteq cloud \cup {NewImage} /\ Drop(w)
      <4>1. PICK n : n = NewImage
        OBVIOUS
      <4>. QED
        BY <2>2, <3>1, <3>2, <4>1, DroppedOne DEF IInv, InTransaction
    <3>3. CASE /\ Succeeds /\ cloud' = cloud \cup {NewImage}
               /\ worker' = [worker EXCEPT ![w] =
                    [at |-> "uploaded", job |-> @.job, image |-> NewImage]]
      <4>1. /\ worker'[w].at = "uploaded" /\ worker'[w].image = NewImage
            /\ \A v \in Worker \ {w} : worker'[v] = worker[v]
        BY <3>3 DEF IInv, Types
      <4>2. Orphans' \subseteq Orphans
        <5> SUFFICES ASSUME NEW y, y \in Orphans' PROVE y \in Orphans
          OBVIOUS
        <5>. QED
          BY <3>1, <3>3, <4>1, OrphanIs
      <4>. QED
        BY <3>3, <4>2 DEF LeavesNone, Succeeds
    <3>. QED
      BY <2>7, <3>2, <3>3 DEF Upload
  <2>8. CASE Commit(w)
    <3>1. cloud' = cloud /\ worker[w].at = "uploaded"
      BY <2>8 DEF Commit
    <3>2. PICK d0, i0 : d0 = worker[w].job.doc /\ i0 = worker[w].image
      OBVIOUS
    <3>3. d0 \in Doc /\ meta[d0] \notin cloud
      BY <2>1, <3>1, <3>2, WorkerFacts DEF IInv, Images, Transactions
    <3>4. \/ meta' = meta
          \/ meta'[d0] = i0 /\ \A e \in Doc \ {d0} : meta'[e] = meta[e]
      BY <2>8, <3>2, <3>3 DEF Recorded, IInv, Types, Commit
    <3>5. PICK at \in {"write", "clean"} : Goto(w, at) /\ (at = "write" => meta'[d0] = i0)
      BY <2>8, <3>2, <3>3 DEF Commit, Recorded, IInv, Types
    <3>6. PICK x \in Working : Moved(w, x) /\ x.at = at /\ x.image = i0
      BY <2>1, <3>2, <3>5, GotoMoves DEF IInv, Steps
    <3>7. worker'[w] = x /\ \A v \in Worker \ {w} : worker'[v] = worker[v]
      BY <3>6, MovedOnly DEF IInv
    <3>8. Orphans' \subseteq Orphans
      <4> SUFFICES ASSUME NEW y, y \in Orphans' PROVE y \in Orphans
        OBVIOUS
      <4>1. y \in cloud /\ \A d \in Doc : y # meta'[d]
        BY <3>1, OrphanIs
      <4>2. \A d \in Doc : y # meta[d]
        BY <3>3, <3>4, <4>1
      <4>3. y # i0
        BY <3>3, <3>5, <3>6, <3>7, <4>1, OrphanIs
      <4>. QED
        BY <3>2, <3>7, <4>1, <4>2, <4>3, OrphanIs
    <3>9. Holders' \subseteq Holders
      BY <2>2, <3>1, <3>7 DEF Holders, InTransaction
    <3>. QED
      BY <3>8, <3>9 DEF LeavesNone
  <2>9. CASE Clean(w)
    <3>1. meta' = meta /\ worker[w].at = "clean"
      BY <2>9 DEF Clean
    <3>2. CASE Fails /\ Drop(w) /\ UNCHANGED cloud
      <4>1. PICK i : i = worker[w].image
        OBVIOUS
      <4>. QED
        BY <2>2, <3>1, <3>2, <4>1, DroppedOne DEF IInv
    <3>3. CASE cloud' = cloud \ {worker[w].image} /\ Goto(w, "write")
      BY <2>3, <3>1, <3>3 DEF Steps
    <3>. QED
      BY <2>9, <3>2, <3>3 DEF Clean
  <2>10. CASE WriteBack(w) \/ MarkFailed(w)
    <3>1. UNCHANGED <<meta, cloud>> /\ Drop(w) /\ worker[w].at \in {"write", "refused"}
      BY <2>10 DEF WriteBack, MarkFailed, images
    <3>. QED
      BY <3>1, DroppedOrphans DEF IInv
  <2>. QED
    BY <1>2, <2>4, <2>5, <2>6, <2>7, <2>8, <2>9, <2>10 DEF WorkerStep
<1>. QED
  BY <1>1, <1>2

-------------------------------------------------------------------------------
(* The count of images without a row.                                      *)
LEMMA Product ==
  ASSUME NEW f \in Nat, NEW n \in Nat
  PROVE  f * n \in Nat /\ (f + 1) * n = f * n + n
  OBVIOUS

LEMMA WorkerOrphans ==
  ASSUME IInv, OrphanInv, NEW w \in Worker, WorkerStep(w)
  PROVE  OrphanInv'
<1> DEFINE N == Cardinality(Worker)
           O == Cardinality(Orphans)
           H == Cardinality(Holders)
           P == Cardinality(Orphans')
           Q == Cardinality(Holders')
<1>1. UNCHANGED <<closed, phase>> /\ faults' \in {faults, faults + 1}
  BY StepMoves, TakeFacts DEF IInv, WorkerStep, Take, Lock, RemoveOld, Refuse, Upload, Commit,
     Clean, WriteBack, MarkFailed, Succeeds, Fails, Fault
<1>2. /\ N \in Nat /\ N >= 1 /\ O \in Nat /\ H \in Nat /\ faults \in Nat
      /\ IsFiniteSet(Orphans) /\ IsFiniteSet(Holders)
  BY Counts DEF IInv, Types
<1>3. faults * N \in Nat /\ (faults + 1) * N = faults * N + N
  BY <1>2, Product
<1>4. /\ closed => phase = "stopping"
      /\ phase = "stopping" => O + H <= faults * N
      /\ O <= faults * N
  BY <1>2, <1>3 DEF OrphanInv
<1> HIDE DEF N, O, H, P, Q
<1>5. faults * N <= faults' * N
  <2>1. CASE faults' = faults
    BY <1>3, <2>1
  <2>2. CASE faults' = faults + 1
    <3>1. faults' * N = faults * N + N
      BY <1>3, <2>2
    <3>. QED
      BY <1>2, <1>3, <3>1
  <2>. QED
    BY <1>1, <2>1, <2>2
<1>6. (closed => phase = "stopping")'
  BY <1>1, <1>4
<1>7. CASE LeavesNone
  <2>1. P \in Nat /\ P <= O
    BY <1>2, <1>7, FS_Subset, FS_CardinalityType DEF LeavesNone, O, P
  <2>2. phase = "stopping" => Q \in Nat /\ Q <= H
    BY <1>2, <1>7, FS_Subset, FS_CardinalityType DEF LeavesNone, H, Q
  <2>3. faults * N \in Int /\ faults' * N \in Int
    BY <1>1, <1>2, <1>3
  <2>4. P <= faults' * N /\ (phase = "stopping" => P + Q <= faults' * N)
    <3>1. P <= faults' * N
      BY <1>2, <1>4, <1>5, <2>1, <2>3
    <3>2. ASSUME phase = "stopping" PROVE P + Q <= faults' * N
      <4>1. P + Q <= O + H /\ P + Q \in Int /\ O + H \in Int
        BY <1>2, <2>1, <2>2, <3>2
      <4>. QED
        BY <1>4, <1>5, <2>3, <3>2, <4>1
    <3>. QED
      BY <3>1, <3>2
  <2>. QED
    BY <1>1, <1>6, <2>4 DEF OrphanInv, N, P, Q
<1>8. CASE LeavesOne(w)
  <2>1. PICK x : Orphans' \subseteq Orphans \cup {x}
    BY <1>8 DEF LeavesOne
  <2>2. P \in Nat /\ P <= O + 1
    <3>1. IsFiniteSet(Orphans \cup {x}) /\ Cardinality(Orphans \cup {x}) <= O + 1
          /\ Cardinality(Orphans \cup {x}) \in Nat
      <4>1. PICK S : S = Orphans /\ IsFiniteSet(S) /\ Cardinality(S) = O
        BY <1>2 DEF O
      <4>2. IsFiniteSet(S \cup {x}) /\ Cardinality(S \cup {x}) \in {O, O + 1}
        BY <4>1, FS_AddElement
      <4>. QED
        BY <1>2, <4>1, <4>2
    <3>2. IsFiniteSet(Orphans') /\ P <= Cardinality(Orphans \cup {x})
      BY <2>1, <3>1, FS_Subset DEF P
    <3>3. P \in Nat
      BY <3>2, FS_CardinalityType DEF P
    <3>. QED
      BY <1>2, <3>1, <3>2, <3>3
  <2>3. Q \in Nat /\ Q <= H - 1
    <3>1. IsFiniteSet(Holders \ {w}) /\ Cardinality(Holders \ {w}) = H - 1
      BY <1>2, <1>8, FS_RemoveElement DEF LeavesOne, H
    <3>2. IsFiniteSet(Holders') /\ Q <= Cardinality(Holders \ {w})
      BY <1>8, <3>1, FS_Subset DEF LeavesOne, Q
    <3>. QED
      BY <3>1, <3>2, FS_CardinalityType DEF Q
  <2>4. CASE phase = "stopping"
    <3>1. P + Q <= O + H /\ P + Q \in Int /\ O + H \in Int
      BY <1>2, <2>2, <2>3
    <3>2. P + Q <= faults' * N
      BY <1>1, <1>2, <1>3, <1>4, <1>5, <2>4, <3>1
    <3>. QED
      BY <1>1, <1>6, <2>4, <3>2 DEF OrphanInv, N, P, Q
  <2>5. CASE phase = "running"
    <3>1. faults' = faults + 1
      BY <1>8, <2>5 DEF LeavesOne, Fails, Fault
    <3>2. faults' * N = faults * N + N
      BY <1>3, <3>1
    <3>3. P <= faults' * N
      BY <1>2, <1>3, <1>4, <2>2, <3>2
    <3>. QED
      BY <1>1, <1>6, <2>5, <3>3 DEF OrphanInv, N, P
  <2>. QED
    BY <1>8, <2>4, <2>5 DEF LeavesOne, Fails
<1>. QED
  BY <1>7, <1>8, WorkerLeaves

(* The end of the process leaves what the workers had in hand.             *)
LEMMA DownOrphans ==
  ASSUME IInv, OrphanInv, GoDown, UNCHANGED <<meta, cloud>>,
         \/ faults' = faults + 1
         \/ faults' = faults /\ phase = "stopping"
  PROVE  OrphanInv'
<1> DEFINE N == Cardinality(Worker)
           O == Cardinality(Orphans)
           P == Cardinality(Orphans')
<1>1. /\ N \in Nat /\ O \in Nat /\ Cardinality(Holders) \in Nat /\ faults \in Nat
      /\ Cardinality(Holders) <= N
      /\ IsFiniteSet(Orphans) /\ IsFiniteSet(InHand) /\ Cardinality(InHand) \in Nat
      /\ Cardinality(InHand) <= Cardinality(Holders)
  BY Counts DEF IInv, Types
<1>2. faults * N \in Nat /\ (faults + 1) * N = faults * N + N
  BY <1>1, Product
<1>3. Orphans' \subseteq Orphans \cup InHand
  BY DEF Orphans, InHand
<1>4. P \in Nat /\ P <= O + Cardinality(Holders)
  <2>1. /\ IsFiniteSet(Orphans \cup InHand)
        /\ Cardinality(Orphans \cup InHand)
             = O + Cardinality(InHand) - Cardinality(Orphans \cap InHand)
    BY <1>1, FS_Union
  <2>2. IsFiniteSet(Orphans \cap InHand)
    BY <1>1, FS_Intersection
  <2>3. Cardinality(Orphans \cap InHand) \in Nat
    BY <2>2, FS_CardinalityType
  <2>4. Cardinality(Orphans \cup InHand) \in Nat
    BY <2>1, FS_CardinalityType
  <2>5. IsFiniteSet(Orphans') /\ P <= Cardinality(Orphans \cup InHand)
    BY <1>3, <2>1, FS_Subset
  <2>6. P \in Nat
    BY <2>5, FS_CardinalityType
  <2>. QED
    BY <1>1, <2>1, <2>3, <2>4, <2>5, <2>6
<1>5. /\ O <= faults * N
      /\ phase = "stopping" => O + Cardinality(Holders) <= faults * N
  BY <1>1, <1>2 DEF OrphanInv
<1> HIDE DEF N, O, P
<1>6. P <= faults' * N
  <2>1. CASE faults' = faults + 1
    <3>1. faults' * N = faults * N + N
      BY <1>2, <2>1
    <3>. QED
      BY <1>1, <1>2, <1>4, <1>5, <3>1
  <2>2. CASE faults' = faults /\ phase = "stopping"
    <3>1. faults' * N = faults * N
      BY <2>2
    <3>. QED
      BY <1>1, <1>2, <1>4, <1>5, <2>2, <3>1
  <2>. QED
    BY <2>1, <2>2
<1>. QED
  BY <1>6 DEF OrphanInv, GoDown, N, P

LEMMA StepOrphans ==
  ASSUME IInv, OrphanInv, [Next]_vars
  PROVE  OrphanInv'
<1>1. ASSUME UNCHANGED <<meta, cloud, worker, phase, faults>>, closed' = closed \/ phase = "stopping"
      PROVE  OrphanInv'
  <2>1. Orphans' = Orphans /\ Holders' = Holders
    BY <1>1 DEF Orphans, InHand, Holders
  <2>. QED
    BY <1>1, <2>1 DEF OrphanInv
<1>2. ASSUME NEW d \in Asset, IndexAsset(d) PROVE OrphanInv'
  BY <1>1, <1>2 DEF IndexAsset, images, process
<1>3. ASSUME NEW d \in Doc, Expire(d) PROVE OrphanInv'
  BY <1>1, <1>3 DEF Expire, images, process
<1>4. ASSUME NEW k \in Watcher, Claim(k) \/ Send(k) \/ Finish(k) PROVE OrphanInv'
  BY <1>1, <1>4 DEF Claim, Send, Finish, mongo, images
<1>5. ASSUME NEW k \in Watcher, Panic(k) PROVE OrphanInv'
  BY <1>5, DownOrphans DEF Panic, images, OrphanInv
<1>6. CASE Crash
  BY <1>6, DownOrphans DEF Crash, images, Fault
<1>7. CASE Exit
  BY <1>7, DownOrphans DEF Exit, images
<1>8. CASE Stop
  <2>1. /\ Orphans' = Orphans /\ Holders' = Holders /\ faults' = faults + 1
        /\ phase = "running" /\ phase' = "stopping"
    BY <1>8 DEF Stop, Fault, images, Orphans, InHand, Holders
  <2>2. PICK n, o, h : n = Cardinality(Worker) /\ o = Cardinality(Orphans) /\ h = Cardinality(Holders)
    OBVIOUS
  <2>3. {n, o, h, faults} \subseteq Nat /\ h <= n
    BY <2>2, Counts DEF IInv, Types
  <2>4. o <= faults * n
    BY <2>1, <2>2 DEF OrphanInv
  <2>5. faults' * n = faults * n + n /\ faults * n \in Nat
    BY <2>1, <2>3
  <2>6. o + h <= faults' * n
    BY <2>3, <2>4, <2>5
  <2>. QED
    BY <2>1, <2>2, <2>6 DEF OrphanInv
<1>9. CASE Start
  <2>1. /\ Orphans' = Orphans /\ faults' = faults /\ closed' = closed
        /\ phase = "down" /\ phase' = "running"
    BY <1>9 DEF Start, images, Orphans, InHand
  <2>. QED
    BY <2>1 DEF OrphanInv
<1>10. CASE UNCHANGED vars
  BY <1>1, <1>10 DEF vars
<1>. QED
  BY <1>2, <1>3, <1>4, <1>5, <1>6, <1>7, <1>8, <1>9, <1>10, WorkerOrphans DEF Next, WatcherStep

(* Images that no row has and no worker holds are as many as the faults    *)
(* and the workers make possible: no other order of steps leaves one.      *)
THEOREM OrphansAreOfFaults == Spec => []OrphansAreFaults
<1>1. Init => OrphanInv
  <2> SUFFICES ASSUME Init PROVE OrphanInv
    OBVIOUS
  <2>1. Orphans = {} /\ faults = 0 /\ ~ closed /\ phase = "running"
    BY DEF Init, Orphans
  <2>2. Cardinality({}) = 0 /\ Cardinality(Worker) \in Nat
    BY FS_EmptySet, ImageAssumption, FS_CardinalityType
  <2>. QED
    BY <2>1, <2>2 DEF OrphanInv
<1>2. IInv /\ OrphanInv /\ [Next]_vars => OrphanInv'
  BY StepOrphans
<1>3. IInv /\ OrphanInv => OrphansAreFaults
  <2> SUFFICES ASSUME IInv, OrphanInv PROVE OrphansAreFaults
    OBVIOUS
  <2>1. PICK n, o, h : n = Cardinality(Worker) /\ o = Cardinality(Orphans) /\ h = Cardinality(Holders)
    OBVIOUS
  <2>2. {n, o, h, faults} \subseteq Nat
    BY <2>1, Counts DEF IInv, Types
  <2>3. o <= faults * n \/ o + h <= faults * n
    BY <2>1 DEF OrphanInv
  <2>4. faults * n \in Nat
    BY <2>2
  <2>5. o <= faults * n
    BY <2>2, <2>3, <2>4
  <2>. QED
    BY <2>1, <2>5 DEF OrphansAreFaults
<1>. QED
  BY <1>1, <1>2, <1>3, Invariance, PTL DEF Spec

(* The shape of the state, as the runs check it.                           *)
THEOREM TypeCorrect == Spec => []TypeOK
<1>1. IInv => TypeOK
  <2> SUFFICES ASSUME IInv PROVE TypeOK
    OBVIOUS
  <2>1. Jobs \subseteq Job
    <3>1. \A i \in DOMAIN channel : channel[i] \in Job
      BY DEF IInv, Types
    <3>2. \A k \in Watcher : watcher[k].at = "send" => watcher[k].job \in Job
      BY WatcherFacts DEF IInv
    <3>3. \A w \in Worker : worker[w].at # "idle" => worker[w].job \in Job
      BY WorkerFacts DEF IInv
    <3>. QED
      BY <3>1, <3>2, <3>3 DEF Jobs
  <2>2. \A k \in Watcher : watcher[k].at \in {"look", "send", "done"}
    BY DEF IInv, Types, Waiting, Sending
  <2>3. \A w \in Worker : /\ worker[w].at \in Steps \cup {"idle"}
                          /\ worker[w].image \in Nat
    BY WorkerFacts DEF IInv
  <2>. QED
    BY <2>1, <2>2, <2>3 DEF IInv, Types, TypeOK, Steps
<1>. QED
  BY <1>1, Invariance, PTL
===============================================================================
