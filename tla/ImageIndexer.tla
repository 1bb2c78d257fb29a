------------------------------ MODULE ImageIndexer ------------------------------
(***************************************************************************)
(* The image indexer: two watchers claim assets and collections without a  *)
(* thumbnail and send them through one bounded channel to a pool of        *)
(* workers.  A worker locks the image row of the document in PostgreSQL,   *)
(* deletes the former image at Cloudflare, downloads and uploads the new   *)
(* one, commits its id, and writes the id back to MongoDB.                 *)
(*                                                                         *)
(* None of the three stores knows of the others: a rollback undoes no      *)
(* upload and no deletion, and a write back undoes no rollback.            *)
(***************************************************************************)
EXTENDS Naturals, Sequences, FiniteSets

CONSTANTS
  Asset,       \* the assets of MongoDB
  Collection,  \* its collections
  Worker,      \* the thumbnail workers (5 in the code)
  Capacity,    \* of the channel (20 in the code)
  MaxVersion,  \* bound: new image URLs of a document
  MaxFaults    \* bound: failed calls, crashes and stop signals

Doc == Asset \cup Collection
Watcher == {"assets", "collections"}
Watched(k) == IF k = "assets" THEN Asset ELSE Collection

ASSUME ImageAssumption ==
  /\ Asset \cap Collection = {}
  /\ IsFiniteSet(Doc) /\ IsFiniteSet(Worker) /\ Worker # {}
  /\ Capacity \in Nat \ {0}
  /\ {MaxVersion, MaxFaults} \subseteq Nat

VARIABLES
  doc,       \* the thumbnail fields of a document, with the version of its URL
  meta,      \* meta[d]: the image id of d's row of image_metadata, or 0
  cloud,     \* the images at Cloudflare
  channel,   \* dataChan
  closed,    \* whether dataChan is closed
  watcher,   \* watcher[k]: what a watcher does
  worker,    \* worker[w]: what a worker does
  phase,     \* of the process: running, stopping (context cancelled), down
  faults,    \* the faults so far
  cleaned,   \* history: images removed after their transaction had failed
  late       \* history: documents claimed again while a job for them ran

vars == <<doc, meta, cloud, channel, closed, watcher, worker, phase, faults,
          cleaned, late>>
mongo == <<doc, late>>
images == <<meta, cloud, cleaned>>
process == <<channel, closed, watcher, phase>>

NoImage == 0
Job == [doc : Doc, version : 0..MaxVersion]
NoJob == [at |-> "idle", image |-> NoImage]

(* The steps in which UploadImage has its transaction, and the row lock. *)
InTransaction == {"locked", "cleared", "uploaded"}

Jobs ==
     {channel[i] : i \in DOMAIN channel}
  \cup {watcher[k].job : k \in {k \in Watcher : watcher[k].at = "send"}}
  \cup {worker[w].job : w \in {w \in Worker : worker[w].at # "idle"}}

Busy(d) == \E j \in Jobs : j.doc = d

Locks(w, d) == worker[w].at \in InTransaction /\ worker[w].job.doc = d

Goto(w, at) == worker' = [worker EXCEPT ![w] =
                            [at |-> at, job |-> @.job, image |-> @.image]]
Drop(w) == worker' = [worker EXCEPT ![w] = NoJob]

Fault == faults < MaxFaults /\ faults' = faults + 1

(* A call with the context succeeds only while the process runs; it fails  *)
(* when the context is cancelled and, as a fault, at any time.             *)
Succeeds == phase = "running" /\ UNCHANGED faults

Fails ==
  \/ phase = "stopping" /\ UNCHANGED faults
  \/ phase = "running" /\ Fault

-------------------------------------------------------------------------------
Init ==
  /\ doc = [d \in Doc |->
             [version |-> 0, thumb |-> NoImage, failed |-> FALSE, recent |-> FALSE]]
  /\ meta = [d \in Doc |-> NoImage]
  /\ cloud = {}
  /\ channel = << >>
  /\ closed = FALSE
  /\ watcher = [k \in Watcher |-> [at |-> "look"]]
  /\ worker = [w \in Worker |-> NoJob]
  /\ phase = "running"
  /\ faults = 0
  /\ cleaned = {}
  /\ late = {}

(* IndexAsset gives an asset a new thumbnail URL and unsets its thumbnail. *)
(* (IndexCollection touches none of the fields of this module.)            *)
IndexAsset(d) ==
  /\ doc[d].version < MaxVersion
  /\ doc' = [doc EXCEPT ![d].version = @ + 1, ![d].thumb = NoImage]
  /\ UNCHANGED <<late, images, process, worker, faults>>

(* The retry interval since the last claim is over.  Bound: once in a      *)
(* behaviour while a job for the document still runs.                      *)
Expire(d) ==
  /\ doc[d].recent
  /\ Busy(d) => late = {}
  /\ doc' = [doc EXCEPT ![d].recent = FALSE]
  /\ late' = IF Busy(d) THEN late \cup {d} ELSE late
  /\ UNCHANGED <<images, process, worker, faults>>

-------------------------------------------------------------------------------
(* All that the process keeps in memory, and its transactions, are gone. *)
GoDown ==
  /\ phase' = "down"
  /\ channel' = << >> /\ closed' = FALSE
  /\ watcher' = [k \in Watcher |-> [at |-> "look"]]
  /\ worker' = [w \in Worker |-> NoJob]

(* The filter of the two FindOneAndUpdate calls. *)
WithoutThumbnailAnyTime(d) ==    \* mutant: the filter on thumbnailLastCheck
  doc[d].thumb = NoImage /\ ~ doc[d].failed

WithoutThumbnail(d) ==
  doc[d].thumb = NoImage /\ ~ doc[d].failed /\ ~ doc[d].recent

(* A watcher finds a document and marks it as checked. *)
Claim(k) ==
  /\ phase = "running" /\ watcher[k].at = "look"
  /\ \E d \in Watched(k) :
       /\ WithoutThumbnail(d)
       /\ doc' = [doc EXCEPT ![d].recent = TRUE]
       /\ watcher' = [watcher EXCEPT ![k] =
            [at |-> "send", job |-> [doc |-> d, version |-> doc[d].version]]]
  /\ UNCHANGED <<late, images, channel, closed, worker, phase, faults>>

HasRoom == Len(channel) < Capacity

(* The send blocks while the channel is full. *)
Send(k) ==
  /\ watcher[k].at = "send" /\ ~ closed
  /\ HasRoom
  /\ channel' = Append(channel, watcher[k].job)
  /\ watcher' = [watcher EXCEPT ![k] = [at |-> "look"]]
  /\ UNCHANGED <<mongo, images, closed, worker, phase, faults>>

(* A send on a closed channel panics, and the process ends. *)
Panic(k) ==
  /\ watcher[k].at = "send" /\ closed
  /\ GoDown
  /\ UNCHANGED <<mongo, images, faults>>

(* With a cancelled context a look and the sleep after it end the loop; the*)
(* watcher of assets closes the channel, though the other may still send.  *)
Finish(k) ==
  /\ phase = "stopping" /\ watcher[k].at = "look"
  /\ watcher' = [watcher EXCEPT ![k] = [at |-> "done"]]
  /\ closed' = (closed \/ k = "assets")
  /\ UNCHANGED <<mongo, images, channel, worker, phase, faults>>

-------------------------------------------------------------------------------
(* A worker takes the next job until the channel is closed and empty.      *)
MayTakeWhileRunning(w) ==    \* mutant: workers end with the context
  worker[w].at = "idle" /\ channel # << >> /\ phase = "running"

MayTake(w) == worker[w].at = "idle" /\ channel # << >>

(* ... and gets or creates the row of the document. *)
Take(w) ==
  /\ MayTake(w)
  /\ channel' = Tail(channel)
  /\ \/ /\ Succeeds
        /\ worker' = [worker EXCEPT ![w] =
             [at |-> "taken", job |-> Head(channel), image |-> NoImage]]
     \/ Fails /\ UNCHANGED worker
  /\ UNCHANGED <<mongo, images, closed, watcher, phase>>

(* SELECT ... FOR UPDATE NOWAIT: a locked row is an error. *)
Lock(w) ==
  /\ worker[w].at = "taken"
  /\ \/ /\ Succeeds
        /\ IF \E v \in Worker : Locks(v, worker[w].job.doc)
             THEN Drop(w) ELSE Goto(w, "locked")
     \/ Fails /\ Drop(w)
  /\ UNCHANGED <<mongo, images, process>>

(* The former image is deleted, if it is still there; the deletion is not  *)
(* part of the transaction.                                                *)
KeepOld(w) ==    \* mutant: the former image stays at Cloudflare
  /\ worker[w].at = "locked"
  /\ Goto(w, "cleared")
  /\ UNCHANGED <<mongo, images, process, faults>>

RemoveOld(w) ==
  /\ worker[w].at = "locked"
  /\ LET old == meta[worker[w].job.doc]
     IN  \/ /\ old \notin cloud
            /\ Goto(w, "cleared")
            /\ UNCHANGED <<cloud, faults>>
         \/ /\ old \in cloud
            /\ Succeeds
            /\ cloud' = cloud \ {old}
            /\ Goto(w, "cleared")
         \/ Fails /\ Drop(w) /\ UNCHANGED cloud
  /\ UNCHANGED <<mongo, meta, cleaned, process>>

(* The image cannot be downloaded or Cloudflare refuses it: the transaction*)
(* is rolled back with a reason.                                           *)
Refuse(w) ==
  /\ worker[w].at = "cleared"
  /\ Goto(w, "refused")
  /\ UNCHANGED <<mongo, images, process, faults>>

(* The image is downloaded and uploaded, or the upload fails, with or      *)
(* without an image left at Cloudflare.  Ids are new; the model takes the  *)
(* least one that nothing refers to any more.                              *)
Referred ==
  cloud \cup cleaned \cup {meta[d] : d \in Doc} \cup {doc[d].thumb : d \in Doc}
  \cup {worker[w].image : w \in Worker}

NewImage == CHOOSE i \in 1..Cardinality(Referred) + 1 :
              i \notin Referred /\ 1..(i - 1) \subseteq Referred

Upload(w) ==
  /\ worker[w].at = "cleared"
  /\ \/ /\ Succeeds
        /\ cloud' = cloud \cup {NewImage}
        /\ worker' = [worker EXCEPT ![w] =
             [at |-> "uploaded", job |-> @.job, image |-> NewImage]]
     \/ /\ Fails
        /\ UNCHANGED cloud \/ cloud' = cloud \cup {NewImage}
        /\ Drop(w)
  /\ UNCHANGED <<mongo, meta, cleaned, process>>

(* The row is saved and the transaction committed; when the commit returns *)
(* an error it may have taken place all the same.                          *)
Recorded(w) == [meta EXCEPT ![worker[w].job.doc] = worker[w].image]

Commit(w) ==
  /\ worker[w].at = "uploaded"
  /\ \/ Succeeds /\ meta' = Recorded(w) /\ Goto(w, "write")
     \/ Fails /\ meta' \in {meta, Recorded(w)} /\ Goto(w, "clean")
  /\ UNCHANGED <<mongo, cloud, cleaned, process>>

(* After a failed transaction the image is deleted.  The result of the     *)
(* deletion takes the place of the error: when it succeeds UploadImage     *)
(* returns the deleted image and no error.                                 *)
Clean(w) ==
  /\ worker[w].at = "clean"
  /\ \/ /\ Succeeds
        /\ cloud' = cloud \ {worker[w].image}
        /\ cleaned' = cleaned \cup {worker[w].image}
        /\ Goto(w, "write")
     \/ Fails /\ Drop(w) /\ UNCHANGED <<cloud, cleaned>>
  /\ UNCHANGED <<mongo, meta, process>>

(* updateAssetThumbnail and updateCollectionThumbnail: whatever has become *)
(* of the document since it was claimed.                                   *)
WriteBack(w) ==
  /\ worker[w].at = "write"
  /\ \/ /\ Succeeds
        /\ doc' = [doc EXCEPT ![worker[w].job.doc].thumb = worker[w].image]
     \/ Fails /\ UNCHANGED doc
  /\ Drop(w)
  /\ UNCHANGED <<late, images, process>>

(* markAssetThumbnailFailed looks for an asset: with the id of a collection*)
(* it finds none.                                                          *)
MarkedNever(w) == doc    \* mutant: looks for the id in the wrong field

Marked(w) ==
  [doc EXCEPT ![worker[w].job.doc].failed = @ \/ worker[w].job.doc \in Asset]

MarkFailed(w) ==
  /\ worker[w].at = "refused"
  /\ \/ Succeeds /\ doc' = Marked(w)
     \/ Fails /\ UNCHANGED doc
  /\ Drop(w)
  /\ UNCHANGED <<late, images, process>>

-------------------------------------------------------------------------------
(* SIGTERM cancels the context; a crash is the same without the rest. *)
Stop ==
  /\ phase = "running" /\ Fault
  /\ phase' = "stopping"
  /\ UNCHANGED <<mongo, images, channel, closed, watcher, worker>>

Crash ==
  /\ phase # "down" /\ Fault
  /\ GoDown
  /\ UNCHANGED <<mongo, images>>

(* The wait group is done when both watchers and all workers are. *)
Exit ==
  /\ phase = "stopping"
  /\ \A k \in Watcher : watcher[k].at = "done"
  /\ channel = << >> /\ \A w \in Worker : worker[w].at = "idle"
  /\ GoDown
  /\ UNCHANGED <<mongo, images, faults>>

Start ==
  /\ phase = "down"
  /\ phase' = "running"
  /\ UNCHANGED <<mongo, images, channel, closed, watcher, worker, faults>>

WatcherStep(k) == Claim(k) \/ Send(k) \/ Panic(k) \/ Finish(k)

WorkerStep(w) ==
  \/ Take(w) \/ Lock(w) \/ RemoveOld(w) \/ Refuse(w) \/ Upload(w)
  \/ Commit(w) \/ Clean(w) \/ WriteBack(w) \/ MarkFailed(w)

Next ==
  \/ \E d \in Asset : IndexAsset(d)
  \/ \E d \in Doc : Expire(d)
  \/ \E k \in Watcher : WatcherStep(k)
  \/ \E w \in Worker : WorkerStep(w)
  \/ Stop \/ Crash \/ Exit \/ Start

(* Goroutines go on, time passes, a process that has ended is restarted.   *)
(* Blocked senders of a channel are served in their order.                 *)
Fairness ==
  /\ \A k \in Watcher : WF_vars(WatcherStep(k)) /\ SF_vars(Send(k))
  /\ \A w \in Worker : WF_vars(WorkerStep(w))
  /\ \A d \in Doc : WF_vars(Expire(d))
  /\ WF_vars(Exit) /\ WF_vars(Start)

Spec == Init /\ [][Next]_vars /\ Fairness

-------------------------------------------------------------------------------
(* The shape of the documents, the rows, the channel and the goroutines. *)
TypeOK ==
  /\ doc \in [Doc -> [version : 0..MaxVersion, thumb : Nat,
                      failed : BOOLEAN, recent : BOOLEAN]]
  /\ meta \in [Doc -> Nat]
  /\ cloud \cup cleaned \subseteq Nat \ {NoImage}
  /\ Len(channel) <= Capacity /\ closed \in BOOLEAN
  /\ Jobs \subseteq Job
  /\ \A k \in Watcher : watcher[k].at \in {"look", "send", "done"}
  /\ \A w \in Worker :
       /\ worker[w].at \in InTransaction \cup
            {"idle", "taken", "refused", "clean", "write"}
       /\ worker[w].image \in Nat
  /\ phase \in {"running", "stopping", "down"}
  /\ faults \in 0..MaxFaults /\ late \subseteq Doc

(***************************************************************************)
(* A thumbnail written to a document is the recorded image of its row and  *)
(* is still at Cloudflare, over new URLs, retries, crashes and shutdowns,  *)
(* as long as jobs are shorter than the retry interval.  The exception is  *)
(* an image that was removed after its transaction had failed.             *)
(***************************************************************************)
ThumbnailIsKept ==
  \A d \in Doc \ late :
    LET i == doc[d].thumb
    IN  i \in {NoImage} \cup cleaned \/ (i \in cloud /\ i = meta[d])

(***************************************************************************)
(* The former image is removed before a new one is created: an image that  *)
(* no row records and no worker holds is what a failed call, a crash or a  *)
(* shutdown left, one of each worker at most.                              *)
(***************************************************************************)
InHand == {worker[w].image : w \in {w \in Worker : worker[w].at \in {"uploaded", "clean"}}}
Orphans == cloud \ ({meta[d] : d \in Doc} \cup InHand)

OrphansAreFaults == Cardinality(Orphans) <= faults * Cardinality(Worker)

(* In the end each asset has a thumbnail or the reason why it has none     *)
(* (a collection whose image cannot be had is tried again for ever).       *)
AssetsAreSettled ==
  \A d \in Asset : <>[](doc[d].thumb # NoImage \/ doc[d].failed)

(* A stop signal ends the process: no watcher blocks on a full channel and *)
(* no worker on an empty one.                                              *)
ShutdownEnds == phase = "stopping" ~> phase # "stopping"

-------------------------------------------------------------------------------
(* What comments of the code say and the code does not do. *)

(* service.go:113-114: the thumbnail is updated if the whole process has   *)
(* succeeded, and to an empty value otherwise.                             *)
ThumbnailExists == \A d \in Doc \ late : doc[d].thumb \in {NoImage} \cup cloud

(* store.go:316 of the repository: a new URL resets the image cache, so a  *)
(* thumbnail made from an older URL is not written after that.             *)
WrittenIsCurrent ==
  [][\A w \in Worker :
       worker[w].at = "write" /\ worker'[w].at = "idle" /\ doc' # doc =>
         worker[w].job.version = doc[worker[w].job.doc].version]_vars

(* DEVELOPMENT.md:203: a failed download is retried. *)
FailedIsRetried ==
  \A d \in Asset : (doc[d].failed /\ doc[d].thumb = NoImage) ~> Busy(d)
===============================================================================
