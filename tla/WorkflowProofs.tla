---------------------------- MODULE WorkflowProofs -----------------------------
(***************************************************************************)
(* Proofs about TokenSales, ExchangeRates and AccountIndexing, for every   *)
(* set of transactions, every chain, every list of pairs, window and batch *)
(* size, every finite set of tokens, page size and number of workflows,    *)
(* and every number of requests and failures: a sale is stored once, the   *)
(* closest rate is the one that is used, the runs of the cron leave no     *)
(* gap, and an account that is said to be indexed to a block has all the   *)
(* tokens that moved up to it.                                             *)
(***************************************************************************)
EXTENDS TokenSales, ExchangeRates, AccountIndexing, SequenceTheorems,
        FiniteSetTheorems, WellFoundedInduction, TLAPS

-----------------------------------------------------------------------------
(* Sales.                                                                   *)

Step == {"none", "check", "parse", "delete", "insert", "done", "failed"}
Job == [at : Step, by : {"caller", "scan"}]
Place == {"none", "delete", "insert"}

(* A transaction that nobody else has written: its sale is deleted before   *)
(* it is inserted, by the one writer there is.                              *)
Undisturbed(j, d) == IF j.at = "insert" THEN d = <<>> ELSE d = <<>> \/ Len(d) = 1

SalesIInv ==
  /\ jobs \in [Tx -> Job]
  /\ writer \in [Tx -> Place]
  /\ docs = [t \in Tx |-> docs[t]]
  /\ \A t \in Tx : writer[t] # "none" => t \in overlapped
  /\ \A t \in Tx \ overlapped : Undisturbed(jobs[t], docs[t])

(* A step of the workflow or another writer of one transaction.             *)
LEMMA OneStep ==
  ASSUME SalesIInv, NEW t \in Tx, NEW job \in Job, NEW d, NEW place \in Place,
         jobs' = [jobs EXCEPT ![t] = job], docs' = [docs EXCEPT ![t] = d],
         writer' = [writer EXCEPT ![t] = place],
         overlapped \subseteq overlapped',
         place # "none" => t \in overlapped',
         t \notin overlapped' => Undisturbed(job, d)
  PROVE  SalesIInv'
<1>1. \A x \in Tx : /\ jobs'[x] = (IF x = t THEN job ELSE jobs[x])
                     /\ docs'[x] = (IF x = t THEN d ELSE docs[x])
                     /\ writer'[x] = (IF x = t THEN place ELSE writer[x])
  BY DEF SalesIInv
<1>2. jobs' \in [Tx -> Job] /\ writer' \in [Tx -> Place]
  BY DEF SalesIInv
<1>3. docs' = [x \in Tx |-> docs'[x]]
  BY DEF SalesIInv
<1>4. \A x \in Tx : writer'[x] # "none" => x \in overlapped'
  BY <1>1 DEF SalesIInv
<1>5. \A x \in Tx \ overlapped' : Undisturbed(jobs'[x], docs'[x])
  BY <1>1 DEF SalesIInv
<1>. QED
  BY <1>2, <1>3, <1>4, <1>5 DEF SalesIInv

(* The step a workflow is at tells what is stored of its transaction.       *)
LEMMA StoredDocs ==
  ASSUME SalesIInv, NEW t \in Tx, t \notin overlapped
  PROVE  /\ docs[t] = <<>> \/ Len(docs[t]) = 1
         /\ jobs[t].at = "insert" => docs[t] = <<>>
  BY DEF SalesIInv, Undisturbed

(* A step of the workflow that writes no document.                          *)
LEMMA JobOnly ==
  ASSUME SalesIInv, NEW t \in Tx, NEW job \in Job, job.at # "insert",
         jobs' = [jobs EXCEPT ![t] = job], docs' = docs, writer' = writer,
         overlapped' = overlapped
  PROVE  SalesIInv'
<1>1. jobs' \in [Tx -> Job] /\ \A x \in Tx : jobs'[x] = IF x = t THEN job ELSE jobs[x]
  BY DEF SalesIInv
<1>2. \A x \in Tx \ overlapped' : Undisturbed(jobs'[x], docs'[x])
  BY <1>1, StoredDocs DEF Undisturbed
<1>. QED
  BY <1>1, <1>2 DEF SalesIInv

(* The step that a workflow goes to.                                        *)
LEMMA GoesTo ==
  ASSUME SalesIInv, NEW t \in Tx, NEW step \in Step, Goes(t, step)
  PROVE  /\ [at |-> step, by |-> jobs[t].by] \in Job
         /\ jobs' = [jobs EXCEPT ![t] = [at |-> step, by |-> jobs[t].by]]
<1>1. jobs[t].by \in {"caller", "scan"}
  BY DEF SalesIInv, Job
<1>. QED
  BY <1>1 DEF Job, Goes

(* A step of the workflow of t that may write its documents.                *)
LEMMA Writes ==
  ASSUME SalesIInv, NEW t \in Tx, NEW step \in Step, Goes(t, step), NEW d,
         docs' = [docs EXCEPT ![t] = d], writer' = writer, overlapped' = overlapped,
         t \notin overlapped =>
           IF step = "insert" THEN d = <<>> ELSE d = <<>> \/ Len(d) = 1
  PROVE  SalesIInv'
<1> DEFINE job == [at |-> step, by |-> jobs[t].by]
<1>1. job \in Job /\ jobs' = [jobs EXCEPT ![t] = job]
  BY GoesTo
<1>2. writer[t] \in Place /\ writer' = [writer EXCEPT ![t] = writer[t]]
  BY DEF SalesIInv
<1>3. writer[t] # "none" => t \in overlapped'
  BY DEF SalesIInv
<1>4. t \notin overlapped' => Undisturbed(job, d)
  BY DEF Undisturbed
<1>. QED
  BY <1>1, <1>2, <1>3, <1>4, OneStep

(* One document is there after a sale was inserted where there was none.    *)
LEMMA OneDocument == ASSUME NEW x PROVE Len(Append(<<>>, x)) = 1
<1>1. <<>> \in Seq({x}) /\ Len(<<>>) = 0
  OBVIOUS
<1>. QED
  BY <1>1

(* The workflow of one transaction: WriteTimeSeriesData deletes and inserts.*)
LEMMA WorkflowKeeps ==
  ASSUME SalesIInv, NEW t \in Tx,
         \/ StartIndexingTokenSale(t) \/ IndexedSaleTx(t) \/ ParseTokenSale(t)
         \/ DeleteSale(t) \/ InsertSale(t) \/ RetryWrite(t)
  PROVE  SalesIInv'
<1>1. /\ docs = [docs EXCEPT ![t] = docs[t]]
      /\ Without(t) = [docs EXCEPT ![t] = <<>>]
      /\ With(t) = [docs EXCEPT ![t] = Append(docs[t], Parsed(t))]
  BY DEF SalesIInv, Without, With
<1>2. CASE StartIndexingTokenSale(t)
  <2> DEFINE job == [at |-> "check", by |-> "caller"]
  <2>1. job \in Job /\ job.at # "insert"
    BY DEF Job, Step
  <2>. QED
    BY <1>2, <2>1, JobOnly DEF StartIndexingTokenSale
<1>3. CASE IndexedSaleTx(t) \/ ParseTokenSale(t)
  <2>1. PICK step \in {"done", "parse", "failed", "delete"} : Goes(t, step)
    BY <1>3 DEF IndexedSaleTx, ParseTokenSale
  <2>2. step \in Step
    BY DEF Step
  <2>. QED
    BY <1>3, <2>1, <2>2, GoesTo, JobOnly DEF IndexedSaleTx, ParseTokenSale
<1>4. CASE DeleteSale(t)
  BY <1>1, <1>4, Writes DEF DeleteSale, Step
<1>5. CASE InsertSale(t)
  <2>1. t \notin overlapped => Len(Append(docs[t], Parsed(t))) = 1
    BY <1>5, StoredDocs, OneDocument DEF InsertSale
  <2>. QED
    BY <1>1, <1>5, <2>1, Writes DEF InsertSale, Step
<1>6. CASE RetryWrite(t)
  <2>1. PICK d : /\ docs' = [docs EXCEPT ![t] = d]
                 /\ \/ d = docs[t] \/ d = <<>>
                    \/ jobs[t].at = "insert" /\ d = Append(docs[t], Parsed(t))
    BY <1>1, <1>6 DEF RetryWrite
  <2>2. t \notin overlapped => d = <<>> \/ Len(d) = 1
    BY <2>1, StoredDocs, OneDocument
  <2>. QED
    BY <1>6, <2>1, <2>2, Writes DEF RetryWrite, Step
<1>. QED
  BY <1>2, <1>3, <1>4, <1>5, <1>6

(* What a step adds to the writers of transactions is recorded.             *)
LEMMA OthersRecorded ==
  ASSUME SalesIInv, Overlaps(writer'), writer' \in [Tx -> Place], docs' = docs,
         \A t \in Tx : writer[t] # "none" => writer'[t] # "none",
         jobs' \in [Tx -> Job],
         \A t \in Tx : jobs'[t].at = "insert" => jobs'[t] = jobs[t]
  PROVE  SalesIInv'
<1>1. overlapped' = overlapped \cup {t \in Tx : writer'[t] # "none"}
  BY DEF Overlaps
<1>2. \A t \in Tx \ overlapped' : Undisturbed(jobs'[t], docs'[t])
  <2> SUFFICES ASSUME NEW t \in Tx \ overlapped' PROVE Undisturbed(jobs'[t], docs'[t])
    OBVIOUS
  <2>1. t \in Tx /\ t \notin overlapped
    BY <1>1
  <2>. QED
    BY <2>1, StoredDocs DEF Undisturbed
<1>3. docs' = [t \in Tx |-> docs'[t]]
  BY DEF SalesIInv
<1>. QED
  BY <1>1, <1>2, <1>3 DEF SalesIInv

(* A writing attempt that is left running, or none.                         *)
LEMMA LeftIsPlace ==
  ASSUME SalesIInv, NEW t \in Tx
  PROVE  /\ Left(t, writer) \in [Tx -> Place]
         /\ \A x \in Tx : writer[x] # "none" => Left(t, writer)[x] # "none"
<1>1. CASE jobs[t].at \in {"delete", "insert"} /\ writer[t] = "none"
  <2>1. Left(t, writer) = [writer EXCEPT ![t] = jobs[t].at]
    BY <1>1 DEF Left
  <2>. QED
    BY <1>1, <2>1 DEF SalesIInv, Place
<1>2. CASE ~ (jobs[t].at \in {"delete", "insert"} /\ writer[t] = "none")
  BY <1>2 DEF Left, SalesIInv
<1>. QED
  BY <1>1, <1>2

(* An attempt at writing times out, or the workflow fails: another writer   *)
(* may remain, and then it is recorded.                                     *)
LEMMA TimeOutKeeps ==
  ASSUME SalesIInv, NEW t \in Tx, TimeOutWrite(t) \/ FailJob(t)
  PROVE  SalesIInv'
<1>1. PICK step \in {"delete", "check", "failed"} : Goes(t, step)
  BY DEF TimeOutWrite, FailJob
<1>2. jobs' = [jobs EXCEPT ![t] = [at |-> step, by |-> jobs[t].by]]
      /\ [at |-> step, by |-> jobs[t].by] \in Job
  BY <1>1, GoesTo DEF Step
<1>3. jobs' \in [Tx -> Job]
  BY <1>2 DEF SalesIInv
<1>4. \A x \in Tx : jobs'[x].at = "insert" => jobs'[x] = jobs[x]
  BY <1>2 DEF SalesIInv
<1>5. writer' \in {writer, Left(t, writer)} /\ Overlaps(writer') /\ docs' = docs
  BY DEF TimeOutWrite, FailJob
<1>6. writer' \in [Tx -> Place] /\ \A x \in Tx : writer[x] # "none" => writer'[x] # "none"
  BY <1>5, LeftIsPlace DEF SalesIInv
<1>. QED
  BY <1>3, <1>4, <1>5, <1>6, OthersRecorded

(* Another writer of the transaction: a client, or an attempt left running. *)
LEMMA WriterKeeps ==
  ASSUME SalesIInv, NEW t \in Tx, RecordSale(t) \/ OtherDeletes(t) \/ OtherInserts(t)
  PROVE  SalesIInv'
<1>1. CASE RecordSale(t)
  <2>1. writer' = [writer EXCEPT ![t] = "delete"] /\ Overlaps(writer')
        /\ jobs' = jobs /\ docs' = docs
    BY <1>1 DEF RecordSale
  <2>2. writer' \in [Tx -> Place] /\ \A x \in Tx : writer[x] # "none" => writer'[x] # "none"
    BY <2>1 DEF SalesIInv, Place
  <2>3. jobs' \in [Tx -> Job]
    BY <2>1 DEF SalesIInv
  <2>. QED
    BY <2>1, <2>2, <2>3, OthersRecorded
<1>2. CASE OtherDeletes(t) \/ OtherInserts(t)
  <2>1. t \in overlapped
    BY <1>2 DEF OtherDeletes, OtherInserts, SalesIInv
  <2>2. PICK d : docs' = [docs EXCEPT ![t] = d]
    <3>1. docs = [docs EXCEPT ![t] = docs[t]]
      BY DEF SalesIInv
    <3>. QED
      BY <1>2, <3>1 DEF OtherDeletes, OtherInserts, Without, With
  <2>3. PICK place \in Place : writer' = [writer EXCEPT ![t] = place]
    BY <1>2 DEF OtherDeletes, OtherInserts, Place
  <2>4. jobs[t] \in Job /\ jobs' = [jobs EXCEPT ![t] = jobs[t]]
    BY <1>2 DEF OtherDeletes, OtherInserts, SalesIInv
  <2>5. overlapped' = overlapped
    BY <1>2 DEF OtherDeletes, OtherInserts
  <2>. QED
    BY <2>1, <2>2, <2>3, <2>4, <2>5, OneStep
<1>. QED
  BY <1>1, <1>2

(* The scan starts its children, and takes them with it when it stops.      *)
LEMMA ScanKeeps ==
  ASSUME SalesIInv, StartScan \/ StartChildren \/ EndStep \/ ScanFails \/ ScanTimesOut
  PROVE  SalesIInv'
<1>1. CASE StartScan \/ EndStep
  BY <1>1 DEF StartScan, EndStep, SalesIInv
<1>2. CASE StartChildren
  <2> DEFINE child == [at |-> "check", by |-> "scan"]
  <2>1. PICK S : jobs' = [t \in Tx |-> IF t \in S THEN child ELSE jobs[t]]
    BY <1>2 DEF StartChildren
  <2>2. child \in Job /\ child.at # "insert"
    BY DEF Job, Step
  <2>3. jobs' \in [Tx -> Job]
    BY <2>1, <2>2 DEF SalesIInv
  <2>4. UNCHANGED <<docs, writer, overlapped>>
    BY <1>2 DEF StartChildren
  <2>5. \A t \in Tx \ overlapped' : Undisturbed(jobs'[t], docs'[t])
    BY <2>1, <2>2, <2>4, StoredDocs DEF Undisturbed
  <2>. QED
    BY <2>3, <2>4, <2>5 DEF SalesIInv
<1>3. CASE StopScan
  <2> DEFINE S == {t \in scan.children : Running(t)}
  <2>1. /\ jobs' = [t \in Tx |-> IF t \in S THEN NoJob ELSE jobs[t]]
        /\ writer' = [t \in Tx |-> IF t \in S THEN Left(t, writer)[t] ELSE writer[t]]
        /\ Overlaps(writer') /\ docs' = docs
    BY <1>3 DEF StopScan
  <2>2. NoJob \in Job /\ NoJob.at # "insert"
    BY DEF NoJob, Job, Step
  <2>3. jobs' \in [Tx -> Job] /\ \A t \in Tx : jobs'[t].at = "insert" => jobs'[t] = jobs[t]
    BY <2>1, <2>2 DEF SalesIInv
  <2>4. \A t \in Tx : /\ Left(t, writer)[t] \in Place /\ writer[t] \in Place
                      /\ writer[t] # "none" => Left(t, writer)[t] # "none"
    BY LeftIsPlace DEF SalesIInv
  <2>5. writer' \in [Tx -> Place] /\ \A t \in Tx : writer[t] # "none" => writer'[t] # "none"
    BY <2>1, <2>4
  <2>. QED
    BY <2>1, <2>3, <2>5, OthersRecorded
<1>. QED
  BY <1>1, <1>2, <1>3 DEF ScanFails, ScanTimesOut

(* Every step of the workflows, the scan and the clients keeps SalesIInv.        *)
LEMMA SalesStepKeeps == SalesIInv /\ [SalesNext]_salesVars => SalesIInv'
<1> SUFFICES ASSUME SalesIInv, [SalesNext]_salesVars PROVE SalesIInv'
  OBVIOUS
<1>1. ASSUME NEW t \in Tx,
             \/ StartIndexingTokenSale(t) \/ RecordSale(t)
             \/ IndexedSaleTx(t) \/ ParseTokenSale(t)
             \/ DeleteSale(t) \/ InsertSale(t)
             \/ OtherDeletes(t) \/ OtherInserts(t)
             \/ RetryWrite(t) \/ TimeOutWrite(t) \/ FailJob(t)
      PROVE  SalesIInv'
  BY <1>1, WorkflowKeeps, TimeOutKeeps, WriterKeeps
<1>2. CASE StartScan \/ StartChildren \/ EndStep \/ ScanFails \/ ScanTimesOut
  BY <1>2, ScanKeeps
<1>3. CASE UNCHANGED salesVars
  BY <1>3 DEF salesVars, SalesIInv
<1>. QED
  BY <1>1, <1>2, <1>3 DEF SalesNext

(* Nothing is stored and nobody writes at the start.                        *)
LEMMA SalesInitHolds == SalesInit => SalesIInv
  BY DEF SalesInit, SalesIInv, NoJob, Job, Step, Place, Undisturbed

(* A sale is stored once, however often its workflow is started again and   *)
(* its writing retried (WriteTimeSeriesData, store.go), unless an attempt   *)
(* that had timed out or a client of the API wrote it at the same time.     *)
THEOREM SaleIsStoredOnce == SalesSpec => []SoldOnce
<1>1. SalesIInv => SoldOnce
  <2> SUFFICES ASSUME SalesIInv, NEW t \in Tx \ overlapped PROVE Len(docs[t]) <= 1
    BY DEF SoldOnce
  <2>1. docs[t] = <<>> \/ Len(docs[t]) = 1
    BY StoredDocs
  <2>2. ASSUME docs[t] = <<>> PROVE Len(docs[t]) = 0
    <3>1. Len(docs[t]) = Len(<<>>)
      BY <2>2, Zenon
    <3>. QED
      BY <3>1
  <2>3. Len(docs[t]) = 0 \/ Len(docs[t]) = 1
    BY <2>1, <2>2, Zenon
  <2> DEFINE n == Len(docs[t])
  <2>4. n = 0 \/ n = 1
    BY <2>3
  <2> HIDE DEF n
  <2>5. n <= 1
    BY <2>4
  <2>. QED
    BY <2>5 DEF n
<1>. QED
  BY <1>1, SalesInitHolds, SalesStepKeeps, PTL DEF SalesSpec

-----------------------------------------------------------------------------
(* The scan.                                                                *)

(* A sale that is stored and that no workflow is about to delete.           *)
Recorded(t) ==
  \/ t \in overlapped \/ Parsed(t).outcome # "sale"
  \/ docs[t] # <<>> /\ jobs[t].at \notin {"parse", "delete", "insert"}

ScanInv ==
  /\ chain.list \in Seq(SUBSET Tx)
  /\ scan \in [at : {"idle", "query", "wait", "done", "failed"}, start : Nat \ {0},
               children : SUBSET Tx, broken : BOOLEAN]
  /\ \A t \in Tx : jobs[t].at = "done" => Recorded(t)
  /\ \A t \in scan.children : jobs[t].at # "none"
  /\ scan.at \in {"query", "wait"} =>
       \A i \in DOMAIN List : i < scan.start => \A t \in List[i] : Recorded(t)
  /\ scan.at = "wait" /\ ~ scan.broken =>
       \A t \in UNION Elements(Page(scan.start)) : t \in scan.children \/ Recorded(t)
  /\ scan.at = "done" => \A t \in UNION Elements(List) : Recorded(t)

(* The pages of a scan follow each other, and the last one ends the list.   *)
LEMMA PageFacts ==
  ASSUME ScanInv, NEW start \in Nat \ {0}
  PROVE  /\ \A i \in DOMAIN List : i >= start /\ i < NextStart(start) =>
              List[i] \in Elements(Page(start))
         /\ LastStep(start) => \A i \in DOMAIN List : i >= start =>
              List[i] \in Elements(Page(start))
         /\ Elements(Page(start)) \subseteq SUBSET Tx
         /\ NextStart(start) \in Nat \ {0}
<1> DEFINE stop == IF Ethereum THEN start + Batch ELSE start + Batch - 1
           end == IF stop > Len(List) THEN Len(List) ELSE stop
<1>1. /\ List \in Seq(SUBSET Tx) /\ Len(List) \in Nat /\ DOMAIN List = 1..Len(List)
      /\ Batch \in Nat /\ Batch >= 1
  BY SalesAssumption DEF ScanInv, List
<1>2. stop \in Nat /\ stop >= start /\ end \in Nat /\ end <= Len(List) /\ end <= stop
  BY <1>1
<1>3. Page(start) = SubSeq(List, start, end)
  BY DEF Page
<1> HIDE DEF stop, end
<1>4. /\ Page(start) \in Seq(SUBSET Tx)
      /\ Len(Page(start)) = IF start <= end THEN end - start + 1 ELSE 0
      /\ \A j \in 1..(end - start + 1) : Page(start)[j] = List[start + j - 1]
  <2>1. \A i \in start..end : List[i] \in SUBSET Tx
    BY <1>1, <1>2
  <2>. QED
    BY <1>2, <1>3, <2>1, SubSeqProperties
<1>5. ASSUME NEW i \in DOMAIN List, i >= start, i <= end PROVE List[i] \in Elements(Page(start))
  <2>1. PICK j : j = i - start + 1
    OBVIOUS
  <2>2. j \in 1..(end - start + 1) /\ start + j - 1 = i
    BY <1>1, <1>2, <1>5, <2>1
  <2>3. j \in DOMAIN Page(start) /\ Page(start)[j] = List[i]
    BY <1>2, <1>4, <2>2
  <2>. QED
    BY <2>3 DEF Elements
<1>6. Elements(Page(start)) \subseteq SUBSET Tx
  BY <1>4 DEF Elements
<1>7. /\ Len(Page(start)) \in Nat /\ (Page(start) = <<>> => end < start)
      /\ Len(Page(start)) = IF end >= start THEN end - start + 1 ELSE 0
  <2>1. Len(Page(start)) \in Nat /\ (Page(start) = <<>> => Len(Page(start)) = 0)
    BY <1>4, EmptySeq
  <2>. QED
    BY <1>2, <1>4, <2>1
<1>8. ASSUME NEW i \in DOMAIN List, i >= start, i < NextStart(start)
      PROVE  List[i] \in Elements(Page(start))
  <2>1. i <= end
    <3>1. CASE Ethereum
      BY <1>1, <1>2, <1>8, <3>1 DEF NextStart, stop, end
    <3>2. CASE ~ Ethereum
      <4>1. i < start + Len(Page(start))
        BY <1>8, <3>2 DEF NextStart
      <4>. QED
        BY <1>1, <1>2, <1>7, <1>8, <4>1
    <3>. QED
      BY <3>1, <3>2
  <2>. QED
    BY <1>5, <1>8, <2>1
<1>9. ASSUME LastStep(start), NEW i \in DOMAIN List, i >= start
      PROVE  List[i] \in Elements(Page(start))
  <2>1. i <= end
    <3>1. CASE Ethereum
      <4>1. start + Batch >= Len(List)
        BY <1>9, <3>1 DEF LastStep
      <4>. QED
        BY <1>1, <1>2, <1>9, <3>1, <4>1 DEF stop, end
    <3>2. CASE ~ Ethereum
      <4>1. end < start
        BY <1>7, <1>9, <3>2 DEF LastStep
      <4>. QED
        BY <1>1, <1>2, <1>9, <4>1 DEF end
    <3>. QED
      BY <3>1, <3>2
  <2>. QED
    BY <1>5, <1>9, <2>1
<1>10. NextStart(start) \in Nat \ {0}
  BY <1>1, <1>7 DEF NextStart
<1>. QED
  BY <1>6, <1>8, <1>9, <1>10

(* What is recorded stays so, and a workflow that is done has recorded its  *)
(* sale.  Only another writer can delete it.                                *)
LEMMA OverlapsAdds ==
  ASSUME NEW w, Overlaps(w)
  PROVE  overlapped \subseteq overlapped'
  BY DEF Overlaps

LEMMA ParsedStays ==
  ASSUME chain' = chain
  PROVE  /\ List' = List
         /\ \A t : Parsed(t)' = Parsed(t)
         /\ \A start : Page(start)' = Page(start)
<1>1. Ethereum' <=> Ethereum
  BY DEF Ethereum
<1>2. List' = List
  BY DEF List
<1>. QED
  BY <1>1, <1>2 DEF Parsed, Page

LEMMA RecordedStays ==
  ASSUME SalesIInv, NEW t, chain' = chain, overlapped \subseteq overlapped',
         docs'[t] # <<>> \/ docs'[t] = docs[t] \/ t \in overlapped,
         jobs'[t].at \in {"parse", "delete", "insert"} =>
           \/ jobs[t].at \in {"parse", "delete", "insert"}
           \/ jobs[t].at = "check" /\ docs[t] = <<>>,
         Recorded(t)
  PROVE  Recorded(t)'
<1>1. Parsed(t)' = Parsed(t)
  BY ParsedStays
<1>. QED
  BY <1>1 DEF Recorded

(* What a step on one transaction does to the workflows and documents.      *)
LEMMA OneJobMoves ==
  ASSUME SalesIInv, NEW t \in Tx,
         \/ StartIndexingTokenSale(t) \/ RecordSale(t)
         \/ IndexedSaleTx(t) \/ ParseTokenSale(t)
         \/ DeleteSale(t) \/ InsertSale(t)
         \/ OtherDeletes(t) \/ OtherInserts(t)
         \/ RetryWrite(t) \/ TimeOutWrite(t) \/ FailJob(t)
  PROVE  /\ chain' = chain /\ overlapped \subseteq overlapped'
         /\ \A x \in Tx \ {t} : jobs'[x] = jobs[x] /\ docs'[x] = docs[x]
         /\ Recorded(t) => Recorded(t)'
         /\ jobs'[t].at = "done" => jobs[t].at = "done" \/ Recorded(t)'
         /\ jobs[t].at # "none" => jobs'[t].at # "none"
<1>1. jobs \in [Tx -> Job] /\ docs = [x \in Tx |-> docs[x]]
  BY DEF SalesIInv
<1>2. chain' = chain
  BY DEF StartIndexingTokenSale, RecordSale, IndexedSaleTx, ParseTokenSale, DeleteSale, InsertSale,
     OtherDeletes, OtherInserts, RetryWrite, TimeOutWrite, FailJob
<1>3. overlapped \subseteq overlapped'
  BY OverlapsAdds DEF StartIndexingTokenSale, RecordSale, IndexedSaleTx, ParseTokenSale, DeleteSale,
     InsertSale, OtherDeletes, OtherInserts, RetryWrite, TimeOutWrite, FailJob
<1>4. /\ \A x \in Tx \ {t} : jobs'[x] = jobs[x]
      /\ jobs[t].at # "none" => jobs'[t].at # "none"
      /\ \/ jobs' = jobs \/ StartIndexingTokenSale(t)
         \/ \E step : jobs'[t].at = step /\ Goes(t, step)
  BY <1>1 DEF StartIndexingTokenSale, RecordSale, IndexedSaleTx, ParseTokenSale, DeleteSale,
     InsertSale, OtherDeletes, OtherInserts, RetryWrite, TimeOutWrite, FailJob, Goes, Running
<1>5. \A x \in Tx \ {t} : docs'[x] = docs[x]
  BY <1>1 DEF StartIndexingTokenSale, RecordSale, IndexedSaleTx, ParseTokenSale, DeleteSale,
     InsertSale, OtherDeletes, OtherInserts, RetryWrite, TimeOutWrite, FailJob, Without, With
<1>6. Parsed(t)' = Parsed(t)
  BY <1>2, ParsedStays
<1>7. CASE \/ StartIndexingTokenSale(t) \/ RecordSale(t) \/ TimeOutWrite(t) \/ FailJob(t)
  <2>1. /\ docs' = docs
        /\ \/ jobs' = jobs \/ jobs'[t].at \in {"check", "failed"}
           \/ jobs[t].at \in {"delete", "insert"} /\ jobs'[t].at = "delete"
    BY <1>1, <1>7 DEF StartIndexingTokenSale, RecordSale, TimeOutWrite, FailJob, Goes
  <2>. QED
    BY <1>2, <1>3, <1>4, <1>5, <2>1, <1>6 DEF Recorded
<1>8. CASE IndexedSaleTx(t) \/ ParseTokenSale(t)
  <2>1. docs' = docs
    BY <1>8 DEF IndexedSaleTx, ParseTokenSale
  <2>2. \/ /\ jobs[t].at = "check" /\ docs[t] # <<>> /\ jobs'[t].at = "done"
        \/ /\ jobs[t].at = "check" /\ docs[t] = <<>> /\ jobs'[t].at = "parse"
        \/ /\ jobs[t].at = "parse" /\ jobs'[t].at \in {"failed", "delete"}
        \/ /\ jobs[t].at = "parse" /\ jobs'[t].at = "done" /\ Parsed(t).outcome = "none"
    BY <1>1, <1>8 DEF IndexedSaleTx, ParseTokenSale, Goes
  <2>. QED
    BY <1>2, <1>3, <1>4, <1>5, <1>6, <2>1, <2>2 DEF Recorded
<1>9. CASE DeleteSale(t) \/ InsertSale(t) \/ RetryWrite(t)
  <2>1. /\ jobs[t].at \in {"delete", "insert"}
        /\ \/ jobs'[t].at \in {"delete", "insert"}
           \/ jobs'[t].at = "done" /\ jobs[t].at = "insert" /\ docs'[t] = Append(docs[t], Parsed(t))
    BY <1>1, <1>9 DEF DeleteSale, InsertSale, RetryWrite, Goes, With
  <2>2. t \notin overlapped /\ jobs[t].at = "insert" => docs[t] = <<>>
    BY StoredDocs
  <2>3. Append(<<>>, Parsed(t)) # <<>>
    OBVIOUS
  <2>4. jobs'[t].at = "done" => Recorded(t)'
    BY <1>3, <1>6, <2>1, <2>2, <2>3 DEF Recorded
  <2>5. Recorded(t) => Recorded(t)'
    BY <1>3, <1>6, <2>1 DEF Recorded
  <2>. QED
    BY <1>2, <1>3, <1>4, <1>5, <2>4, <2>5
<1>10. CASE OtherDeletes(t) \/ OtherInserts(t)
  <2>1. t \in overlapped'
    BY <1>3, <1>10 DEF OtherDeletes, OtherInserts, SalesIInv
  <2>. QED
    BY <1>2, <1>3, <1>4, <1>5, <2>1 DEF Recorded
<1>. QED
  BY <1>7, <1>8, <1>9, <1>10

(* The scan goes on while nothing but transactions move.                    *)
LEMMA ScanWaits ==
  ASSUME SalesIInv, ScanInv, NEW t \in Tx,
         \/ StartIndexingTokenSale(t) \/ RecordSale(t)
         \/ IndexedSaleTx(t) \/ ParseTokenSale(t)
         \/ DeleteSale(t) \/ InsertSale(t)
         \/ OtherDeletes(t) \/ OtherInserts(t)
         \/ RetryWrite(t) \/ TimeOutWrite(t) \/ FailJob(t)
  PROVE  ScanInv'
<1>1. /\ chain' = chain /\ overlapped \subseteq overlapped'
      /\ \A x \in Tx \ {t} : jobs'[x] = jobs[x] /\ docs'[x] = docs[x]
      /\ Recorded(t) => Recorded(t)'
      /\ jobs'[t].at = "done" => jobs[t].at = "done" \/ Recorded(t)'
      /\ jobs[t].at # "none" => jobs'[t].at # "none"
  BY OneJobMoves
<1>2. /\ List' = List /\ \A x : Parsed(x)' = Parsed(x)
      /\ \A start : Page(start)' = Page(start)
  BY <1>1, ParsedStays
<1>3. \A x \in Tx : Recorded(x) => Recorded(x)'
  BY <1>1, <1>2 DEF Recorded
<1>4. \A x \in Tx : jobs'[x].at = "done" => Recorded(x)'
  BY <1>1, <1>3 DEF ScanInv
<1>5. \A x \in Tx : jobs[x].at # "none" => jobs'[x].at # "none"
  BY <1>1
<1>6. /\ scan'.at = scan.at /\ scan'.start = scan.start
      /\ scan'.children \subseteq scan.children
      /\ ~ scan'.broken => ~ scan.broken
      /\ \A x \in scan.children \ scan'.children :
           scan'.broken \/ jobs[x].at \in {"done", "none"}
      /\ scan' \in [at : {"idle", "query", "wait", "done", "failed"}, start : Nat \ {0},
                    children : SUBSET Tx, broken : BOOLEAN]
  <2>1. scan \in [at : {"idle", "query", "wait", "done", "failed"}, start : Nat \ {0},
                  children : SUBSET Tx, broken : BOOLEAN]
    BY DEF ScanInv
  <2>2. CASE scan' = scan
    BY <2>1, <2>2
  <2>3. CASE StartIndexingTokenSale(t)
    <3>1. jobs[t].at \in {"done", "none", "failed"}
      <4>1. jobs[t].at \in Step
        BY DEF SalesIInv, Job
      <4>. QED
        BY <2>3, <4>1 DEF StartIndexingTokenSale, Running, Step
    <3>2. PICK b \in BOOLEAN : b <=> scan.broken \/ (t \in scan.children /\ jobs[t].at = "failed")
      OBVIOUS
    <3>3. scan' = [scan EXCEPT !.children = scan.children \ {t}, !.broken = b]
      <4>1. scan.broken \in BOOLEAN
        BY <2>1
      <4>2. (scan.broken \/ (t \in scan.children /\ jobs[t].at = "failed")) = b
        BY <3>2, <4>1
      <4>3. scan' = [scan EXCEPT !.children = scan.children \ {t},
                     !.broken = scan.broken \/ (t \in scan.children /\ jobs[t].at = "failed")]
        BY <2>3, Zenon DEF StartIndexingTokenSale
      <4>. QED
        BY <4>2, <4>3, Zenon
    <3>4. /\ scan'.at = scan.at /\ scan'.start = scan.start
          /\ scan'.children = scan.children \ {t} /\ scan'.broken = b
          /\ scan' \in [at : {"idle", "query", "wait", "done", "failed"}, start : Nat \ {0},
                        children : SUBSET Tx, broken : BOOLEAN]
      BY <2>1, <3>3
    <3>. QED
      BY <3>1, <3>2, <3>4
  <2>4. scan' = scan \/ StartIndexingTokenSale(t)
    BY DEF RecordSale, IndexedSaleTx, ParseTokenSale, DeleteSale, InsertSale,
       OtherDeletes, OtherInserts, RetryWrite, TimeOutWrite, FailJob
  <2>. QED
    BY <2>2, <2>3, <2>4
<1>7. chain'.list \in Seq(SUBSET Tx) /\ \A i \in DOMAIN List : List[i] \subseteq Tx
  BY <1>1 DEF ScanInv, List
<1>8. \A x \in scan'.children : jobs'[x].at # "none"
  BY <1>5, <1>6 DEF ScanInv
<1>9. scan'.at \in {"query", "wait"} =>
        \A i \in DOMAIN List : i < scan'.start => \A x \in List[i] : Recorded(x)'
  BY <1>3, <1>6, <1>7 DEF ScanInv
<1>10. scan'.at = "wait" /\ ~ scan'.broken =>
         \A x \in UNION Elements(Page(scan.start)) : x \in scan'.children \/ Recorded(x)'
  <2> SUFFICES ASSUME scan'.at = "wait", ~ scan'.broken,
                      NEW x \in UNION Elements(Page(scan.start)), x \notin scan'.children
               PROVE  Recorded(x)'
    OBVIOUS
  <2>1. scan.start \in Nat \ {0}
    BY DEF ScanInv
  <2>2. x \in Tx
    BY <2>1, PageFacts
  <2>3. x \in scan.children \/ Recorded(x)
    BY <1>6 DEF ScanInv
  <2>4. x \in scan.children => jobs[x].at = "done"
    BY <1>6 DEF ScanInv
  <2>5. Recorded(x)
    BY <2>2, <2>3, <2>4 DEF ScanInv
  <2>. QED
    BY <1>3, <2>2, <2>5
<1>11. scan'.at = "done" => \A x \in UNION Elements(List) : Recorded(x)'
  BY <1>3, <1>6, <1>7 DEF ScanInv, Elements
<1>12. /\ (\A i \in DOMAIN List : i < scan.start => \A x \in List[i] : Recorded(x))' <=>
            \A i \in DOMAIN List : i < scan'.start => \A x \in List[i] : Recorded(x)'
       /\ (\A x \in UNION Elements(Page(scan.start)) : x \in scan.children \/ Recorded(x))' <=>
            \A x \in UNION Elements(Page(scan.start)) : x \in scan'.children \/ Recorded(x)'
       /\ (\A x \in UNION Elements(List) : Recorded(x))' <=>
            \A x \in UNION Elements(List) : Recorded(x)'
  BY <1>2, <1>6
<1>. QED
  BY <1>4, <1>6, <1>7, <1>8, <1>9, <1>10, <1>11, <1>12 DEF ScanInv

(* The scan itself moves.                                                   *)
LEMMA ScanMoves ==
  ASSUME SalesIInv, ScanInv, StartScan \/ StartChildren \/ EndStep \/ ScanFails \/ ScanTimesOut
  PROVE  ScanInv'
<1>1. chain' = chain /\ docs' = docs /\ overlapped \subseteq overlapped'
  BY OverlapsAdds DEF StartScan, StartChildren, EndStep, ScanFails, ScanTimesOut, StopScan
<1>2. /\ List' = List /\ \A x : Parsed(x)' = Parsed(x)
      /\ \A start : Page(start)' = Page(start)
  BY <1>1, ParsedStays
<1>3. \A x \in Tx : /\ jobs'[x].at # jobs[x].at => jobs'[x].at \in {"check", "none"}
                    /\ Recorded(x) => Recorded(x)'
  <2>1. \A x \in Tx : jobs'[x] = jobs[x] \/ jobs'[x].at \in {"check", "none"}
    BY DEF StartScan, StartChildren, EndStep, ScanFails, ScanTimesOut, StopScan, NoJob
  <2>. QED
    BY <1>1, <1>2, <2>1 DEF Recorded
<1>4. \A x \in Tx : jobs'[x].at = "done" => Recorded(x)'
  BY <1>3 DEF ScanInv
<1>5. /\ chain'.list \in Seq(SUBSET Tx)
      /\ scan \in [at : {"idle", "query", "wait", "done", "failed"}, start : Nat \ {0},
                   children : SUBSET Tx, broken : BOOLEAN]
      /\ \A i \in DOMAIN List : List[i] \subseteq Tx
      /\ DOMAIN List \subseteq Nat \ {0}
  BY <1>1 DEF ScanInv, List
<1>6. CASE StartScan
  <2>1. /\ scan' = [scan EXCEPT !.at = "query", !.start = 1] /\ jobs' = jobs
        /\ scan'.at = "query" /\ scan'.start = 1 /\ scan'.children = scan.children
        /\ scan' \in [at : {"idle", "query", "wait", "done", "failed"}, start : Nat \ {0},
                      children : SUBSET Tx, broken : BOOLEAN]
    <3>1. scan' = [scan EXCEPT !.at = "query", !.start = 1] /\ jobs' = jobs
      BY <1>6 DEF StartScan
    <3>2. 1 \in Nat \ {0}
      OBVIOUS
    <3>. QED
      BY <1>5, <3>1, <3>2
  <2>2. \A i \in DOMAIN List : ~ (i < 1)
    BY <1>5
  <2>3. \A i \in (DOMAIN List)' : i < scan'.start => \A x \in List'[i] : Recorded(x)'
    BY <1>2, <2>1, <2>2
  <2>. QED
    BY <1>4, <1>5, <2>1, <2>3 DEF ScanInv
<1>7. CASE StartChildren
  <2>1. PICK txs, started, broken :
          /\ txs = UNION Elements(Page(scan.start))
          /\ started = {t \in txs : ~ Running(t)}
          /\ broken \in BOOLEAN /\ (broken <=> started # txs)
    <3>1. (UNION Elements(Page(scan.start)) # {t \in UNION Elements(Page(scan.start)) : ~ Running(t)}) \in BOOLEAN
      OBVIOUS
    <3>. QED
      BY <3>1
  <2>2. scan.at = "query" /\ scan.start \in Nat \ {0}
    BY <1>5, <1>7 DEF StartChildren
  <2>3. txs \subseteq Tx /\ started \subseteq Tx
    BY <2>1, <2>2, PageFacts
  <2>4. scan' = [scan EXCEPT !.at = "wait", !.children = started, !.broken = broken]
    <3>1. (started # txs) = broken
      BY <2>1
    <3>2. scan' = [scan EXCEPT !.at = "wait", !.children = started, !.broken = (started # txs)]
      BY <1>7, <2>1, Zenon DEF StartChildren
    <3>. QED
      BY <3>1, <3>2, Zenon
  <2>5. /\ scan'.at = "wait" /\ scan'.start = scan.start /\ scan'.children = started
        /\ scan'.broken = broken
        /\ scan' \in [at : {"idle", "query", "wait", "done", "failed"}, start : Nat \ {0},
                      children : SUBSET Tx, broken : BOOLEAN]
    BY <1>5, <2>1, <2>3, <2>4
  <2>6. \A t \in started : jobs'[t].at # "none"
    BY <1>7, <2>1, <2>3 DEF StartChildren
  <2>7. \A i \in (DOMAIN List)' : i < scan'.start => \A x \in List'[i] : Recorded(x)'
    BY <1>2, <1>3, <1>5, <2>2, <2>5 DEF ScanInv
  <2>8. ~ broken => \A x \in (UNION Elements(Page(scan.start)))' : x \in started
    <3>1. (UNION Elements(Page(scan.start)))' = txs
      BY <1>2, <2>1, <2>5
    <3>. QED
      BY <2>1, <3>1
  <2>. QED
    BY <1>4, <1>5, <2>5, <2>6, <2>7, <2>8 DEF ScanInv
<1>8. CASE EndStep
  <2>1. /\ scan.at = "wait" /\ ~ scan.broken /\ \A t \in scan.children : jobs[t].at = "done"
        /\ jobs' = jobs /\ scan.start \in Nat \ {0} /\ scan.children \subseteq Tx
    BY <1>5, <1>8 DEF EndStep
  <2>2. \A x \in UNION Elements(Page(scan.start)) : Recorded(x)
    BY <2>1 DEF ScanInv
  <2>3. \A i \in DOMAIN List : i < scan.start => \A x \in List[i] : Recorded(x)
    BY <2>1 DEF ScanInv
  <2>4. CASE LastStep(scan.start)
    <3>1. scan' = [scan EXCEPT !.at = "done", !.children = {}]
      BY <1>8, <2>4 DEF EndStep
    <3>2. /\ scan'.at = "done" /\ scan'.children = {}
          /\ scan' \in [at : {"idle", "query", "wait", "done", "failed"}, start : Nat \ {0},
                        children : SUBSET Tx, broken : BOOLEAN]
      BY <1>5, <3>1
    <3>3. ASSUME NEW i \in DOMAIN List, NEW x \in List[i] PROVE Recorded(x)'
      <4>1. i < scan.start \/ i >= scan.start
        BY <1>5, <2>1
      <4>2. i >= scan.start => List[i] \in Elements(Page(scan.start))
        BY <2>1, <2>4, PageFacts
      <4>3. Recorded(x)
        BY <2>2, <2>3, <3>3, <4>1, <4>2
      <4>. QED
        BY <1>3, <1>5, <3>3, <4>3
    <3>4. \A x \in (UNION Elements(List))' : Recorded(x)'
      BY <1>2, <3>3 DEF Elements
    <3>. QED
      BY <1>4, <1>5, <3>2, <3>4 DEF ScanInv
  <2>5. CASE ~ LastStep(scan.start)
    <3>1. PICK n : n = NextStart(scan.start)
      OBVIOUS
    <3>2. n \in Nat \ {0}
      BY <2>1, <3>1, PageFacts
    <3>3. scan' = [scan EXCEPT !.at = "query", !.start = n, !.children = {}]
      BY <1>8, <2>5, <3>1 DEF EndStep
    <3>4. /\ scan'.at = "query" /\ scan'.children = {} /\ scan'.start = n
          /\ scan' \in [at : {"idle", "query", "wait", "done", "failed"}, start : Nat \ {0},
                        children : SUBSET Tx, broken : BOOLEAN]
      BY <1>5, <3>2, <3>3
    <3>5. ASSUME NEW i \in DOMAIN List, i < n, NEW x \in List[i] PROVE Recorded(x)'
      <4>1. i < scan.start \/ i >= scan.start
        BY <1>5, <2>1
      <4>2. i >= scan.start => List[i] \in Elements(Page(scan.start))
        BY <2>1, <3>1, <3>5, PageFacts
      <4>3. Recorded(x)
        BY <2>2, <2>3, <3>5, <4>1, <4>2
      <4>. QED
        BY <1>3, <1>5, <3>5, <4>3
    <3>6. \A i \in (DOMAIN List)' : i < scan'.start => \A x \in List'[i] : Recorded(x)'
      BY <1>2, <3>4, <3>5
    <3>. QED
      BY <1>4, <1>5, <3>4, <3>6 DEF ScanInv
  <2>. QED
    BY <2>4, <2>5
<1>9. CASE ScanFails \/ ScanTimesOut
  <2>1. scan' = [scan EXCEPT !.at = "failed", !.children = {}, !.broken = FALSE]
    BY <1>9 DEF ScanFails, ScanTimesOut, StopScan
  <2>2. /\ scan'.at = "failed" /\ scan'.children = {}
        /\ scan' \in [at : {"idle", "query", "wait", "done", "failed"}, start : Nat \ {0},
                      children : SUBSET Tx, broken : BOOLEAN]
    BY <1>5, <2>1
  <2>. QED
    BY <1>4, <1>5, <2>2 DEF ScanInv
<1>. QED
  BY <1>6, <1>7, <1>8, <1>9

(* When the scan of a range is done (workflows of token sales), the sale of *)
(* each of its transactions is stored, whatever failed, timed out or was    *)
(* started by others meanwhile, but for those with another writer.          *)
THEOREM ScanIsComplete == SalesSpec => []ScanComplete
<1>1. SalesInit => ScanInv
  <2> SUFFICES ASSUME SalesInit PROVE ScanInv
    OBVIOUS
  <2>1. chain.list \in Seq(SUBSET Tx)
    BY SalesAssumption DEF SalesInit
  <2>2. \A t \in Tx : jobs[t].at = "none"
    BY DEF SalesInit, NoJob
  <2>3. scan = [at |-> "idle", start |-> 1, children |-> {}, broken |-> FALSE]
    BY DEF SalesInit
  <2>. QED
    BY <2>1, <2>2, <2>3 DEF ScanInv
<1>2. SalesIInv /\ ScanInv /\ [SalesNext]_salesVars => ScanInv'
  <2> SUFFICES ASSUME SalesIInv, ScanInv, [SalesNext]_salesVars PROVE ScanInv'
    OBVIOUS
  <2>1. CASE UNCHANGED salesVars
    <3>1. UNCHANGED <<chain, jobs, docs, scan, overlapped>>
      BY <2>1 DEF salesVars
    <3>2. /\ List' = List /\ \A x : Parsed(x)' = Parsed(x)
          /\ \A start : Page(start)' = Page(start)
      BY <3>1, ParsedStays
    <3>3. \A x : Recorded(x)' <=> Recorded(x)
      BY <3>1, <3>2 DEF Recorded
    <3>. QED
      BY <3>1, <3>2, <3>3 DEF ScanInv
  <2>. QED
    BY <2>1, ScanWaits, ScanMoves DEF SalesNext
<1>3. ScanInv => ScanComplete
  BY DEF ScanInv, ScanComplete, Recorded
<1>. QED
  BY <1>1, <1>2, <1>3, SalesInitHolds, SalesStepKeeps, PTL DEF SalesSpec

(* Rates.                                                                   *)

-----------------------------------------------------------------------------
(* The latest and the earliest of a set of times.                           *)

(* A set of times that is not empty has an earliest one.                    *)
LEMMA EarliestExists ==
  ASSUME NEW T, T \subseteq Nat, T # {}
  PROVE  \E t \in T : \A other \in T : other >= t
<1> DEFINE R == OpToRel(<, Nat)
<1>1. \E t \in T : \A other \in T : ~ (<<other, t>> \in R)
  BY NatLessThanWellFounded, WFMin
<1>2. ASSUME NEW t \in T, NEW other \in T, ~ (<<other, t>> \in R) PROVE other >= t
  BY <1>2 DEF OpToRel
<1>. QED
  BY <1>1, <1>2

(* Times are natural numbers, MaxTime at most.                              *)
LEMMA TimeIsNat == MaxTime \in Nat /\ \A t \in Times : t \in Nat /\ t <= MaxTime
  BY RatesAssumption DEF Times

(* A set of times of the model that is not empty has a latest one.          *)
LEMMA LatestExists ==
  ASSUME NEW T, T \subseteq Times, T # {}
  PROVE  \E t \in T : \A other \in T : other <= t
<1> DEFINE D == {MaxTime - t : t \in T}
<1>1. MaxTime \in Nat /\ \A t \in T : t \in Nat /\ t <= MaxTime
  BY TimeIsNat
<1>2. D \subseteq Nat /\ D # {}
  <2>1. \A t \in T : MaxTime - t \in Nat
    BY <1>1
  <2>. QED
    BY <2>1
<1> HIDE DEF D
<1>3. PICK d \in D : \A other \in D : other >= d
  BY <1>2, EarliestExists
<1>4. PICK t \in T : d = MaxTime - t
  BY <1>3 DEF D
<1>5. ASSUME NEW other \in T PROVE other <= t
  <2>1. MaxTime - other >= d
    BY <1>3 DEF D
  <2>. QED
    BY <1>1, <1>4, <2>1
<1>. QED
  BY <1>5

(* What Latest and Earliest return.                                         *)
LEMMA LatestFacts ==
  ASSUME NEW T, T \subseteq Times
  PROVE  /\ T = {} => Latest(T) = None
         /\ T # {} => Latest(T) \in T /\ \A other \in T : other <= Latest(T)
<1>1. ASSUME T # {} PROVE \E t \in T : \A other \in T : other <= t
  BY <1>1, LatestExists
<1>. QED
  BY <1>1 DEF Latest

(* The same of the earliest.                                                *)
LEMMA EarliestFacts ==
  ASSUME NEW T, T \subseteq Times
  PROVE  /\ T = {} => Earliest(T) = None
         /\ T # {} => Earliest(T) \in T /\ \A other \in T : other >= Earliest(T)
<1>1. ASSUME T # {} PROVE \E t \in T : \A other \in T : other >= t
  <2>1. T \subseteq Nat
    BY TimeIsNat
  <2>. QED
    BY <1>1, <2>1, EarliestExists
<1>. QED
  BY <1>1 DEF Earliest

-----------------------------------------------------------------------------
(* No stored rate of the pair is closer to the time asked for than the one  *)
(* GetHistoricalExchangeRate (store.go) uses, whatever is stored.           *)
THEOREM ClosestRateIsUsed == RatesSpec => []ClosestRate
<1>1. ClosestRate
  <2> SUFFICES ASSUME NEW pair \in Pair, NEW time \in Times,
                      NEW other \in StoredTimes(pair)
               PROVE  Distance(GetHistoricalExchangeRate(pair, time), time)
                        <= Distance(other, time)
    BY DEF ClosestRate
  <2> DEFINE B == Before(pair, time)
             A == After(pair, time)
             lower == Latest(B)
             greater == Earliest(A)
             used == GetHistoricalExchangeRate(pair, time)
  <2>1. time \in Int /\ other \in Int /\ other \in Times /\ 0 <= time
    BY RatesAssumption DEF Times, StoredTimes
  <2>2. B \subseteq Times /\ A \subseteq Times
    BY DEF Before, After, StoredTimes
  <2>3. /\ B = {} => lower = -1
        /\ B # {} => lower \in B /\ \A t \in B : t <= lower
    BY <2>2, LatestFacts DEF None
  <2>4. /\ A = {} => greater = -1
        /\ A # {} => greater \in A /\ \A t \in A : t >= greater
    BY <2>2, EarliestFacts DEF None
  <2>5. /\ \A t \in B : t \in Int /\ 0 <= t /\ t <= time
        /\ \A t \in A : t \in Int /\ 0 <= t /\ t >= time
    BY RatesAssumption DEF Before, After, StoredTimes, Times
  <2>6. (other <= time => other \in B) /\ (other >= time => other \in A)
    BY DEF Before, After
  <2>7. used = IF lower = -1 THEN greater
               ELSE IF greater = -1 \/ time - lower <= greater - time THEN lower
               ELSE greater
    BY DEF GetHistoricalExchangeRate, None
  <2> HIDE DEF B, A, lower, greater, used
  <2>8. Distance(used, time) <= Distance(other, time)
    <3>1. CASE other <= time
      <4>1. other \in B /\ lower \in B /\ other <= lower
        BY <2>3, <2>6, <3>1
      <4>. QED
        BY <2>1, <2>4, <2>5, <2>7, <3>1, <4>1 DEF Distance
    <3>2. CASE other > time
      <4>1. other \in A /\ greater \in A /\ other >= greater
        BY <2>1, <2>4, <2>6, <3>2
      <4>. QED
        BY <2>1, <2>3, <2>5, <2>7, <3>2, <4>1 DEF Distance
    <3>. QED
      BY <2>1, <3>1, <3>2
  <2>. QED
    BY <2>8 DEF used
<1>. QED
  BY <1>1, PTL

-----------------------------------------------------------------------------
(* The requests of a run.                                                   *)

(* Quotient and remainder.                                                  *)
LEMMA Division ==
  ASSUME NEW x \in Nat, NEW n \in Nat \ {0}
  PROVE  /\ x \div n \in Nat /\ x % n \in 0..(n - 1)
         /\ x % n = x - n * (x \div n)
  OBVIOUS

(* They are the only ones.                                                  *)
LEMMA DivisionUnique ==
  ASSUME NEW n \in Nat \ {0}, NEW q \in Nat, NEW k \in 0..(n - 1)
  PROVE  (q * n + k) \div n = q /\ (q * n + k) % n = k
<1> DEFINE x == q * n + k
           d == x \div n
           m == x % n
<1>1. x \in Nat
  OBVIOUS
<1>2. d \in Nat /\ m \in 0..(n - 1) /\ m = x - n * d
  BY <1>1, Division
<1> HIDE DEF d, m
<1>3. (d - q) * n = k - m /\ -n < k - m /\ k - m < n
  BY <1>2
<1>4. d - q < 1
  <2>1. SUFFICES ASSUME d - q >= 1 PROVE FALSE
    BY <1>2
  <2>2. (d - q) * n >= n
    BY <1>2, <2>1
  <2>. QED
    BY <1>2, <1>3, <2>2
<1>5. d - q > -1
  <2>1. SUFFICES ASSUME q - d >= 1 PROVE FALSE
    BY <1>2
  <2>2. (q - d) * n >= n
    BY <1>2, <2>1
  <2>3. (q - d) * n = m - k
    BY <1>2, <1>3
  <2>. QED
    BY <1>2, <1>3, <2>2, <2>3
<1>6. d = q /\ m = k
  BY <1>2, <1>3, <1>4, <1>5
<1>. QED
  BY <1>6 DEF d, m

(* A request that asks for something, from start to end.                    *)
Asks(r, start, end) ==
  r \in Request /\ start <= r.start /\ r.start < r.end /\ r.end <= end

(* A request asks for the time, and another for the end of the window.      *)
Includes(r, pair, time) == r.pair = pair /\ r.start <= time /\ time < r.end

(* The numbers of windows and of pairs.                                     *)
LEMMA WindowFacts ==
  ASSUME NEW start \in Times, NEW end \in Times, start < end
  PROVE  LET windows == (end - start + Window - 1) \div Window
         IN  /\ Window \in Nat \ {0} /\ windows \in Nat
             /\ Len(Pairs) \in Nat \ {0}
             /\ \A q \in Nat : q < windows <=> start + q * Window < end
<1> DEFINE x == end - start + Window - 1
           windows == x \div Window
<1>1. Window \in Nat \ {0} /\ start \in Nat /\ end \in Nat /\ x \in Nat
  BY RatesAssumption, TimeIsNat
<1>2. /\ windows \in Nat /\ x % Window \in 0..(Window - 1)
      /\ x % Window = x - Window * windows
  BY <1>1, Division
<1>3. Len(Pairs) \in Nat \ {0}
  <2>1. PICK i \in DOMAIN Pairs : TRUE
    BY RatesAssumption
  <2>. QED
    BY <2>1, RatesAssumption
<1> DEFINE m == x % Window
<1> HIDE DEF windows, m
<1>4. ASSUME NEW q \in Nat PROVE q < windows <=> start + q * Window < end
  <2>1. Window * windows = end - start + Window - 1 - m /\ m \in 0..(Window - 1)
    BY <1>1, <1>2 DEF m
  <2>2. ASSUME q < windows PROVE start + q * Window < end
    <3>1. Window * (q + 1) <= Window * windows
      BY <1>1, <1>2, <2>2
    <3>2. Window * (q + 1) = q * Window + Window
      BY <1>1
    <3>. QED
      BY <1>1, <1>2, <2>1, <3>1, <3>2
  <2>3. ASSUME q >= windows PROVE start + q * Window >= end
    <3>1. Window * windows <= q * Window
      BY <1>1, <1>2, <2>3
    <3>. QED
      BY <1>1, <1>2, <2>1, <3>1
  <2>. QED
    BY <1>1, <1>2, <2>2, <2>3
<1>. QED
  BY <1>1, <1>2, <1>3, <1>4 DEF windows

(* The windows of a run leave no time between them, of no pair, and none is *)
(* empty or goes beyond the time the run was started (exchange_rates.go).   *)
LEMMA RequestsCover ==
  ASSUME NEW start \in Times, NEW end \in Times, start < end
  PROVE  /\ RequestsFrom(start, end) \in Seq(Request)
         /\ \A r \in Elements(RequestsFrom(start, end)) : Asks(r, start, end)
         /\ \A pair \in Pair, time \in Times : start <= time /\ time < end =>
              \E r \in Elements(RequestsFrom(start, end)) : Includes(r, pair, time)
<1> DEFINE windows == (end - start + Window - 1) \div Window
           n == Len(Pairs)
           From(i) == start + ((i - 1) \div n) * Window
           To(i) == IF From(i) + Window > end THEN end ELSE From(i) + Window
           R == RequestsFrom(start, end)
<1>1. /\ Window \in Nat \ {0} /\ windows \in Nat /\ n \in Nat \ {0}
      /\ \A q \in Nat : q < windows <=> start + q * Window < end
  BY WindowFacts
<1>2. /\ start \in Nat /\ end \in Nat /\ end <= MaxTime /\ MaxTime \in Nat
      /\ Times = 0..MaxTime
  BY TimeIsNat DEF Times
<1>3. R = [i \in 1..(windows * n) |->
             [pair |-> Pairs[((i - 1) % n) + 1], start |-> From(i), end |-> To(i)]]
  BY DEF RequestsFrom
<1> HIDE DEF windows, n, R
<1>4. windows * n \in Nat
  BY <1>1
<1>5. ASSUME NEW i \in 1..(windows * n)
      PROVE  Asks(R[i], start, end)
  <2>1. i - 1 \in Nat
    OBVIOUS
  <2> DEFINE q == (i - 1) \div n
             k == (i - 1) % n
  <2>2. q \in Nat /\ k \in 0..(n - 1) /\ k = (i - 1) - n * q
    BY <1>1, <2>1, Division
  <2> HIDE DEF q, k
  <2>3. q < windows
    <3>1. SUFFICES ASSUME q >= windows PROVE FALSE
      BY <1>1, <2>2
    <3>2. n * q >= windows * n
      BY <1>1, <2>2, <3>1
    <3>. QED
      BY <1>1, <1>4, <2>2, <3>2
  <2>4. start + q * Window < end /\ q * Window \in Nat
    BY <1>1, <2>2, <2>3
  <2>5. From(i) = start + q * Window
    BY DEF q
  <2>6. From(i) \in Nat /\ start <= From(i) /\ From(i) < end
    BY <1>2, <2>4, <2>5
  <2> HIDE DEF From
  <2>7. To(i) \in Nat /\ From(i) < To(i) /\ To(i) <= end
    BY <1>1, <1>2, <2>6
  <2> HIDE DEF To
  <2>8. Pairs[k + 1] \in Pair
    <3>1. k + 1 \in 1..Len(Pairs)
      BY <1>1, <2>2 DEF n
    <3>. QED
      BY <3>1, RatesAssumption
  <2>9. R[i] = [pair |-> Pairs[k + 1], start |-> From(i), end |-> To(i)]
    BY <1>3 DEF k
  <2>. QED
    BY <1>2, <2>6, <2>7, <2>8, <2>9 DEF Asks, Request
<1>6. ASSUME NEW pair \in Pair, NEW time \in Times, start <= time, time < end
      PROVE  \E i \in 1..(windows * n) : Includes(R[i], pair, time)
  <2>1. PICK j \in 1..n : pair = Pairs[j]
    BY RatesAssumption DEF n
  <2> DEFINE x == time - start
             q == x \div Window
  <2>2. x \in Nat /\ time \in Nat /\ time = start + x
    BY <1>2, <1>6
  <2>3. q \in Nat /\ x % Window \in 0..(Window - 1) /\ x % Window = x - Window * q
    BY <1>1, <2>2, Division
  <2> HIDE DEF q, x
  <2>4. q * Window <= x /\ x < q * Window + Window /\ q * Window \in Nat
    BY <1>1, <2>2, <2>3
  <2>5. q < windows
    BY <1>1, <1>2, <1>6, <2>2, <2>3, <2>4
  <2> DEFINE i == q * n + j
  <2>6. i \in 1..(windows * n)
    <3>1. q * n \in Nat /\ (q + 1) * n <= windows * n /\ (q + 1) * n = q * n + n
      BY <1>1, <2>3, <2>5
    <3>. QED
      BY <1>1, <1>4, <2>1, <3>1
  <2>7. (i - 1) \div n = q /\ (i - 1) % n = j - 1
    <3>1. j - 1 \in 0..(n - 1)
      BY <1>1, <2>1
    <3>2. (q * n + (j - 1)) \div n = q /\ (q * n + (j - 1)) % n = j - 1
      BY <1>1, <2>3, <3>1, DivisionUnique
    <3>3. i - 1 = q * n + (j - 1)
      BY <1>1, <2>1, <2>3
    <3>. QED
      BY <3>2, <3>3
  <2>8. From(i) = start + q * Window
    BY <2>7
  <2>9. Pairs[((i - 1) % n) + 1] = pair
    BY <1>1, <2>1, <2>7
  <2>10. From(i) <= time /\ time < To(i)
    BY <1>1, <1>2, <1>6, <2>2, <2>4, <2>8
  <2>11. R[i] = [pair |-> pair, start |-> From(i), end |-> To(i)]
    BY <1>3, <2>6, <2>9
  <2>. QED
    BY <2>6, <2>10, <2>11 DEF Includes
<1>7. DOMAIN R = 1..(windows * n)
  BY <1>3
<1>8. R \in Seq(Request)
  BY <1>3, <1>4, <1>5 DEF Asks
<1>. QED
  BY <1>5, <1>6, <1>7, <1>8 DEF Elements, R

-----------------------------------------------------------------------------
(* The runs.                                                                *)

Pending == sent \cup Elements(requests)

(* Up to the end of the last run everything is stored, asked for, or was    *)
(* asked for by a run that failed; nothing later is stored or asked for.    *)
UpTo(E, R, P, F) ==
  /\ \A pair \in Pair, time \in Times : <<pair, time>> \in R => time <= E
  /\ \A r \in P : Asks(r, 0, E)
  /\ \A pair \in Pair, time \in Times : time < E =>
       <<pair, time>> \in R \/ \E r \in P \cup F : Includes(r, pair, time)

RatesIInv ==
  /\ now \in Times
  /\ rates \subseteq Pair \X Times
  /\ \A pair \in Pair : <<pair, 0>> \in rates
  /\ requests \in Seq(Request) /\ failed \subseteq Request
  /\ crawling \in BOOLEAN /\ (~ crawling => sent = {} /\ requests = <<>>)
  /\ \E E \in Times : E <= now /\ UpTo(E, rates, Pending, failed)

(* The latest stored time, of whatever pair (store.go).                     *)
LEMMA LastTimeFacts ==
  ASSUME RatesIInv
  PROVE  /\ GetExchangeRateLastTime \in Times
         /\ \E pair \in Pair : <<pair, GetExchangeRateLastTime>> \in rates
         /\ \A pair \in Pair, time \in Times :
              <<pair, time>> \in rates => time <= GetExchangeRateLastTime
<1> DEFINE T == UNION {StoredTimes(pair) : pair \in Pair}
<1>1. \A time : time \in T <=> \E pair \in Pair : time \in StoredTimes(pair)
  OBVIOUS
<1>2. \A pair \in Pair : \A time :
        time \in StoredTimes(pair) <=> time \in Times /\ <<pair, time>> \in rates
  BY DEF StoredTimes
<1>3. T \subseteq Times /\ T # {}
  <2>1. PICK pair \in Pair : <<pair, 0>> \in rates
    BY RatesAssumption DEF RatesIInv
  <2>2. 0 \in Times
    BY RatesAssumption DEF Times
  <2>. QED
    BY <1>1, <1>2, <2>1, <2>2
<1>4. GetExchangeRateLastTime \in T /\ \A other \in T : other <= GetExchangeRateLastTime
  <2>1. \E t \in T : \A other \in T : other <= t
    BY <1>3, LatestExists
  <2>2. GetExchangeRateLastTime = CHOOSE t \in T : \A other \in T : other <= t
    BY DEF GetExchangeRateLastTime
  <2> HIDE DEF T
  <2>. QED
    BY <2>1, <2>2
<1>. QED
  BY <1>1, <1>2, <1>3, <1>4

(* No pair has a gap before the latest time.                                *)
LEMMA NoGap == RatesIInv => NoGapWithoutFailure
<1> SUFFICES ASSUME RatesIInv, NEW pair \in Pair,
                    NEW time \in 0..(GetExchangeRateLastTime - 1)
             PROVE  \/ <<pair, time>> \in rates
                    \/ \E request \in failed \cup sent \cup Elements(requests) :
                         Covers(request, pair, time)
  BY DEF NoGapWithoutFailure, Elements
<1>1. PICK E \in Times : UpTo(E, rates, Pending, failed)
  BY DEF RatesIInv
<1>2. GetExchangeRateLastTime \in Nat /\ GetExchangeRateLastTime <= E
      /\ E \in Nat /\ E <= MaxTime /\ MaxTime \in Nat
  BY <1>1, LastTimeFacts, TimeIsNat DEF UpTo
<1>3. time \in Times /\ time \in Nat /\ time < E
  BY <1>2 DEF Times
<1>4. CASE <<pair, time>> \in rates
  BY <1>4
<1>5. CASE \E r \in Pending \cup failed : Includes(r, pair, time)
  <2>1. PICK r \in Pending \cup failed : Includes(r, pair, time)
    BY <1>5
  <2>2. r.start <= time /\ time < r.end /\ r.pair = pair
    BY <2>1 DEF Includes
  <2>3. r \in Request
    BY <1>1, <2>1 DEF UpTo, Asks, RatesIInv
  <2>4. r.start \in Nat /\ r.end \in Nat
    BY <2>3, TimeIsNat DEF Request
  <2>5. Covers(r, pair, time)
    BY <1>3, <2>2, <2>4 DEF Covers
  <2>. QED
    BY <2>1, <2>5 DEF Pending
<1>. QED
  BY <1>1, <1>3, <1>4, <1>5 DEF UpTo

(* A run starts where every pair is complete, although it looks at the      *)
(* latest candle of all pairs (CrawlHistoricalExchangeRate).                *)
LEMMA CrawlKeeps ==
  ASSUME RatesIInv, CrawlHistoricalExchangeRate
  PROVE  RatesIInv'
<1> DEFINE L == GetExchangeRateLastTime
           R == RequestsFrom(L, now)
<1>1. /\ ~ crawling /\ L < now /\ requests' = R /\ crawling' = TRUE
      /\ UNCHANGED <<now, rates, sent, failed>>
  BY DEF CrawlHistoricalExchangeRate
<1>2. L \in Times /\ now \in Times
  BY LastTimeFacts DEF RatesIInv
<1>3. /\ R \in Seq(Request)
      /\ \A r \in Elements(R) : Asks(r, L, now)
      /\ \A pair \in Pair, time \in Times : L <= time /\ time < now =>
           \E r \in Elements(R) : Includes(r, pair, time)
  BY <1>1, <1>2, RequestsCover
<1>4. sent' = {} /\ Pending = {} /\ Pending' = Elements(R)
  <2>1. sent = {} /\ requests = <<>>
    BY <1>1 DEF RatesIInv
  <2>2. Elements(<<>>) = {}
    BY DEF Elements
  <2>. QED
    BY <1>1, <2>1, <2>2 DEF Pending, Elements
<1>5. L \in Nat /\ now \in Nat
  BY <1>2, TimeIsNat
<1>6. \A r \in Elements(R) : Asks(r, 0, now)
  <2> SUFFICES ASSUME NEW r \in Elements(R) PROVE Asks(r, 0, now)
    OBVIOUS
  <2>1. Asks(r, L, now)
    BY <1>3
  <2>2. r.start \in Nat
    BY <2>1, TimeIsNat DEF Asks, Request
  <2>. QED
    BY <2>1, <2>2 DEF Asks
<1>7. UpTo(now, rates, Elements(R), failed)
  <2>1. PICK E \in Times : E <= now /\ UpTo(E, rates, Pending, failed)
    BY DEF RatesIInv
  <2>2. E \in Nat
    BY TimeIsNat
  <2>3. ASSUME NEW pair \in Pair, NEW time \in Times, <<pair, time>> \in rates
        PROVE  time <= now
    <3>1. time <= E /\ time \in Nat
      BY <2>1, <2>3, TimeIsNat DEF UpTo
    <3>. QED
      BY <1>5, <2>1, <2>2, <3>1
  <2>4. ASSUME NEW pair \in Pair, NEW time \in Times, time < now
        PROVE  <<pair, time>> \in rates
                 \/ \E r \in Elements(R) \cup failed : Includes(r, pair, time)
    <3>1. time \in Nat
      BY TimeIsNat
    <3>2. CASE L <= time
      BY <1>3, <2>4, <3>2
    <3>3. CASE time < L
      <4>1. L <= E
        BY <1>2, <2>1, LastTimeFacts DEF UpTo
      <4>2. time < E
        BY <1>5, <2>2, <3>1, <3>3, <4>1
      <4>. QED
        BY <1>4, <2>1, <4>2 DEF UpTo
    <3>. QED
      BY <1>5, <3>1, <3>2, <3>3
  <2>. QED
    BY <1>6, <2>3, <2>4 DEF UpTo
<1>8. \E F \in Times : F <= now' /\ UpTo(F, rates', Pending', failed')
  BY <1>1, <1>2, <1>4, <1>5, <1>7
<1>. QED
  BY <1>1, <1>3, <1>8 DEF RatesIInv

(* Requests that are sent are still pending.                                *)
LEMMA SendKeeps ==
  ASSUME RatesIInv, SendBatch
  PROVE  RatesIInv'
<1> DEFINE n == Batched
           first == {requests[i] : i \in 1..n}
           rest == SubSeq(requests, n + 1, Len(requests))
<1>1. /\ crawling /\ sent = {} /\ sent' = first /\ requests' = rest
      /\ UNCHANGED <<now, rates, crawling, failed>>
  BY DEF SendBatch
<1>2. requests \in Seq(Request) /\ Len(requests) \in Nat /\ DOMAIN requests = 1..Len(requests)
  BY DEF RatesIInv
<1>3. n \in Nat /\ n <= Len(requests)
  BY <1>2, RatesAssumption DEF Batched
<1> HIDE DEF n
<1>4. /\ rest \in Seq(Request) /\ Len(rest) = Len(requests) - n
      /\ \A i \in 1..(Len(requests) - n) : rest[i] = requests[n + i]
  <2>1. \A i \in (n + 1)..Len(requests) : requests[i] \in Request
    BY <1>2, <1>3
  <2>2. /\ rest \in Seq(Request)
        /\ Len(rest) = IF n + 1 <= Len(requests) THEN Len(requests) - (n + 1) + 1 ELSE 0
        /\ \A i \in 1..(Len(requests) - (n + 1) + 1) : rest[i] = requests[(n + 1) + i - 1]
    BY <1>2, <1>3, <2>1, SubSeqProperties
  <2> HIDE DEF rest
  <2> DEFINE l == Len(requests)
  <2>3. l \in Nat /\ n \in Nat /\ n <= l
    BY <1>2, <1>3
  <2> HIDE DEF l
  <2>4. l - (n + 1) + 1 = l - n
        /\ (IF n + 1 <= l THEN l - (n + 1) + 1 ELSE 0) = l - n
        /\ \A i \in 1..(l - n) : (n + 1) + i - 1 = n + i
    BY <2>3
  <2>5. Len(rest) = l - n /\ \A i \in 1..(l - n) : rest[i] = requests[n + i]
    BY <2>2, <2>4, Zenon DEF l
  <2>. QED
    BY <2>2, <2>5 DEF l
<1> HIDE DEF rest
<1>5. Elements(rest) = {requests[i] : i \in (n + 1)..Len(requests)}
  <2>1. DOMAIN rest = 1..(Len(requests) - n)
    BY <1>2, <1>3, <1>4
  <2>2. ASSUME NEW r \in Elements(rest)
        PROVE  r \in {requests[i] : i \in (n + 1)..Len(requests)}
    <3>1. PICK i \in 1..(Len(requests) - n) : r = rest[i]
      BY <2>1 DEF Elements
    <3>2. n + i \in (n + 1)..Len(requests) /\ r = requests[n + i]
      BY <1>2, <1>3, <1>4, <3>1
    <3>. QED
      BY <3>2
  <2>3. ASSUME NEW i \in (n + 1)..Len(requests)
        PROVE  requests[i] \in Elements(rest)
    <3>1. i - n \in 1..(Len(requests) - n) /\ n + (i - n) = i
      BY <1>2, <1>3
    <3>2. rest[i - n] = requests[i]
      BY <1>4, <3>1
    <3>. QED
      BY <2>1, <3>1, <3>2 DEF Elements
  <2>. QED
    BY <2>2, <2>3
<1>6. first \cup Elements(rest) = Elements(requests)
  <2> DEFINE all == 1..Len(requests)
             rear == (n + 1)..Len(requests)
  <2>1. all = (1..n) \cup rear
    BY <1>2, <1>3
  <2>2. Elements(requests) = {requests[i] : i \in all}
    BY <1>2 DEF Elements
  <2>3. Elements(rest) = {requests[i] : i \in rear}
    BY <1>5
  <2> HIDE DEF all, rear
  <2>. QED
    BY <2>1, <2>2, <2>3
<1> HIDE DEF first
<1>7. Pending' = Pending
  <2>1. Pending = {} \cup Elements(requests) /\ Pending' = first \cup Elements(requests')
    BY <1>1 DEF Pending, Elements
  <2>2. Elements(requests') = Elements(rest)
    BY <1>1
  <2>. QED
    BY <1>6, <2>1, <2>2
<1>. QED
  BY <1>1, <1>4, <1>7 DEF RatesIInv

(* A step that writes candles of requests under way, and ends some of them. *)
LEMMA WriteKeeps ==
  ASSUME RatesIInv, now' \in Times, now <= now',
         rates' \subseteq Pair \X Times, rates \subseteq rates',
         \A pair \in Pair, time \in Times : <<pair, time>> \in rates' \ rates =>
           \E r \in Pending : time <= r.end,
         requests' \in Seq(Request), failed' \subseteq Request,
         crawling' \in BOOLEAN, ~ crawling' => sent' = {} /\ requests' = <<>>,
         Pending' \subseteq Pending, failed \subseteq failed',
         \A r \in Pending : \/ r \in Pending' \cup failed'
                            \/ \A time \in Times :
                                 r.start <= time /\ time < r.end
                                   => <<r.pair, time>> \in rates'
  PROVE  RatesIInv'
<1>1. PICK E \in Times : E <= now /\ UpTo(E, rates, Pending, failed)
  BY DEF RatesIInv
<1>2. E \in Nat /\ now \in Nat /\ now' \in Nat /\ E <= now'
  <2>1. E \in Nat /\ now \in Nat /\ now' \in Nat
    BY TimeIsNat DEF RatesIInv
  <2>. QED
    BY <1>1, <2>1
<1>3. ASSUME NEW pair \in Pair, NEW time \in Times, <<pair, time>> \in rates'
      PROVE  time <= E
  <2>1. CASE <<pair, time>> \in rates
    BY <1>1, <2>1 DEF UpTo
  <2>2. CASE <<pair, time>> \notin rates
    <3>1. PICK r \in Pending : time <= r.end
      BY <1>3, <2>2
    <3>2. r.end <= E /\ r.end \in Nat /\ time \in Nat
      BY <1>1, <3>1, TimeIsNat DEF UpTo, Asks, Request
    <3>. QED
      BY <1>2, <3>1, <3>2
  <2>. QED
    BY <2>1, <2>2
<1>4. ASSUME NEW pair \in Pair, NEW time \in Times, time < E
      PROVE  <<pair, time>> \in rates'
               \/ \E r \in Pending' \cup failed' : Includes(r, pair, time)
  <2>1. CASE <<pair, time>> \in rates
    BY <2>1
  <2>2. CASE \E r \in Pending \cup failed : Includes(r, pair, time)
    BY <2>2 DEF Includes
  <2>. QED
    BY <1>1, <1>4, <2>1, <2>2 DEF UpTo
<1>5. UpTo(E, rates', Pending', failed')
  BY <1>1, <1>3, <1>4 DEF UpTo
<1>6. \E F \in Times : F <= now' /\ UpTo(F, rates', Pending', failed')
  BY <1>2, <1>5
<1>7. \A pair \in Pair : <<pair, 0>> \in rates'
  BY DEF RatesIInv
<1>. QED
  BY <1>6, <1>7 DEF RatesIInv

(* What is known of a request under way.                                    *)
LEMMA PendingFacts ==
  ASSUME RatesIInv, NEW r \in Pending
  PROVE  /\ r \in Request /\ r.pair \in Pair
         /\ r.start \in Nat /\ r.end \in Nat /\ r.start < r.end /\ r.end <= MaxTime
         /\ r.start..r.end \subseteq Times
<1>1. Asks(r, 0, MaxTime)
  <2>1. PICK E \in Times : Asks(r, 0, E)
    BY DEF RatesIInv, UpTo
  <2>2. E <= MaxTime /\ E \in Nat /\ MaxTime \in Nat /\ r.end \in Nat
    BY <2>1, TimeIsNat DEF Asks, Request
  <2>. QED
    BY <2>1, <2>2 DEF Asks
<1>2. r \in Request /\ r.pair \in Pair /\ r.start \in Nat /\ r.end \in Nat
  BY <1>1, TimeIsNat DEF Asks, Request
<1>. QED
  BY <1>1, <1>2, TimeIsNat DEF Asks, Times

(* A request is answered, the end of its window included or not             *)
(* (CrawlExchangeRateByCurrencyPair).                                       *)
LEMMA AnswerKeeps ==
  ASSUME RatesIInv, NEW r \in sent, CrawlExchangeRateByCurrencyPair(r)
  PROVE  RatesIInv'
<1>1. PICK last \in {r.end - 1, r.end} :
        rates' = rates \cup ({r.pair} \X (r.start..last))
  BY DEF CrawlExchangeRateByCurrencyPair
<1>2. sent' = sent \ {r} /\ UNCHANGED <<now, requests, crawling, failed>>
  BY DEF CrawlExchangeRateByCurrencyPair
<1>3. /\ r \in Request /\ r.pair \in Pair /\ r.start \in Nat /\ r.end \in Nat
      /\ r.start < r.end /\ r.start..r.end \subseteq Times /\ r \in Pending
  BY PendingFacts DEF Pending
<1>4. r.start..last \subseteq r.start..r.end /\ last \in Nat
  BY <1>1, <1>3
<1>5. rates' \subseteq Pair \X Times /\ rates \subseteq rates'
  BY <1>1, <1>3, <1>4 DEF RatesIInv
<1>6. ASSUME NEW pair \in Pair, NEW time \in Times, <<pair, time>> \in rates' \ rates
      PROVE  \E q \in Pending : time <= q.end
  <2>1. time \in r.start..r.end
    BY <1>1, <1>4, <1>6
  <2>. QED
    BY <1>3, <2>1
<1>7. \A time \in Times : r.start <= time /\ time < r.end => <<r.pair, time>> \in rates'
  <2> SUFFICES ASSUME NEW time \in Times, r.start <= time, time < r.end
               PROVE  <<r.pair, time>> \in rates'
    OBVIOUS
  <2>1. time \in Nat
    BY TimeIsNat
  <2>2. time \in r.start..last
    BY <1>1, <1>3, <2>1
  <2>. QED
    BY <1>1, <2>2
<1>8. /\ Pending' \subseteq Pending
      /\ \A q \in Pending : q \in Pending' \/ q = r
  BY <1>2 DEF Pending, Elements
<1>9. /\ now' \in Times /\ now <= now' /\ requests' \in Seq(Request)
      /\ failed' \subseteq Request /\ crawling' \in BOOLEAN
      /\ (~ crawling' => sent' = {} /\ requests' = <<>>)
  BY <1>2, TimeIsNat DEF RatesIInv
<1>. QED
  BY <1>2, <1>5, <1>6, <1>7, <1>8, <1>9, WriteKeeps

(* A run that fails leaves what it had not stored behind.                   *)
LEMMA FailKeeps ==
  ASSUME RatesIInv, FailCrawl
  PROVE  RatesIInv'
<1>1. /\ failed' = failed \cup Pending /\ requests' = <<>> /\ sent' = {}
      /\ crawling' = FALSE /\ now' = now
  BY DEF FailCrawl, Pending, Elements
<1>2. Pending' = {}
  BY <1>1 DEF Pending, Elements
<1>3. PICK S : /\ rates' = rates \cup S
               /\ \/ S = {}
                  \/ \E r \in sent : \E first \in r.start..r.end :
                       S = {r.pair} \X (first..r.end)
  <2>1. CASE rates' = rates
    <3>1. rates' = rates \cup {}
      BY <2>1
    <3>. QED
      BY <3>1
  <2>2. CASE rates' # rates
    BY <2>2 DEF FailCrawl
  <2>. QED
    BY <2>1, <2>2
<1>4. ASSUME NEW pair, NEW time, <<pair, time>> \in S
      PROVE  pair \in Pair /\ time \in Times /\ \E r \in Pending : time <= r.end
  <2>0. PICK r \in sent : \E first \in r.start..r.end : S = {r.pair} \X (first..r.end)
    BY <1>3, <1>4
  <2>1. PICK first \in r.start..r.end : S = {r.pair} \X (first..r.end)
    BY <2>0
  <2>2. /\ r \in Pending /\ r.pair \in Pair /\ r.start \in Nat /\ r.end \in Nat
        /\ r.start..r.end \subseteq Times
    BY PendingFacts DEF Pending
  <2>3. pair = r.pair /\ time \in first..r.end
    BY <1>4, <2>1
  <2>4. time \in r.start..r.end
    BY <2>1, <2>2, <2>3
  <2>. QED
    BY <2>2, <2>3, <2>4
<1>5. S \subseteq Pair \X Times
  <2>1. CASE S = {}
    BY <2>1
  <2>2. CASE S # {}
    <3>1. PICK r \in sent : \E first \in r.start..r.end : S = {r.pair} \X (first..r.end)
      BY <1>3, <2>2
    <3>. QED
      BY <1>4, <3>1
  <2>. QED
    BY <2>1, <2>2
<1>6. rates' \subseteq Pair \X Times /\ rates \subseteq rates'
  BY <1>3, <1>5 DEF RatesIInv
<1>7. \A r \in Pending : r \in Request
  BY PendingFacts
<1>8. /\ now' \in Times /\ now <= now' /\ requests' \in Seq(Request)
      /\ failed' \subseteq Request /\ failed \subseteq failed'
  <2>1. now \in Nat /\ now \in Times
    BY TimeIsNat DEF RatesIInv
  <2>2. <<>> \in Seq(Request)
    OBVIOUS
  <2>. QED
    BY <1>1, <1>7, <2>1, <2>2 DEF RatesIInv
<1>. QED
  BY <1>1, <1>2, <1>3, <1>4, <1>6, <1>8, WriteKeeps

(* A new candle, and a run that ends.                                       *)
LEMMA QuietKeeps ==
  ASSUME RatesIInv, NextCandle \/ EndCrawl \/ UNCHANGED ratesVars
  PROVE  RatesIInv'
<1>1. /\ rates' = rates /\ requests' = requests /\ sent' = sent /\ failed' = failed
      /\ Pending' = Pending
  BY DEF NextCandle, EndCrawl, ratesVars, Pending, Elements
<1>2. now' \in Times /\ now <= now'
  <2>1. now \in Nat /\ now <= MaxTime /\ MaxTime \in Nat /\ now \in Times
    BY TimeIsNat DEF RatesIInv
  <2>2. CASE NextCandle
    BY <2>1, <2>2 DEF NextCandle, Times
  <2>3. CASE EndCrawl \/ UNCHANGED ratesVars
    BY <2>1, <2>3 DEF EndCrawl, ratesVars
  <2>. QED
    BY <2>2, <2>3
<1>3. crawling' \in BOOLEAN /\ (~ crawling' => sent' = {} /\ requests' = <<>>)
  BY DEF NextCandle, EndCrawl, ratesVars, RatesIInv
<1>4. requests' \in Seq(Request) /\ failed' \subseteq Request /\ rates' \subseteq Pair \X Times
  BY <1>1 DEF RatesIInv
<1>. QED
  BY <1>1, <1>2, <1>3, <1>4, WriteKeeps

(* The operator has stored the first candle of every pair.                  *)
LEMMA RatesInitHolds == RatesInit => RatesIInv
<1> SUFFICES ASSUME RatesInit PROVE RatesIInv
  OBVIOUS
<1>1. 0 \in Times /\ Pending = {}
  BY RatesAssumption DEF Times, RatesInit, Pending, Elements
<1>2. UpTo(0, rates, Pending, failed)
  BY <1>1, TimeIsNat DEF UpTo, RatesInit
<1>3. \E E \in Times : E <= now /\ UpTo(E, rates, Pending, failed)
  BY <1>1, <1>2 DEF RatesInit
<1>4. requests \in Seq(Request) /\ requests = <<>> /\ sent = {} /\ failed \subseteq Request
  BY DEF RatesInit
<1>5. rates \subseteq Pair \X Times /\ \A pair \in Pair : <<pair, 0>> \in rates
  BY <1>1 DEF RatesInit
<1>6. now \in Times /\ crawling \in BOOLEAN
  BY <1>1 DEF RatesInit
<1>. QED
  BY <1>3, <1>4, <1>5, <1>6 DEF RatesIInv

(* Every step of the cron and of its requests keeps RatesIInv.                   *)
LEMMA RatesStepKeeps == RatesIInv /\ [RatesNext]_ratesVars => RatesIInv'
<1> SUFFICES ASSUME RatesIInv, [RatesNext]_ratesVars PROVE RatesIInv'
  OBVIOUS
<1>1. CASE NextCandle \/ EndCrawl \/ UNCHANGED ratesVars
  BY <1>1, QuietKeeps
<1>2. CASE CrawlHistoricalExchangeRate
  BY <1>2, CrawlKeeps
<1>3. CASE SendBatch
  BY <1>3, SendKeeps
<1>4. CASE FailCrawl
  BY <1>4, FailKeeps
<1>5. CASE \E r \in sent : CrawlExchangeRateByCurrencyPair(r)
  BY <1>5, AnswerKeeps
<1>. QED
  BY <1>1, <1>2, <1>3, <1>4, <1>5 DEF RatesNext

(* The runs of the cron leave no gap before the latest candle, except where *)
(* a run failed: windows leave nothing between them, for no pair, and a run *)
(* starts where all pairs are complete (CrawlHistoricalExchangeRate).       *)
THEOREM RatesAreComplete == RatesSpec => []NoGapWithoutFailure
  BY RatesInitHolds, RatesStepKeeps, NoGap, PTL DEF RatesSpec

-----------------------------------------------------------------------------
(* Account indexing.                                                        *)

Update == [token : Token, time : BlockTimes \cup {UpdatedAt}]

FlowPlace == {"idle", "account", "fetch", "assets", "cursor", "tokens", "failed"}

Flow == [at : FlowPlace, first : BOOLEAN, tries : 0..(MaxTries - 1), from : Nat,
         last : Time, updates : Seq(Update), done : Nat]

AccountTypes ==
  /\ blockchain \in Blockchain
  /\ clock \in Time
  /\ moved \in [Token -> Time]
  /\ account \in [cursor : Time, recent : BOOLEAN]
  /\ stored \subseteq Token /\ missed \subseteq Token /\ lost \subseteq Token
  /\ listed \in [Token -> Time \cup {UpdatedAt}]
  /\ flows \in [Workflow -> Flow]
  /\ resets \in 0..MaxResets

(* The account token of t is new, or the update that a workflow has still   *)
(* to write is that of the latest block that moved t, or a failure left it  *)
(* out.                                                                     *)
Carries(f, held, from) == \E i \in from..Len(f.updates) : f.updates[i] = held

Fresh == {t \in Token : UpToDate(t)}

Coming ==
  {t \in Token : \E w \in Workflow :
     At(w, "tokens") /\ Carries(flows[w], Held(t), flows[w].done + 1)}

Written == stored \cap (Fresh \cup Coming \cup lost)

(* Everything that moved up to a block, but for the tokens of M, is in W.   *)
Reached(time, M, W) == \A t \in Indexed \ M : moved[t] \in 1..time => t \in W

Writing(f) == f.at \in {"assets", "tokens"}

(* What a page of Tezos promises: to write what moved up to its last block. *)
TezosPage(f, M, W) ==
  /\ f.from <= clock
  /\ f.at = "fetch" => Reached(f.from, M, W)
  /\ f.at \in {"assets", "cursor"} =>
       \A t \in Indexed \ M : moved[t] \in 1..f.last => t \in W \/ Carries(f, Held(t), 1)

(* The pages of OpenSea before the one at hand are written, and that one is *)
(* among the updates.                                                       *)
OpenseaFlow(f, S, L, M) ==
  /\ f.at \notin {"account", "cursor"}
  /\ \A t \in NFTsBefore(f.from) : (t \in S /\ L[t] # Never) \/ t \in Excluded \cup M
  /\ Writing(f) =>
       \A t \in NFTsOn(f.from) :
         (\E i \in 1..Len(f.updates) : f.updates[i].token = t) \/ t \in Excluded \cup M

(* Assets are stored before the account tokens are written, each in the     *)
(* order of the updates.                                                    *)
InOrder(f, S, L) ==
  /\ f.last <= clock
  /\ Writing(f) \/ f.at = "cursor" => f.done < Len(f.updates)
  /\ ~ Writing(f) => f.done = 0
  /\ \A i \in 1..Len(f.updates) :
       /\ f.at \in {"cursor", "tokens"} => f.updates[i].token \in S
       /\ f.at = "assets" /\ i <= f.done => f.updates[i].token \in S
       /\ f.at = "tokens" /\ i <= f.done => L[f.updates[i].token] # Never

FlowHolds(f, S, L, M, W) ==
  /\ InOrder(f, S, L)
  /\ Tezos => TezosPage(f, M, W)
  /\ ~ Tezos => OpenseaFlow(f, S, L, M)

AccountIInv ==
  /\ AccountTypes
  /\ account.cursor <= clock
  /\ \A t \in Token : moved[t] <= clock
  /\ Tezos => Reached(account.cursor, missed, Written)
  /\ \A w \in Workflow : FlowHolds(flows[w], stored, listed, missed, Written)

-----------------------------------------------------------------------------
(* What is promised stays so when more is stored, listed, left out and      *)
(* written.                                                                 *)
LEMMA FlowKept ==
  ASSUME NEW f \in Flow, NEW S, NEW L, NEW M, NEW W, NEW S2, NEW L2, NEW M2, NEW W2,
         FlowHolds(f, S, L, M, W), NFTs \in Seq(Token),
         S \subseteq S2, M \subseteq M2, W \subseteq W2,
         \A t \in Token : L[t] # Never => L2[t] # Never
  PROVE  FlowHolds(f, S2, L2, M2, W2)
<1>1. \A i \in 1..Len(f.updates) : f.updates[i].token \in Token
  <2>1. f.updates \in Seq(Update)
    BY DEF Flow
  <2>2. \A i \in 1..Len(f.updates) : f.updates[i] \in Update
    BY <2>1
  <2>. QED
    BY <2>2 DEF Update
<1>2. NFTsBefore(f.from) \subseteq Token
  BY DEF NFTsBefore
<1>3. InOrder(f, S2, L2)
  BY <1>1 DEF FlowHolds, InOrder
<1>4. Tezos => TezosPage(f, M2, W2)
  BY DEF FlowHolds, TezosPage, Reached
<1>5. ~ Tezos => OpenseaFlow(f, S2, L2, M2)
  BY <1>2 DEF FlowHolds, OpenseaFlow
<1>. QED
  BY <1>3, <1>4, <1>5 DEF FlowHolds

(* A step of one workflow.                                                  *)
LEMMA FlowStep ==
  ASSUME AccountIInv, NEW w \in Workflow, NEW f \in Flow,
         flows' = [flows EXCEPT ![w] = f],
         UNCHANGED <<blockchain, clock, moved>>,
         account' \in [cursor : Time, recent : BOOLEAN], resets' \in 0..MaxResets,
         stored \subseteq stored', stored' \subseteq Token,
         missed \subseteq missed', missed' \subseteq Token, lost' \subseteq Token,
         listed' \in [Token -> Time \cup {UpdatedAt}],
         \A t \in Token : listed[t] # Never => listed'[t] # Never,
         Written \subseteq Written',
         account'.cursor <= clock,
         Tezos => Reached(account'.cursor, missed', Written'),
         FlowHolds(f, stored', listed', missed', Written')
  PROVE  AccountIInv'
<1>1. flows' \in [Workflow -> Flow] /\ \A v \in Workflow : flows'[v] = IF v = w THEN f ELSE flows[v]
  BY DEF AccountIInv, AccountTypes
<1>2. AccountTypes'
  BY <1>1 DEF AccountIInv, AccountTypes
<1>3. (account.cursor <= clock)' /\ (\A t \in Token : moved[t] <= clock)'
  BY DEF AccountIInv
<1>4. (Tezos => Reached(account.cursor, missed, Written))'
  BY DEF Tezos, Reached
<1>5. \A v \in Workflow : FlowHolds(flows'[v], stored', listed', missed', Written')
  <2>1. SUFFICES ASSUME NEW v \in Workflow, v # w
                 PROVE  FlowHolds(flows[v], stored', listed', missed', Written')
    BY <1>1
  <2>2. flows[v] \in Flow /\ FlowHolds(flows[v], stored, listed, missed, Written)
    BY DEF AccountIInv, AccountTypes
  <2>. QED
    BY <2>2, FlowKept, AccountAssumption
<1>6. (\A v \in Workflow : FlowHolds(flows[v], stored, listed, missed, Written))'
  <2>1. SUFFICES ASSUME NEW v \in Workflow
                 PROVE  FlowHolds(flows[v], stored, listed, missed, Written)'
    OBVIOUS
  <2>2. FlowHolds(flows'[v], stored', listed', missed', Written')
    BY <1>5
  <2>. QED
    BY <2>2 DEF FlowHolds, InOrder, TezosPage, OpenseaFlow, Reached, Tezos, Held
<1>. QED
  BY <1>2, <1>3, <1>4, <1>6 DEF AccountIInv

(* What is written stays so, when a workflow that has account tokens to     *)
(* write still has them, or they are written or left out.                   *)
LEMMA WrittenStays ==
  ASSUME NEW w \in Workflow, NEW f \in Flow, flows \in [Workflow -> Flow],
         flows' = [flows EXCEPT ![w] = f],
         UNCHANGED moved, stored \subseteq stored', Fresh \subseteq Fresh',
         lost \subseteq lost' \cup Fresh',
         \A t \in Token :
           At(w, "tokens") /\ Carries(flows[w], Held(t), flows[w].done + 1) =>
             \/ f.at = "tokens" /\ Carries(f, Held(t), f.done + 1)
             \/ t \in lost' \cup Fresh'
  PROVE  Written \subseteq Written'
<1>1. Coming \subseteq Coming' \cup lost' \cup Fresh'
  <2>1. SUFFICES ASSUME NEW t \in Token, NEW v \in Workflow, At(v, "tokens"),
                        Carries(flows[v], Held(t), flows[v].done + 1)
                 PROVE  t \in Coming' \cup lost' \cup Fresh'
    BY DEF Coming
  <2>2. CASE v # w
    <3>1. flows'[v] = flows[v]
      BY <2>2
    <3>. QED
      BY <2>1, <3>1 DEF Coming, At, Carries, Held
  <2>3. CASE v = w
    <3>1. flows'[w] = f
      OBVIOUS
    <3>2. CASE f.at = "tokens" /\ Carries(f, Held(t), f.done + 1)
      BY <3>1, <3>2 DEF Coming, At, Carries, Held
    <3>. QED
      BY <2>1, <2>3, <3>2
  <2>. QED
    BY <2>2, <2>3
<1>. QED
  BY <1>1 DEF Written
-----------------------------------------------------------------------------
(* Facts of a workflow and what it carries.                                 *)

LEMMA SeqOfMore ==
  ASSUME NEW S, NEW T, S \subseteq T, NEW u \in Seq(S)
  PROVE  u \in Seq(T)
<1>1. PICK n \in Nat : u \in [1..n -> S]
  OBVIOUS
<1>2. u \in [1..n -> T]
  BY <1>1
<1>. QED
  BY <1>2

LEMMA FlowFields ==
  ASSUME AccountIInv, NEW w \in Workflow
  PROVE  /\ flows[w] \in Flow
         /\ flows[w].updates \in Seq(Update)
         /\ FlowHolds(flows[w], stored, listed, missed, Written)
  BY DEF AccountIInv, AccountTypes, Flow

LEMMA Constants ==
  ASSUME AccountAssumption
  PROVE  /\ Time \subseteq Nat /\ 0 \in Time /\ UpdatedAt \in Nat \ {0}
         /\ BlockTimes \subseteq Time /\ BlockTimes \subseteq Nat \ {0}
         /\ PageSize \in Nat \ {0} /\ MaxTries \in Nat \ {0} /\ Margin \in Nat
         /\ NFTs \in Seq(Token)
  BY DEF AccountAssumption, Time, Never, UpdatedAt

LEMMA Clock ==
  ASSUME AccountIInv, AccountAssumption
  PROVE  /\ clock \in Nat /\ account.cursor \in Nat /\ account.cursor \in Time
         /\ moved \in [Token -> Nat] /\ listed \in [Token -> Nat]
  BY Constants DEF AccountIInv, AccountTypes

LEMMA ResetFlow ==
  ASSUME AccountAssumption
  PROVE  /\ NoFlow \in Flow /\ NoFlow.at = "idle" /\ NoFlow.first = TRUE /\ NoFlow.tries = 0
         /\ NoFlow.from = 0 /\ NoFlow.last = 0 /\ NoFlow.updates = <<>> /\ NoFlow.done = 0
  BY DEF AccountAssumption, NoFlow, Flow, FlowPlace, Time, Never

(* A workflow that has nothing in hand promises nothing.                    *)
LEMMA EmptyFlow ==
  ASSUME NEW f \in Flow, NEW S, NEW L, NEW M, NEW W,
         f.at \in {"idle", "account", "fetch", "failed"},
         f.last <= clock, f.done = 0,
         Tezos => f.from <= clock /\ (f.at = "fetch" => Reached(f.from, M, W)),
         ~ Tezos => f.at # "account",
         ~ Tezos => \A t \in NFTsBefore(f.from) : (t \in S /\ L[t] # Never) \/ t \in Excluded \cup M
  PROVE  FlowHolds(f, S, L, M, W)
<1>1. InOrder(f, S, L)
  BY DEF InOrder, Writing
<1>2. Tezos => TezosPage(f, M, W)
  BY DEF TezosPage
<1>3. ~ Tezos => OpenseaFlow(f, S, L, M)
  BY DEF OpenseaFlow, Writing
<1>. QED
  BY <1>1, <1>2, <1>3 DEF FlowHolds

LEMMA NothingBefore ==
  ASSUME AccountAssumption
  PROVE  NFTsBefore(0) = {}
<1>1. 0 * PageSize = 0 /\ DOMAIN NFTs \subseteq Nat \ {0}
  BY DEF AccountAssumption
<1>. QED
  BY <1>1 DEF NFTsBefore

LEMMA EndedFlow ==
  ASSUME AccountAssumption, clock \in Nat, NEW S, NEW L, NEW M, NEW W
  PROVE  FlowHolds(NoFlow, S, L, M, W)
<1>1. NFTsBefore(NoFlow.from) = {}
  BY ResetFlow, NothingBefore
<1>2. /\ NoFlow \in Flow /\ NoFlow.at = "idle" /\ NoFlow.last <= clock
      /\ NoFlow.from <= clock /\ NoFlow.done = 0
  <2>1. /\ NoFlow \in Flow /\ NoFlow.at = "idle" /\ NoFlow.last = 0 /\ NoFlow.from = 0
        /\ NoFlow.done = 0
    BY ResetFlow
  <2>. QED
    BY <2>1
<1>. QED
  BY <1>1, <1>2, EmptyFlow

(* A step of one workflow that touches nothing but what is left out.        *)
LEMMA ReadStep ==
  ASSUME AccountIInv, NEW w \in Workflow, NEW f \in Flow, ~ At(w, "tokens"),
         flows' = [flows EXCEPT ![w] = f],
         UNCHANGED <<blockchain, clock, moved, account, stored, listed, resets, lost>>,
         missed \subseteq missed', missed' \subseteq Token,
         FlowHolds(f, stored, listed, missed', Written)
  PROVE  AccountIInv'
<1>1. Written \subseteq Written'
  <2>1. Fresh \subseteq Fresh'
    BY DEF Fresh, UpToDate
  <2>. QED
    BY <2>1, WrittenStays DEF AccountIInv, AccountTypes
<1>2. FlowHolds(f, stored', listed', missed', Written')
  BY <1>1, FlowKept, AccountAssumption DEF AccountAssumption
<1>3. Tezos => Reached(account'.cursor, missed', Written')
  BY <1>1 DEF AccountIInv, Reached
<1>4. /\ account' \in [cursor : Time, recent : BOOLEAN] /\ resets' \in 0..MaxResets
      /\ stored' \subseteq Token /\ lost' \subseteq Token
      /\ listed' \in [Token -> Time \cup {UpdatedAt}]
      /\ account'.cursor <= clock
  BY DEF AccountIInv, AccountTypes
<1>. QED
  BY <1>1, <1>2, <1>3, <1>4, FlowStep

LEMMA StartInv ==
  ASSUME AccountIInv, NEW w \in Workflow, Start(w)
  PROVE  AccountIInv'
<1> DEFINE f == [NoFlow EXCEPT !.at = IF Tezos THEN "account" ELSE "fetch"]
<1>1. /\ f \in Flow /\ f.at = (IF Tezos THEN "account" ELSE "fetch")
      /\ f.last = 0 /\ f.from = 0 /\ f.done = 0
  BY ResetFlow, AccountAssumption DEF Flow, FlowPlace
<1>2. ~ At(w, "tokens")
  BY DEF Start, Stopped, At
<1>3. clock \in Nat
  BY Clock, AccountAssumption
<1>5. /\ flows' = [flows EXCEPT ![w] = f]
      /\ UNCHANGED <<blockchain, clock, moved, account, stored, listed, resets, lost>>
      /\ UNCHANGED missed /\ missed \subseteq Token
  BY DEF Start, AccountIInv, AccountTypes
<1> HIDE DEF f
<1>6. NFTsBefore(f.from) = {}
  BY <1>1, NothingBefore, AccountAssumption
<1>4. FlowHolds(f, stored, listed, missed, Written)
  BY <1>1, <1>3, <1>6, EmptyFlow
<1>. QED
  BY <1>1, <1>2, <1>4, <1>5, ReadStep

LEMMA ReadAccountInv ==
  ASSUME AccountIInv, NEW w \in Workflow, ReadAccount(w)
  PROVE  AccountIInv'
<1>1. ~ At(w, "tokens") /\ flows[w].at = "account"
  BY DEF ReadAccount, At
<1>2. clock \in Nat /\ account.cursor \in Nat
  BY Clock, AccountAssumption
<1>3. UNCHANGED <<blockchain, clock, moved, account, stored, listed, resets, lost>>
      /\ UNCHANGED missed /\ missed \subseteq Token
  BY DEF ReadAccount, AccountIInv, AccountTypes
<1>4. CASE End(w)
  <2>1. FlowHolds(NoFlow, stored, listed, missed, Written)
    BY <1>2, EndedFlow, AccountAssumption
  <2>. QED
    BY <1>1, <1>3, <1>4, <2>1, ResetFlow, ReadStep, AccountAssumption DEF End
<1>5. CASE flows' = [flows EXCEPT ![w].at = "fetch", ![w].from = account.cursor]
  <2> DEFINE f == [[flows[w] EXCEPT !.at = "fetch"] EXCEPT !.from = account.cursor]
  <2>1. flows' = [flows EXCEPT ![w] = f]
    BY <1>5 DEF AccountIInv, AccountTypes
  <2>2. f \in Flow /\ f.at = "fetch" /\ f.from = account.cursor
        /\ f.last = flows[w].last /\ f.done = flows[w].done
    BY <1>2, FlowFields DEF Flow, FlowPlace
  <2>3. Tezos /\ flows[w].last <= clock /\ flows[w].done = 0
    BY <1>1, FlowFields DEF FlowHolds, OpenseaFlow, InOrder, Writing
  <2>4. account.cursor <= clock /\ Reached(account.cursor, missed, Written)
    BY <2>3 DEF AccountIInv
  <2> HIDE DEF f
  <2>5. FlowHolds(f, stored, listed, missed, Written)
    BY <2>2, <2>3, <2>4, EmptyFlow
  <2>. QED
    BY <1>1, <1>3, <2>1, <2>2, <2>5, ReadStep
<1>. QED
  BY <1>4, <1>5 DEF ReadAccount
-----------------------------------------------------------------------------
(* Pages.                                                                   *)

(* An increasing map from n places to n places meets them all.              *)
LEMMA IncreasingIsOnto ==
  ASSUME NEW K \in SUBSET Nat, IsFiniteSet(K), NEW n \in Nat, n = Cardinality(K),
         NEW p \in [1..n -> K], \A j, k \in 1..n : j < k => p[j] < p[k]
  PROVE  \A x \in K : \E k \in 1..n : p[k] = x
<1>1. \A j, k \in 1..n : j # k => p[j] # p[k]
  <2>1. SUFFICES ASSUME NEW j \in 1..n, NEW k \in 1..n, j # k
                 PROVE  p[j] # p[k]
    OBVIOUS
  <2>2. p[j] \in Nat /\ p[k] \in Nat /\ j \in Nat /\ k \in Nat
    <3>1. p[j] \in K /\ p[k] \in K
      OBVIOUS
    <3>2. j \in Nat /\ k \in Nat
      OBVIOUS
    <3>. QED
      BY <3>1, <3>2
  <2>3. j < k \/ k < j
    BY <2>1, <2>2
  <2>. QED
    BY <2>2, <2>3
<1>2. p \in Injection(1..n, K)
  BY <1>1 DEF Injection, IsInjective
<1>3. Cardinality(1..n) = n
  BY FS_Interval
<1>4. p \in Surjection(1..n, K)
  BY <1>2, <1>3, FS_Injection
<1>. QED
  BY <1>4 DEF Surjection

(* What is left of a page is all that is not among the tokens left out.     *)
LEMMA WithoutTokens ==
  ASSUME NEW n \in Nat, NEW page \in [1..n -> Update], NEW T, NEW rest \in PageWithout(page, T)
  PROVE  /\ rest \in Seq(Update)
         /\ \A j \in 1..n : page[j].token \notin T => \E i \in 1..Len(rest) : rest[i] = page[j]
<1> DEFINE K == {i \in DOMAIN page : page[i].token \notin T}
           m == Cardinality(K)
<1>1. DOMAIN page = 1..n /\ K \in SUBSET Nat /\ K \subseteq 1..n
  OBVIOUS
<1>2. IsFiniteSet(K) /\ m \in Nat
  <2> HIDE DEF K
  <2>1. IsFiniteSet(1..n)
    BY FS_Interval
  <2>2. IsFiniteSet(K)
    BY <1>1, <2>1, FS_Subset
  <2>. QED
    BY <2>2, FS_CardinalityType
<1>3. PICK p \in [1..m -> K] :
        /\ \A j, k \in 1..m : j < k => p[j] < p[k]
        /\ rest = [k \in 1..m |-> page[p[k]]]
  BY DEF PageWithout
<1>4. \A x \in K : \E k \in 1..m : p[k] = x
  <2> HIDE DEF K
  <2>. QED
    BY <1>1, <1>2, <1>3, IncreasingIsOnto
<1>5. \A k \in 1..m : p[k] \in 1..n
  BY <1>3
<1>6. rest \in [1..m -> Update]
  BY <1>3, <1>5
<1>7. rest \in Seq(Update) /\ Len(rest) = m
  <2> HIDE DEF m
  <2>. QED
    BY <1>2, <1>6
<1>8. ASSUME NEW j \in 1..n, page[j].token \notin T
      PROVE  \E i \in 1..Len(rest) : rest[i] = page[j]
  <2>1. j \in K
    BY <1>1, <1>8
  <2>2. PICK k \in 1..m : p[k] = j
    BY <1>4, <2>1
  <2>3. rest[k] = page[j]
    BY <1>3, <2>2
  <2>. QED
    BY <1>7, <2>3
<1>. QED
  BY <1>7, <1>8

LEMMA HeldIsFinite ==
  ASSUME AccountAssumption, NEW from
  PROVE  IsFiniteSet(HeldAfter(from))
<1> DEFINE Mv == {t \in Token : moved[t] > from}
           f == [t \in Mv |-> Held(t)]
<1>1. IsFiniteSet(Token)
  BY DEF AccountAssumption
<1>2. IsFiniteSet(Mv)
  BY <1>1, FS_Subset
<1>3. f \in Surjection(Mv, HeldAfter(from))
  BY DEF Surjection, HeldAfter
<1>. QED
  BY <1>2, <1>3, FS_Surjection

(* A page that is not full holds everything.                                *)
LEMMA WholePage ==
  ASSUME NEW from \in Nat, NEW page \in PagesAfter(from), IsFiniteSet(HeldAfter(from)),
         Cardinality(HeldAfter(from)) < PageSize
  PROVE  \A held \in HeldAfter(from) :
           \E i \in 1..Cardinality(HeldAfter(from)) : page[i] = held
<1> DEFINE H == HeldAfter(from)
           n == Cardinality(H)
<1>1. n \in Nat
  BY FS_CardinalityType
<1>2. page \in [1..n -> H] /\ \A i, j \in 1..n : i < j => page[i] # page[j]
  BY DEF PagesAfter
<1> HIDE DEF n
<1>3. \A i, j \in 1..n : i # j => page[i] # page[j]
  <2>1. SUFFICES ASSUME NEW i \in 1..n, NEW j \in 1..n, i # j
                 PROVE  page[i] # page[j]
    OBVIOUS
  <2>2. i < j \/ j < i
    BY <1>1, <2>1
  <2>. QED
    BY <1>2, <2>2
<1>4. page \in Injection(1..n, H)
  BY <1>2, <1>3 DEF Injection, IsInjective
<1>5. Cardinality(1..n) = n
  BY <1>1, FS_Interval
<1>6. page \in Surjection(1..n, H)
  BY <1>4, <1>5, FS_Injection DEF n
<1>. QED
  BY <1>6 DEF Surjection, n

(* A page of tzkt is a sequence of what moved after the cursor; what is not *)
(* on it moved in the last block of the page or later.                      *)
LEMMA TezosPageFacts ==
  ASSUME AccountIInv, AccountAssumption, NEW from \in Nat, NEW page \in PagesAfter(from)
  PROVE  \E n \in Nat :
           /\ page \in [1..n -> Update]
           /\ \A i \in 1..n : /\ page[i] \in HeldAfter(from)
                              /\ n > 0 => page[i].time <= page[n].time
           /\ n > 0 => \A t \in Token : moved[t] > from =>
                \/ \E i \in 1..n : page[i] = Held(t)
                \/ page[n].time <= moved[t]
<1> DEFINE H == HeldAfter(from)
           n == IF Cardinality(H) < PageSize THEN Cardinality(H) ELSE PageSize
<1>2. IsFiniteSet(H)
  BY HeldIsFinite
<1>3. n \in Nat
  BY <1>2, FS_CardinalityType, Constants
<1>4. /\ page \in [1..n -> H]
      /\ \A i, j \in 1..n : i < j => page[i] # page[j] /\ page[i].time <= page[j].time
      /\ \A i \in 1..n : \A held \in H \ {page[k] : k \in 1..n} : page[i].time <= held.time
  BY DEF PagesAfter
<1>5. \A held \in H : held.time \in Nat
  BY Clock DEF HeldAfter, Held
<1>6. H \subseteq Update
  <2>1. \A t \in Token : moved[t] > from => moved[t] \in BlockTimes
    BY Clock DEF AccountIInv, AccountTypes, Time, Never
  <2>. QED
    BY <2>1 DEF HeldAfter, Held, Update
<1> HIDE DEF n
<1>7. page \in [1..n -> Update]
  BY <1>4, <1>6
<1>8. \A i \in 1..n : n > 0 => page[i].time <= page[n].time
  BY <1>3, <1>4, <1>5
<1>9. ASSUME n > 0, NEW t \in Token, moved[t] > from
      PROVE  (\E i \in 1..n : page[i] = Held(t)) \/ page[n].time <= moved[t]
  <2>1. Held(t) \in H /\ Held(t).time = moved[t]
    BY <1>9 DEF HeldAfter, Held
  <2>2. n \in 1..n
    BY <1>3, <1>9
  <2> HIDE DEF H
  <2>. QED
    BY <1>4, <2>1, <2>2
<1>. QED
  BY <1>3, <1>4, <1>7, <1>8, <1>9

LEMMA FetchedFlow ==
  ASSUME AccountIInv, AccountAssumption, NEW w \in Workflow, At(w, "fetch"),
         NEW updates \in Seq(Update), NEW last \in Time, Fetched(w, updates, last)
  PROVE  \E f \in Flow :
           /\ flows' = [flows EXCEPT ![w] = f]
           /\ \/ updates = <<>> /\ f = NoFlow
              \/ /\ updates # <<>> /\ f.at = "assets" /\ f.updates = updates
                 /\ f.last = last /\ f.done = 0
                 /\ f.from = IF Tezos THEN 0 ELSE flows[w].from
<1>1. CASE updates = <<>>
  BY <1>1, ResetFlow DEF Fetched, NothingToIndex, End
<1>2. CASE updates # <<>>
  <2> DEFINE from == IF Tezos THEN 0 ELSE flows[w].from
             f == [[[[flows[w] EXCEPT !.at = "assets"] EXCEPT !.updates = updates]
                      EXCEPT !.from = from] EXCEPT !.last = last]
  <2>1. flows[w] \in Flow /\ flows[w].from \in Nat /\ flows[w].done = 0
    BY FlowFields DEF Flow, FlowHolds, InOrder, Writing, At
  <2>2. from \in Nat
    BY <2>1
  <2>3. flows' = [flows EXCEPT ![w] = f]
    BY <1>2 DEF Fetched, NothingToIndex, AccountIInv, AccountTypes
  <2> HIDE DEF from
  <2>4. f \in Flow /\ f.at = "assets" /\ f.updates = updates /\ f.last = last
        /\ f.from = from /\ f.done = 0
    BY <2>1, <2>2 DEF Flow, FlowPlace
  <2>. QED
    BY <1>2, <2>3, <2>4 DEF from
<1>. QED
  BY <1>1, <1>2

LEMMA FetchTezosInv ==
  ASSUME AccountIInv, AccountAssumption, NEW w \in Workflow, FetchTezos(w)
  PROVE  AccountIInv'
<1> DEFINE from == flows[w].from
<1>1. PICK page \in PagesAfter(from) : \E updates \in UpdatesOf(page) :
        /\ Fetched(w, updates, NewLastTime(page))
        /\ missed' = IF NothingToIndex(updates) THEN missed ELSE missed \cup CutOff(page)
  BY DEF FetchTezos
<1>2. PICK updates \in UpdatesOf(page) :
        /\ Fetched(w, updates, NewLastTime(page))
        /\ missed' = IF NothingToIndex(updates) THEN missed ELSE missed \cup CutOff(page)
  BY <1>1
<1>3. /\ Tezos /\ At(w, "fetch") /\ ~ At(w, "tokens")
      /\ UNCHANGED <<blockchain, clock, moved, account, stored, listed, resets, lost>>
  BY DEF FetchTezos, At
<1>4. /\ from \in Nat /\ from <= clock /\ Reached(from, missed, Written)
      /\ flows[w].done = 0
  BY <1>3, FlowFields DEF Flow, FlowHolds, TezosPage, InOrder, Writing, At
<1>5. PICK n \in Nat :
        /\ page \in [1..n -> Update]
        /\ \A i \in 1..n : /\ page[i] \in HeldAfter(from)
                           /\ n > 0 => page[i].time <= page[n].time
        /\ n > 0 => \A t \in Token : moved[t] > from =>
             \/ \E i \in 1..n : page[i] = Held(t)
             \/ page[n].time <= moved[t]
  BY <1>4, TezosPageFacts
<1>6. /\ updates \in Seq(Update)
      /\ \A j \in 1..n : page[j].token \notin Excluded =>
           \E i \in 1..Len(updates) : updates[i] = page[j]
  <2>1. updates \in PageWithout(page, Excluded)
    BY <1>2 DEF UpdatesOf
  <2>2. page \in [1..n -> Update]
    BY <1>5
  <2>. QED
    BY <2>1, <2>2, WithoutTokens
<1>7. missed \subseteq missed' /\ missed' \subseteq Token /\ missed \subseteq Token
  <2>1. CutOff(page) \subseteq Token
    BY DEF CutOff
  <2>. QED
    BY <1>2, <2>1 DEF AccountIInv, AccountTypes
<1>8. CASE updates = <<>>
  <2>1. flows' = [flows EXCEPT ![w] = NoFlow]
    BY <1>2, <1>8 DEF Fetched, NothingToIndex, End
  <2>2. FlowHolds(NoFlow, stored, listed, missed', Written)
    BY EndedFlow, Clock
  <2>3. NoFlow \in Flow
    BY ResetFlow
  <2>. QED
    BY <1>3, <1>7, <2>1, <2>2, <2>3, ReadStep
<1>9. CASE updates # <<>>
  <2>1. n > 0
    <3>1. SUFFICES ASSUME n = 0
                   PROVE  FALSE
      BY <1>5
    <3>2. DOMAIN page = {}
      BY <1>5, <3>1
    <3>3. UpdatesOf(page) = {<<>>}
      BY <3>2, FS_EmptySet DEF UpdatesOf, PageWithout
    <3>. QED
      BY <1>9, <3>3
  <2>2. NewLastTime(page) = page[n].time /\ page # <<>>
    BY <1>5, <2>1 DEF NewLastTime
  <2>3. \E t \in Token : page[n].time = moved[t]
    BY <1>5, <2>1 DEF HeldAfter, Held
  <2>4. page[n].time \in Time /\ page[n].time <= clock
    BY <2>3 DEF AccountIInv, AccountTypes
  <2>5. PICK f \in Flow :
          /\ flows' = [flows EXCEPT ![w] = f]
          /\ f.at = "assets" /\ f.updates = updates /\ f.done = 0
          /\ f.last = page[n].time /\ f.from = 0
    BY <1>2, <1>3, <1>6, <1>9, <2>2, <2>4, FetchedFlow
  <2>6. missed' = missed \cup CutOff(page)
    BY <1>2, <1>9 DEF NothingToIndex
  <2>7. InOrder(f, stored, listed)
    BY <1>6, <1>9, <2>4, <2>5 DEF InOrder, Writing
  <2>8. ASSUME NEW t \in Indexed \ missed', moved[t] \in 1..page[n].time
        PROVE  t \in Written \/ Carries(f, Held(t), 1)
    <3>1. CASE moved[t] <= from
      BY <1>4, <1>7, <2>8, <3>1, Clock DEF Reached, Indexed
    <3>2. CASE moved[t] > from
      <4>1. t \in Token /\ t \notin Excluded /\ moved[t] \in Nat /\ page[n].time \in Nat
        BY <2>4, <2>8, Clock, Constants DEF Indexed
      <4>2. \E i \in 1..n : page[i] = Held(t)
        <5>1. SUFFICES ASSUME ~ \E i \in 1..n : page[i] = Held(t)
                       PROVE  FALSE
          OBVIOUS
        <5>2. moved[t] = page[n].time
          BY <1>5, <2>1, <2>8, <3>2, <4>1, <5>1
        <5>3. t \notin {page[i].token : i \in DOMAIN page}
          BY <1>5, <5>1 DEF HeldAfter, Held
        <5>. QED
          BY <2>2, <2>6, <2>8, <4>1, <5>2, <5>3 DEF CutOff
      <4>3. Held(t).token = t
        BY DEF Held
      <4>4. \E i \in 1..Len(updates) : updates[i] = Held(t)
        BY <1>6, <4>1, <4>2, <4>3
      <4>. QED
        BY <2>5, <4>4 DEF Carries
    <3>. QED
      BY <1>4, <2>8, <3>1, <3>2, Clock DEF Indexed
  <2>9. TezosPage(f, missed', Written)
    BY <2>5, <2>8, Clock DEF TezosPage
  <2>10. FlowHolds(f, stored, listed, missed', Written)
    BY <1>3, <2>7, <2>9 DEF FlowHolds
  <2>. QED
    BY <1>3, <1>7, <2>5, <2>10, ReadStep
<1>. QED
  BY <1>8, <1>9

(* A page of OpenSea, and those before and after it.                        *)
LEMMA OpenseaPageFacts ==
  ASSUME AccountAssumption, NEW n \in Nat
  PROVE  /\ \E m \in Nat : OpenseaPage(n) \in [1..m -> Update]
         /\ NFTsOn(n) \subseteq Token /\ NFTsFrom(n) \subseteq Token
         /\ NFTsFrom(0) \subseteq NFTsBefore(n) \cup NFTsFrom(n)
         /\ ~ LastPage(n) => NFTsBefore(n + 1) \subseteq NFTsBefore(n) \cup NFTsOn(n)
         /\ LastPage(n) => NFTsFrom(n) \subseteq NFTsOn(n)
         /\ \A i \in DOMAIN OpenseaPage(n) : OpenseaPage(n)[i].token \in NFTsOn(n)
<1> DEFINE a == n * PageSize
           b == (n + 1) * PageSize
           c == IF b > Len(NFTs) THEN Len(NFTs) ELSE b
<1>1. PageSize \in Nat \ {0} /\ NFTs \in Seq(Token) /\ Len(NFTs) \in Nat
      /\ DOMAIN NFTs = 1..Len(NFTs) /\ \A i \in 1..Len(NFTs) : NFTs[i] \in Token
  BY Constants
<1>2. a \in Nat /\ b = a + PageSize /\ 0 * PageSize = 0
  BY <1>1
<1>3. OpenseaPage(n) = [i \in 1..(c - a) |-> [token |-> NFTs[a + i], time |-> UpdatedAt]]
  BY DEF OpenseaPage
<1>4. /\ NFTsBefore(n) = {NFTs[i] : i \in {i \in DOMAIN NFTs : i <= a}}
      /\ NFTsBefore(n + 1) = {NFTs[i] : i \in {i \in DOMAIN NFTs : i <= b}}
      /\ NFTsFrom(n) = {NFTs[i] : i \in {i \in DOMAIN NFTs : i > a}}
      /\ LastPage(n) <=> b >= Len(NFTs)
  BY DEF NFTsBefore, NFTsFrom, LastPage
<1>5. NFTsFrom(0) = {NFTs[i] : i \in {i \in DOMAIN NFTs : i > 0}}
  BY <1>2 DEF NFTsFrom
<1> HIDE DEF a, b
<1>6. c \in Nat /\ c <= Len(NFTs) /\ c <= b
  BY <1>1, <1>2
<1> HIDE DEF c
<1>7. \A i \in 1..(c - a) : a + i \in 1..Len(NFTs)
  BY <1>1, <1>2, <1>6
<1>8. DOMAIN OpenseaPage(n) = 1..(c - a)
      /\ \A i \in 1..(c - a) : OpenseaPage(n)[i] = [token |-> NFTs[a + i], time |-> UpdatedAt]
  BY <1>3
<1>9. \A i \in 1..(c - a) : OpenseaPage(n)[i] \in Update /\ OpenseaPage(n)[i].token = NFTs[a + i]
  BY <1>1, <1>7, <1>8 DEF Update
<1>10. \E m \in Nat : OpenseaPage(n) \in [1..m -> Update]
  <2>1. CASE c >= a
    <3>1. c - a \in Nat
      BY <1>2, <1>6, <2>1
    <3>2. OpenseaPage(n) \in [1..(c - a) -> Update]
      BY <1>3, <1>9
    <3>. QED
      BY <3>1, <3>2
  <2>2. CASE c < a
    <3>1. 1..(c - a) = 1..0
      BY <1>2, <1>6, <2>2
    <3>2. OpenseaPage(n) \in [1..0 -> Update]
      BY <1>3, <1>9, <3>1
    <3>. QED
      BY <3>2
  <2>. QED
    BY <1>2, <1>6, <2>1, <2>2
<1>11. NFTsOn(n) = {NFTs[a + i] : i \in 1..(c - a)}
  BY <1>8, <1>9 DEF NFTsOn
<1>12. NFTsOn(n) \subseteq Token /\ NFTsFrom(n) \subseteq Token
  BY <1>1, <1>4, <1>7, <1>11
<1>13. NFTsFrom(0) \subseteq NFTsBefore(n) \cup NFTsFrom(n)
  BY <1>1, <1>2, <1>4, <1>5
<1>14. ASSUME NEW i \in 1..Len(NFTs), a < i, i <= c
       PROVE  NFTs[i] \in NFTsOn(n)
  <2>1. i - a \in 1..(c - a) /\ a + (i - a) = i
    BY <1>1, <1>2, <1>6, <1>14
  <2>. QED
    BY <1>11, <2>1
<1>15. ~ LastPage(n) => NFTsBefore(n + 1) \subseteq NFTsBefore(n) \cup NFTsOn(n)
  <2>1. SUFFICES ASSUME ~ LastPage(n), NEW i \in 1..Len(NFTs), i <= b
                 PROVE  NFTs[i] \in NFTsBefore(n) \cup NFTsOn(n)
    BY <1>1, <1>4
  <2>2. c = b
    BY <1>1, <1>2, <1>4, <2>1 DEF c
  <2>3. CASE i <= a
    BY <1>1, <1>4, <2>3
  <2>4. CASE a < i
    BY <1>14, <2>1, <2>2, <2>4
  <2>. QED
    BY <1>2, <2>3, <2>4
<1>16. LastPage(n) => NFTsFrom(n) \subseteq NFTsOn(n)
  <2>1. SUFFICES ASSUME LastPage(n), NEW i \in 1..Len(NFTs), i > a
                 PROVE  NFTs[i] \in NFTsOn(n)
    BY <1>1, <1>4
  <2>2. c = Len(NFTs)
    <3>1. b >= Len(NFTs) /\ b \in Nat
      BY <1>1, <1>2, <1>4, <2>1
    <3>2. CASE b > Len(NFTs)
      BY <3>2 DEF c
    <3>3. CASE b = Len(NFTs)
      BY <3>3 DEF c
    <3>4. Len(NFTs) \in Nat
      BY <1>1
    <3>5. b > Len(NFTs) \/ b = Len(NFTs)
      BY <3>1, <3>4
    <3>. QED
      BY <3>2, <3>3, <3>5
  <2>. QED
    BY <1>1, <1>2, <1>14, <2>1, <2>2
<1>17. \A i \in DOMAIN OpenseaPage(n) : OpenseaPage(n)[i].token \in NFTsOn(n)
  BY DEF NFTsOn
<1>. QED
  BY <1>10, <1>12, <1>13, <1>15, <1>16, <1>17

LEMMA FetchEthereumInv ==
  ASSUME AccountIInv, AccountAssumption, NEW w \in Workflow, FetchEthereum(w)
  PROVE  AccountIInv'
<1> DEFINE from == flows[w].from
<1>1. PICK left \in SUBSET NFTsOn(from) :
        \E updates \in PageWithout(OpenseaPage(from), Excluded \cup left) :
          /\ Fetched(w, updates, 0)
          /\ missed' = missed \cup IF NothingToIndex(updates) THEN NFTsFrom(from) ELSE left
  BY DEF FetchEthereum
<1>2. PICK updates \in PageWithout(OpenseaPage(from), Excluded \cup left) :
        /\ Fetched(w, updates, 0)
        /\ missed' = missed \cup IF NothingToIndex(updates) THEN NFTsFrom(from) ELSE left
  BY <1>1
<1>3. /\ ~ Tezos /\ At(w, "fetch") /\ ~ At(w, "tokens")
      /\ UNCHANGED <<blockchain, clock, moved, account, stored, listed, resets, lost>>
  BY DEF FetchEthereum, At
<1>4. /\ from \in Nat
      /\ \A t \in NFTsBefore(from) : (t \in stored /\ listed[t] # Never) \/ t \in Excluded \cup missed
  BY <1>3, FlowFields DEF Flow, FlowHolds, OpenseaFlow
<1>5. PICK n \in Nat : OpenseaPage(from) \in [1..n -> Update]
  BY <1>4, OpenseaPageFacts
<1>6. /\ updates \in Seq(Update)
      /\ \A j \in 1..n : OpenseaPage(from)[j].token \notin Excluded \cup left =>
           \E i \in 1..Len(updates) : updates[i] = OpenseaPage(from)[j]
  <2> DEFINE page == OpenseaPage(from)
             T == Excluded \cup left
  <2>1. page \in [1..n -> Update] /\ updates \in PageWithout(page, T)
    BY <1>2, <1>5
  <2> HIDE DEF page, T
  <2>2. /\ updates \in Seq(Update)
        /\ \A j \in 1..n : page[j].token \notin T =>
             \E i \in 1..Len(updates) : updates[i] = page[j]
    BY <2>1, WithoutTokens
  <2>. QED
    BY <2>2 DEF page, T
<1>7. NFTsOn(from) \subseteq Token /\ NFTsFrom(from) \subseteq Token
  BY <1>4, OpenseaPageFacts
<1>8. missed \subseteq missed' /\ missed' \subseteq Token /\ missed \subseteq Token
  BY <1>1, <1>2, <1>7 DEF AccountIInv, AccountTypes
<1>9. CASE updates = <<>>
  <2>1. flows' = [flows EXCEPT ![w] = NoFlow]
    BY <1>2, <1>9 DEF Fetched, NothingToIndex, End
  <2>2. FlowHolds(NoFlow, stored, listed, missed', Written)
    BY EndedFlow, Clock
  <2>3. NoFlow \in Flow
    BY ResetFlow
  <2>. QED
    BY <1>3, <1>8, <2>1, <2>2, <2>3, ReadStep
<1>10. CASE updates # <<>>
  <2>1. PICK f \in Flow :
          /\ flows' = [flows EXCEPT ![w] = f]
          /\ f.at = "assets" /\ f.updates = updates /\ f.done = 0
          /\ f.last = 0 /\ f.from = from
    BY <1>2, <1>3, <1>6, <1>10, FetchedFlow, Constants
  <2>2. missed' = missed \cup left
    BY <1>2, <1>10 DEF NothingToIndex
  <2>3. InOrder(f, stored, listed)
    <3>1. 0 <= clock
      BY Clock
    <3>. QED
      BY <1>6, <1>10, <2>1, <3>1 DEF InOrder, Writing
  <2>4. ASSUME NEW t \in NFTsOn(from), t \notin Excluded \cup missed'
        PROVE  \E i \in 1..Len(updates) : updates[i].token = t
    <3>1. PICK j \in DOMAIN OpenseaPage(from) : OpenseaPage(from)[j].token = t
      BY <2>4 DEF NFTsOn
    <3>2. j \in 1..n /\ OpenseaPage(from)[j].token \notin Excluded \cup left
      BY <1>5, <2>2, <2>4, <3>1
    <3>. QED
      BY <1>6, <3>1, <3>2
  <2>5. OpenseaFlow(f, stored, listed, missed')
    BY <1>4, <1>8, <2>1, <2>4 DEF OpenseaFlow
  <2>6. FlowHolds(f, stored, listed, missed', Written)
    BY <1>3, <2>3, <2>5 DEF FlowHolds
  <2>. QED
    BY <1>3, <1>8, <2>1, <2>6, ReadStep
<1>. QED
  BY <1>9, <1>10

-----------------------------------------------------------------------------
(* What a workflow writes.                                                  *)

LEMMA CurrentUpdate ==
  ASSUME AccountIInv, AccountAssumption, NEW w \in Workflow, Writing(flows[w])
  PROVE  /\ flows[w].done \in Nat /\ Len(flows[w].updates) \in Nat
         /\ flows[w].done + 1 \in 1..Len(flows[w].updates)
         /\ Current(w) = flows[w].updates[flows[w].done + 1]
         /\ Current(w).token \in Token /\ Current(w).time \in Nat \ {0}
         /\ Current(w).time \in BlockTimes \cup {UpdatedAt}
<1>1. /\ flows[w] \in Flow /\ flows[w].updates \in Seq(Update)
      /\ flows[w].done < Len(flows[w].updates)
  BY FlowFields DEF FlowHolds, InOrder
<1>2. flows[w].done \in Nat /\ Len(flows[w].updates) \in Nat
  BY <1>1 DEF Flow
<1>3. flows[w].done + 1 \in 1..Len(flows[w].updates)
  BY <1>1, <1>2
<1>4. Current(w) = flows[w].updates[flows[w].done + 1] /\ Current(w) \in Update
  BY <1>1, <1>3 DEF Current
<1>. QED
  BY <1>2, <1>3, <1>4, Constants DEF Update

LEMMA IndexAssetInv ==
  ASSUME AccountIInv, AccountAssumption, NEW w \in Workflow, IndexAsset(w)
  PROVE  AccountIInv'
<1> DEFINE g == flows[w]
           place == IF ~ LastOne(w) THEN "assets" ELSE IF Tezos THEN "cursor" ELSE "tokens"
           next == IF LastOne(w) THEN 0 ELSE g.done + 1
           f == [[g EXCEPT !.at = place] EXCEPT !.done = next]
<1>1. /\ g.at = "assets" /\ Writing(g) /\ ~ At(w, "tokens")
      /\ UNCHANGED <<blockchain, clock, moved, account, listed, resets, missed, lost>>
      /\ stored' = stored \cup {Current(w).token}
  BY DEF IndexAsset, At, Writing
<1>2. /\ g \in Flow /\ g.updates \in Seq(Update)
      /\ FlowHolds(g, stored, listed, missed, Written)
  BY FlowFields
<1>3. /\ g.done \in Nat /\ Len(g.updates) \in Nat /\ g.done + 1 \in 1..Len(g.updates)
      /\ Current(w) = g.updates[g.done + 1] /\ Current(w).token \in Token
  BY <1>1, CurrentUpdate
<1>4. flows' = [flows EXCEPT ![w] = f]
  BY DEF IndexAsset, AccountIInv, AccountTypes
<1>5. next \in Nat /\ place \in FlowPlace
  BY <1>3 DEF FlowPlace
<1>6. LastOne(w) <=> g.done + 1 = Len(g.updates)
  BY DEF LastOne
<1> HIDE DEF place, next
<1>7. f \in Flow /\ f.at = place /\ f.done = next /\ f.from = g.from /\ f.last = g.last
      /\ f.updates = g.updates
  <2> DEFINE moving == [g EXCEPT !.at = place]
  <2>1. g \in Flow
    BY <1>2
  <2>2. f = [moving EXCEPT !.done = next]
    OBVIOUS
  <2> HIDE DEF f, g
  <2>3. /\ moving \in Flow /\ moving.at = place /\ moving.from = g.from /\ moving.last = g.last
        /\ moving.updates = g.updates
    BY <1>5, <2>1 DEF Flow
  <2> HIDE DEF moving
  <2>. QED
    BY <1>5, <2>2, <2>3 DEF Flow
<1> HIDE DEF f
<1>8. InOrder(f, stored', listed)
  <2>1. InOrder(g, stored, listed)
    BY <1>2 DEF FlowHolds
  <2>2. \A i \in 1..(g.done + 1) : i \in 1..Len(g.updates) => g.updates[i].token \in stored'
    BY <1>1, <1>3, <2>1 DEF InOrder
  <2>3. CASE LastOne(w)
    <3>1. place \in {"cursor", "tokens"} /\ next = 0
      BY <2>3 DEF place, next
    <3>2. f.last <= clock /\ 0 < Len(f.updates)
      BY <1>3, <1>7, <2>1 DEF InOrder
    <3>3. \A i \in 1..Len(f.updates) : f.updates[i].token \in stored'
      BY <1>3, <1>6, <1>7, <2>2, <2>3
    <3>. QED
      BY <1>7, <3>1, <3>2, <3>3 DEF InOrder, Writing
  <2>4. CASE ~ LastOne(w)
    <3>1. place = "assets" /\ next = g.done + 1
      BY <2>4 DEF place, next
    <3>2. f.last <= clock /\ g.done + 1 < Len(f.updates)
      BY <1>3, <1>6, <1>7, <2>1, <2>4 DEF InOrder
    <3>3. \A i \in 1..Len(f.updates) : i <= g.done + 1 => f.updates[i].token \in stored'
      BY <1>3, <1>7, <2>2
    <3>. QED
      BY <1>7, <3>1, <3>2, <3>3 DEF InOrder, Writing
  <2>. QED
    BY <2>3, <2>4
<1>9. Tezos => TezosPage(f, missed, Written)
  <2>1. Tezos => place \in {"assets", "cursor"}
    BY DEF place
  <2>. QED
    BY <1>1, <1>2, <1>7, <2>1 DEF FlowHolds, TezosPage, Carries
<1>10. ~ Tezos => OpenseaFlow(f, stored', listed, missed)
  <2>1. ~ Tezos => place \in {"assets", "tokens"}
    BY DEF place
  <2>. QED
    BY <1>1, <1>2, <1>7, <2>1 DEF FlowHolds, OpenseaFlow
<1>11. FlowHolds(f, stored', listed, missed, Written)
  BY <1>8, <1>9, <1>10 DEF FlowHolds
<1>12. Written \subseteq Written'
  <2>1. Fresh \subseteq Fresh'
    BY <1>1 DEF Fresh, UpToDate
  <2>. QED
    BY <1>1, <1>4, <1>7, <2>1, WrittenStays DEF AccountIInv, AccountTypes
<1>13. FlowHolds(f, stored', listed', missed', Written')
  BY <1>1, <1>7, <1>11, <1>12, FlowKept, Constants
<1>14. Tezos => Reached(account'.cursor, missed', Written')
  BY <1>1, <1>12 DEF AccountIInv, Reached
<1>15. /\ account' \in [cursor : Time, recent : BOOLEAN] /\ resets' \in 0..MaxResets
       /\ stored' \subseteq Token /\ lost' \subseteq Token /\ missed' \subseteq Token
       /\ listed' \in [Token -> Time \cup {UpdatedAt}]
       /\ account'.cursor <= clock
  BY <1>1, <1>3 DEF AccountIInv, AccountTypes
<1>. QED
  BY <1>1, <1>4, <1>7, <1>12, <1>13, <1>14, <1>15, FlowStep

LEMMA indexTezosAccountInv ==
  ASSUME AccountIInv, AccountAssumption, NEW w \in Workflow, indexTezosAccount(w)
  PROVE  AccountIInv'
<1> DEFINE g == flows[w]
           f == [[g EXCEPT !.at = "tokens"] EXCEPT !.last = 0]
<1>1. /\ g.at = "cursor" /\ ~ At(w, "tokens")
      /\ account' = [cursor |-> g.last, recent |-> TRUE]
      /\ UNCHANGED <<blockchain, clock, moved, stored, listed, resets, missed, lost>>
  BY DEF indexTezosAccount, At, SavedCursor
<1>2. /\ g \in Flow /\ g.updates \in Seq(Update)
      /\ FlowHolds(g, stored, listed, missed, Written)
  BY FlowFields
<1>3. Tezos
  BY <1>1, <1>2 DEF FlowHolds, OpenseaFlow
<1>4. flows' = [flows EXCEPT ![w] = f]
  BY DEF indexTezosAccount, AccountIInv, AccountTypes
<1>5. f \in Flow /\ f.at = "tokens" /\ f.done = g.done /\ f.from = g.from /\ f.last = 0
      /\ f.updates = g.updates
  BY <1>2, Constants DEF Flow, FlowPlace
<1> HIDE DEF f
<1>6. /\ g.done = 0 /\ g.last <= clock /\ g.last \in Time
      /\ \A i \in 1..Len(g.updates) : g.updates[i].token \in stored
  BY <1>1, <1>2 DEF FlowHolds, InOrder, Writing, Flow
<1>7. Written \subseteq Written'
  <2>1. Fresh \subseteq Fresh'
    BY <1>1 DEF Fresh, UpToDate
  <2>. QED
    BY <1>1, <1>4, <1>5, <2>1, WrittenStays DEF AccountIInv, AccountTypes
<1>8. Reached(g.last, missed, Written')
  <2>1. SUFFICES ASSUME NEW t \in Indexed \ missed, moved[t] \in 1..g.last
                 PROVE  t \in Written'
    BY DEF Reached
  <2>2. t \in Written \/ Carries(g, Held(t), 1)
    BY <1>1, <1>2, <1>3, <2>1 DEF FlowHolds, TezosPage
  <2>3. CASE Carries(g, Held(t), 1)
    <3>1. PICK i \in 1..Len(g.updates) : g.updates[i] = Held(t)
      BY <2>3 DEF Carries
    <3>2. t \in stored'
      BY <1>1, <1>6, <3>1 DEF Held
    <3>3. flows'[w] = f
      BY <1>4 DEF AccountIInv, AccountTypes
    <3>4. Held(t)' = Held(t)
      BY <1>1 DEF Held
    <3>5. /\ flows'[w].at = "tokens" /\ flows'[w].done = 0
          /\ i \in (flows'[w].done + 1)..Len(flows'[w].updates)
          /\ flows'[w].updates[i] = Held(t)
      BY <1>5, <1>6, <3>1, <3>3
    <3>6. t \in Coming'
      BY <2>1, <3>4, <3>5 DEF Coming, At, Carries, Indexed
    <3>. QED
      BY <3>2, <3>6 DEF Written
  <2>. QED
    BY <1>7, <2>2, <2>3
<1>9. InOrder(f, stored', listed')
  <2>1. f.last <= clock /\ f.done = 0 /\ f.done < Len(f.updates)
    BY <1>1, <1>2, <1>5, <1>6, Clock DEF FlowHolds, InOrder
  <2>2. \A i \in 1..Len(f.updates) : f.updates[i].token \in stored' /\ ~ (i <= f.done)
    BY <1>1, <1>5, <1>6, <2>1
  <2>. QED
    BY <1>5, <2>1, <2>2 DEF InOrder, Writing
<1>10. TezosPage(f, missed', Written')
  BY <1>2, <1>3, <1>5 DEF FlowHolds, TezosPage
<1>11. FlowHolds(f, stored', listed', missed', Written')
  BY <1>3, <1>9, <1>10 DEF FlowHolds
<1>12. Tezos => Reached(account'.cursor, missed', Written')
  BY <1>1, <1>8
<1>13. /\ account' \in [cursor : Time, recent : BOOLEAN] /\ resets' \in 0..MaxResets
       /\ stored' \subseteq Token /\ lost' \subseteq Token /\ missed' \subseteq Token
       /\ listed' \in [Token -> Time \cup {UpdatedAt}]
       /\ account'.cursor <= clock
  BY <1>1, <1>6 DEF AccountIInv, AccountTypes
<1>. QED
  BY <1>1, <1>4, <1>5, <1>7, <1>11, <1>12, <1>13, FlowStep

(* The account token that is written is as new as the update, or as it was. *)
LEMMA WriteStep ==
  ASSUME AccountIInv, AccountAssumption, NEW w \in Workflow, IndexAccountToken(w)
  PROVE  LET t == Current(w).token
         IN  /\ listed' \in [Token -> Time \cup {UpdatedAt}]
             /\ \A x \in Token : listed[x] # Never => listed'[x] # Never
             /\ listed'[t] # Never /\ Fresh \subseteq Fresh'
             /\ lost \subseteq lost' \cup Fresh' /\ lost' \subseteq Token
             /\ Current(w) = Held(t) => t \in Fresh'
<1> DEFINE t == Current(w).token
           time == Current(w).time
           written == IF Overwrites(t, time) THEN time ELSE listed[t]
<1>1. /\ t \in Token /\ time \in Nat \ {0} /\ time \in BlockTimes \cup {UpdatedAt}
  <2>1. Writing(flows[w])
    BY DEF IndexAccountToken, Writing, At
  <2>. QED
    BY <2>1, CurrentUpdate
<1>2. /\ listed' = [listed EXCEPT ![t] = written]
      /\ lost' = IF written + Margin >= moved[t] THEN lost \ {t} ELSE lost
      /\ UNCHANGED moved
  BY DEF IndexAccountToken
<1>3. /\ listed \in [Token -> Time \cup {UpdatedAt}] /\ listed[t] \in Nat /\ moved[t] \in Nat
      /\ Margin \in Nat /\ lost \subseteq Token
  BY <1>1, Clock, Constants DEF AccountIInv, AccountTypes
<1>4. written \in Time \cup {UpdatedAt} /\ written \in Nat /\ written # Never
  BY <1>1, <1>3, Constants DEF Overwrites, Never
<1>5. listed[t] # Never => listed[t] <= written
  BY <1>1, <1>3 DEF Overwrites
<1>6. Current(w) = Held(t) => written + Margin >= moved[t]
  <2>1. SUFFICES ASSUME Current(w) = Held(t)
                 PROVE  written + Margin >= moved[t]
    OBVIOUS
  <2>2. time = moved[t]
    BY <2>1 DEF Held
  <2>. QED
    BY <1>1, <1>3, <2>2 DEF Overwrites
<1> HIDE DEF written, time, t
<1>7. \A x \in Token : listed'[x] = IF x = t THEN written ELSE listed[x]
  BY <1>1, <1>2, <1>3
<1>8. listed' \in [Token -> Time \cup {UpdatedAt}]
  BY <1>2, <1>3, <1>4
<1>9. written + Margin >= moved[t] => t \in Fresh'
  BY <1>1, <1>2, <1>4, <1>7 DEF Fresh, UpToDate
<1>10. Fresh \subseteq Fresh'
  <2>1. SUFFICES ASSUME NEW x \in Token, UpToDate(x)
                 PROVE  x \in Fresh'
    BY DEF Fresh
  <2>2. CASE x = t
    BY <1>3, <1>4, <1>5, <1>9, <2>1, <2>2 DEF UpToDate
  <2>3. CASE x # t
    BY <1>2, <1>7, <2>1, <2>3 DEF Fresh, UpToDate
  <2>. QED
    BY <2>2, <2>3
<1>11. lost \subseteq lost' \cup Fresh' /\ lost' \subseteq Token
  BY <1>2, <1>3, <1>9
<1>12. \A x \in Token : listed[x] # Never => listed'[x] # Never
  BY <1>4, <1>7
<1>13. listed'[t] # Never
  BY <1>1, <1>4, <1>7
<1>. QED
  BY <1>6, <1>8, <1>9, <1>10, <1>11, <1>12, <1>13 DEF t

(* The next page of a workflow: at Tezos the account is read again.         *)
LEMMA NextPageFlow ==
  ASSUME AccountIInv, AccountAssumption, NEW w \in Workflow
  PROVE  /\ NextPage(w) \in Flow /\ NextPage(w).at \in {"idle", "account", "fetch"}
         /\ NextPage(w).last = 0 /\ NextPage(w).done = 0
         /\ NextPage(w).at = "idle" <=> (~ Tezos /\ LastPage(flows[w].from))
         /\ Tezos => NextPage(w).at = "account" /\ NextPage(w).from = 0
         /\ ~ Tezos /\ LastPage(flows[w].from) => NextPage(w) = NoFlow
         /\ ~ Tezos /\ ~ LastPage(flows[w].from) =>
              NextPage(w).at = "fetch" /\ NextPage(w).from = flows[w].from + 1
<1>1. flows[w].from \in Nat
  BY FlowFields DEF Flow
<1>2. CASE ~ Tezos /\ LastPage(flows[w].from)
  BY <1>2, ResetFlow DEF NextPage
<1>3. CASE ~ (~ Tezos /\ LastPage(flows[w].from))
  <2> DEFINE place == IF Tezos THEN "account" ELSE "fetch"
             from == IF Tezos THEN 0 ELSE flows[w].from + 1
             f == [[[NoFlow EXCEPT !.at = place] EXCEPT !.first = FALSE] EXCEPT !.from = from]
  <2>1. place \in FlowPlace /\ from \in Nat
    BY <1>1 DEF FlowPlace
  <2>2. NextPage(w) = f
    BY <1>3 DEF NextPage
  <2> HIDE DEF place, from
  <2>3. /\ f \in Flow /\ f.at = place /\ f.last = 0 /\ f.done = 0 /\ f.from = from
    BY <2>1, ResetFlow DEF Flow
  <2> HIDE DEF f
  <2>. QED
    BY <1>3, <2>2, <2>3 DEF place, from
<1>. QED
  BY <1>2, <1>3

LEMMA IndexAccountTokenInv ==
  ASSUME AccountIInv, AccountAssumption, NEW w \in Workflow, IndexAccountToken(w)
  PROVE  AccountIInv'
<1> DEFINE g == flows[w]
           t == Current(w).token
           f == IF LastOne(w) THEN NextPage(w) ELSE [g EXCEPT !.done = @ + 1]
<1>1. /\ g.at = "tokens" /\ Writing(g)
      /\ UNCHANGED <<blockchain, clock, moved, account, stored, resets, missed>>
  BY DEF IndexAccountToken, At, Writing
<1>2. /\ g \in Flow /\ g.updates \in Seq(Update)
      /\ FlowHolds(g, stored, listed, missed, Written)
  BY FlowFields
<1>3. /\ g.done \in Nat /\ Len(g.updates) \in Nat /\ g.done + 1 \in 1..Len(g.updates)
      /\ Current(w) = g.updates[g.done + 1] /\ t \in Token
  BY <1>1, CurrentUpdate
<1>4. /\ listed' \in [Token -> Time \cup {UpdatedAt}]
      /\ \A x \in Token : listed[x] # Never => listed'[x] # Never
      /\ listed'[t] # Never /\ Fresh \subseteq Fresh'
      /\ lost \subseteq lost' \cup Fresh' /\ lost' \subseteq Token
      /\ Current(w) = Held(t) => t \in Fresh'
  BY WriteStep
<1>5. flows' = [flows EXCEPT ![w] = f]
  BY DEF IndexAccountToken, AccountIInv, AccountTypes
<1>6. LastOne(w) <=> g.done + 1 = Len(g.updates)
  BY DEF LastOne
<1>7. /\ \A i \in 1..Len(g.updates) : g.updates[i].token \in stored
      /\ \A i \in 1..Len(g.updates) : i <= g.done + 1 => listed'[g.updates[i].token] # Never
      /\ g.last <= clock
  <2>1. InOrder(g, stored, listed)
    BY <1>2 DEF FlowHolds
  <2>2. \A i \in 1..Len(g.updates) : g.updates[i].token \in Token
    <3>1. \A i \in 1..Len(g.updates) : g.updates[i] \in Update
      BY <1>2
    <3>. QED
      BY <3>1 DEF Update
  <2>3. \A i \in 1..Len(g.updates) : i <= g.done + 1 => i <= g.done \/ i = g.done + 1
    BY <1>3
  <2>. QED
    BY <1>1, <1>3, <1>4, <2>1, <2>2, <2>3 DEF InOrder
<1>8. f \in Flow
  <2>1. g.done + 1 \in Nat
    BY <1>3
  <2>2. [g EXCEPT !.done = g.done + 1] \in Flow
    BY <1>2, <2>1 DEF Flow
  <2>. QED
    BY <2>2, NextPageFlow
<1>9. ~ LastOne(w) => /\ f.at = "tokens" /\ f.done = g.done + 1 /\ f.from = g.from
                      /\ f.last = g.last /\ f.updates = g.updates
  BY <1>1, <1>2 DEF Flow
<1>10. LastOne(w) => f = NextPage(w)
  OBVIOUS
<1> HIDE DEF f
<1>11. Written \subseteq Written'
  <2>1. ASSUME NEW x \in Token, Carries(g, Held(x), g.done + 1)
        PROVE  (f.at = "tokens" /\ Carries(f, Held(x), f.done + 1)) \/ x \in lost' \cup Fresh'
    <3>1. PICK i \in (g.done + 1)..Len(g.updates) : g.updates[i] = Held(x)
      BY <2>1 DEF Carries
    <3>2. CASE i = g.done + 1
      <4>1. Current(w) = Held(x)
        BY <1>3, <3>1, <3>2
      <4>2. t = x
        BY <4>1 DEF Held
      <4>. QED
        BY <1>4, <4>1, <4>2
    <3>3. CASE i # g.done + 1
      <4>1. ~ LastOne(w) /\ i \in (g.done + 1 + 1)..Len(g.updates)
        BY <1>3, <1>6, <3>1, <3>3
      <4>. QED
        BY <1>9, <3>1, <4>1 DEF Carries
    <3>. QED
      BY <3>2, <3>3
  <2>. QED
    BY <1>1, <1>4, <1>5, <1>8, <2>1, WrittenStays DEF AccountIInv, AccountTypes
<1>12. ASSUME LastOne(w)
       PROVE  FlowHolds(f, stored', listed', missed', Written')
  <2>1. /\ f.at \in {"idle", "account", "fetch"} /\ f.last <= clock /\ f.done = 0
        /\ Tezos => f.from <= clock /\ f.at # "fetch"
        /\ ~ Tezos => f.at # "account"
    BY <1>10, <1>12, NextPageFlow, Clock
  <2>2. ASSUME ~ Tezos, NEW x \in NFTsBefore(f.from)
        PROVE  (x \in stored /\ listed'[x] # Never) \/ x \in Excluded \cup missed
    <3>1. CASE LastPage(g.from)
      BY <1>10, <1>12, <2>2, <3>1, NextPageFlow, ResetFlow, NothingBefore
    <3>2. CASE ~ LastPage(g.from)
      <4>1. f.from = g.from + 1 /\ g.from \in Nat
        BY <1>2, <1>10, <1>12, <2>2, <3>2, NextPageFlow DEF Flow
      <4>2. x \in NFTsBefore(g.from) \cup NFTsOn(g.from)
        BY <2>2, <3>2, <4>1, OpenseaPageFacts
      <4>3. CASE x \in NFTsBefore(g.from)
        <5>1. NFTsBefore(g.from) \subseteq Token
          BY Constants DEF NFTsBefore
        <5>. QED
          BY <1>2, <1>4, <2>2, <4>3, <5>1 DEF FlowHolds, OpenseaFlow
      <4>4. CASE x \in NFTsOn(g.from)
        <5>1. (\E i \in 1..Len(g.updates) : g.updates[i].token = x) \/ x \in Excluded \cup missed
          BY <1>1, <1>2, <2>2, <4>4 DEF FlowHolds, OpenseaFlow
        <5>2. \A i \in 1..Len(g.updates) : i <= g.done + 1
          BY <1>3, <1>6, <1>12
        <5>. QED
          BY <1>7, <5>1, <5>2
      <4>. QED
        BY <4>2, <4>3, <4>4
    <3>. QED
      BY <3>1, <3>2
  <2>. QED
    BY <1>1, <1>8, <2>1, <2>2, EmptyFlow
<1>13. ASSUME ~ LastOne(w)
       PROVE  FlowHolds(f, stored', listed', missed', Written')
  <2>1. InOrder(f, stored', listed')
    <3>1. g.done + 1 < Len(g.updates)
      BY <1>3, <1>6, <1>13
    <3>. QED
      BY <1>1, <1>7, <1>9, <1>13, <3>1 DEF InOrder, Writing
  <2>2. Tezos => TezosPage(f, missed', Written')
    BY <1>2, <1>9, <1>13 DEF FlowHolds, TezosPage
  <2>3. ~ Tezos => OpenseaFlow(f, stored', listed', missed')
    <3>1. NFTsBefore(g.from) \subseteq Token
      BY Constants DEF NFTsBefore
    <3>. QED
      BY <1>1, <1>2, <1>4, <1>9, <1>13, <3>1 DEF FlowHolds, OpenseaFlow
  <2>. QED
    BY <2>1, <2>2, <2>3 DEF FlowHolds
<1>14. FlowHolds(f, stored', listed', missed', Written')
  BY <1>12, <1>13
<1>15. Tezos => Reached(account'.cursor, missed', Written')
  BY <1>1, <1>11 DEF AccountIInv, Reached
<1>16. /\ account' \in [cursor : Time, recent : BOOLEAN] /\ resets' \in 0..MaxResets
       /\ stored' \subseteq Token /\ missed' \subseteq Token /\ account'.cursor <= clock
  BY <1>1 DEF AccountIInv, AccountTypes
<1>. QED
  BY <1>1, <1>4, <1>5, <1>8, <1>11, <1>14, <1>15, <1>16, FlowStep

(* A failed run is started again from its beginning, and from the position  *)
(* it had on Ethereum, or is given up (workflows_indexer.go).               *)
LEMMA FailedFlow ==
  ASSUME AccountIInv, AccountAssumption, NEW w \in Workflow, Fail(w)
  PROVE  \E f \in Flow :
           /\ flows' = [flows EXCEPT ![w] = f]
           /\ f.last = 0 /\ f.done = 0
           /\ \/ /\ f.at = (IF Tezos THEN "account" ELSE "fetch")
                 /\ f.from = (IF Tezos THEN 0 ELSE flows[w].from)
              \/ f.at = "failed" /\ f.from = 0
<1> DEFINE g == flows[w]
           retry == [[[[NoFlow EXCEPT !.at = IF Tezos THEN "account" ELSE "fetch"]
                         EXCEPT !.first = g.first] EXCEPT !.tries = g.tries + 1]
                         EXCEPT !.from = IF Tezos THEN 0 ELSE g.from]
           f == IF g.tries + 1 < MaxTries THEN retry ELSE [NoFlow EXCEPT !.at = "failed"]
<1>2. flows' = [flows EXCEPT ![w] = f]
  BY DEF Fail
<1>3. /\ g \in Flow /\ g.updates \in Seq(Update) /\ g.from \in Nat /\ g.done \in Nat
      /\ g.first \in BOOLEAN /\ g.tries \in 0..(MaxTries - 1) /\ Len(g.updates) \in Nat
  BY FlowFields DEF Flow
<1>4. \/ /\ f \in Flow /\ f.at = (IF Tezos THEN "account" ELSE "fetch")
         /\ f.from = (IF Tezos THEN 0 ELSE g.from) /\ f.last = 0 /\ f.done = 0
      \/ f \in Flow /\ f.at = "failed" /\ f.from = 0 /\ f.last = 0 /\ f.done = 0
  <2>1. CASE g.tries + 1 < MaxTries
    <3> DEFINE place == IF Tezos THEN "account" ELSE "fetch"
               from == IF Tezos THEN 0 ELSE g.from
               r == [[[[NoFlow EXCEPT !.at = place] EXCEPT !.first = g.first]
                        EXCEPT !.tries = g.tries + 1] EXCEPT !.from = from]
    <3>1. place \in FlowPlace /\ from \in Nat /\ g.tries + 1 \in 0..(MaxTries - 1)
      BY <1>3, <2>1, Constants DEF FlowPlace
    <3>2. f = r
      BY <2>1
    <3> HIDE DEF place, from, f
    <3>3. r \in Flow /\ r.at = place /\ r.from = from /\ r.last = 0 /\ r.done = 0
      BY <1>3, <3>1, ResetFlow DEF Flow
    <3> HIDE DEF r
    <3>. QED
      BY <3>2, <3>3 DEF place, from
  <2>2. CASE ~ (g.tries + 1 < MaxTries)
    <3>1. f = [NoFlow EXCEPT !.at = "failed"]
      BY <2>2
    <3> HIDE DEF f
    <3>. QED
      BY <3>1, ResetFlow DEF Flow, FlowPlace
  <2>. QED
    BY <2>1, <2>2
<1> HIDE DEF f
<1>. QED
  BY <1>2, <1>4

LEMMA FailInv ==
  ASSUME AccountIInv, AccountAssumption, NEW w \in Workflow, Fail(w)
  PROVE  AccountIInv'
<1> DEFINE g == flows[w]
<1>1. /\ UNCHANGED <<blockchain, clock, moved, account, stored, listed, resets, missed>>
      /\ lost' = lost \cup Unwritten(w)
  BY DEF Fail
<1>2. PICK f \in Flow :
        /\ flows' = [flows EXCEPT ![w] = f]
        /\ f.last = 0 /\ f.done = 0
        /\ \/ /\ f.at = (IF Tezos THEN "account" ELSE "fetch")
              /\ f.from = (IF Tezos THEN 0 ELSE g.from)
           \/ f.at = "failed" /\ f.from = 0
  BY FailedFlow
<1>3. /\ g \in Flow /\ g.updates \in Seq(Update) /\ g.from \in Nat /\ g.done \in Nat
      /\ g.first \in BOOLEAN /\ g.tries \in 0..(MaxTries - 1) /\ Len(g.updates) \in Nat
      /\ FlowHolds(g, stored, listed, missed, Written)
  BY FlowFields DEF Flow
<1>5. f \in Flow
  BY <1>2
<1>6. lost' \subseteq Token /\ lost \subseteq lost'
  <2>1. Unwritten(w) \subseteq Token
    <3>1. \A i \in (g.done + 1)..Len(g.updates) : i \in 1..Len(g.updates)
      BY <1>3
    <3>2. \A i \in 1..Len(g.updates) : g.updates[i] \in Update
      BY <1>3
    <3>. QED
      BY <3>1, <3>2 DEF Unwritten, Update
  <2>. QED
    BY <1>1, <2>1 DEF AccountIInv, AccountTypes
<1>7. Written \subseteq Written'
  <2>1. Fresh \subseteq Fresh'
    BY <1>1 DEF Fresh, UpToDate
  <2>2. ASSUME NEW x \in Token, At(w, "tokens"), Carries(g, Held(x), g.done + 1)
        PROVE  x \in lost'
    <3>1. PICK i \in (g.done + 1)..Len(g.updates) : g.updates[i] = Held(x)
      BY <2>2 DEF Carries
    <3>2. g.updates[i].token = x
      BY <3>1 DEF Held
    <3>3. x \in Unwritten(w)
      BY <2>2, <3>1, <3>2 DEF Unwritten
    <3>. QED
      BY <1>1, <3>3
  <2>. QED
    BY <1>1, <1>2, <1>5, <1>6, <2>1, <2>2, WrittenStays DEF AccountIInv, AccountTypes
<1>8. FlowHolds(f, stored', listed', missed', Written')
  <2>1. /\ f.at \in {"idle", "account", "fetch", "failed"} /\ f.last <= clock /\ f.done = 0
        /\ Tezos => f.from <= clock /\ f.at # "fetch"
        /\ ~ Tezos => f.at # "account"
    BY <1>2, Clock
  <2>2. ~ Tezos => \A x \in NFTsBefore(g.from) :
          (x \in stored' /\ listed'[x] # Never) \/ x \in Excluded \cup missed'
    BY <1>1, <1>3 DEF FlowHolds, OpenseaFlow
  <2>3. ~ Tezos => \A x \in NFTsBefore(f.from) :
          (x \in stored' /\ listed'[x] # Never) \/ x \in Excluded \cup missed'
    BY <1>2, <2>2, NothingBefore
  <2>. QED
    BY <1>5, <2>1, <2>3, EmptyFlow
<1>9. Tezos => Reached(account'.cursor, missed', Written')
  BY <1>1, <1>7 DEF AccountIInv, Reached
<1>10. /\ account' \in [cursor : Time, recent : BOOLEAN] /\ resets' \in 0..MaxResets
       /\ stored' \subseteq Token /\ missed' \subseteq Token /\ account'.cursor <= clock
       /\ listed' \in [Token -> Time \cup {UpdatedAt}]
  BY <1>1 DEF AccountIInv, AccountTypes
<1>. QED
  BY <1>1, <1>2, <1>5, <1>6, <1>7, <1>8, <1>9, <1>10, FlowStep

-----------------------------------------------------------------------------
(* The API and the environment.                                             *)

(* The account is set back, or is no longer recent.                         *)
LEMMA AccountStep ==
  ASSUME AccountIInv,
         UNCHANGED <<blockchain, clock, moved, stored, listed, flows, missed, lost>>,
         account' \in [cursor : Time, recent : BOOLEAN], resets' \in 0..MaxResets,
         account'.cursor <= account.cursor, AccountAssumption
  PROVE  AccountIInv'
<1>1. Written' = Written
  BY DEF Written, Fresh, Coming, UpToDate, At, Carries, Held
<1>2. AccountTypes'
  BY DEF AccountIInv, AccountTypes
<1>3. account'.cursor \in Nat
  BY Constants
<1>4. (account.cursor <= clock)' /\ (\A t \in Token : moved[t] <= clock)'
  BY <1>3, Clock DEF AccountIInv
<1>5. (Tezos => Reached(account.cursor, missed, Written))'
  <2>1. SUFFICES ASSUME Tezos, NEW t \in Indexed \ missed, moved[t] \in 1..account'.cursor
                 PROVE  t \in Written'
    BY DEF Reached, Tezos
  <2>2. moved[t] \in 1..account.cursor
    BY <1>3, <2>1, Clock
  <2>. QED
    BY <1>1, <2>1, <2>2 DEF AccountIInv, Reached
<1>6. (\A w \in Workflow : FlowHolds(flows[w], stored, listed, missed, Written))'
  BY <1>1 DEF AccountIInv, FlowHolds, InOrder, TezosPage, OpenseaFlow, Reached, Tezos, Held
<1>. QED
  BY <1>2, <1>4, <1>5, <1>6 DEF AccountIInv

LEMMA NoLongerRecent ==
  ASSUME NEW a \in [cursor : Time, recent : BOOLEAN]
  PROVE  /\ [a EXCEPT !.recent = FALSE] \in [cursor : Time, recent : BOOLEAN]
         /\ [a EXCEPT !.recent = FALSE].cursor = a.cursor
<1>1. ASSUME NEW no \in BOOLEAN
      PROVE  /\ [a EXCEPT !.recent = no] \in [cursor : Time, recent : BOOLEAN]
             /\ [a EXCEPT !.recent = no].cursor = a.cursor
  OBVIOUS
<1>. QED
  BY <1>1, Zenon

LEMMA AccountStepsInv ==
  ASSUME AccountIInv, AccountAssumption,
         MinutePasses \/ \E to \in Time : ForceReindex(to)
  PROVE  AccountIInv'
<1>1. /\ account \in [cursor : Time, recent : BOOLEAN] /\ resets \in 0..MaxResets
      /\ MaxResets \in Nat /\ Time \subseteq Nat
  BY Constants DEF AccountIInv, AccountTypes, AccountAssumption
<1>2. CASE MinutePasses
  <2>1. /\ account' \in [cursor : Time, recent : BOOLEAN] /\ account'.cursor = account.cursor
    <3>1. account' = [account EXCEPT !.recent = FALSE]
      BY <1>2 DEF MinutePasses
    <3>. QED
      <4>1. account \in [cursor : Time, recent : BOOLEAN]
        BY <1>1
      <4>2. /\ [account EXCEPT !.recent = FALSE] \in [cursor : Time, recent : BOOLEAN]
            /\ [account EXCEPT !.recent = FALSE].cursor = account.cursor
        BY <4>1, NoLongerRecent, Zenon
      <4>. QED
        BY <3>1, <4>2, Zenon
  <2>2. account'.cursor <= account.cursor
    BY <2>1, Clock
  <2>3. UNCHANGED <<blockchain, clock, moved, stored, listed, flows, resets, missed, lost>>
    BY <1>2 DEF MinutePasses
  <2>. QED
    BY <1>1, <2>1, <2>2, <2>3, AccountStep
<1>3. ASSUME NEW to \in Time, ForceReindex(to)
      PROVE  AccountIInv'
  <2>1. /\ account' = [cursor |-> to, recent |-> FALSE] /\ to <= account.cursor
        /\ resets' = resets + 1 /\ resets < MaxResets
        /\ UNCHANGED <<blockchain, clock, moved, stored, listed, flows, missed, lost>>
    BY <1>3 DEF ForceReindex
  <2>2. resets' \in 0..MaxResets
    BY <1>1, <2>1
  <2>. QED
    BY <2>1, <2>2, AccountStep
<1>. QED
  BY <1>2, <1>3

(* What moves now is past every cursor, and no longer left out.             *)
LEMMA BlockInv ==
  ASSUME AccountIInv, AccountAssumption,
         NEW T \in Moves, NEW time \in BlockTimes, Block(T, time)
  PROVE  AccountIInv'
<1>1. /\ Tezos /\ clock < time /\ clock' = time /\ time \in Nat /\ time \in Time
      /\ moved' = [t \in Token |-> IF t \in T THEN time ELSE moved[t]]
      /\ missed' = missed \ T
      /\ UNCHANGED <<blockchain, account, stored, listed, flows, resets, lost>>
  BY Constants DEF Block
<1>2. /\ clock \in Nat /\ account.cursor \in Nat /\ moved \in [Token -> Nat]
  BY Clock
<1>3. /\ account.cursor <= clock /\ \A t \in Token : moved[t] <= clock
      /\ \A w \in Workflow : /\ flows[w] \in Flow
                             /\ flows[w].from \in Nat /\ flows[w].last \in Nat
                             /\ flows[w].from <= clock /\ flows[w].last <= clock
  <2>1. ASSUME NEW w \in Workflow
        PROVE  /\ flows[w] \in Flow
               /\ flows[w].from \in Nat /\ flows[w].last \in Nat
               /\ flows[w].from <= clock /\ flows[w].last <= clock
    BY <1>1, FlowFields, Constants DEF Flow, FlowHolds, InOrder, TezosPage
  <2>. QED
    BY <2>1 DEF AccountIInv
<1>4. AccountTypes'
  BY <1>1 DEF AccountIInv, AccountTypes
<1>5. (account.cursor <= clock)' /\ (\A t \in Token : moved[t] <= clock)'
  BY <1>1, <1>2, <1>3
<1>6. ASSUME NEW t \in Token, t \notin T
      PROVE  moved'[t] = moved[t] /\ Held(t)' = Held(t) /\ (t \in Written => t \in Written')
  <2>1. moved'[t] = moved[t]
    BY <1>1, <1>6
  <2>2. Held(t)' = Held(t)
    BY <2>1 DEF Held
  <2>3. t \in Fresh => t \in Fresh'
    BY <1>1, <2>1 DEF Fresh, UpToDate
  <2>4. t \in Coming => t \in Coming'
    <3>1. SUFFICES ASSUME NEW w \in Workflow, At(w, "tokens"),
                          Carries(flows[w], Held(t), flows[w].done + 1)
                   PROVE  t \in Coming'
      BY DEF Coming
    <3>. QED
      BY <1>1, <2>2, <3>1 DEF Coming, At, Carries
  <2>. QED
    BY <1>1, <2>1, <2>2, <2>3, <2>4 DEF Written
<1>7. ASSUME NEW t \in T, t \in Token, NEW c \in Nat, c <= clock
      PROVE  ~ (moved'[t] \in 1..c)
  BY <1>1, <1>2, <1>7
<1>8. (Tezos => Reached(account.cursor, missed, Written))'
  <2>1. SUFFICES ASSUME NEW t \in Indexed \ missed', moved'[t] \in 1..account.cursor
                 PROVE  t \in Written'
    BY <1>1 DEF Reached
  <2>2. t \in Token /\ t \notin T
    BY <1>2, <1>3, <1>7, <2>1 DEF Indexed
  <2>3. t \in Indexed \ missed /\ moved[t] \in 1..account.cursor
    BY <1>1, <1>6, <2>1, <2>2
  <2>. QED
    BY <1>1, <1>6, <2>2, <2>3 DEF AccountIInv, Reached
<1>9. ASSUME NEW w \in Workflow
      PROVE  FlowHolds(flows[w], stored, listed, missed, Written)'
  <2>1. FlowHolds(flows[w], stored, listed, missed, Written) /\ flows'[w] = flows[w]
    BY <1>1, FlowFields
  <2>2. InOrder(flows[w], stored, listed)'
    <3>1. flows[w].last <= clock'
      BY <1>1, <1>2, <1>3
    <3>. QED
      BY <1>1, <2>1, <3>1 DEF FlowHolds, InOrder
  <2>3. flows[w].from <= clock'
    BY <1>1, <1>2, <1>3
  <2>4. flows[w].at = "fetch" =>
          \A t \in Indexed \ missed' : moved'[t] \in 1..flows[w].from => t \in Written'
    <3>1. SUFFICES ASSUME flows[w].at = "fetch", NEW t \in Indexed \ missed',
                          moved'[t] \in 1..flows[w].from
                   PROVE  t \in Written'
      OBVIOUS
    <3>2. t \in Token /\ t \notin T
      BY <1>3, <1>7, <3>1 DEF Indexed
    <3>3. t \in Indexed \ missed /\ moved[t] \in 1..flows[w].from
      BY <1>1, <1>6, <3>1, <3>2
    <3>. QED
      BY <1>1, <1>6, <2>1, <3>1, <3>2, <3>3 DEF FlowHolds, TezosPage, Reached
  <2>5. flows[w].at \in {"assets", "cursor"} =>
          \A t \in Indexed \ missed' : moved'[t] \in 1..flows[w].last =>
            t \in Written' \/ Carries(flows[w], Held(t)', 1)
    <3>1. SUFFICES ASSUME flows[w].at \in {"assets", "cursor"}, NEW t \in Indexed \ missed',
                          moved'[t] \in 1..flows[w].last
                   PROVE  t \in Written' \/ Carries(flows[w], Held(t)', 1)
      OBVIOUS
    <3>2. t \in Token /\ t \notin T
      BY <1>3, <1>7, <3>1 DEF Indexed
    <3>3. t \in Indexed \ missed /\ moved[t] \in 1..flows[w].last
      BY <1>1, <1>6, <3>1, <3>2
    <3>4. t \in Written \/ Carries(flows[w], Held(t), 1)
      BY <1>1, <2>1, <3>1, <3>3 DEF FlowHolds, TezosPage
    <3>. QED
      BY <1>6, <3>2, <3>4
  <2>6. TezosPage(flows[w], missed, Written)'
    BY <1>1, <2>3, <2>4, <2>5 DEF TezosPage, Reached, Carries, Held
  <2>7. Tezos'
    BY <1>1 DEF Tezos
  <2>. QED
    BY <2>2, <2>6, <2>7 DEF FlowHolds
<1>10. (\A w \in Workflow : FlowHolds(flows[w], stored, listed, missed, Written))'
  BY <1>9
<1>. QED
  BY <1>4, <1>5, <1>8, <1>10 DEF AccountIInv

-----------------------------------------------------------------------------

LEMMA AccountInit ==
  ASSUME Init, AccountAssumption
  PROVE  AccountIInv
<1>1. NoFlow \in Flow /\ clock = 0
  BY ResetFlow DEF Init
<1>2. AccountTypes
  BY <1>1, Constants DEF Init, AccountTypes, AccountAssumption, Never
<1>3. account.cursor = 0 /\ \A t \in Token : moved[t] = 0
  BY DEF Init, Never
<1>4. Reached(account.cursor, missed, Written)
  BY <1>3 DEF Reached
<1>5. \A w \in Workflow : FlowHolds(flows[w], stored, listed, missed, Written)
  <2>1. FlowHolds(NoFlow, stored, listed, missed, Written)
    BY <1>1, EndedFlow
  <2>. QED
    BY <2>1 DEF Init
<1>. QED
  BY <1>1, <1>2, <1>3, <1>4, <1>5 DEF AccountIInv

LEMMA AccountNext ==
  ASSUME AccountIInv, [Next]_vars, AccountAssumption
  PROVE  AccountIInv'
<1>1. CASE UNCHANGED vars
  <2>1. UNCHANGED <<blockchain, clock, moved, stored, listed, flows, missed, lost>>
        /\ UNCHANGED <<account, resets>>
    BY <1>1 DEF vars
  <2>2. account \in [cursor : Time, recent : BOOLEAN] /\ resets \in 0..MaxResets
    BY DEF AccountIInv, AccountTypes
  <2>3. account'.cursor <= account.cursor
    BY <2>1, Clock
  <2>. QED
    BY <2>1, <2>2, <2>3, AccountStep
<1>2. CASE Next
  <2>1. ASSUME NEW w \in Workflow, Start(w) \/ ReadAccount(w)
        PROVE  AccountIInv'
    BY <2>1, StartInv, ReadAccountInv
  <2>2. ASSUME NEW w \in Workflow, FetchTezos(w) \/ FetchEthereum(w)
        PROVE  AccountIInv'
    BY <2>2, FetchTezosInv, FetchEthereumInv
  <2>3. ASSUME NEW w \in Workflow,
               IndexAsset(w) \/ indexTezosAccount(w) \/ IndexAccountToken(w)
        PROVE  AccountIInv'
    BY <2>3, IndexAssetInv, indexTezosAccountInv, IndexAccountTokenInv
  <2>4. ASSUME NEW w \in Workflow, Fail(w)
        PROVE  AccountIInv'
    BY <2>4, FailInv
  <2>5. ASSUME NEW T \in Moves, NEW time \in BlockTimes, Block(T, time)
        PROVE  AccountIInv'
    BY <2>5, BlockInv
  <2>. QED
    BY <1>2, <2>1, <2>2, <2>3, <2>4, <2>5, AccountStepsInv DEF Next
<1>. QED
  BY <1>1, <1>2

THEOREM AccountCorrect == Spec => []AccountIInv
<1>1. Init => AccountIInv
  BY AccountInit, AccountAssumption
<1>2. AccountIInv /\ [Next]_vars => AccountIInv'
  BY AccountNext, AccountAssumption
<1>. QED
  BY <1>1, <1>2, PTL DEF Spec

(* Whatever the tokens, the pages and the workflows that run at once, what  *)
(* is behind the cursor of the account or the pointer of OpenSea is written *)
(* (activities.go:69-156), but for what a page or a failure left out.       *)
THEOREM AccountWritten == Spec => []BehindIsWritten
<1>1. AccountIInv => BehindIsWritten
  <2> SUFFICES ASSUME AccountIInv
               PROVE  BehindIsWritten
    OBVIOUS
  <2>1. TypeOK
    <3>1. \A w \in Workflow : FlowOK(flows[w])
      <4>1. SUFFICES ASSUME NEW w \in Workflow
                     PROVE  FlowOK(flows[w])
        OBVIOUS
      <4>2. flows[w] \in Flow /\ Writing(flows[w]) => flows[w].done < Len(flows[w].updates)
        BY FlowFields DEF FlowHolds, InOrder
      <4>3. flows[w].updates \in Seq([token : Token, time : Time \cup {UpdatedAt}])
        <5> DEFINE U == [token : Token, time : Time \cup {UpdatedAt}]
        <5>1. Update \subseteq U
          BY Constants, AccountAssumption DEF Update
        <5> HIDE DEF U
        <5>2. flows[w].updates \in Seq(U)
          BY <5>1, FlowFields, SeqOfMore
        <5>. QED
          BY <5>2 DEF U
      <4>. QED
        BY <4>2, <4>3, FlowFields DEF Flow, FlowPlace, FlowOK, Writing
    <3>. QED
      BY <3>1 DEF AccountIInv, AccountTypes, TypeOK
  <2>2. BehindCursor
    <3>1. SUFFICES ASSUME Tezos, NEW t \in Indexed \ missed, moved[t] \in 1..account.cursor
                   PROVE  t \in stored /\ (UpToDate(t) \/ InHand(t) \/ t \in lost)
      BY DEF BehindCursor
    <3>2. t \in Written
      BY <3>1 DEF AccountIInv, Reached
    <3>3. t \in Coming => InHand(t)
      BY DEF Coming, InHand, Carries, Held
    <3>. QED
      BY <3>2, <3>3 DEF Written, Fresh
  <2>3. BehindPointer
    BY DEF BehindPointer, AccountIInv, FlowHolds, OpenseaFlow
  <2>. QED
    BY <2>1, <2>2, <2>3 DEF BehindIsWritten
<1>. QED
  BY <1>1, AccountCorrect, PTL

-----------------------------------------------------------------------------
(* The end of a workflow.                                                   *)

LEMMA TezosEnd ==
  ASSUME AccountIInv, AccountAssumption, NEW w \in Workflow, FetchTezos(w),
         flows'[w].at = "idle", ~ Blocked(w),
         NEW t \in Indexed \ missed', moved[t] # Never
  PROVE  t \in stored
<1> DEFINE from == flows[w].from
           H == HeldAfter(from)
<1>1. PICK page \in PagesAfter(from) : \E updates \in UpdatesOf(page) :
        /\ Fetched(w, updates, NewLastTime(page))
        /\ missed' = IF NothingToIndex(updates) THEN missed ELSE missed \cup CutOff(page)
  BY DEF FetchTezos
<1>2. PICK updates \in UpdatesOf(page) :
        /\ Fetched(w, updates, NewLastTime(page))
        /\ missed' = IF NothingToIndex(updates) THEN missed ELSE missed \cup CutOff(page)
  BY <1>1
<1>3. /\ Tezos /\ At(w, "fetch") /\ from \in Nat /\ Reached(from, missed, Written)
  BY FlowFields DEF FetchTezos, Flow, FlowHolds, TezosPage, At
<1>4. updates = <<>>
  <2>1. SUFFICES ASSUME updates # <<>>
                 PROVE  flows'[w].at = "assets"
    OBVIOUS
  <2>. QED
    BY <1>2, <1>3, <2>1 DEF Fetched, NothingToIndex, AccountIInv, AccountTypes, Flow
<1>5. missed' = missed
  BY <1>2, <1>4 DEF NothingToIndex
<1>6. /\ IsFiniteSet(H) /\ Cardinality(H) \in Nat /\ Cardinality(H) < PageSize
  BY <1>3, HeldIsFinite, FS_CardinalityType, Constants DEF Blocked
<1>7. \A held \in H : \E i \in 1..Cardinality(H) : page[i] = held
  BY <1>3, <1>6, WholePage
<1>8. PICK n \in Nat : page \in [1..n -> Update]
  BY <1>3, TezosPageFacts
<1>9. \A j \in 1..n : page[j].token \in Excluded
  <2>1. \A j \in 1..n : page[j].token \notin Excluded =>
          \E i \in 1..Len(updates) : updates[i] = page[j]
    <3>1. updates \in PageWithout(page, Excluded)
      BY <1>2 DEF UpdatesOf
    <3>. QED
      BY <1>8, <3>1, WithoutTokens
  <2>. QED
    BY <1>4, <2>1
<1>10. DOMAIN page = 1..Cardinality(H) /\ DOMAIN page = 1..n
  BY <1>6, <1>8 DEF PagesAfter
<1>11. ASSUME moved[t] > from
       PROVE  FALSE
  <2>1. Held(t) \in H /\ Held(t).token = t
    BY <1>11 DEF HeldAfter, Held, Indexed
  <2>2. PICK i \in 1..Cardinality(H) : page[i] = Held(t)
    BY <1>7, <2>1
  <2>3. t \in Excluded
    BY <1>9, <1>10, <2>1, <2>2
  <2>. QED
    BY <2>3 DEF Indexed
<1>12. moved[t] \in 1..from /\ t \in Indexed \ missed
  BY <1>3, <1>5, <1>11, Clock DEF Indexed, Never
<1>. QED
  BY <1>3, <1>12 DEF Reached, Written

LEMMA EthereumEnd ==
  ASSUME AccountIInv, AccountAssumption, NEW w \in Workflow, FetchEthereum(w),
         flows'[w].at = "idle", NEW t \in Indexed \ missed', t \in NFTsFrom(0)
  PROVE  t \in stored
<1> DEFINE from == flows[w].from
<1>1. PICK left \in SUBSET NFTsOn(from) :
        \E updates \in PageWithout(OpenseaPage(from), Excluded \cup left) :
          /\ Fetched(w, updates, 0)
          /\ missed' = missed \cup IF NothingToIndex(updates) THEN NFTsFrom(from) ELSE left
  BY DEF FetchEthereum
<1>2. PICK updates \in PageWithout(OpenseaPage(from), Excluded \cup left) :
        /\ Fetched(w, updates, 0)
        /\ missed' = missed \cup IF NothingToIndex(updates) THEN NFTsFrom(from) ELSE left
  BY <1>1
<1>3. /\ ~ Tezos /\ At(w, "fetch") /\ from \in Nat
      /\ \A x \in NFTsBefore(from) : (x \in stored /\ listed[x] # Never) \/ x \in Excluded \cup missed
  BY FlowFields DEF FetchEthereum, Flow, FlowHolds, OpenseaFlow
<1>4. updates = <<>>
  <2>1. SUFFICES ASSUME updates # <<>>
                 PROVE  flows'[w].at = "assets"
    OBVIOUS
  <2>. QED
    BY <1>2, <1>3, <2>1 DEF Fetched, NothingToIndex, AccountIInv, AccountTypes, Flow
<1>5. missed' = missed \cup NFTsFrom(from)
  BY <1>2, <1>4 DEF NothingToIndex
<1>6. t \in NFTsBefore(from)
  BY <1>3, <1>5, OpenseaPageFacts
<1>. QED
  BY <1>3, <1>5, <1>6 DEF Indexed

(* The last account token of the last page of OpenSea.                      *)
LEMMA LastPageEnd ==
  ASSUME AccountIInv, AccountAssumption, NEW w \in Workflow, IndexAccountToken(w),
         flows'[w].at = "idle", NEW t \in Indexed \ missed',
         IF Tezos THEN moved[t] # Never ELSE t \in NFTsFrom(0)
  PROVE  t \in stored
<1> DEFINE g == flows[w]
           f == IF LastOne(w) THEN NextPage(w) ELSE [g EXCEPT !.done = @ + 1]
<1>1. /\ g.at = "tokens" /\ Writing(g) /\ UNCHANGED missed
      /\ flows' = [flows EXCEPT ![w] = f]
  BY DEF IndexAccountToken, At, Writing, AccountIInv, AccountTypes
<1>2. /\ g \in Flow /\ g.from \in Nat /\ g.updates \in Seq(Update)
      /\ FlowHolds(g, stored, listed, missed, Written)
  BY FlowFields DEF Flow
<1>3. flows'[w] = f
  BY <1>1 DEF AccountIInv, AccountTypes
<1>4. LastOne(w)
  <2>1. SUFFICES ASSUME ~ LastOne(w)
                 PROVE  f.at = "tokens"
    BY <1>3
  <2>2. f = [g EXCEPT !.done = @ + 1]
    BY <2>1
  <2>. QED
    BY <1>1, <1>2, <2>2 DEF Flow
<1>5. ~ Tezos /\ LastPage(g.from)
  BY <1>3, <1>4, NextPageFlow
<1>6. t \in NFTsBefore(g.from) \cup NFTsOn(g.from)
  BY <1>2, <1>5, OpenseaPageFacts
<1>7. t \notin Excluded \cup missed
  BY <1>1 DEF Indexed
<1>8. CASE t \in NFTsBefore(g.from)
  BY <1>2, <1>5, <1>7, <1>8 DEF FlowHolds, OpenseaFlow
<1>9. CASE t \in NFTsOn(g.from)
  BY <1>1, <1>2, <1>5, <1>7, <1>9 DEF FlowHolds, OpenseaFlow, InOrder
<1>. QED
  BY <1>6, <1>8, <1>9

(* Only a fetch that finds nothing, and the last account token of a page,   *)
(* end a workflow that is fetching or writing account tokens.               *)
LEMMA WhoEnds ==
  ASSUME AccountIInv, AccountAssumption, Next, NEW w \in Workflow,
         At(w, "fetch") \/ At(w, "tokens"), flows'[w].at = "idle"
  PROVE  FetchTezos(w) \/ FetchEthereum(w) \/ IndexAccountToken(w)
<1> DEFINE Mine(v) == FetchTezos(v) \/ FetchEthereum(v) \/ IndexAccountToken(v)
<1>1. flows \in [Workflow -> Flow] /\ flows[w].at # "idle"
  BY DEF AccountIInv, AccountTypes, At
<1>2. flows' # flows
  BY <1>1
<1>3. ASSUME NEW v \in Workflow, NEW f, flows' = [flows EXCEPT ![v] = f]
      PROVE  v = w
  BY <1>1, <1>3
<1>4. ASSUME NEW v \in Workflow, Start(v)
      PROVE  FALSE
  <2>1. v = w
    BY <1>3, <1>4 DEF Start
  <2>. QED
    BY <1>4, <2>1 DEF Start, Stopped, At
<1>5. ASSUME NEW v \in Workflow, ReadAccount(v) \/ IndexAsset(v) \/ indexTezosAccount(v)
      PROVE  FALSE
  <2>1. flows[v].at \in {"account", "assets", "cursor"}
    BY <1>5 DEF ReadAccount, IndexAsset, indexTezosAccount, At
  <2>2. \E f : flows' = [flows EXCEPT ![v] = f]
    BY <1>1, <1>5 DEF ReadAccount, IndexAsset, indexTezosAccount, End
  <2>. QED
    BY <1>3, <2>1, <2>2 DEF At
<1>6. ASSUME NEW v \in Workflow, Fail(v)
      PROVE  FALSE
  <2>1. PICK f \in Flow : /\ flows' = [flows EXCEPT ![v] = f]
                          /\ f.at \in {"account", "fetch", "failed"}
    BY <1>6, FailedFlow, AccountAssumption
  <2>. QED
    BY <1>1, <1>3, <2>1
<1>7. ASSUME NEW v \in Workflow, Mine(v)
      PROVE  Mine(w)
  <2>1. \E f : flows' = [flows EXCEPT ![v] = f]
    BY <1>1, <1>7 DEF FetchTezos, FetchEthereum, Fetched, IndexAccountToken, End
  <2>. QED
    BY <1>3, <1>7, <2>1
<1>8. UNCHANGED flows \/ Mine(w)
  BY <1>4, <1>5, <1>6, <1>7 DEF Next, ForceReindex, Block, MinutePasses
<1>. QED
  BY <1>2, <1>8

(* A workflow that ends by itself has stored all that the owner has         *)
(* (workflows_indexer.go:18-75), but for what a page left out.              *)
THEOREM DoneIsIndexed == Spec => DoneMeansIndexed
<1>1. AccountIInv /\ [Next]_vars =>
        [\A w \in Workflow : EndsByItself(w) =>
           \A t \in Indexed \ missed' :
             (IF Tezos THEN moved[t] # Never ELSE t \in NFTsFrom(0)) => t \in stored]_vars
  <2>1. SUFFICES ASSUME AccountIInv, Next, NEW w \in Workflow, EndsByItself(w),
                        NEW t \in Indexed \ missed',
                        IF Tezos THEN moved[t] # Never ELSE t \in NFTsFrom(0)
                 PROVE  t \in stored
    OBVIOUS
  <2>2. /\ At(w, "fetch") \/ At(w, "tokens")
        /\ flows'[w].at = "idle"
        /\ At(w, "fetch") => ~ Blocked(w)
    BY <2>1 DEF EndsByItself
  <2>3. FetchTezos(w) \/ FetchEthereum(w) \/ IndexAccountToken(w)
    BY <2>1, <2>2, WhoEnds, AccountAssumption
  <2>4. CASE FetchTezos(w)
    BY <2>1, <2>2, <2>4, TezosEnd, AccountAssumption DEF FetchTezos
  <2>5. CASE FetchEthereum(w)
    BY <2>1, <2>2, <2>5, EthereumEnd, AccountAssumption DEF FetchEthereum
  <2>6. CASE IndexAccountToken(w)
    BY <2>1, <2>2, <2>6, LastPageEnd, AccountAssumption
  <2>. QED
    BY <2>3, <2>4, <2>5, <2>6
<1>. QED
  BY <1>1, AccountCorrect, PTL DEF Spec, DoneMeansIndexed
================================================================================
