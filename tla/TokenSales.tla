------------------------------- MODULE TokenSales -------------------------------
(***************************************************************************)
(* Sales of tokens on the secondary market.  A workflow per transaction    *)
(* looks whether the sale is stored, reads the transaction, works out who  *)
(* was paid what, deletes the sale and inserts it.  The workflow is        *)
(* started by the event processor, and by a scan of a range of blocks      *)
(* (Ethereum) or of what tzkt lists (Tezos).  The id of the workflow keeps *)
(* two of one transaction from running at once, but not an attempt of its  *)
(* writing activity that timed out, nor a client of the API.               *)
(***************************************************************************)
EXTENDS Integers, SequencesExt

CONSTANTS
  Tx,            \* transactions
  Address,       \* addresses that pay and are paid
  NoOne,         \* the receiver of a transaction that creates a contract
  Published,     \* the tokens published by Feral File
  Marketplace,   \* configured: addresses of marketplaces on Ethereum
  TreasuryProxy, \* the address of Objkt that only passes payments on
  FeeWallet,     \* configured: addresses that take the platform's fee
  OldFeeWallet,  \* configured: OpenSea's wallet before the fees were paid out
  Batch,         \* blocks after the first, or entries, of one step of a scan
  Chain,         \* bound: the chains considered
  MaxStarts,     \* bound: requests from outside
  MaxFaults      \* bound: failures of activities and workflows

ASSUME SalesAssumption ==
  /\ Marketplace \cup FeeWallet \cup {OldFeeWallet, TreasuryProxy} \subseteq Address
  /\ FeeWallet # {} /\ NoOne \notin Address
  /\ Batch \in Nat \ {0} /\ {MaxStarts, MaxFaults} \subseteq Nat
  /\ \A c \in Chain : c.list \in Seq(SUBSET Tx)

VARIABLES
  chain,       \* the chain: its transactions, and the order they are listed in
  jobs,        \* jobs[t]: the workflow of transaction t
  docs,        \* docs[t]: the documents of sales stored for transaction t
  writer,      \* writer[t]: another writer of the sale: an attempt that timed
               \* out and still runs, or a client of the API
  scan,        \* the scan of a range
  starts,      \* requests from outside so far
  salesFaults, \* failures so far
  overlapped   \* history: transactions that had another writer

salesVars == <<chain, jobs, docs, writer, scan, starts, salesFaults, overlapped>>

Elements(s) == {s[i] : i \in DOMAIN s}
Ethereum == chain.blockchain = "ethereum"

-----------------------------------------------------------------------------
(* Who was paid what.  A payment has a sender, a receiver and an amount.     *)

NothingPaid == [shares |-> [a \in Address |-> 0], known |-> {}, price |-> 0, fee |-> 0]

(* A mutant: what is passed on stays in the price. *)
Settled_Mut(so, pay, ignored, wallets) ==
  IF pay.to \in ignored THEN so
  ELSE LET paid == [so EXCEPT !.shares[pay.to] = @ + pay.amount,
                              !.known = @ \cup {pay.to},
                              !.price = @ + pay.amount,
                              !.fee = IF pay.to \in wallets THEN @ + pay.amount ELSE @]
       IN  IF pay.from \in paid.known
             THEN [paid EXCEPT !.shares[pay.from] = @ - pay.amount] ELSE paid

Settled(so, pay, ignored, wallets) ==
  IF pay.to \in ignored THEN so
  ELSE LET paid == [so EXCEPT !.shares[pay.to] = @ + pay.amount,
                              !.known = @ \cup {pay.to},
                              !.price = @ + pay.amount,
                              !.fee = IF pay.to \in wallets THEN @ + pay.amount ELSE @]
       IN  IF pay.from \in paid.known
             THEN [paid EXCEPT !.shares[pay.from] = @ - pay.amount,
                               !.price = @ - pay.amount]
             ELSE paid

Settle(pays, ignored, wallets) ==
  FoldLeft(LAMBDA so, pay : Settled(so, pay, ignored, wallets), NothingPaid, pays)

(* A sale, or why there is none. *)
NoSale == [outcome |-> "none"]
Invalid == [outcome |-> "error"]
Sale(settled, fee, bundle, pays) ==
  [outcome |-> "sale", shares |-> settled.shares, price |-> settled.price,
   fee |-> fee, net |-> settled.price - fee, bundle |-> bundle, pays |-> pays]

(* Ethereum.  classifyTxLogs has split the event logs into ERC20 transfers   *)
(* and transfers of tokens; a move is one of the latter.                     *)

(* The seller is the first sender, the buyer the last recipient. *)
SoldTokens(moves) ==
  LET Moved(token) == SelectSeq(moves, LAMBDA move : move.token = token)
  IN  {[token |-> token, seller |-> Head(Moved(token)).from,
        buyer |-> Last(Moved(token)).to] : token \in {m.token : m \in Elements(moves)}}

OneCurrency(tx) ==
  /\ ~(tx.eth /\ tx.erc20 # <<>>)
  /\ Cardinality({pay.contract : pay \in Elements(tx.erc20)}) <= 1

SingleTokens(tx) == \A move \in Elements(tx.moves) :
  move.amount = 1 /\ move.token \in Published

OnMarketplace(tx, pays) ==
  tx.to \in Marketplace
    \/ \E pay \in Elements(pays) : {pay.from, pay.to} \cap Marketplace # {}

(* 2.5 percent, in whole units, when OpenSea's old wallet had a share. *)
PlatformFee(settled) ==
  IF settled.fee = 0 /\ OldFeeWallet \in settled.known
    THEN settled.price \div 40 ELSE settled.fee

ParseEthereumTokenSale(tx) ==
  LET pays == tx.erc20 \o tx.internal
      settled == Settle(pays, Marketplace, FeeWallet)
  IN  IF /\ tx.ok /\ tx.to # NoOne
         /\ OneCurrency(tx) /\ SingleTokens(tx)
         /\ OnMarketplace(tx, pays) /\ pays # <<>>
        THEN Sale(settled, PlatformFee(settled), SoldTokens(tx.moves), pays)
        ELSE NoSale

(* Tezos.  The operations of a group are looked at in order: one that was    *)
(* not applied ends it without a sale, a transfer of coins with an error.    *)
Stops(op) == ~op.applied \/ op.kind = "coins"
OfKind(ops, kind) == SelectSeq(ops, LAMBDA op : op.kind = kind)

ParseTezosObjktTokenSale(ops) ==
  LET stops == SelectSeq(ops, Stops)
      bundle == {[token |-> op.token, seller |-> op.from, buyer |-> op.to] :
                   op \in Elements(OfKind(ops, "transfer"))}
      pays == OfKind(ops, "pay")
      settled == Settle(pays, {TreasuryProxy}, FeeWallet)
  IN  IF Len(ops) < 2 THEN Invalid
      ELSE IF stops # <<>> THEN IF ~Head(stops).applied THEN NoSale ELSE Invalid
      ELSE IF OfKind(ops, "sale") = <<>> \/ bundle = {} THEN Invalid
      ELSE IF \E info \in bundle : info.token \notin Published THEN NoSale
      ELSE Sale(settled, settled.fee, bundle, pays)

Parsed(t) == IF Ethereum THEN ParseEthereumTokenSale(chain.content[t])
                         ELSE ParseTezosObjktTokenSale(chain.content[t])

-----------------------------------------------------------------------------
(* The workflow of a transaction.  by: whether the scan is its parent.       *)

NoJob == [at |-> "none", by |-> "caller"]
Running(t) == jobs[t].at \in {"check", "parse", "delete", "insert"}
Goes(t, step) == jobs' = [jobs EXCEPT ![t] = [at |-> step, by |-> jobs[t].by]]

SalesInit ==
  /\ chain \in Chain
  /\ jobs = [t \in Tx |-> NoJob]
  /\ docs = [t \in Tx |-> <<>>]
  /\ writer = [t \in Tx |-> "none"]
  /\ scan = [at |-> "idle", start |-> 1, children |-> {}, broken |-> FALSE]
  /\ starts = 0
  /\ salesFaults = 0
  /\ overlapped = {}

(* The start of a workflow that runs already changes nothing.  A child of    *)
(* the scan that ended before keeps its result.                              *)
StartIndexingTokenSale(t) ==
  /\ starts < MaxStarts
  /\ starts' = starts + 1
  /\ ~Running(t)
  /\ jobs' = [jobs EXCEPT ![t] = [at |-> "check", by |-> "caller"]]
  /\ scan' = [scan EXCEPT !.children = @ \ {t},
                          !.broken = @ \/ (t \in scan.children /\ jobs[t].at = "failed")]
  /\ UNCHANGED <<chain, docs, writer, salesFaults, overlapped>>

IndexedSaleTx(t) ==
  /\ jobs[t].at = "check"
  /\ Goes(t, IF docs[t] # <<>> THEN "done" ELSE "parse")
  /\ UNCHANGED <<chain, docs, writer, scan, starts, salesFaults, overlapped>>

ParseTokenSale(t) ==
  /\ jobs[t].at = "parse"
  /\ \/ Parsed(t).outcome = "none" /\ Goes(t, "done")
     \/ Parsed(t).outcome = "error" /\ Goes(t, "failed")
     \/ Parsed(t).outcome = "sale" /\ Goes(t, "delete")
  /\ UNCHANGED <<chain, docs, writer, scan, starts, salesFaults, overlapped>>

(* WriteTimeSeriesData: the documents with the same unique id are deleted,   *)
(* then the record is inserted; there is no unique index and no transaction. *)

(* A mutant: nothing is deleted. *)
Without_Mut(t) == docs

Without(t) == [docs EXCEPT ![t] = <<>>]

With(t) == [docs EXCEPT ![t] = Append(@, Parsed(t))]

DeleteSale(t) ==
  /\ jobs[t].at = "delete"
  /\ docs' = Without(t)
  /\ Goes(t, "insert")
  /\ UNCHANGED <<chain, writer, scan, starts, salesFaults, overlapped>>

InsertSale(t) ==
  /\ jobs[t].at = "insert"
  /\ docs' = With(t)
  /\ Goes(t, "done")
  /\ UNCHANGED <<chain, writer, scan, starts, salesFaults, overlapped>>

Fault == salesFaults < MaxFaults /\ salesFaults' = salesFaults + 1

(* An attempt of the writing activity fails, with or without the effect of   *)
(* its last call, and is made again from its start.                          *)
RetryWrite(t) ==
  /\ Fault
  /\ \/ jobs[t].at = "delete" /\ docs' \in {docs, Without(t)}
     \/ jobs[t].at = "insert" /\ docs' \in {docs, With(t)}
  /\ Goes(t, "delete")
  /\ UNCHANGED <<chain, writer, scan, starts, overlapped>>

Left(t, w) == IF jobs[t].at \in {"delete", "insert"} /\ w[t] = "none"
                THEN [w EXCEPT ![t] = jobs[t].at] ELSE w
Overlaps(w) == overlapped' = overlapped \cup {t \in Tx : w[t] # "none"}

(* The attempt times out and is made again while it still runs. *)
TimeOutWrite(t) ==
  /\ Fault
  /\ jobs[t].at \in {"delete", "insert"} /\ writer[t] = "none"
  /\ writer' = Left(t, writer)
  /\ Overlaps(writer')
  /\ Goes(t, "delete")
  /\ UNCHANGED <<chain, docs, scan, starts>>

(* A client of the API stores the sale. *)
RecordSale(t) ==
  /\ starts < MaxStarts
  /\ starts' = starts + 1
  /\ Parsed(t).outcome = "sale" /\ writer[t] = "none"
  /\ writer' = [writer EXCEPT ![t] = "delete"]
  /\ Overlaps(writer')
  /\ UNCHANGED <<chain, jobs, docs, scan, salesFaults>>

OtherDeletes(t) ==
  /\ writer[t] = "delete"
  /\ docs' = Without(t)
  /\ writer' = [writer EXCEPT ![t] = "insert"]
  /\ UNCHANGED <<chain, jobs, scan, starts, salesFaults, overlapped>>

(* It inserts, or fails and nobody makes it again. *)
OtherInserts(t) ==
  /\ writer[t] = "insert"
  /\ docs' \in {docs, With(t)}
  /\ writer' = [writer EXCEPT ![t] = "none"]
  /\ UNCHANGED <<chain, jobs, scan, starts, salesFaults, overlapped>>

(* The workflow fails at an activity, or by its timeout, which leaves a      *)
(* writing attempt running.  A caller's workflow is started again; a child   *)
(* of the scan is not.                                                       *)
FailJob(t) ==
  /\ Fault
  /\ Running(t)
  /\ writer' \in {writer, Left(t, writer)}
  /\ Overlaps(writer')
  /\ Goes(t, IF jobs[t].by = "caller" THEN "check" ELSE "failed")
  /\ UNCHANGED <<chain, docs, scan, starts>>

-----------------------------------------------------------------------------
(* The scan.  On Ethereum an entry of the list is the set of transactions of *)
(* a block, and a step takes the blocks from start to start + Batch; on      *)
(* Tezos it is one transaction, which the list may hold more than once.      *)

List == chain.list

(* A mutant: the last block of a step is left to the next one. *)
Page_Mut(start) ==
  LET end == start + Batch - 1
  IN  SubSeq(List, start, IF end > Len(List) THEN Len(List) ELSE end)

Page(start) ==
  LET end == IF Ethereum THEN start + Batch ELSE start + Batch - 1
  IN  SubSeq(List, start, IF end > Len(List) THEN Len(List) ELSE end)

LastStep(start) == IF Ethereum THEN start + Batch >= Len(List) ELSE Page(start) = <<>>

NextStart(start) == IF Ethereum THEN start + Batch ELSE start + Len(Page(start))

StartScan ==
  /\ scan.at \in {"idle", "failed"}
  /\ scan' = [scan EXCEPT !.at = "query", !.start = 1]
  /\ UNCHANGED <<chain, jobs, docs, writer, starts, salesFaults, overlapped>>

(* A workflow per transaction; the one of a transaction whose workflow runs  *)
(* already is refused.                                                       *)
StartChildren ==
  /\ scan.at = "query"
  /\ LET txs == UNION Elements(Page(scan.start))
         started == {t \in txs : ~Running(t)}
     IN  /\ scan' = [scan EXCEPT !.at = "wait", !.children = started,
                                 !.broken = started # txs]
         /\ jobs' = [t \in Tx |-> IF t \in started THEN [at |-> "check", by |-> "scan"]
                                                   ELSE jobs[t]]
  /\ UNCHANGED <<chain, docs, writer, starts, salesFaults, overlapped>>

EndStep ==
  /\ scan.at = "wait"
  /\ ~scan.broken /\ \A t \in scan.children : jobs[t].at = "done"
  /\ scan' = IF LastStep(scan.start)
               THEN [scan EXCEPT !.at = "done", !.children = {}]
               ELSE [scan EXCEPT !.at = "query", !.start = NextStart(@), !.children = {}]
  /\ UNCHANGED <<chain, jobs, docs, writer, starts, salesFaults, overlapped>>

(* The first error that a child returns ends the scan, which takes the       *)
(* children that still run with it, but not their attempts at writing.       *)
StopScan ==
  LET stopped == {t \in scan.children : Running(t)}
  IN  /\ scan' = [scan EXCEPT !.at = "failed", !.children = {}, !.broken = FALSE]
      /\ jobs' = [t \in Tx |-> IF t \in stopped THEN NoJob ELSE jobs[t]]
      /\ writer' = [t \in Tx |-> IF t \in stopped THEN Left(t, writer)[t] ELSE writer[t]]
      /\ Overlaps(writer')
      /\ UNCHANGED <<chain, docs, starts>>

ScanFails ==
  /\ scan.at = "wait"
  /\ scan.broken \/ \E t \in scan.children : jobs[t].at = "failed"
  /\ StopScan
  /\ UNCHANGED salesFaults

ScanTimesOut ==
  /\ scan.at \in {"query", "wait"}
  /\ Fault
  /\ StopScan

SalesNext ==
  \/ \E t \in Tx : \/ StartIndexingTokenSale(t) \/ RecordSale(t)
                   \/ IndexedSaleTx(t) \/ ParseTokenSale(t)
                   \/ DeleteSale(t) \/ InsertSale(t)
                   \/ OtherDeletes(t) \/ OtherInserts(t)
                   \/ RetryWrite(t) \/ TimeOutWrite(t) \/ FailJob(t)
  \/ StartScan \/ StartChildren \/ EndStep \/ ScanFails \/ ScanTimesOut

SalesSpec == SalesInit /\ [][SalesNext]_salesVars

-----------------------------------------------------------------------------
(* What was paid by those who had not been paid before. *)
PaidFromOutside(pays, ignored) ==
  LET counted == {i \in DOMAIN pays : pays[i].to \notin ignored}
      outside == {i \in counted : \A j \in counted : j <= i => pays[j].to # pays[i].from}
  IN  MapThenSumSet(LAMBDA i : pays[i].amount, outside)

Ignored == IF Ethereum THEN Marketplace ELSE {TreasuryProxy}

(* INVARIANT.  The shares of a stored sale add up to its price, and the     *)
(* price is what entered the sale: money that one address passes on to the  *)
(* next, however often, is counted once (ParseEthereumTokenSale,            *)
(* ParseTezosObjktTokenSale).                                               *)
SharesAddUp == \A t \in Tx : \A sale \in Elements(docs[t]) :
  /\ SumFunction(sale.shares) = sale.price
  /\ sale.price = PaidFromOutside(sale.pays, Ignored)
  /\ sale.net + sale.fee = sale.price

(* INVARIANT.  A sale is stored once, however often its workflow is started *)
(* again and its writing retried, unless an attempt that had timed out or a *)
(* client of the API wrote it at the same time (WriteTimeSeriesData).       *)
SoldOnce == \A t \in Tx \ overlapped : Len(docs[t]) <= 1

(* INVARIANT.  When the scan is done the sales of its whole range are       *)
(* stored: steps leave no transaction between them, and the errors of the   *)
(* children stop it.                                                        *)
ScanComplete == scan.at = "done" =>
  \A t \in (UNION Elements(List)) \ overlapped :
    Parsed(t).outcome = "sale" => docs[t] # <<>>
=============================================================================
