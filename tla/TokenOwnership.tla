---------------------------- MODULE TokenOwnership ----------------------------
(***************************************************************************)
(* Who owns a non-fungible token, as the indexer store records it while    *)
(* transfers happen on chain.  Three kinds of actors write the token, each *)
(* with its own guard:                                                     *)
(*   - stage 1 workers push the transfer of an event on the provenance, if *)
(*     nobody wrote since they read, or else set the owner;                *)
(*   - stage 2 workers set the owner and start a refresh workflow;         *)
(*   - refresh workflows read the whole provenance from the chain and      *)
(*     write it back, whatever the token has become meanwhile.             *)
(* Two clocks meet in lastActivityTime: the block time of a transfer and   *)
(* the later time at which its event entered the queue.                    *)
(*                                                                         *)
(* Transfers are numbered in chain order and 1 is the mint; a provenance   *)
(* is the sequence of the numbers of its transfers, newest first.          *)
(***************************************************************************)
EXTENDS Integers, Sequences, FiniteSets, SequencesExt

CONSTANTS
  Owner,         \* the accounts a transfer may go to
  Minter,        \* the first owner
  BurnAddress,   \* IsBurnAddress
  Process,       \* event-processor processes
  Refresher,     \* the callers that start refresh workflows
  Processor,     \* the caller that stage 2 uses
  Margin,        \* the margin of IndexAccountTokens
  MaxTransfers,  \* bound: transfers after the mint
  MaxRefreshes,  \* bound: refreshes started by others than stage 2
  MaxFaults,     \* bound: failed calls
  MaxRestarts    \* bound: crashed processes and retried refreshes

ASSUME OwnershipAssumption ==
  /\ {Minter, BurnAddress} \subseteq Owner /\ Minter # BurnAddress
  /\ Processor \in Refresher
  /\ {Margin, MaxTransfers, MaxRefreshes, MaxFaults, MaxRestarts} \subseteq Nat

VARIABLES
  chain,      \* the transfers: the new owner and the block time of each
  clock,      \* real time
  events,     \* the queued events: creation time, stage and status of each
  worker,     \* worker[p][k]: the event a worker handles, and where it is
  token,      \* the token document
  fresh,      \* processes whose stage 1 worker has read the current document
  account,    \* the account_tokens documents of the token (-Margin: none yet)
  refresh,    \* the refresh workflow of each caller
  refreshes,  \* refreshes started by others
  faults,
  restarts

vars == <<chain, clock, events, worker, token, fresh, account, refresh, refreshes, faults, restarts>>

(* The stage 1 worker and the two stage 2 workers of a process. *)
Kind == {"latest", "sync", "syncBurned"}
KindOf(i) == IF chain[i].to = BurnAddress THEN "syncBurned" ELSE "sync"

Free == [event |-> 0, at |-> "idle"]
Dormant == [at |-> "idle", seen |-> 0]

-------------------------------------------------------------------------------
Init ==
  /\ chain = <<[to |-> Minter, time |-> 1]>>
  /\ clock = 1
  /\ events = <<[created |-> 1, stage |-> 0]>>
  /\ worker = [p \in Process |-> [k \in Kind |-> Free]]
  /\ token = [owner |-> Minter, activity |-> 1, prov |-> <<1>>, burned |-> FALSE]
  /\ fresh = {}
  /\ account = [o \in Owner |-> IF o = Minter THEN [balance |-> 1, time |-> 1]
                                              ELSE [balance |-> 0, time |-> -Margin]]
  /\ refresh = [r \in Refresher |-> Dormant]
  /\ refreshes = 0
  /\ faults = 0 /\ restarts = 0

(* The owner transfers or burns the token, in the block of the previous    *)
(* transfer or in a later one.                                             *)
Transfer(o) ==
  /\ Len(chain) <= MaxTransfers
  /\ o # Last(chain).to /\ Last(chain).to # BurnAddress
  /\ \E t \in {Last(chain).time, clock + 1} :
       /\ chain' = Append(chain, [to |-> o, time |-> t])
       /\ clock' = IF t > clock THEN t ELSE clock
  /\ UNCHANGED <<events, worker, token, fresh, account, refresh, refreshes, faults, restarts>>

(* The emitter pushes the next transfer; created_at is the database time.  *)
PushEvent ==
  /\ Len(events) < Len(chain)
  /\ clock' = clock + 1
  /\ events' = Append(events, [created |-> clock', stage |-> 1])
  /\ UNCHANGED <<chain, worker, token, fresh, account, refresh, refreshes, faults, restarts>>

-------------------------------------------------------------------------------
(* The writes of the store.  Each renews lastRefreshedTime, so a stage 1   *)
(* worker that has read the document before holds a stale lock time.       *)
WriteToken(owner, activity, prov, burned) ==
  /\ token' = [owner |-> owner, activity |-> activity, prov |-> prov, burned |-> burned]
  /\ fresh' = {}

(* UpdateOwner.  Mutant: the last activity is not written. *)
UpdateOwnerOnly(o, t) ==
  IF token.activity < t
  THEN WriteToken(o, token.activity, token.prov, o = BurnAddress)
  ELSE UNCHANGED <<token, fresh>>

UpdateOwner(o, t) ==
  IF token.activity < t
  THEN WriteToken(o, t, token.prov, o = BurnAddress)
  ELSE UNCHANGED <<token, fresh>>

(* The filter of PushProvenance: nobody wrote since p read, and the last   *)
(* activity is older than the transfer.  Mutant: without the filter on the *)
(* activity.                                                               *)
MayPushAnyTime(p, i) == p \in fresh

MayPush(p, i) == p \in fresh /\ token.activity < chain[i].time

(* UpdateTokenProvenance with the first n transfers of the chain: the      *)
(* filter is the token alone, and burned stays as it is.  Mutant: mint     *)
(* first.                                                                  *)
ProvenanceOldestFirst(n) == [i \in 1..n |-> i]

Provenance(n) == [i \in 1..n |-> n + 1 - i]

UpdateTokenProvenance(n) ==
  WriteToken(chain[n].to, chain[n].time, Provenance(n), token.burned)

(* IndexAccountTokens: an upsert for an owner whose document is older than *)
(* the margin; otherwise the document is in a future state.                *)
IndexAccountTokens(o, t) ==
  account' = IF account[o].time < t - Margin
             THEN [account EXCEPT ![o] = [balance |-> 1, time |-> t]]
             ELSE account

-------------------------------------------------------------------------------
Held(i) == \E p \in Process, k \in Kind : worker[p][k].event = i

(* A worker takes the oldest free row of its stage and types, and stage 1  *)
(* reads the token.                                                        *)
Handled(k, i) == IF k = "latest" THEN events[i].stage = 1
                 ELSE events[i].stage = 2 /\ KindOf(i) = k

Take(p, k) ==
  /\ worker[p][k] = Free
  /\ \E i \in DOMAIN events :
       /\ Handled(k, i) /\ ~ Held(i)
       /\ \A j \in 1..(i - 1) : Handled(k, j) => Held(j)
       /\ worker' = [worker EXCEPT ![p][k] = [event |-> i, at |-> "read"]]
  /\ fresh' = IF k = "latest" THEN fresh \cup {p} ELSE fresh
  /\ UNCHANGED <<chain, clock, events, token, account, refresh, refreshes, faults, restarts>>

Goto(p, k, place) == worker' = [worker EXCEPT ![p][k].at = place]

(* The worker is done with its event, which goes to a stage; 0 is for the  *)
(* rows no worker takes again, archived or failed.                         *)
Finish(p, k, stage) ==
  /\ worker' = [worker EXCEPT ![p][k] = Free]
  /\ events' = [events EXCEPT ![worker[p][k].event].stage = stage]

(* Stage 1 does nothing for a burn. *)
SkipBurn(p) ==
  LET w == worker[p]["latest"]
  IN  /\ w.at = "read" /\ chain[w.event].to = BurnAddress
      /\ Finish(p, "latest", 2)
      /\ UNCHANGED <<chain, clock, token, fresh, account, refresh, refreshes, faults, restarts>>

(* PushProvenance, which fails when the filter matches nothing. *)
PushProvenance(p) ==
  LET w == worker[p]["latest"]
  IN  /\ w.at = "read" /\ chain[w.event].to # BurnAddress
      /\ \/ /\ MayPush(p, w.event)
            /\ WriteToken(chain[w.event].to, chain[w.event].time,
                          <<w.event>> \o token.prov, token.burned)
            /\ Goto(p, "latest", "account")
         \/ /\ ~ MayPush(p, w.event)
            /\ Goto(p, "latest", "fallback")
            /\ UNCHANGED <<token, fresh>>
      /\ UNCHANGED <<chain, clock, events, account, refresh, refreshes, faults, restarts>>

(* After a failed push: UpdateOwner with the time of the event. *)
FallBack(p) ==
  LET w == worker[p]["latest"]
  IN  /\ w.at = "fallback"
      /\ UpdateOwner(chain[w.event].to, events[w.event].created)
      /\ Goto(p, "latest", "account")
      /\ UNCHANGED <<chain, clock, events, account, refresh, refreshes, faults, restarts>>

IndexNewOwner(p) ==
  LET w == worker[p]["latest"]
  IN  /\ w.at = "account"
      /\ IndexAccountTokens(chain[w.event].to, events[w.event].created)
      /\ Finish(p, "latest", 2)
      /\ UNCHANGED <<chain, clock, token, fresh, refresh, refreshes, faults, restarts>>

(* Stage 2: UpdateOwner, whose failure is only logged ... *)
SyncOwner(p, k) ==
  LET w == worker[p][k]
  IN  /\ k # "latest" /\ w.at = "read"
      /\ UpdateOwner(chain[w.event].to, events[w.event].created)
      /\ Goto(p, k, "start")
      /\ UNCHANGED <<chain, clock, events, account, refresh, refreshes, faults, restarts>>

(* ... and the start of the refresh workflow, which is dropped while the   *)
(* previous one of this token is running.                                  *)
StartRefresh(p, k) ==
  /\ k # "latest" /\ worker[p][k].at = "start"
  /\ refresh' = IF refresh[Processor] = Dormant
                THEN [refresh EXCEPT ![Processor] = [at |-> "fetch", seen |-> 0]]
                ELSE refresh
  /\ Finish(p, k, 0)
  /\ UNCHANGED <<chain, clock, token, fresh, account, refreshes, faults, restarts>>

-------------------------------------------------------------------------------
(* Somebody else, the API or the indexing of an account, starts a refresh. *)
RequestRefresh(r) ==
  /\ r # Processor /\ refresh[r] = Dormant
  /\ refreshes < MaxRefreshes
  /\ refreshes' = refreshes + 1
  /\ refresh' = [refresh EXCEPT ![r] = [at |-> "fetch", seen |-> 0]]
  /\ UNCHANGED <<chain, clock, events, worker, token, fresh, account, faults, restarts>>

(* RefreshTokenProvenance, one call after the other: the logs of the chain,*)
FetchProvenance(r) ==
  /\ refresh[r].at = "fetch"
  /\ refresh' = [refresh EXCEPT ![r] = [at |-> "token", seen |-> Len(chain)]]
  /\ UNCHANGED <<chain, clock, events, worker, token, fresh, account, refreshes, faults, restarts>>

(* the token, *)
StoreProvenance(r) ==
  /\ refresh[r].at = "token"
  /\ UpdateTokenProvenance(refresh[r].seen)
  /\ refresh' = [refresh EXCEPT ![r].at = "holder"]
  /\ UNCHANGED <<chain, clock, events, worker, account, refreshes, faults, restarts>>

(* and the account tokens (UpdateAccountTokenOwners): an upsert for the    *)
(* owner, then balance zero for all others.  When the upsert fails, the    *)
(* owner is one of the others and the activity succeeds.                   *)
StoreHolder(r) ==
  /\ refresh[r].at = "holder"
  /\ LET n == refresh[r].seen
     IN  account' = [account EXCEPT ![chain[n].to] = [balance |-> 1, time |-> chain[n].time]]
  /\ refresh' = [refresh EXCEPT ![r].at = "others"]
  /\ UNCHANGED <<chain, clock, events, worker, token, fresh, refreshes, faults, restarts>>

ClearOthers(r) ==
  /\ refresh[r].at \in {"others", "all"}
  /\ LET kept == IF refresh[r].at = "others" THEN {chain[refresh[r].seen].to} ELSE {}
     IN  account' = [o \in Owner |-> IF o \in kept THEN account[o]
                                     ELSE [account[o] EXCEPT !.balance = 0]]
  /\ refresh' = [refresh EXCEPT ![r] = Dormant]
  /\ UNCHANGED <<chain, clock, events, worker, token, fresh, refreshes, faults, restarts>>

-------------------------------------------------------------------------------
Fault == faults < MaxFaults /\ faults' = faults + 1
Restart == restarts < MaxRestarts /\ restarts' = restarts + 1

(* A call of stage 1 to the gateway returns an error.  A failed push goes  *)
(* to the fallback; after any other failure the event is marked failed and *)
(* no later stage takes it.                                                *)
FailStage1(p) ==
  LET w == worker[p]["latest"]
  IN  /\ Fault
      /\ w.at # "idle" /\ chain[w.event].to # BurnAddress
      /\ \/ w.at = "read" /\ Goto(p, "latest", "fallback") /\ UNCHANGED events
         \/ Finish(p, "latest", 0)
      /\ UNCHANGED <<chain, clock, token, fresh, account, refresh, refreshes, restarts>>

(* A call of stage 2 fails: the read fails the event, UpdateOwner does not.*)
FailStage2(p, k) ==
  /\ Fault
  /\ k # "latest" /\ worker[p][k].at = "read"
  /\ \/ Goto(p, k, "start") /\ UNCHANGED events
     \/ Finish(p, k, 0)
  /\ UNCHANGED <<chain, clock, token, fresh, account, refresh, refreshes, restarts>>

(* A process dies: its events are handled again from the start of their    *)
(* stage.                                                                  *)
Crash(p) ==
  /\ Restart
  /\ worker' = [worker EXCEPT ![p] = [k \in Kind |-> Free]]
  /\ fresh' = fresh \ {p}
  /\ UNCHANGED <<chain, clock, events, token, account, refresh, refreshes, faults>>

(* A call of a refresh fails: the workflow's retry policy starts it again, *)
(* but a failed upsert is only logged.                                     *)
RetryRefresh(r) ==
  /\ Restart
  /\ refresh[r].at \notin {"idle", "fetch"}
  /\ refresh' = [refresh EXCEPT ![r] = [at |-> "fetch", seen |-> 0]]
  /\ UNCHANGED <<chain, clock, events, worker, token, fresh, account, refreshes, faults>>

FailHolder(r) ==
  /\ Fault
  /\ refresh[r].at = "holder"
  /\ refresh' = [refresh EXCEPT ![r].at = "all"]
  /\ UNCHANGED <<chain, clock, events, worker, token, fresh, account, refreshes, restarts>>

-------------------------------------------------------------------------------
LatestStep(p) == SkipBurn(p) \/ PushProvenance(p) \/ FallBack(p) \/ IndexNewOwner(p)

WorkerStep(p, k) ==
  \/ Take(p, k)
  \/ k = "latest" /\ LatestStep(p)
  \/ SyncOwner(p, k)
  \/ StartRefresh(p, k)

RefreshStep(r) ==
  FetchProvenance(r) \/ StoreProvenance(r) \/ StoreHolder(r) \/ ClearOthers(r)

Next ==
  \/ \E o \in Owner : Transfer(o)
  \/ PushEvent
  \/ \E p \in Process : FailStage1(p) \/ Crash(p)
  \/ \E p \in Process, k \in Kind : WorkerStep(p, k) \/ FailStage2(p, k)
  \/ \E r \in Refresher :
       RequestRefresh(r) \/ RefreshStep(r) \/ RetryRefresh(r) \/ FailHolder(r)

(* Emitters push what happened, workers loop for ever, workflows run. *)
Fairness ==
  /\ WF_vars(PushEvent)
  /\ \A p \in Process, k \in Kind : WF_vars(WorkerStep(p, k))
  /\ \A r \in Refresher : WF_vars(RefreshStep(r))

Spec == Init /\ [][Next]_vars /\ Fairness

-------------------------------------------------------------------------------
TypeOK ==
  /\ chain \in Seq([to : Owner, time : Nat]) /\ Len(chain) \in 1..(MaxTransfers + 1)
  /\ clock \in Nat
  /\ events \in Seq([created : Nat, stage : 0..2]) /\ Len(events) \in 1..Len(chain)
  /\ worker \in [Process -> [Kind -> [event : 0..Len(events),
                        at : {"idle", "read", "fallback", "account", "start"}]]]
  /\ token \in [owner : Owner, activity : Nat, prov : Seq(1..Len(chain)),
                burned : BOOLEAN]
  /\ fresh \subseteq Process
  /\ account \in [Owner -> [balance : {0, 1}, time : Int]]
  /\ refresh \in [Refresher -> [at : {"idle", "fetch", "token", "holder", "others", "all"},
                                seen : 0..Len(chain)]]
  /\ refreshes \in 0..MaxRefreshes /\ faults \in 0..MaxFaults
  /\ restarts \in 0..MaxRestarts

(* The provenance begins with the mint, has each transfer at most once and *)
(* is in the order of the chain, although stage 1 pushes single records    *)
(* between refreshes that replace all of them.                             *)
ProvenanceOrdered ==
  LET prov == token.prov
  IN  /\ prov # <<>> /\ prov[Len(prov)] = 1
      /\ \A i \in 1..(Len(prov) - 1) : prov[i] > prov[i + 1]

(* The inductive invariant behind it: block times ascend, the last activity*)
(* is not older than the newest record, a working worker has an event and  *)
(* a refresh that writes has read the chain.                               *)
TimesAscend ==
  /\ \A i, j \in DOMAIN chain : i <= j => chain[i].time <= chain[j].time
  /\ \A i \in DOMAIN chain : chain[i].time <= clock

ProvenanceBehind == chain[Head(token.prov)].time <= token.activity

WorkersHaveEvents ==
  \A p \in Process, k \in Kind : worker[p][k].at # "idle" => worker[p][k].event # 0

RefreshesHaveRead ==
  \A r \in Refresher : refresh[r].at \notin {"idle", "fetch"} => refresh[r].seen # 0

IInv ==
  /\ TypeOK /\ ProvenanceOrdered
  /\ TimesAscend /\ ProvenanceBehind /\ WorkersHaveEvents /\ RefreshesHaveRead

(* Owner and last activity come from the same transfer: no interleaving of *)
(* the three writers leaves the owner of one with the time of another.     *)
OwnerOfActivity ==
  \E i \in DOMAIN chain :
    /\ token.owner = chain[i].to
    /\ \/ token.activity = chain[i].time
       \/ i <= Len(events) /\ token.activity = events[i].created

(* The event workers never turn the last activity back (only a refresh,    *)
(* which writes what it has seen, does).                                   *)
WorkersAdvance ==
  [][token' # token =>
       \/ token'.activity > token.activity
       \/ \E r \in Refresher : refresh[r].at = "token" /\ refresh'[r].at = "holder"]_vars

(* Once the transfers have ended, the provenance shows all of them and the *)
(* token is with the last owner, who alone has an account token (the       *)
(* README: maintains complete ownership history and transaction records).  *)
Current ==
  /\ token.prov = Provenance(Len(chain)) /\ token.owner = Last(chain).to
  /\ \A o \in Owner : account[o].balance = IF o = Last(chain).to THEN 1 ELSE 0

OwnershipCatchesUp == <>[]Current

(* A burn is captured (the README: captures and processes NFT transfer,    *)
(* mint and burn events).                                                  *)
BurnIsCaptured == [](Last(chain).to = BurnAddress => <>[]token.burned)
===============================================================================
