--------------------------- MODULE FungibleOwnership ---------------------------
(***************************************************************************)
(* Who holds how much of a fungible token.  No event changes its documents *)
(* at once: they are written by the activity RefreshTokenOwnership, which  *)
(* compares the chain with the latest account token and then reads all the *)
(* owners, page by page; by the indexing of a single account, which writes *)
(* one account token; and by the workflow that indexes a token, for an     *)
(* owner or for nobody, and then refreshes its owners.                     *)
(***************************************************************************)
EXTENDS Integers, FiniteSets, FiniteSetsExt

CONSTANTS
  Holder,         \* accounts on the chain
  Issuer,         \* holds the whole supply at first
  Nobody,         \* the owner "" of an indexing without an owner
  Supply,
  Caller,         \* workflow ids of a refresh: one run of each at a time
  StageTwo,       \* the caller of the event processor
  Background,     \* IndexTokenWorkflow, with the refresh that is its child
  Indexer,        \* activities that index an account
  PageSize,       \* owners of one page (50 in the code)
  AccountMargin,  \* ticks an account token must be older to be overwritten (15 s)
  Day,            \* ticks a token of Ethereum is left alone
  MaxMoves,       \* bound: transfers
  MaxJobs,        \* bound: jobs that events did not start
  MaxRunning,     \* bound: jobs at the same time
  MaxStops        \* bound: failed calls and activities

ASSUME FungibleAssumption ==
  /\ Issuer \in Holder /\ Nobody \notin Holder
  /\ StageTwo \in Caller /\ Background \notin Caller \cup Indexer
  /\ Caller \cap Indexer = {}
  /\ {Supply, PageSize} \subseteq Nat \ {0}
  /\ {AccountMargin, Day, MaxMoves, MaxJobs, MaxRunning, MaxStops} \subseteq Nat

VARIABLES
  platform,   \* the blockchain of the token
  oversized,  \* the supply is one that IndexTezosTokenOwners leaves out
  block,      \* the time of the latest block
  holdings,   \* holdings[h]: what the chain tells of h
  unhandled,  \* transfers whose stage 2 is to come
  document,   \* the document of tokens, or NoDocument
  balances,   \* balances[h]: the document of account_tokens, or Absent
  job,        \* job[a]: what actor a does
  crossed,    \* history: jobs that another writer, the chain or a failure met
  jobs, stops

fungibleVars == <<platform, oversized, block, holdings, unhandled, document,
                  balances, job, crossed, jobs, stops>>

Actor == Caller \cup Indexer \cup {Background}

NoDocument == [owners |-> << >>, activity |-> -1]
Absent == [balance |-> 0, time |-> -1]
Idling == [at |-> "idle", holder |-> Nobody, balance |-> 0, time |-> 0, named |-> {},
           list |-> << >>, cursor |-> 0, todo |-> {}, kept |-> {}]

(* The token is not indexed, or it was when its issuer got the supply, and  *)
(* its owners were refreshed then.                                          *)
FungibleInit ==
  /\ platform \in {"ethereum", "tezos"}
  /\ oversized \in IF platform = "tezos" THEN BOOLEAN ELSE {FALSE}
  /\ block = 1
  /\ holdings = [h \in Holder |-> IF h = Issuer THEN [balance |-> Supply, time |-> 1]
                                  ELSE [balance |-> 0, time |-> 0]]
  /\ unhandled = 0
  /\ \/ /\ document = NoDocument
        /\ balances = [h \in Holder |-> Absent]
     \/ /\ document = [owners |-> [h \in {Issuer} |-> Supply], activity |-> 1]
        /\ balances = [h \in Holder |-> IF h = Issuer THEN holdings[h] ELSE Absent]
  /\ job = [a \in Actor |-> Idling]
  /\ crossed = {}
  /\ jobs = 0 /\ stops = 0

On(a, step) == job[a].at = step
Running == {a \in Actor : job[a].at # "idle"}

(* The last activity of the token on the chain. *)
LastActivity == Max({holdings[h].time : h \in Holder})

-------------------------------------------------------------------------------
(* A transfer, in a block of its own.  The emitter of Tezos pushes it; that *)
(* of Ethereum does not push transfers of fungible tokens.                  *)
Move(f, g, n) ==
  /\ block <= MaxMoves
  /\ f # g /\ n \in 1..holdings[f].balance
  /\ block' = block + 1
  /\ holdings' = [holdings EXCEPT ![f] = [balance |-> @.balance - n, time |-> block'],
                                  ![g] = [balance |-> @.balance + n, time |-> block']]
  /\ unhandled' = IF platform = "tezos" THEN unhandled + 1 ELSE unhandled
  /\ crossed' = crossed \cup Running
  /\ UNCHANGED <<platform, oversized, document, balances, job, jobs, stops>>

Begin(a, first) ==
  /\ job[a] = Idling /\ Cardinality(Running) < MaxRunning
  /\ job' = [job EXCEPT ![a] = first]
  /\ UNCHANGED <<platform, oversized, block, holdings, document, balances,
                 crossed, stops>>

Wanted == jobs < MaxJobs /\ jobs' = jobs + 1 /\ UNCHANGED unhandled

Refreshing == [Idling EXCEPT !.at = "times"]

(* Stage 2 of an event starts the refresh of a token that is indexed.  The *)
(* start fails while the previous refresh of this caller runs.             *)
HandleTransfer ==
  /\ unhandled > 0
  /\ unhandled' = unhandled - 1 /\ UNCHANGED jobs
  /\ IF document # NoDocument /\ job[StageTwo] = Idling
       THEN Begin(StageTwo, Refreshing)
       ELSE UNCHANGED <<platform, oversized, block, holdings, document, balances,
                        job, crossed, stops>>

(* The API refreshes a token that is indexed. *)
RequestOwnership(c) ==
  /\ c # StageTwo /\ document # NoDocument
  /\ Wanted /\ Begin(c, Refreshing)

OwnersAfter(time) == {h \in Holder : holdings[h].balance > 0 /\ holdings[h].time > time}

(* The time an engine gives: tzkt that of the chain, OpenSea the time at    *)
(* which it has updated its own data.                                       *)
TimesGiven(time) == IF platform = "tezos" THEN {time} ELSE 1..block

(* The indexing of an account finds the token with what h holds of it; for  *)
(* OpenSea that is one.                                                     *)
IndexHolder(i, h) ==
  /\ IF platform = "tezos" THEN holdings[h].time # 0 ELSE h \in OwnersAfter(0)
  /\ Wanted
  /\ \E t \in TimesGiven(holdings[h].time) :
       Begin(i, [Idling EXCEPT !.at = "asset", !.holder = h, !.named = {h}, !.time = t,
                   !.balance = IF platform = "tezos" THEN holdings[h].balance ELSE 1])

(* IndexToken reads the token, for an owner or for nobody.  Only OpenSea    *)
(* names an owner, when there is one.                                       *)
IndexToken(h) ==
  /\ Wanted
  /\ \E t \in TimesGiven(LastActivity) :
       Begin(Background,
             [Idling EXCEPT !.at = "asset", !.holder = h, !.time = t,
                !.named = IF platform = "ethereum" /\ Cardinality(OwnersAfter(0)) = 1
                            THEN OwnersAfter(0) ELSE {}])

-------------------------------------------------------------------------------
Then(a, step) == job' = [job EXCEPT ![a].at = step]

(* A job that ends is forgotten. *)
Ends(a) ==
  /\ job' = [job EXCEPT ![a] = Idling]
  /\ crossed' = crossed \ {a}

(* A write of a disturbs the others. *)
Crosses(a) == crossed' = crossed \cup (Running \ {a})

(* IndexTokenWorkflow goes on with the refresh when it was asked for it. *)
Indexed(a) ==
  /\ \E next \in IF a \in Indexer THEN {Idling} ELSE {Idling, Refreshing} :
       job' = [job EXCEPT ![a] = next]
  /\ crossed' = (crossed \cup Running) \ {a}

(* IndexAsset: a new token has the owner that was named. *)
StoreAsset(a) ==
  /\ On(a, "asset")
  /\ document' =
       IF document = NoDocument
       THEN [owners |-> [h \in job[a].named |-> 1], activity |-> job[a].time]
       ELSE [document EXCEPT !.activity = job[a].time]
  /\ IF a = Background /\ job[a].holder = Nobody
       THEN Indexed(a)
       ELSE /\ job' = [job EXCEPT ![a].at = IF a = Background THEN "balance" ELSE "account",
                                  ![a].named = {}]
            /\ Crosses(a)
  /\ UNCHANGED <<platform, oversized, block, holdings, unhandled, balances, jobs, stops>>

GetTokenBalanceOfOwner ==
  /\ On(Background, "balance")
  /\ job' = [job EXCEPT ![Background].at = "account",
                        ![Background].balance = holdings[job[Background].holder].balance]
  /\ UNCHANGED <<platform, oversized, block, holdings, unhandled, document,
                 balances, crossed, jobs, stops>>

(* IndexAccountTokens: otherwise the account token is in a future state. *)
StoreAccountToken(a) ==
  LET h == job[a].holder
  IN  /\ On(a, "account")
      /\ balances' =
           IF balances[h] = Absent \/ balances[h].time < job[a].time - AccountMargin
           THEN [balances EXCEPT ![h] = [balance |-> job[a].balance, time |-> job[a].time]]
           ELSE balances
      /\ Indexed(a)
      /\ UNCHANGED <<platform, oversized, block, holdings, unhandled, document, jobs, stops>>

-------------------------------------------------------------------------------
(* RefreshTokenOwnership reads the latest time of the account tokens, ... *)
ReadActivityTimes(a) ==
  /\ On(a, "times")
  /\ job' = [job EXCEPT ![a].at = "token",
                        ![a].time = Max({balances[h].time : h \in Holder})]
  /\ UNCHANGED <<platform, oversized, block, holdings, unhandled, document,
                 balances, crossed, jobs, stops>>

(* ... and then the token, whose own time stands in for that of account    *)
(* tokens that do not exist.  One of Ethereum that has owners is left alone*)
(* for a day.                                                              *)
ReadToken(a) ==
  /\ On(a, "token")
  /\ \/ /\ platform = "tezos"
        /\ job' = [job EXCEPT ![a].at = "activity",
                              ![a].time = IF @ = Absent.time THEN document.activity ELSE @]
        /\ UNCHANGED crossed
     \/ /\ platform = "ethereum"
        /\ block - document.activity <= Day /\ document.owners # << >>
        /\ Ends(a)
     \/ /\ platform = "ethereum"
        /\ block - document.activity > Day \/ document.owners = << >>
        /\ Then(a, "owners") /\ UNCHANGED crossed
  /\ UNCHANGED <<platform, oversized, block, holdings, unhandled, document,
                 balances, jobs, stops>>

(* On Tezos the refresh ends when the chain shows nothing newer. *)
CheckActivity(a) ==
  /\ On(a, "activity")
  /\ \/ /\ LastActivity <= job[a].time
        /\ Ends(a)
     \/ /\ LastActivity > job[a].time
        /\ job' = [job EXCEPT ![a].at = "owners", ![a].time = LastActivity]
        /\ UNCHANGED crossed
  /\ UNCHANGED <<platform, oversized, block, holdings, unhandled, document,
                 balances, jobs, stops>>

(* The owners after a time, oldest first, at most a page of them: tzkt may *)
(* give any of those that are equally old.                                 *)
PagesOf(time) ==
  LET H == OwnersAfter(time)
      n == IF Cardinality(H) < PageSize THEN Cardinality(H) ELSE PageSize
  IN  {P \in SUBSET H : /\ Cardinality(P) = n
                        /\ \A h \in P, g \in H \ P : holdings[h].time <= holdings[g].time}

Listed(a, P) == [h \in DOMAIN job[a].list \cup P |->
                   IF h \in P THEN holdings[h] ELSE job[a].list[h]]

(* Mutant: the first page is taken for all of them. *)
IsLastPageAlways(P) == TRUE

IsLastPage(P) == Cardinality(P) < PageSize

(* A page of IndexTezosTokenOwners: the next one begins after the last time*)
(* of this one, and an owner of that time that did not fit is left out.  A *)
(* token with too large a supply has an empty list.                        *)
FetchOwners(a) ==
  /\ On(a, "owners") /\ platform = "tezos"
  /\ \/ /\ oversized
        /\ Then(a, "document") /\ UNCHANGED crossed
     \/ /\ ~ oversized
        /\ \E P \in PagesOf(job[a].cursor) :
             LET last == Max({holdings[h].time : h \in P} \cup {job[a].cursor})
                 cut == OwnersAfter(job[a].cursor) \ (P \cup OwnersAfter(last))
             IN  /\ job' = [job EXCEPT ![a].at = IF IsLastPage(P) THEN "document" ELSE "owners",
                                       ![a].list = Listed(a, P),
                                       ![a].cursor = IF IsLastPage(P) THEN 0 ELSE last]
                 /\ crossed' = IF cut = {} THEN crossed ELSE crossed \cup {a}
  /\ UNCHANGED <<platform, oversized, block, holdings, unhandled, document,
                 balances, jobs, stops>>

(* IndexETHTokenOwners follows page tokens; its answer is taken as one. *)
FetchOwnersOfEthereum(a) ==
  /\ On(a, "owners") /\ platform = "ethereum"
  /\ job' = [job EXCEPT ![a].at = "document", ![a].list = Listed(a, OwnersAfter(0)),
                        ![a].time = -1]
  /\ UNCHANGED <<platform, oversized, block, holdings, unhandled, document,
                 balances, crossed, jobs, stops>>

(* UpdateTokenOwners writes nothing of an empty list, and the activity only *)
(* of a token on Tezos.                                                     *)
UpdateTokenOwners(a) ==
  LET list == job[a].list
  IN  /\ On(a, "document")
      /\ document' =
           IF DOMAIN list = {} THEN document
           ELSE [owners |-> [h \in DOMAIN list |-> list[h].balance],
                 activity |-> IF platform = "tezos" THEN job[a].time ELSE document.activity]
      /\ job' = [job EXCEPT ![a].at = "upserts", ![a].todo = DOMAIN list, ![a].time = 0]
      /\ Crosses(a)
      /\ UNCHANGED <<platform, oversized, block, holdings, unhandled, balances, jobs, stops>>

(* UpdateAccountTokenOwners: an upsert for each owner in the order of the  *)
(* list, ...                                                               *)
NextUpsert(a, h) ==
  /\ On(a, "upserts") /\ h \in job[a].todo
  /\ platform = "tezos" => \A g \in job[a].todo : job[a].list[h].time <= job[a].list[g].time

UpsertAccountToken(a, h) ==
  /\ NextUpsert(a, h)
  /\ balances' = [balances EXCEPT ![h] = job[a].list[h]]
  /\ job' = [job EXCEPT ![a].todo = @ \ {h}, ![a].kept = @ \cup {h}]
  /\ Crosses(a)
  /\ UNCHANGED <<platform, oversized, block, holdings, unhandled, document, jobs, stops>>

Others(kept) == {h \in Holder \ kept : balances[h] # Absent}

(* ... and balance zero for all others, whose times stay. *)
ClearOtherHolders(a) ==
  /\ On(a, "upserts") /\ job[a].todo = {}
  /\ balances' = [h \in Holder |-> IF h \in Others(job[a].kept)
                                   THEN [balances[h] EXCEPT !.balance = 0] ELSE balances[h]]
  /\ job' = [job EXCEPT ![a] = Idling]
  /\ crossed' = (crossed \cup Running) \ {a}
  /\ UNCHANGED <<platform, oversized, block, holdings, unhandled, document, jobs, stops>>

-------------------------------------------------------------------------------
Stop == stops < MaxStops /\ stops' = stops + 1

(* An upsert that fails is only logged: its owner is one of the others. *)
FailUpsert(a, h) ==
  /\ NextUpsert(a, h)
  /\ Stop
  /\ job' = [job EXCEPT ![a].todo = @ \ {h}]
  /\ crossed' = crossed \cup {a}
  /\ UNCHANGED <<platform, oversized, block, holdings, unhandled, document, balances, jobs>>

(* Any other call fails, or the worker stops: the workflow has no retries. *)
StopJob(a) ==
  /\ ~ On(a, "idle")
  /\ Stop /\ Ends(a)
  /\ UNCHANGED <<platform, oversized, block, holdings, unhandled, document, balances, jobs>>

-------------------------------------------------------------------------------
RefreshOwners(a) ==
  \/ ReadActivityTimes(a) \/ ReadToken(a) \/ CheckActivity(a)
  \/ FetchOwners(a) \/ FetchOwnersOfEthereum(a)
  \/ UpdateTokenOwners(a) \/ ClearOtherHolders(a)
  \/ \E h \in Holder : UpsertAccountToken(a, h) \/ FailUpsert(a, h)

FungibleNext ==
  \/ \E f, g \in Holder, n \in 1..Supply : Move(f, g, n)
  \/ HandleTransfer
  \/ \E c \in Caller : RequestOwnership(c)
  \/ \E i \in Indexer, h \in Holder : IndexHolder(i, h)
  \/ \E h \in Holder \cup {Nobody} : IndexToken(h)
  \/ GetTokenBalanceOfOwner
  \/ \E a \in Actor : StoreAsset(a) \/ StoreAccountToken(a) \/ RefreshOwners(a) \/ StopJob(a)

FungibleSpec == FungibleInit /\ [][FungibleNext]_fungibleVars

-------------------------------------------------------------------------------
FungibleTypeOK ==
  /\ platform \in {"ethereum", "tezos"} /\ oversized \in BOOLEAN
  /\ block \in 1..(MaxMoves + 1)
  /\ holdings \in [Holder -> [balance : 0..Supply, time : 0..block]]
  /\ unhandled \in 0..MaxMoves
  /\ document = NoDocument \/ document.activity \in 0..block
  /\ balances \in [Holder -> [balance : 0..Supply, time : -1..block]]
  /\ \A a \in Actor : DOMAIN job[a].list \cup job[a].todo \cup job[a].kept \subseteq Holder
  /\ crossed \subseteq Running
  /\ jobs \in 0..MaxJobs /\ stops \in 0..MaxStops

BalancesInSync == \A h \in Holder : balances[h].balance = holdings[h].balance

(* A refresh that nothing crosses brings  both collections in step with the *)
(* chain, whatever was in them: each owner has an account token with what   *)
(* it holds and the document of the token lists it, page after page, and    *)
(* whoever no longer holds anything is at zero.                             *)
RefreshRepairs ==
  [][\A a \in Actor :
       On(a, "upserts") /\ job'[a] = Idling /\ stops' = stops
         /\ a \notin crossed /\ ~ oversized
       => /\ BalancesInSync'
          /\ document.owners = [h \in OwnersAfter(0) |-> holdings[h].balance]]_fungibleVars

(* When a refresh, alone and of all that happened, finds nothing newer than *)
(* the latest account token, the account tokens are in step with the chain  *)
(* (activities.go: this prevents the out sync of account_tokens).           *)
SkipsInSync ==
  [][\A a \in Actor :
       On(a, "activity") /\ job'[a] = Idling /\ stops' = stops /\ Running = {a}
         /\ (\E h \in Holder : balances[h].time = job[a].time)
       => BalancesInSync]_fungibleVars
===============================================================================
