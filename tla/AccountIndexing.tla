---------------------------- MODULE AccountIndexing ----------------------------
(***************************************************************************)
(* Indexing what one owner holds.  A workflow runs an activity per page    *)
(* until there is nothing more: a Tezos activity asks tzkt for what moved  *)
(* after the cursor of the account, indexes the assets, saves the cursor   *)
(* and then the account tokens; an Ethereum activity follows the page      *)
(* pointer of OpenSea.  An activity that fails is tried again from its     *)
(* start.  Two callers use different workflow ids, so that two workflows   *)
(* of one owner can run at once.                                           *)
(***************************************************************************)
EXTENDS Naturals, Sequences, FiniteSets

CONSTANTS
  Workflow,  \* workflows of the owner that may run at once
  Token,     \* the tokens the owner may hold
  Excluded,  \* tokens of contracts that are not indexed (ENS, KALAM, ...)
  NFTs,      \* what OpenSea lists for an owner on Ethereum, in its order
  PageSize,  \* tokens of one page (50 in the code)
  Margin,    \* ticks an account token must be older to be overwritten (15 s)
  MaxTries,  \* attempts of an activity (6 in the code)
  Moves,     \* bound: the sets of tokens that may move in one block
  BlockTimes,\* bound: the times at which there may be a block
  MaxResets  \* bound: forced re-indexings

ASSUME AccountAssumption ==
  /\ IsFiniteSet(Token) /\ Excluded \subseteq Token
  /\ NFTs \in Seq(Token)
  /\ {PageSize, MaxTries} \subseteq Nat \ {0}
  /\ Moves \subseteq SUBSET Token
  /\ BlockTimes \subseteq Nat \ {0}
  /\ {Margin, MaxResets} \subseteq Nat

VARIABLES
  blockchain,  \* of the owner's address
  clock,       \* the latest block
  moved,       \* moved[t]: the block in which the owner's balance of t last changed
  account,     \* the document of accounts: the cursor, and whether it is recent
  stored,      \* the tokens IndexAsset has stored
  listed,      \* listed[t]: the activity time of the account token of t, or 0
  flows,       \* flows[w]: what workflow w does
  resets,      \* the forced re-indexings so far
  missed,      \* history: tokens that the end or a failure of a page left out
  lost         \* history: tokens whose account token a failure left unwritten

vars == <<blockchain, clock, moved, account, stored, listed, flows, resets,
          missed, lost>>

Blockchain == {"ethereum", "tezos"}
Never == 0
Time == {Never} \cup BlockTimes

(* first: isFirstPage, or whether next is empty; from: the cursor that was  *)
(* read, or the number of the OpenSea page; last: newLastTime of the page;  *)
(* updates: what the engine made of it; done: how much of it is written.    *)
NoFlow == [at |-> "idle", first |-> TRUE, tries |-> 0, from |-> 0,
           last |-> 0, updates |-> <<>>, done |-> 0]

Init ==
  /\ blockchain \in Blockchain
  /\ clock = 0
  /\ moved = [t \in Token |-> Never]
  /\ account = [cursor |-> 0, recent |-> FALSE]
  /\ stored = {}
  /\ listed = [t \in Token |-> Never]
  /\ flows = [w \in Workflow |-> NoFlow]
  /\ resets = 0
  /\ missed = {}
  /\ lost = {}

At(w, step) == flows[w].at = step
Tezos == blockchain = "tezos"

-----------------------------------------------------------------------------
(* What the engine fetches.  tzkt answers with the tokens that moved after  *)
(* the cursor, oldest first.  Tokens that moved in one block come in any    *)
(* order.                                                                   *)

Held(t) == [token |-> t, time |-> moved[t]]

(* A mutant: tzkt is asked for what moved at the cursor or after it. *)
HeldAfter_Mut(cursor) == {Held(t) : t \in {t \in Token : moved[t] >= cursor /\ moved[t] # Never}}

HeldAfter(cursor) == {Held(t) : t \in {t \in Token : moved[t] > cursor}}

PagesAfter(cursor) ==
  LET H == HeldAfter(cursor)
      n == IF Cardinality(H) < PageSize THEN Cardinality(H) ELSE PageSize
      Rest(page) == H \ {page[i] : i \in 1..n}
  IN  {page \in [1..n -> H] :
         /\ \A i, j \in 1..n : i < j => page[i] # page[j] /\ page[i].time <= page[j].time
         /\ \A i \in 1..n : \A held \in Rest(page) : page[i].time <= held.time}

(* What is left of a page without some tokens, in the order of the page: one *)
(* sequence, that of the kept places.                                        *)
PageWithout(page, T) ==
  LET Kept == {i \in DOMAIN page : page[i].token \notin T}
      n == Cardinality(Kept)
  IN  {[k \in 1..n |-> page[place[k]]] :
         place \in {p \in [1..n -> Kept] : \A j, k \in 1..n : j < k => p[j] < p[k]}}

(* indexTezosToken and indexETHToken return no update for an excluded contract. *)
UpdatesOf(page) == PageWithout(page, Excluded)

(* The time of the last token of the page, excluded or not. *)
NewLastTime(page) == page[Len(page)].time

(* The tokens that are left out of a page and moved in its last block.  The *)
(* cursor passes them: they are not fetched again until they move.          *)
CutOff(page) ==
  IF page = <<>> THEN {}
  ELSE {t \in Token : moved[t] = NewLastTime(page)}
         \ {page[i].token : i \in DOMAIN page}

(* OpenSea's page n of the owner's NFTs.  The update time that OpenSea gives *)
(* an NFT stays the same, as what it lists does.                             *)
UpdatedAt == 1

OpenseaPage(n) ==
  [i \in 1..((IF (n + 1) * PageSize > Len(NFTs) THEN Len(NFTs) ELSE (n + 1) * PageSize)
            - n * PageSize) |->
     [token |-> NFTs[n * PageSize + i], time |-> UpdatedAt]]

LastPage(n) == (n + 1) * PageSize >= Len(NFTs)

NFTsOn(n) == {OpenseaPage(n)[i].token : i \in DOMAIN OpenseaPage(n)}
NFTsBefore(n) == {NFTs[i] : i \in {i \in DOMAIN NFTs : i <= n * PageSize}}
NFTsFrom(n) == {NFTs[i] : i \in {i \in DOMAIN NFTs : i > n * PageSize}}

-----------------------------------------------------------------------------
(* The workflow.                                                            *)

End(w) == flows' = [flows EXCEPT ![w] = NoFlow]

Stopped(w) == At(w, "idle") \/ At(w, "failed")

Start(w) ==
  /\ Stopped(w)
  /\ flows' = [flows EXCEPT ![w] =
       [NoFlow EXCEPT !.at = IF Tezos THEN "account" ELSE "fetch"]]
  /\ UNCHANGED <<blockchain, clock, moved, account, stored, listed, resets, missed, lost>>

(* The first page is left out when the account was updated in the last      *)
(* minute, by whatever workflow or attempt: the workflow ends as if it had  *)
(* found nothing.                                                           *)
ReadAccount(w) ==
  /\ At(w, "account")
  /\ IF flows[w].first /\ account.recent
       THEN End(w)
       ELSE flows' = [flows EXCEPT ![w].at = "fetch", ![w].from = account.cursor]
  /\ UNCHANGED <<blockchain, clock, moved, account, stored, listed, resets, missed, lost>>

NothingToIndex(updates) == updates = <<>>

Fetched(w, updates, last) ==
  IF NothingToIndex(updates)
    THEN End(w)
    ELSE flows' = [flows EXCEPT ![w].at = "assets", ![w].updates = updates,
                                ![w].from = IF Tezos THEN 0 ELSE @,
                                ![w].last = last]

FetchTezos(w) ==
  /\ Tezos
  /\ At(w, "fetch")
  /\ \E page \in PagesAfter(flows[w].from) : \E updates \in UpdatesOf(page) :
       /\ Fetched(w, updates, NewLastTime(page))
       /\ missed' = IF NothingToIndex(updates) THEN missed ELSE missed \cup CutOff(page)
  /\ UNCHANGED <<blockchain, clock, moved, account, stored, listed, resets, lost>>

(* OpenSea is asked for each NFT of the page again, and what it does not    *)
(* answer for is left out.                                                  *)
FetchEthereum(w) ==
  /\ ~ Tezos
  /\ At(w, "fetch")
  /\ \E failed \in SUBSET NFTsOn(flows[w].from) :
     \E updates \in PageWithout(OpenseaPage(flows[w].from), Excluded \cup failed) :
       /\ Fetched(w, updates, 0)
       /\ missed' = missed \cup
            IF NothingToIndex(updates) THEN NFTsFrom(flows[w].from) ELSE failed
  /\ UNCHANGED <<blockchain, clock, moved, account, stored, listed, resets, lost>>

Current(w) == flows[w].updates[flows[w].done + 1]
LastOne(w) == flows[w].done + 1 = Len(flows[w].updates)

IndexAsset(w) ==
  /\ At(w, "assets")
  /\ stored' = stored \cup {Current(w).token}
  /\ flows' = [flows EXCEPT
       ![w].at = IF ~ LastOne(w) THEN "assets"
                 ELSE IF Tezos THEN "cursor" ELSE "tokens",
       ![w].done = IF LastOne(w) THEN 0 ELSE @ + 1]
  /\ UNCHANGED <<blockchain, clock, moved, account, listed, resets, missed, lost>>

(* A mutant: the account is set to the latest block instead. *)
SavedCursor_Mut(w) == clock

SavedCursor(w) == flows[w].last

indexTezosAccount(w) ==
  /\ At(w, "cursor")
  /\ account' = [cursor |-> SavedCursor(w), recent |-> TRUE]
  /\ flows' = [flows EXCEPT ![w].at = "tokens", ![w].last = 0]
  /\ UNCHANGED <<blockchain, clock, moved, stored, listed, resets, missed, lost>>

(* The upsert overwrites an account token that is older by more than the    *)
(* margin.  Otherwise it runs into the unique key and is skipped.           *)
Overwrites(t, time) == listed[t] = Never \/ listed[t] + Margin < time

(* A mutant: the workflow ends with the page. *)
NextPage_Mut(w) == NoFlow

(* The end of the activity: the next page of the same workflow. *)
NextPage(w) ==
  IF ~ Tezos /\ LastPage(flows[w].from)
    THEN NoFlow
    ELSE [NoFlow EXCEPT !.at = IF Tezos THEN "account" ELSE "fetch",
                        !.first = FALSE,
                        !.from = IF Tezos THEN 0 ELSE flows[w].from + 1]

IndexAccountToken(w) ==
  LET t == Current(w).token
      time == Current(w).time
      written == IF Overwrites(t, time) THEN time ELSE listed[t]
  IN  /\ At(w, "tokens")
      /\ listed' = [listed EXCEPT ![t] = written]
      /\ lost' = IF written + Margin >= moved[t] THEN lost \ {t} ELSE lost
      /\ flows' = IF LastOne(w)
                    THEN [flows EXCEPT ![w] = NextPage(w)]
                    ELSE [flows EXCEPT ![w].done = @ + 1]
      /\ UNCHANGED <<blockchain, clock, moved, account, stored, resets, missed>>

(* An attempt fails or times out.  What it wrote stays; the next attempt    *)
(* reads the account again, and after the last one the workflow fails.      *)
Unwritten(w) ==
  IF At(w, "tokens")
    THEN {flows[w].updates[i].token : i \in (flows[w].done + 1)..Len(flows[w].updates)}
    ELSE {}

Fail(w) ==
  /\ ~ Stopped(w)
  /\ flows' = [flows EXCEPT ![w] =
       IF flows[w].tries + 1 < MaxTries
         THEN [NoFlow EXCEPT !.at = IF Tezos THEN "account" ELSE "fetch",
                             !.first = flows[w].first,
                             !.tries = flows[w].tries + 1,
                             !.from = IF Tezos THEN 0 ELSE flows[w].from]
         ELSE [NoFlow EXCEPT !.at = "failed"]]
  /\ lost' = lost \cup Unwritten(w)
  /\ UNCHANGED <<blockchain, clock, moved, account, stored, listed, resets, missed>>

-----------------------------------------------------------------------------
(* The API and the environment.                                             *)

(* ForceReindexNFT: the account is set to the time that the caller gives,   *)
(* one it has been indexed to before.                                       *)
ForceReindex(to) ==
  /\ resets < MaxResets
  /\ to <= account.cursor
  /\ account' = [cursor |-> to, recent |-> FALSE]
  /\ resets' = resets + 1
  /\ UNCHANGED <<blockchain, clock, moved, stored, listed, flows, missed, lost>>

(* A block in which the owner's balance of some tokens changes. *)
Block(T, time) ==
  /\ Tezos
  /\ clock < time
  /\ clock' = time
  /\ moved' = [t \in Token |-> IF t \in T THEN time ELSE moved[t]]
  /\ missed' = missed \ T
  /\ UNCHANGED <<blockchain, account, stored, listed, flows, resets, lost>>

MinutePasses ==
  /\ account.recent
  /\ account' = [account EXCEPT !.recent = FALSE]
  /\ UNCHANGED <<blockchain, clock, moved, stored, listed, flows, resets, missed, lost>>

Activity(w) ==
  \/ ReadAccount(w)
  \/ FetchTezos(w)
  \/ FetchEthereum(w)
  \/ IndexAsset(w)
  \/ indexTezosAccount(w)
  \/ IndexAccountToken(w)

Next ==
  \/ \E w \in Workflow : Start(w)
  \/ \E w \in Workflow : ReadAccount(w)
  \/ \E w \in Workflow : FetchTezos(w)
  \/ \E w \in Workflow : FetchEthereum(w)
  \/ \E w \in Workflow : IndexAsset(w)
  \/ \E w \in Workflow : indexTezosAccount(w)
  \/ \E w \in Workflow : IndexAccountToken(w)
  \/ \E w \in Workflow : Fail(w)
  \/ \E to \in Time : ForceReindex(to)
  \/ \E T \in Moves, time \in BlockTimes : Block(T, time)
  \/ MinutePasses

Spec == Init /\ [][Next]_vars

(* Cadence runs every activity it has scheduled.  Nothing makes a caller    *)
(* ask, a block move a token or a minute pass in time.                      *)
Fairness == \A w \in Workflow : WF_vars(Activity(w))

FairSpec == Spec /\ Fairness

-----------------------------------------------------------------------------
FlowOK(flow) ==
  /\ flow.at \in {"idle", "account", "fetch", "assets", "cursor", "tokens", "failed"}
  /\ flow.first \in BOOLEAN
  /\ flow.tries \in 0..(MaxTries - 1)
  /\ flow.from \in Nat
  /\ flow.last \in Time
  /\ flow.updates \in Seq([token : Token, time : Time \cup {UpdatedAt}])
  /\ flow.at \in {"assets", "tokens"} => flow.done < Len(flow.updates)

TypeOK ==
  /\ blockchain \in Blockchain
  /\ clock \in Time
  /\ moved \in [Token -> Time]
  /\ account \in [cursor : Time, recent : BOOLEAN]
  /\ {stored, missed, lost} \subseteq SUBSET Token
  /\ listed \in [Token -> Time \cup {UpdatedAt}]
  /\ \A w \in Workflow : FlowOK(flows[w])
  /\ resets \in 0..MaxResets

Indexed == Token \ Excluded

(* A workflow still has the account token of t to write. *)
InHand(t) ==
  \E w \in Workflow : /\ At(w, "tokens")
                      /\ \E i \in (flows[w].done + 1)..Len(flows[w].updates) :
                           flows[w].updates[i].token = t

UpToDate(t) == listed[t] # Never /\ listed[t] + Margin >= moved[t]

(* What lies behind the cursor of a Tezos account is never fetched again    *)
(* (activities.go:104-156), so it must have been written: its token is      *)
(* stored, and its account token is as new as the margin lets it be, will   *)
(* be written by a workflow under way, or was cut off by a failure.  Only   *)
(* tokens whose block was cut by the end of a page are passed over.         *)
BehindCursor ==
  Tezos => \A t \in Indexed \ missed :
    moved[t] \in 1..account.cursor =>
      /\ t \in stored
      /\ UpToDate(t) \/ InHand(t) \/ t \in lost

(* The same of the pages of OpenSea behind the pointer (activities.go:      *)
(* 69-101), but for NFTs it did not answer for.  A failure loses nothing:   *)
(* the page is fetched again.                                               *)
BehindPointer ==
  ~ Tezos => \A w \in Workflow : \A t \in NFTsBefore(flows[w].from) :
    (t \in stored /\ listed[t] # Never) \/ t \in Excluded \cup missed

(* Nothing that is written is out of reach of the cursor and the pointer.   *)
BehindIsWritten == TypeOK /\ BehindCursor /\ BehindPointer

(* A page of nothing but excluded contracts ends the workflow early. *)
Blocked(w) == Tezos /\ Cardinality(HeldAfter(flows[w].from)) >= PageSize

(* A workflow that ends by itself has stored every token the owner has      *)
(* (workflows_indexer.go:18-75), unless the first page was left out, a page *)
(* held nothing but excluded contracts, or a page had left a token out.     *)
EndsByItself(w) ==
  /\ At(w, "fetch") \/ At(w, "tokens")
  /\ flows'[w].at = "idle"
  /\ ~ (At(w, "fetch") /\ Blocked(w))

DoneMeansIndexed ==
  [][\A w \in Workflow : EndsByItself(w) =>
       \A t \in Indexed \ missed' :
         (IF Tezos THEN moved[t] # Never ELSE t \in NFTsFrom(0)) => t \in stored]_vars

(* Every workflow ends: the cursor of Tezos moves on with every page, even  *)
(* when a second workflow writes an older one over it.                      *)
WorkflowEnds == \A w \in Workflow : ~ Stopped(w) ~> Stopped(w)
=============================================================================
