------------------------------ MODULE AssetIndex ------------------------------
(***************************************************************************)
(* The write side of the asset and token index (store.go): the documents   *)
(* of the collections assets, tokens and account_tokens, and the calls     *)
(* that write them.  IndexAsset looks up each document and then inserts or *)
(* updates it, with nothing that joins the two calls; SwapToken reads the  *)
(* token it replaces before its transaction starts.  Several workflow      *)
(* workers, the API and the event processor run these calls at once.       *)
(***************************************************************************)
EXTENDS Naturals, Sequences, FiniteSets

CONSTANTS
  Worker,       \* concurrent callers of IndexAsset
  Swapper,      \* concurrent callers of SwapToken
  Account,      \* owner addresses
  Token,        \* index ids of tokens
  Asset,        \* asset ids
  URL,          \* thumbnail URLs
  None,         \* no document, no value
  FeralFile,    \* the source "feralfile"
  AssetSource,  \* AssetSource[a]: the source that makes up the index id of a
  Updates,      \* the AssetUpdates that arrive, with their caller
  Swaps,        \* the pairs <<original, new>> that are swapped
  MaxCalls      \* bound: calls made by the environment

API == "api"
Source == {AssetSource[a] : a \in Asset}

Update == [asset : Asset, url : URL, tokens : Seq(Token),
           caller : Account \cup {API}]

ASSUME AssetIndexAssumption ==
  /\ None \notin Token \cup Asset \cup URL
  /\ \A t \in Token, a \in Account : t # a
  /\ API \notin Account
  /\ DOMAIN AssetSource = Asset
  /\ None \notin Source
  /\ Updates \subseteq Update
  /\ \A u \in Updates : u.caller # API => u.tokens # <<>>
  /\ Swaps \subseteq {s \in Token \X Token : s[1] # s[2]}
  /\ MaxCalls \in Nat

VARIABLES
  assets,   \* assets[a]: the document of asset a, or None
  tokens,   \* tokens[t]: the document of token t, or None
  listing,  \* the documents of account_tokens, most recently refreshed first
  jobs,     \* jobs[w]: the call of IndexAsset worker w is in
  swapping, \* swapping[s]: the call of SwapToken swapper s is in
  calls     \* the calls of the environment so far

vars == <<assets, tokens, listing, jobs, swapping, calls>>

AssetDoc == [url : URL, cached : URL \cup {None}]
TokenDoc == [source : Source \cup {None}, asset : Asset,
             burned : BOOLEAN, swapped : BOOLEAN,
             swappedTo : Token \cup {None}, swappedFrom : Token \cup {None}]
AccountToken == [token : Token, owner : Account, held : BOOLEAN]

ASSUME DocumentAssumption == None \notin AssetDoc \cup TokenDoc

NoJob == [at |-> "idle", update |-> None, next |-> 0, read |-> None]
NoSwap == [at |-> "idle", from |-> None, to |-> None, read |-> None]

Stored(docs) == {d \in DOMAIN docs : docs[d] # None}
Listed == {listing[i] : i \in DOMAIN listing}
Key(entry) == <<entry.token, entry.owner>>
Keys(list) == {Key(list[i]) : i \in DOMAIN list}
ListedKeys == Keys(listing)

Init ==
  /\ assets = [a \in Asset |-> None]
  /\ tokens = [t \in Token |-> None]
  /\ listing = <<>>
  /\ jobs = [w \in Worker |-> NoJob]
  /\ swapping = [s \in Swapper |-> NoSwap]
  /\ calls = 0

Call == calls < MaxCalls /\ calls' = calls + 1

-----------------------------------------------------------------------------
(* Writing account_tokens: a write stamps lastRefreshedTime, which is what *)
(* the lists are sorted by, so an entry that is written moves to the front.*)

(* Entries that are written (F) stand before the others, and each part is   *)
(* in the order it had: the place of an entry is how many stand no later.   *)
NoLater(i, j, F) == IF i \in F <=> j \in F THEN i <= j ELSE i \in F

Place(i, n, F) == Cardinality({j \in 1..n : NoLater(j, i, F)})

(* The entries with a key of S are written, each as its change says. *)
Refreshed(list, S, change) ==
  LET F == {i \in DOMAIN list : Key(list[i]) \in S}
      From(k) == CHOOSE i \in DOMAIN list : Place(i, Len(list), F) = k
  IN  [k \in DOMAIN list |->
         IF From(k) \in F THEN change[list[From(k)]] ELSE list[From(k)]]

Same == [entry \in AccountToken |-> entry]
Held == [entry \in AccountToken |-> [entry EXCEPT !.held = TRUE]]
Dropped == [entry \in AccountToken |-> [entry EXCEPT !.held = FALSE]]
Moved(n) == [entry \in AccountToken |-> [entry EXCEPT !.token = n]]

KeysOf(T) == {k \in ListedKeys : k[1] \in T}

(* The upsert of an entry by its unique key. *)
Upserted(list, t, o) ==
  IF <<t, o>> \in Keys(list)
    THEN Refreshed(list, {<<t, o>>}, Held)
    ELSE <<[token |-> t, owner |-> o, held |-> TRUE]>> \o list

(* IndexAccountTokens: an upsert guarded by the activity time stored.  When *)
(* the stored time is not older, the upsert runs into the unique key and is *)
(* skipped: the caller cannot tell the two apart.                           *)
IndexAccountToken(t, o) ==
  \/ listing' = Upserted(listing, t, o)
  \/ <<t, o>> \in ListedKeys /\ UNCHANGED listing

MarkAccountTokenChanged(T) == listing' = Refreshed(listing, KeysOf(T), Same)

(* UpdateAccountTokenOwners for a token with one owner: its entry is        *)
(* upserted, the entries of everybody else keep a balance of zero.          *)
UpdateAccountTokenOwners(t, o) ==
  listing' = Upserted(Refreshed(listing, KeysOf({t}), Dropped), t, o)

-----------------------------------------------------------------------------
(* IndexAsset                                                               *)

At(w, step) == jobs[w].at = step
SetJob(w, step, next, read) ==
  jobs' = [jobs EXCEPT ![w] = [at |-> step, update |-> jobs[w].update,
                               next |-> next, read |-> read]]

Go(w, step, read) == SetJob(w, step, jobs[w].next, read)

(* The loop over the tokens of the update, or its end. *)
Advance(w) ==
  LET next == jobs[w].next
  IN  IF next = Len(jobs[w].update.tokens)
        THEN SetJob(w, "mark", next, None)
        ELSE SetJob(w, "readToken", next + 1, None)

Abort(w) == jobs' = [jobs EXCEPT ![w] = NoJob]

StartIndex(w, u) ==
  /\ At(w, "idle")
  /\ Call
  /\ jobs' = [jobs EXCEPT ![w] = [at |-> "readAsset", update |-> u, next |-> 0,
                                  read |-> None]]
  /\ UNCHANGED <<assets, tokens, listing, swapping>>

ReadAsset(w) ==
  /\ At(w, "readAsset")
  /\ Go(w, "writeAsset", assets[jobs[w].update.asset])
  /\ UNCHANGED <<assets, tokens, listing, swapping, calls>>

UpdateSource(u) == AssetSource[u.asset]

(* The image of the asset is dropped when the URL differs from the one that *)
(* was read, which need not be the one that is overwritten.                 *)
UpdatedAsset(doc, u, read) ==
  [url |-> u.url, cached |-> IF read.url # u.url THEN None ELSE doc.cached]

WriteAsset(w) ==
  LET u == jobs[w].update
      read == jobs[w].read
  IN  /\ At(w, "writeAsset")
      /\ \/ /\ read = None
            /\ assets[u.asset] = None
            /\ assets' = [assets EXCEPT ![u.asset] = [url |-> u.url, cached |-> None]]
            /\ Advance(w)
         \/ /\ read = None
            /\ assets[u.asset] # None     \* the unique key refuses the insert
            /\ Abort(w)
            /\ UNCHANGED assets
         \/ /\ read # None
            /\ assets' = [assets EXCEPT ![u.asset] =
                            UpdatedAsset(assets[u.asset], u, read)]
            /\ Advance(w)
      /\ UNCHANGED <<tokens, listing, swapping, calls>>

CurrentToken(w) == jobs[w].update.tokens[jobs[w].next]

ReadToken(w) ==
  /\ At(w, "readToken")
  /\ Go(w, "writeToken", tokens[CurrentToken(w)])
  /\ UNCHANGED <<assets, tokens, listing, swapping, calls>>

checkIfTokenNeedToUpdate(source, current) ==
  \/ source = FeralFile
  \/ /\ ~ current.swapped
     /\ ~ current.burned
     /\ current.source # FeralFile

(* Only an update of Feral File names the source of a token.  The indexing  *)
(* engine leaves it empty, and an empty source is not written over another. *)
NewToken(u) ==
  [source |-> IF UpdateSource(u) = FeralFile THEN FeralFile ELSE None,
   asset |-> u.asset, burned |-> FALSE, swapped |-> FALSE,
   swappedTo |-> None, swappedFrom |-> None]

(* A mutant: an empty source is written like any other. *)
TokenSource_Mut(doc, u) ==
  IF UpdateSource(u) = FeralFile THEN FeralFile ELSE None

TokenSource(doc, u) ==
  IF UpdateSource(u) = FeralFile THEN FeralFile ELSE doc.source

UpdatedToken(doc, u) ==
  [source |-> TokenSource(doc, u), asset |-> u.asset,
   burned |-> doc.burned, swapped |-> doc.swapped,
   swappedTo |-> doc.swappedTo, swappedFrom |-> doc.swappedFrom]

WriteToken(w) ==
  LET u == jobs[w].update
      t == CurrentToken(w)
      read == jobs[w].read
  IN  /\ At(w, "writeToken")
      /\ \/ /\ read = None
            /\ tokens[t] = None
            /\ tokens' = [tokens EXCEPT ![t] = NewToken(u)]
            /\ Advance(w)
         \/ /\ read = None
            /\ tokens[t] # None           \* the unique key refuses the insert
            /\ Abort(w)
            /\ UNCHANGED tokens
         \/ /\ read # None
            /\ checkIfTokenNeedToUpdate(UpdateSource(u), read)
            /\ tokens' = [tokens EXCEPT ![t] = UpdatedToken(tokens[t], u)]
            /\ Advance(w)
         \/ /\ read # None
            /\ ~ checkIfTokenNeedToUpdate(UpdateSource(u), read)
            /\ Advance(w)
            /\ UNCHANGED tokens
      /\ UNCHANGED <<assets, listing, swapping, calls>>

(* What the caller does next: the API marks the account tokens of the       *)
(* tokens as changed, a workflow indexes the account token of the first.    *)
FinishIndex(w) ==
  LET u == jobs[w].update
  IN  /\ At(w, "mark")
      /\ IF u.caller = API
           THEN MarkAccountTokenChanged({u.tokens[i] : i \in DOMAIN u.tokens})
           ELSE IndexAccountToken(u.tokens[1], u.caller)
      /\ Abort(w)
      /\ UNCHANGED <<assets, tokens, swapping, calls>>

(* A call of the database fails, or the process stops: what was written     *)
(* stays written.                                                           *)
FailIndex(w) ==
  /\ ~ At(w, "idle")
  /\ Abort(w)
  /\ UNCHANGED <<assets, tokens, listing, swapping, calls>>

-----------------------------------------------------------------------------
(* SwapToken                                                                *)

(* A token that was burned for another swap is refused; one that is not     *)
(* burned is not, whatever it was swapped to before.                        *)
MaySwap(doc, n) == ~ (doc.burned /\ doc.swappedTo \notin {None, n})

StartSwap(s, o, n) ==
  /\ swapping[s].at = "idle"
  /\ Call
  /\ tokens[o] # None
  /\ MaySwap(tokens[o], n)
  /\ swapping' = [swapping EXCEPT ![s] = [at |-> "read", from |-> o, to |-> n,
                                          read |-> tokens[o]]]
  /\ UNCHANGED <<assets, tokens, listing, jobs>>

SwappedAway(doc, n) ==
  [source |-> doc.source, asset |-> doc.asset, burned |-> TRUE,
   swapped |-> doc.swapped, swappedTo |-> n, swappedFrom |-> doc.swappedFrom]

(* The new document is the original as it was read.  A swappedTo that is    *)
(* absent is not written, so one that a former document has remains.        *)
SwappedIn(read, o, former) ==
  [source |-> read.source, asset |-> read.asset, burned |-> FALSE,
   swapped |-> TRUE, swappedFrom |-> o,
   swappedTo |-> IF former = None THEN None ELSE former.swappedTo]

(* A mutant: the duplicate is ignored and the transaction goes on. *)
HoldsBoth_Mut(o, n) == FALSE

HoldsBoth(o, n) ==
  \E a \in Account : {<<o, a>>, <<n, a>>} \subseteq ListedKeys

(* A mutant: the entries of the original are deleted without being moved. *)
MovedHolders_Mut(o, n) ==
  LET Others(entry) == entry.token # o IN SelectSeq(listing, Others)

MovedHolders(o, n) == Refreshed(listing, KeysOf({o}), Moved(n))

(* The accounts of the original move to the new token.  The copy runs into  *)
(* the unique key when an account has both, and that ends the transaction   *)
(* with nothing done.                                                       *)
CommitSwap(s) ==
  LET o == swapping[s].from
      n == swapping[s].to
  IN  /\ swapping[s].at = "read"
      /\ ~ HoldsBoth(o, n)
      /\ tokens' = [tokens EXCEPT
                      ![o] = SwappedAway(tokens[o], n),
                      ![n] = SwappedIn(swapping[s].read, o, tokens[n])]
      /\ listing' = MovedHolders(o, n)
      /\ swapping' = [swapping EXCEPT ![s] = NoSwap]
      /\ UNCHANGED <<assets, jobs, calls>>

FailSwap(s) ==
  /\ swapping[s].at = "read"
  /\ swapping' = [swapping EXCEPT ![s] = NoSwap]
  /\ UNCHANGED <<assets, tokens, listing, jobs, calls>>

-----------------------------------------------------------------------------
(* The environment: owners that the event processor and the ownership       *)
(* workflow write (module TokenOwnership), images that the image indexer    *)
(* stores (module ImageIndexer).                                            *)

UpdateOwner(t, burned) ==
  /\ Call
  /\ tokens[t] # None
  /\ tokens' = [tokens EXCEPT ![t] =
       [source |-> tokens[t].source, asset |-> tokens[t].asset, burned |-> burned,
        swapped |-> tokens[t].swapped, swappedTo |-> tokens[t].swappedTo,
        swappedFrom |-> tokens[t].swappedFrom]]
  /\ UNCHANGED <<assets, listing, jobs, swapping>>

RefreshOwners(t, o) ==
  /\ Call
  /\ tokens[t] # None
  /\ UpdateAccountTokenOwners(t, o)
  /\ UNCHANGED <<assets, tokens, jobs, swapping>>

StoreThumbnail(a) ==
  /\ Call
  /\ assets[a] # None
  /\ assets[a].cached = None
  /\ assets' = [assets EXCEPT ![a] = [url |-> assets[a].url,
                                      cached |-> assets[a].url]]
  /\ UNCHANGED <<tokens, listing, jobs, swapping>>

Next ==
  \/ \E w \in Worker, u \in Updates : StartIndex(w, u)
  \/ \E w \in Worker : ReadAsset(w)
  \/ \E w \in Worker : WriteAsset(w)
  \/ \E w \in Worker : ReadToken(w)
  \/ \E w \in Worker : WriteToken(w)
  \/ \E w \in Worker : FinishIndex(w)
  \/ \E w \in Worker : FailIndex(w)
  \/ \E s \in Swapper, pair \in Swaps : StartSwap(s, pair[1], pair[2])
  \/ \E s \in Swapper : CommitSwap(s)
  \/ \E s \in Swapper : FailSwap(s)
  \/ \E t \in Token, b \in BOOLEAN : UpdateOwner(t, b)
  \/ \E t \in Token, o \in Account : RefreshOwners(t, o)
  \/ \E a \in Asset : StoreThumbnail(a)

Spec == Init /\ [][Next]_vars

-----------------------------------------------------------------------------
JobOK(job) ==
  \/ job = NoJob
  \/ /\ job.at \in {"readAsset", "writeAsset", "readToken", "writeToken", "mark"}
     /\ job.update \in Updates
     /\ job.next \in 0..Len(job.update.tokens)

TypeOK ==
  /\ assets \in [Asset -> AssetDoc \cup {None}]
  /\ tokens \in [Token -> TokenDoc \cup {None}]
  /\ listing \in Seq(AccountToken)
  /\ \A w \in Worker : JobOK(jobs[w])
  /\ calls \in 0..MaxCalls

(* The asset a token is linked to is stored: GetDetailedTokensByOwners and  *)
(* GetDetailedToken fail, for all tokens of an owner, when one is not.      *)
LinkedAssetExists == \A t \in Stored(tokens) : assets[tokens[t].asset] # None

(* A swap leaves both ends: the token swapped to is stored as swapped in,   *)
(* and the token it came from is stored and names a successor.              *)
SwapLinks ==
  \A t \in Stored(tokens) :
    /\ tokens[t].swappedTo # None =>
         /\ tokens[tokens[t].swappedTo] # None
         /\ tokens[tokens[t].swappedTo].swapped
    /\ tokens[t].swappedFrom # None =>
         /\ tokens[tokens[t].swappedFrom] # None
         /\ tokens[tokens[t].swappedFrom].swappedTo # None

(* The token of every account token is stored, and an account has one entry *)
(* per token.                                                               *)
ListedTokenExists ==
  /\ \A entry \in Listed : tokens[entry.token] # None
  /\ \A i, j \in DOMAIN listing : Key(listing[i]) = Key(listing[j]) => i = j

(* The index is consistent between any two writes of store.go:248-546: the  *)
(* links from account tokens to tokens, from tokens to assets and between   *)
(* swapped tokens all lead to stored documents.                             *)
Consistent == TypeOK /\ LinkedAssetExists /\ SwapLinks /\ ListedTokenExists

(* A token of Feral File stays one (store.go:219-236): an update of the     *)
(* engine that read the token before Feral File claimed it may still relink *)
(* its asset, but never clears its source.                                  *)
FeralFileStays ==
  [][\A t \in Token :
       (tokens[t] # None /\ tokens[t].source = FeralFile)
         => (tokens'[t] # None /\
              (tokens'[t].source = FeralFile
                \/ \E s \in Swapper : swapping[s].to = t /\ swapping'[s] = NoSwap))]_vars

Swapped(o, n) ==
  \E s \in Swapper : /\ swapping[s] # NoSwap /\ swapping'[s] = NoSwap
                     /\ swapping[s].from = o /\ swapping[s].to = n
                     /\ <<tokens, listing>>' # <<tokens, listing>>

(* A swap moves every holder (store.go:500-535): each account that listed   *)
(* the original lists the new token after it, with the balance it had, and  *)
(* nobody lists the original any more.                                      *)
SwapKeepsHolders ==
  [][\A o, n \in Token : Swapped(o, n) =>
       \A a \in Account, held \in BOOLEAN :
         [token |-> o, owner |-> a, held |-> held] \in Listed
           => /\ [token |-> n, owner |-> a, held |-> held] \in Listed'
              /\ <<o, a>> \notin ListedKeys']_vars
=============================================================================
