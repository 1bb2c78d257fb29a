--------------------------- MODULE AssetIndexProofs ---------------------------
(***************************************************************************)
(* Proofs about AssetIndex, for every set of callers, accounts, tokens,    *)
(* assets, updates and swaps and every number of calls: links between      *)
(* documents lead to documents that are stored, Feral File keeps its       *)
(* tokens, each account token belongs to a stored token and is listed      *)
(* once, and a swap moves every holder.                                    *)
(***************************************************************************)
EXTENDS AssetIndex, SequenceTheorems, FiniteSetTheorems, TLAPS

AssetDocs == [Asset -> AssetDoc \cup {None}]
TokenDocs == [Token -> TokenDoc \cup {None}]

Job == [at : {"idle", "readAsset", "writeAsset", "readToken", "writeToken", "mark"},
        update : Updates \cup {None}, next : Nat,
        read : AssetDoc \cup TokenDoc \cup {None}]

Swap == [at : {"idle", "read"}, from : Token \cup {None}, to : Token \cup {None},
         read : TokenDoc \cup {None}]

(* What a caller of IndexAsset has read or written is still stored: the     *)
(* asset once its part of the call is over, and each document it found.     *)
JobFits(job, A, T) ==
  job.at # "idle" =>
    /\ job.update \in Updates
    /\ job.next \in 0..Len(job.update.tokens)
    /\ job.at = "writeAsset" => (job.read # None => A[job.update.asset] # None)
    /\ job.at \in {"readToken", "writeToken", "mark"} => A[job.update.asset] # None
    /\ job.at \in {"readToken", "writeToken"} => job.next # 0
    /\ job.at = "writeToken" =>
         (job.read # None => T[job.update.tokens[job.next]] # None)

(* The original token of a swap is still stored, and the asset it had.      *)
SwapFits(swap, A, T) ==
  swap.at = "read" =>
    /\ swap.from \in Token /\ swap.to \in Token /\ swap.from # swap.to
    /\ T[swap.from] # None
    /\ swap.read \in TokenDoc
    /\ A[swap.read.asset] # None

Linked(A, T) == \A t \in Token : T[t] # None => A[T[t].asset] # None

To(T, t) == T[t].swappedTo
From(T, t) == T[t].swappedFrom

SwapsLinked(T) ==
  \A t \in Token : T[t] # None =>
    /\ To(T, t) # None => T[To(T, t)] # None /\ T[To(T, t)].swapped = TRUE
    /\ From(T, t) # None => T[From(T, t)] # None /\ To(T, From(T, t)) # None

DocsOK(A, T) ==
  /\ A \in AssetDocs
  /\ T \in TokenDocs
  /\ Linked(A, T)
  /\ SwapsLinked(T)

JobsOK(J, A, T) == J \in [Worker -> Job] /\ \A w \in Worker : JobFits(J[w], A, T)
SwapsOK(S, A, T) == S \in [Swapper -> Swap] /\ \A s \in Swapper : SwapFits(S[s], A, T)

IInv ==
  /\ DocsOK(assets, tokens)
  /\ JobsOK(jobs, assets, tokens)
  /\ SwapsOK(swapping, assets, tokens)

(* Documents are never deleted. *)
Grows(A, B, T, U) ==
  /\ \A a \in Asset : A[a] # None => B[a] # None
  /\ \A t \in Token : T[t] # None => U[t] # None

-----------------------------------------------------------------------------
(* What a metadata update carries (store.go:217-236).                       *)
LEMMA UpdateFacts ==
  ASSUME NEW u \in Updates
  PROVE  /\ u.asset \in Asset /\ u.url \in URL
         /\ u.tokens \in Seq(Token) /\ Len(u.tokens) \in Nat
         /\ UpdateSource(u) \in Source
  BY AssetIndexAssumption DEF Update, UpdateSource, Source

(* Calls and swaps stay fitting while documents are only added. *)
LEMMA JobsStay ==
  ASSUME NEW A, NEW B, NEW T, NEW U, Grows(A, B, T, U),
         NEW job \in Job, JobFits(job, A, T)
  PROVE  JobFits(job, B, U)
<1>1. CASE job.at = "idle"
  BY <1>1 DEF JobFits
<1>2. CASE job.at # "idle"
  <2> DEFINE u == job.update
  <2>1. u \in Updates /\ job.next \in 0..Len(u.tokens)
    BY <1>2 DEF JobFits
  <2>2. u.asset \in Asset /\ u.tokens \in Seq(Token)
    BY <2>1, UpdateFacts
  <2>3. job.next # 0 => u.tokens[job.next] \in Token
    BY <2>1, <2>2
  <2>. QED
    BY <1>2, <2>1, <2>2, <2>3 DEF JobFits, Grows
<1>. QED
  BY <1>1, <1>2

(* So do swaps, which remember the token they read.                         *)
LEMMA SwapsStay ==
  ASSUME NEW A, NEW B, NEW T, NEW U, Grows(A, B, T, U),
         NEW swap, SwapFits(swap, A, T)
  PROVE  SwapFits(swap, B, U)
<1>1. ASSUME swap.at = "read" PROVE swap.read.asset \in Asset
  BY <1>1 DEF SwapFits, TokenDoc
<1>. QED
  BY <1>1 DEF SwapFits, Grows

(* A step that adds or changes documents, one call and no swap.             *)
LEMMA JobStep ==
  ASSUME NEW w \in Worker, NEW job \in Job, IInv,
         DocsOK(assets', tokens'), Grows(assets, assets', tokens, tokens'),
         jobs' = [jobs EXCEPT ![w] = job], JobFits(job, assets', tokens'),
         swapping' = swapping
  PROVE  IInv'
<1>1. JobsOK(jobs', assets', tokens')
  <2>1. jobs' \in [Worker -> Job]
    BY DEF IInv, JobsOK
  <2>2. ASSUME NEW v \in Worker PROVE JobFits(jobs'[v], assets', tokens')
    <3>1. jobs'[v] = IF v = w THEN job ELSE jobs[v]
      BY DEF IInv, JobsOK
    <3>2. jobs[v] \in Job /\ JobFits(jobs[v], assets, tokens)
      BY DEF IInv, JobsOK
    <3>3. JobFits(jobs[v], assets', tokens')
      BY <3>2, JobsStay
    <3>. QED
      BY <3>1, <3>3
  <2>. QED
    BY <2>1, <2>2 DEF JobsOK
<1>2. SwapsOK(swapping', assets', tokens')
  BY SwapsStay DEF IInv, SwapsOK
<1>. QED
  BY <1>1, <1>2 DEF IInv

(* A step that adds or changes documents and no call.                       *)
LEMMA DocStep ==
  ASSUME IInv, DocsOK(assets', tokens'), Grows(assets, assets', tokens, tokens'),
         jobs' = jobs, swapping' = swapping
  PROVE  IInv'
<1>1. JobsOK(jobs', assets', tokens')
  BY JobsStay DEF IInv, JobsOK
<1>2. SwapsOK(swapping', assets', tokens')
  BY SwapsStay DEF IInv, SwapsOK
<1>. QED
  BY <1>1, <1>2 DEF IInv

-----------------------------------------------------------------------------
(* Writing a document keeps the documents linked.                           *)

(* An asset is inserted or updated (store.go:260-331).                      *)
LEMMA AssetWritten ==
  ASSUME NEW A, NEW B, NEW T, DocsOK(A, T),
         NEW a \in Asset, NEW doc \in AssetDoc, B = [A EXCEPT ![a] = doc]
  PROVE  DocsOK(B, T) /\ Grows(A, B, T, T)
<1>1. B \in AssetDocs
  BY DEF DocsOK, AssetDocs
<1>2. \A x \in Asset : A[x] # None => B[x] # None
  BY DocumentAssumption DEF DocsOK, AssetDocs
<1>3. \A t \in Token : T[t] # None => T[t].asset \in Asset
  BY DEF DocsOK, TokenDocs, TokenDoc
<1>4. Linked(B, T)
  BY <1>2, <1>3 DEF DocsOK, Linked
<1>. QED
  BY <1>1, <1>2, <1>4 DEF DocsOK, Grows

(* What may be written over a token, or as a new one, by anything but a     *)
(* swap: its links are the links it had.                                    *)
KeepsLinks(T, t, doc) ==
  /\ T[t] = None => doc.swappedTo = None /\ doc.swappedFrom = None
  /\ T[t] # None => /\ doc.swapped = T[t].swapped
                    /\ doc.swappedTo = T[t].swappedTo
                    /\ doc.swappedFrom = T[t].swappedFrom

(* A token is inserted or updated, but not swapped (store.go:345-419).      *)
LEMMA TokenWritten ==
  ASSUME NEW A, NEW T, NEW U, DocsOK(A, T),
         NEW t \in Token, NEW doc \in TokenDoc, U = [T EXCEPT ![t] = doc],
         A[doc.asset] # None, KeepsLinks(T, t, doc)
  PROVE  DocsOK(A, U) /\ Grows(A, A, T, U)
<1>1. U \in TokenDocs
  BY DEF DocsOK, TokenDocs
<1>2. \A x \in Token : U[x] = IF x = t THEN doc ELSE T[x]
  BY DEF DocsOK, TokenDocs
<1>3. doc # None
  BY DocumentAssumption
<1>4. Linked(A, U)
  BY <1>2 DEF DocsOK, Linked
<1>5. ASSUME NEW x \in Token, U[x] # None
      PROVE  /\ To(U, x) # None => U[To(U, x)] # None /\ U[To(U, x)].swapped = TRUE
             /\ From(U, x) # None => U[From(U, x)] # None /\ To(U, From(U, x)) # None
  <2>1. CASE T[x] = None
    BY <1>2, <1>5, <2>1 DEF KeepsLinks, To, From
  <2>2. CASE T[x] # None
    <3>1. To(U, x) = To(T, x) /\ From(U, x) = From(T, x)
      BY <1>2, <2>2 DEF KeepsLinks, To, From
    <3>2. /\ To(T, x) # None => To(T, x) \in Token
          /\ From(T, x) # None => From(T, x) \in Token
      BY <2>2 DEF DocsOK, TokenDocs, TokenDoc, To, From
    <3>3. /\ To(T, x) # None => T[To(T, x)] # None /\ T[To(T, x)].swapped = TRUE
          /\ From(T, x) # None => T[From(T, x)] # None /\ To(T, From(T, x)) # None
      BY <2>2 DEF DocsOK, SwapsLinked
    <3>4. ASSUME NEW y \in Token, T[y] # None
          PROVE  /\ U[y] # None
                 /\ T[y].swapped = TRUE => U[y].swapped = TRUE
                 /\ To(T, y) # None => To(U, y) # None
      BY <1>2, <1>3, <3>4 DEF KeepsLinks, To
    <3>. QED
      BY <3>1, <3>2, <3>3, <3>4
  <2>. QED
    BY <2>1, <2>2
<1>. QED
  BY <1>1, <1>2, <1>3, <1>4, <1>5 DEF DocsOK, SwapsLinked, Grows

(* The transaction of a swap writes both tokens (store.go:453-546).         *)
LEMMA TokensSwapped ==
  ASSUME NEW A, NEW T, NEW U, DocsOK(A, T),
         NEW o \in Token, NEW n \in Token, o # n, T[o] # None,
         NEW read \in TokenDoc, A[read.asset] # None,
         U = [T EXCEPT ![o] = SwappedAway(T[o], n),
                       ![n] = SwappedIn(read, o, T[n])]
  PROVE  DocsOK(A, U) /\ Grows(A, A, T, U)
<1> DEFINE away == SwappedAway(T[o], n)
           in == SwappedIn(read, o, T[n])
<1>1. T[o] \in TokenDoc /\ (T[n] # None => T[n] \in TokenDoc)
  BY DEF DocsOK, TokenDocs
<1>2. /\ away \in TokenDoc /\ away.asset = T[o].asset /\ away.swapped = T[o].swapped
      /\ away.swappedTo = n /\ away.swappedFrom = T[o].swappedFrom
  BY <1>1 DEF SwappedAway, TokenDoc
<1>3. /\ in.asset = read.asset /\ in.swapped = TRUE /\ in.swappedFrom = o
      /\ in.swappedTo = IF T[n] = None THEN None ELSE T[n].swappedTo
  BY DEF SwappedIn
<1>4. in \in TokenDoc
  <2>1. in.swappedTo \in Token \cup {None}
    BY <1>1, <1>3 DEF TokenDoc
  <2>. QED
    BY <2>1 DEF SwappedIn, TokenDoc
<1>5. \A x \in Token : U[x] = IF x = n THEN in ELSE IF x = o THEN away ELSE T[x]
  BY DEF DocsOK, TokenDocs
<1>6. in # None /\ away # None /\ o # None /\ n # None
  BY <1>2, <1>4, DocumentAssumption, AssetIndexAssumption
<1> HIDE DEF away, in
<1>7. U \in TokenDocs
  BY <1>2, <1>4, <1>5 DEF DocsOK, TokenDocs
<1>8. Linked(A, U)
  <2>1. \A x \in Token : T[x] # None => A[T[x].asset] # None
    BY DEF DocsOK, Linked
  <2>2. A[away.asset] # None /\ A[in.asset] # None
    BY <1>2, <1>3, <2>1
  <2>. QED
    BY <1>5, <2>1, <2>2 DEF Linked
<1>9. ASSUME NEW y \in Token, T[y] # None
      PROVE  /\ U[y] # None
             /\ T[y].swapped = TRUE => U[y].swapped = TRUE
             /\ To(T, y) # None => To(U, y) # None
  <2>1. CASE y = o
    BY <1>2, <1>5, <1>6, <2>1 DEF To
  <2>2. CASE y = n
    BY <1>3, <1>5, <1>6, <1>9, <2>2 DEF To
  <2>3. CASE y # o /\ y # n
    BY <1>5, <1>9, <2>3 DEF To
  <2>. QED
    BY <2>1, <2>2, <2>3
<1>10. ASSUME NEW x \in Token, T[x] # None
       PROVE  /\ To(T, x) # None => U[To(T, x)] # None /\ U[To(T, x)].swapped = TRUE
              /\ From(T, x) # None => U[From(T, x)] # None /\ To(U, From(T, x)) # None
  <2>1. /\ To(T, x) # None => To(T, x) \in Token
        /\ From(T, x) # None => From(T, x) \in Token
    BY <1>10 DEF DocsOK, TokenDocs, TokenDoc, To, From
  <2>2. /\ To(T, x) # None => T[To(T, x)] # None /\ T[To(T, x)].swapped = TRUE
        /\ From(T, x) # None => T[From(T, x)] # None /\ To(T, From(T, x)) # None
    BY <1>10 DEF DocsOK, SwapsLinked
  <2>. QED
    BY <1>9, <2>1, <2>2
<1>11. ASSUME NEW x \in Token, U[x] # None
       PROVE  /\ To(U, x) # None => U[To(U, x)] # None /\ U[To(U, x)].swapped = TRUE
              /\ From(U, x) # None => U[From(U, x)] # None /\ To(U, From(U, x)) # None
  <2>1. CASE x = o
    <3>1. To(U, x) = n /\ From(U, x) = From(T, o)
      BY <1>2, <1>5, <2>1 DEF To, From
    <3>. QED
      BY <1>3, <1>5, <1>6, <1>10, <2>1, <3>1
  <2>2. CASE x = n
    <3>1. From(U, x) = o /\ To(U, x) = IF T[n] = None THEN None ELSE To(T, n)
      BY <1>3, <1>5, <2>2 DEF To, From
    <3>2. U[o] # None /\ To(U, o) # None
      BY <1>2, <1>5, <1>6 DEF To
    <3>. QED
      BY <1>10, <2>2, <3>1, <3>2
  <2>3. CASE x # o /\ x # n
    <3>1. T[x] # None /\ To(U, x) = To(T, x) /\ From(U, x) = From(T, x)
      BY <1>5, <1>11, <2>3 DEF To, From
    <3>. QED
      BY <1>10, <3>1
  <2>. QED
    BY <2>1, <2>2, <2>3
<1>. QED
  BY <1>7, <1>8, <1>9, <1>11 DEF DocsOK, SwapsLinked, Grows

-----------------------------------------------------------------------------
(* The calls.                                                               *)

(* What is known of a call under way.                                       *)
LEMMA CallFacts ==
  ASSUME IInv, NEW w \in Worker, jobs[w].at # "idle"
  PROVE  /\ jobs \in [Worker -> Job] /\ jobs[w] \in Job
         /\ JobFits(jobs[w], assets, tokens)
         /\ jobs[w].update \in Updates
         /\ jobs[w].update.asset \in Asset /\ jobs[w].update.url \in URL
         /\ jobs[w].update.tokens \in Seq(Token)
         /\ jobs[w].next \in 0..Len(jobs[w].update.tokens)
         /\ Len(jobs[w].update.tokens) \in Nat
<1>1. /\ jobs \in [Worker -> Job] /\ jobs[w] \in Job
      /\ JobFits(jobs[w], assets, tokens)
  BY DEF IInv, JobsOK
<1>2. jobs[w].update \in Updates /\ jobs[w].next \in 0..Len(jobs[w].update.tokens)
  BY <1>1 DEF JobFits
<1>. QED
  BY <1>1, <1>2, UpdateFacts

(* A call that goes on to its next token, or to its end.                    *)
LEMMA AdvanceFits ==
  ASSUME IInv, NEW w \in Worker, jobs[w].at # "idle", Advance(w),
         assets'[jobs[w].update.asset] # None
  PROVE  \E job \in Job : /\ jobs' = [jobs EXCEPT ![w] = job]
                          /\ JobFits(job, assets', tokens')
<1> DEFINE u == jobs[w].update
           last == jobs[w].next = Len(u.tokens)
           at == IF last THEN "mark" ELSE "readToken"
           next == IF last THEN jobs[w].next ELSE jobs[w].next + 1
           job == [at |-> at, update |-> u, next |-> next, read |-> None]
<1>1. /\ jobs \in [Worker -> Job] /\ u \in Updates
      /\ jobs[w].next \in 0..Len(u.tokens) /\ Len(u.tokens) \in Nat
  BY CallFacts
<1>2. jobs' = [jobs EXCEPT ![w] = job]
  BY DEF Advance, SetJob
<1>3. next \in 0..Len(u.tokens) /\ next \in Nat /\ (at = "readToken" => next # 0)
  BY <1>1
<1>4. job \in Job
  BY <1>1, <1>3 DEF Job
<1>5. JobFits(job, assets', tokens')
  BY <1>1, <1>3 DEF JobFits
<1>. QED
  BY <1>2, <1>4, <1>5

(* A call that ends or fails.                                               *)
LEMMA AbortFits ==
  ASSUME IInv, NEW w \in Worker, Abort(w), UNCHANGED <<assets, tokens, swapping>>
  PROVE  IInv'
<1>1. NoJob \in Job /\ JobFits(NoJob, assets', tokens')
  BY DEF Job, NoJob, JobFits
<1>2. DocsOK(assets', tokens') /\ Grows(assets, assets', tokens, tokens')
  BY DEF IInv, Grows
<1>. QED
  BY <1>1, <1>2, JobStep DEF Abort

(* A call that keeps what it read for its next step.                        *)
LEMMA ReadFits ==
  ASSUME IInv, NEW w \in Worker, NEW read, NEW step, jobs[w].at # "idle",
         Go(w, step, read), UNCHANGED <<assets, tokens, swapping>>,
         step \in {"writeAsset", "writeToken"},
         read \in AssetDoc \cup TokenDoc \cup {None},
         step = "writeAsset" => read = assets[jobs[w].update.asset],
         step = "writeToken" => /\ jobs[w].at = "readToken"
                                /\ read = tokens[CurrentToken(w)]
  PROVE  IInv'
<1> DEFINE job == [at |-> step, update |-> jobs[w].update, next |-> jobs[w].next,
                   read |-> read]
<1>1. /\ jobs \in [Worker -> Job] /\ jobs[w] \in Job /\ jobs[w].update \in Updates
      /\ jobs[w].next \in 0..Len(jobs[w].update.tokens)
      /\ JobFits(jobs[w], assets, tokens)
  BY CallFacts
<1>2. jobs' = [jobs EXCEPT ![w] = job]
  BY DEF Go, SetJob
<1>3. job \in Job
  BY <1>1 DEF Job
<1>4. JobFits(job, assets', tokens')
  BY <1>1 DEF JobFits, CurrentToken
<1>5. DocsOK(assets', tokens') /\ Grows(assets, assets', tokens, tokens')
  BY DEF IInv, Grows
<1>. QED
  BY <1>2, <1>3, <1>4, <1>5, JobStep

(* A call begins (store.go:248).                                            *)
LEMMA StartIndexKeeps ==
  ASSUME IInv, NEW w \in Worker, NEW u \in Updates, StartIndex(w, u)
  PROVE  IInv'
<1> DEFINE job == [at |-> "readAsset", update |-> u, next |-> 0, read |-> None]
<1>1. job \in Job
  BY DEF Job
<1>2. JobFits(job, assets', tokens')
  BY UpdateFacts DEF JobFits
<1>3. DocsOK(assets', tokens') /\ Grows(assets, assets', tokens, tokens')
  BY DEF IInv, Grows, StartIndex
<1>. QED
  BY <1>1, <1>2, <1>3, JobStep DEF StartIndex

(* The asset is looked up (store.go:260-262).                               *)
LEMMA ReadAssetKeeps ==
  ASSUME IInv, NEW w \in Worker, ReadAsset(w)
  PROVE  IInv'
<1> DEFINE read == assets[jobs[w].update.asset]
<1>1. jobs[w].at # "idle"
  BY DEF ReadAsset, At
<1>2. read \in AssetDoc \cup {None}
  BY <1>1, CallFacts DEF IInv, DocsOK, AssetDocs
<1>. QED
  BY <1>1, <1>2, ReadFits DEF ReadAsset

(* A token is looked up (store.go:345-350).                                 *)
LEMMA ReadTokenKeeps ==
  ASSUME IInv, NEW w \in Worker, ReadToken(w)
  PROVE  IInv'
<1> DEFINE read == tokens[CurrentToken(w)]
<1>1. jobs[w].at = "readToken" /\ jobs[w].at # "idle"
  BY DEF ReadToken, At
<1>2. CurrentToken(w) \in Token
  BY <1>1, CallFacts DEF JobFits, CurrentToken
<1>3. read \in TokenDoc \cup {None}
  BY <1>2 DEF IInv, DocsOK, TokenDocs
<1>. QED
  BY <1>1, <1>3, ReadFits DEF ReadToken

(* The asset is inserted, updated, or refused (store.go:263-331).           *)
LEMMA WriteAssetKeeps ==
  ASSUME IInv, NEW w \in Worker, WriteAsset(w)
  PROVE  IInv'
<1> DEFINE u == jobs[w].update
           read == jobs[w].read
           a == u.asset
           new == [url |-> u.url, cached |-> None]
<1>1. /\ jobs[w].at = "writeAsset" /\ jobs[w].at # "idle"
      /\ swapping' = swapping /\ tokens' = tokens
  BY DEF WriteAsset, At
<1>2. /\ a \in Asset /\ u.url \in URL
      /\ read # None => assets[a] # None
      /\ DocsOK(assets, tokens)
  BY <1>1, CallFacts DEF JobFits, IInv
<1>3. ASSUME NEW doc \in AssetDoc, Advance(w), assets' = [assets EXCEPT ![a] = doc]
      PROVE  IInv'
  <2>1. DocsOK(assets', tokens') /\ Grows(assets, assets', tokens, tokens')
    BY <1>1, <1>2, <1>3, AssetWritten
  <2>2. assets'[a] # None
    BY <1>2, <1>3, DocumentAssumption DEF DocsOK, AssetDocs
  <2>3. PICK job \in Job : /\ jobs' = [jobs EXCEPT ![w] = job]
                           /\ JobFits(job, assets', tokens')
    BY <1>1, <1>3, <2>2, AdvanceFits
  <2>. QED
    BY <1>1, <2>1, <2>3, JobStep
<1>4. CASE read = None /\ assets[a] = None
  <2>1. assets' = [assets EXCEPT ![a] = new] /\ Advance(w)
    BY <1>4 DEF WriteAsset
  <2>2. new \in AssetDoc
    BY <1>2 DEF AssetDoc
  <2>. QED
    BY <1>3, <2>1, <2>2
<1>5. CASE read = None /\ assets[a] # None
  <2>1. Abort(w) /\ assets' = assets
    BY <1>5 DEF WriteAsset
  <2>. QED
    BY <1>1, <2>1, AbortFits
<1>6. CASE read # None
  <2>1. assets' = [assets EXCEPT ![a] = UpdatedAsset(assets[a], u, read)] /\ Advance(w)
    BY <1>6 DEF WriteAsset
  <2>2. assets[a] \in AssetDoc
    BY <1>2, <1>6 DEF DocsOK, AssetDocs
  <2>3. UpdatedAsset(assets[a], u, read) \in AssetDoc
    BY <1>2, <2>2 DEF UpdatedAsset, AssetDoc
  <2>. QED
    BY <1>3, <2>1, <2>3
<1>. QED
  BY <1>4, <1>5, <1>6

(* What an insertion or an update of a token writes.                        *)
LEMMA WrittenToken ==
  ASSUME NEW A, NEW T, DocsOK(A, T), NEW t \in Token, NEW u \in Updates
  PROVE  /\ T[t] = None => /\ NewToken(u) \in TokenDoc
                           /\ KeepsLinks(T, t, NewToken(u))
         /\ T[t] # None => /\ UpdatedToken(T[t], u) \in TokenDoc
                           /\ KeepsLinks(T, t, UpdatedToken(T[t], u))
         /\ NewToken(u).asset = u.asset
         /\ UpdatedToken(T[t], u).asset = u.asset
<1>1. u.asset \in Asset /\ (UpdateSource(u) = FeralFile => FeralFile \in Source)
  BY UpdateFacts
<1>2. ASSUME T[t] = None
      PROVE  NewToken(u) \in TokenDoc /\ KeepsLinks(T, t, NewToken(u))
  BY <1>1, <1>2 DEF NewToken, TokenDoc, KeepsLinks
<1>3. ASSUME T[t] # None
      PROVE  /\ UpdatedToken(T[t], u) \in TokenDoc
             /\ KeepsLinks(T, t, UpdatedToken(T[t], u))
  <2>1. T[t] \in TokenDoc
    BY <1>3 DEF DocsOK, TokenDocs
  <2>2. TokenSource(T[t], u) \in Source \cup {None}
    BY <1>1, <2>1 DEF TokenSource, TokenDoc
  <2>. QED
    BY <1>1, <1>3, <2>1, <2>2 DEF UpdatedToken, TokenDoc, KeepsLinks
<1>. QED
  BY <1>2, <1>3 DEF NewToken, UpdatedToken

(* A token is inserted, updated, left alone or refused (store.go:351-419).  *)
LEMMA WriteTokenKeeps ==
  ASSUME IInv, NEW w \in Worker, WriteToken(w)
  PROVE  IInv'
<1> DEFINE u == jobs[w].update
           read == jobs[w].read
           t == CurrentToken(w)
<1>1. /\ jobs[w].at = "writeToken" /\ jobs[w].at # "idle"
      /\ swapping' = swapping /\ assets' = assets
  BY DEF WriteToken, At
<1>2. /\ t \in Token /\ u \in Updates /\ assets[u.asset] # None
      /\ read # None => tokens[t] # None
      /\ DocsOK(assets, tokens)
  BY <1>1, CallFacts DEF JobFits, CurrentToken, IInv
<1>3. ASSUME DocsOK(assets', tokens'), Grows(assets, assets', tokens, tokens'),
             Advance(w)
      PROVE  IInv'
  <2>1. PICK job \in Job : /\ jobs' = [jobs EXCEPT ![w] = job]
                           /\ JobFits(job, assets', tokens')
    BY <1>1, <1>2, <1>3, AdvanceFits
  <2>. QED
    BY <1>1, <1>3, <2>1, JobStep
<1>4. ASSUME NEW doc \in TokenDoc, doc.asset = u.asset, KeepsLinks(tokens, t, doc),
             tokens' = [tokens EXCEPT ![t] = doc], Advance(w)
      PROVE  IInv'
  <2>1. DocsOK(assets', tokens') /\ Grows(assets, assets', tokens, tokens')
    BY <1>1, <1>2, <1>4, TokenWritten
  <2>. QED
    BY <1>3, <1>4, <2>1
<1>5. CASE read = None /\ tokens[t] = None
  <2>1. tokens' = [tokens EXCEPT ![t] = NewToken(u)] /\ Advance(w)
    BY <1>5 DEF WriteToken
  <2>. QED
    BY <1>2, <1>4, <1>5, <2>1, WrittenToken
<1>6. CASE read = None /\ tokens[t] # None
  <2>1. Abort(w) /\ tokens' = tokens
    BY <1>6 DEF WriteToken
  <2>. QED
    BY <1>1, <2>1, AbortFits
<1>7. CASE read # None /\ checkIfTokenNeedToUpdate(UpdateSource(u), read)
  <2>1. tokens' = [tokens EXCEPT ![t] = UpdatedToken(tokens[t], u)] /\ Advance(w)
    BY <1>7 DEF WriteToken
  <2>. QED
    BY <1>2, <1>4, <1>7, <2>1, WrittenToken
<1>8. CASE read # None /\ ~ checkIfTokenNeedToUpdate(UpdateSource(u), read)
  <2>1. Advance(w) /\ tokens' = tokens
    BY <1>8 DEF WriteToken
  <2>2. DocsOK(assets', tokens') /\ Grows(assets, assets', tokens, tokens')
    BY <1>1, <1>2, <2>1 DEF Grows
  <2>. QED
    BY <1>3, <2>1, <2>2
<1>. QED
  BY <1>5, <1>6, <1>7, <1>8

(* A call ends, by itself or because it fails.                              *)
LEMMA EndIndexKeeps ==
  ASSUME IInv, NEW w \in Worker, FinishIndex(w) \/ FailIndex(w)
  PROVE  IInv'
<1>1. Abort(w) /\ UNCHANGED <<assets, tokens, swapping>>
  BY DEF FinishIndex, FailIndex
<1>. QED
  BY <1>1, AbortFits

-----------------------------------------------------------------------------
(* The swaps.                                                               *)

(* A step that begins or ends a swap.                                       *)
LEMMA SwapStep ==
  ASSUME NEW s \in Swapper, NEW swap \in Swap, IInv,
         DocsOK(assets', tokens'), Grows(assets, assets', tokens, tokens'),
         swapping' = [swapping EXCEPT ![s] = swap], SwapFits(swap, assets', tokens'),
         jobs' = jobs
  PROVE  IInv'
<1>1. SwapsOK(swapping', assets', tokens')
  <2>1. swapping' \in [Swapper -> Swap]
    BY DEF IInv, SwapsOK
  <2>2. ASSUME NEW v \in Swapper PROVE SwapFits(swapping'[v], assets', tokens')
    <3>1. swapping'[v] = IF v = s THEN swap ELSE swapping[v]
      BY DEF IInv, SwapsOK
    <3>2. SwapFits(swapping[v], assets, tokens)
      BY DEF IInv, SwapsOK
    <3>3. SwapFits(swapping[v], assets', tokens')
      BY <3>2, SwapsStay
    <3>. QED
      BY <3>1, <3>3
  <2>. QED
    BY <2>1, <2>2 DEF SwapsOK
<1>2. JobsOK(jobs', assets', tokens')
  BY JobsStay DEF IInv, JobsOK
<1>. QED
  BY <1>1, <1>2 DEF IInv

(* The original token is read (store.go:440-468).                           *)
LEMMA StartSwapKeeps ==
  ASSUME IInv, NEW s \in Swapper, NEW pair \in Swaps, StartSwap(s, pair[1], pair[2])
  PROVE  IInv'
<1> DEFINE o == pair[1]
           n == pair[2]
           swap == [at |-> "read", from |-> o, to |-> n, read |-> tokens[o]]
<1>1. o \in Token /\ n \in Token /\ o # n
  BY AssetIndexAssumption
<1>2. /\ tokens[o] # None /\ swapping' = [swapping EXCEPT ![s] = swap]
      /\ UNCHANGED <<assets, tokens, jobs>>
  BY DEF StartSwap
<1>3. tokens[o] \in TokenDoc /\ assets[tokens[o].asset] # None
  BY <1>1, <1>2 DEF IInv, DocsOK, TokenDocs, Linked
<1>4. swap \in Swap
  BY <1>1, <1>3 DEF Swap
<1>5. SwapFits(swap, assets', tokens')
  BY <1>1, <1>2, <1>3 DEF SwapFits
<1>6. DocsOK(assets', tokens') /\ Grows(assets, assets', tokens, tokens')
  BY <1>2 DEF IInv, Grows
<1>. QED
  BY <1>2, <1>4, <1>5, <1>6, SwapStep

(* The swap is committed or fails (store.go:489-541).                       *)
LEMMA EndSwapKeeps ==
  ASSUME IInv, NEW s \in Swapper, CommitSwap(s) \/ FailSwap(s)
  PROVE  IInv'
<1> DEFINE o == swapping[s].from
           n == swapping[s].to
           read == swapping[s].read
<1>1. /\ swapping[s].at = "read" /\ swapping' = [swapping EXCEPT ![s] = NoSwap]
      /\ UNCHANGED <<assets, jobs>>
  BY DEF CommitSwap, FailSwap
<1>2. NoSwap \in Swap /\ SwapFits(NoSwap, assets', tokens')
  BY DEF Swap, NoSwap, SwapFits
<1>3. SwapFits(swapping[s], assets, tokens) /\ DocsOK(assets, tokens)
  BY DEF IInv, SwapsOK
<1>4. DocsOK(assets', tokens') /\ Grows(assets, assets', tokens, tokens')
  <2>1. CASE CommitSwap(s)
    <3>1. tokens' = [tokens EXCEPT ![o] = SwappedAway(tokens[o], n),
                                   ![n] = SwappedIn(read, o, tokens[n])]
      BY <2>1 DEF CommitSwap
    <3>2. /\ o \in Token /\ n \in Token /\ o # n /\ tokens[o] # None
          /\ read \in TokenDoc /\ assets[read.asset] # None
      BY <1>1, <1>3 DEF SwapFits
    <3>. QED
      BY <1>1, <1>3, <3>1, <3>2, TokensSwapped
  <2>2. CASE FailSwap(s)
    BY <1>1, <1>3, <2>2 DEF FailSwap, Grows
  <2>. QED
    BY <2>1, <2>2
<1>. QED
  BY <1>1, <1>2, <1>4, SwapStep

-----------------------------------------------------------------------------
(* The environment, and the theorems.                                       *)

(* Owners and images are written by others.                                 *)
LEMMA EnvironmentKeeps ==
  ASSUME IInv,
         \/ \E t \in Token, b \in BOOLEAN : UpdateOwner(t, b)
         \/ \E t \in Token, o \in Account : RefreshOwners(t, o)
         \/ \E a \in Asset : StoreThumbnail(a)
  PROVE  IInv'
<1>. jobs' = jobs /\ swapping' = swapping
  BY DEF UpdateOwner, RefreshOwners, StoreThumbnail
<1>1. DocsOK(assets, tokens)
  BY DEF IInv
<1>2. ASSUME NEW t \in Token, NEW b \in BOOLEAN, UpdateOwner(t, b)
      PROVE  DocsOK(assets', tokens') /\ Grows(assets, assets', tokens, tokens')
  <2> DEFINE doc == [source |-> tokens[t].source, asset |-> tokens[t].asset,
                     burned |-> b, swapped |-> tokens[t].swapped,
                     swappedTo |-> tokens[t].swappedTo,
                     swappedFrom |-> tokens[t].swappedFrom]
  <2>1. tokens[t] # None /\ tokens' = [tokens EXCEPT ![t] = doc] /\ assets' = assets
    BY <1>2 DEF UpdateOwner
  <2>2. tokens[t] \in TokenDoc /\ assets[tokens[t].asset] # None
    BY <1>1, <2>1 DEF DocsOK, TokenDocs, Linked
  <2>3. doc \in TokenDoc /\ KeepsLinks(tokens, t, doc)
    BY <2>1, <2>2 DEF TokenDoc, KeepsLinks
  <2>. QED
    BY <1>1, <2>1, <2>2, <2>3, TokenWritten
<1>3. ASSUME NEW a \in Asset, StoreThumbnail(a)
      PROVE  DocsOK(assets', tokens') /\ Grows(assets, assets', tokens, tokens')
  <2> DEFINE doc == [url |-> assets[a].url, cached |-> assets[a].url]
  <2>1. assets[a] # None /\ assets' = [assets EXCEPT ![a] = doc] /\ tokens' = tokens
    BY <1>3 DEF StoreThumbnail
  <2>2. doc \in AssetDoc
    BY <1>1, <2>1 DEF DocsOK, AssetDocs, AssetDoc
  <2>. QED
    BY <1>1, <2>1, <2>2, AssetWritten
<1>4. ASSUME NEW t \in Token, NEW o \in Account, RefreshOwners(t, o)
      PROVE  DocsOK(assets', tokens') /\ Grows(assets, assets', tokens, tokens')
  BY <1>1, <1>4 DEF RefreshOwners, Grows
<1>. QED
  BY <1>2, <1>3, <1>4, DocStep

(* At the start there is no document, no call and no swap.                  *)
LEMMA InitHolds == Init => IInv
<1> SUFFICES ASSUME Init PROVE IInv
  OBVIOUS
<1>1. DocsOK(assets, tokens)
  BY DEF Init, DocsOK, AssetDocs, TokenDocs, Linked, SwapsLinked
<1>2. JobsOK(jobs, assets, tokens)
  BY DEF Init, JobsOK, Job, NoJob, JobFits
<1>3. SwapsOK(swapping, assets, tokens)
  BY DEF Init, SwapsOK, Swap, NoSwap, SwapFits
<1>. QED
  BY <1>1, <1>2, <1>3 DEF IInv

(* No step of any caller breaks the links.                                  *)
LEMMA StepKeeps == IInv /\ [Next]_vars => IInv'
<1> SUFFICES ASSUME IInv, [Next]_vars PROVE IInv'
  OBVIOUS
<1>1. CASE \E w \in Worker, u \in Updates : StartIndex(w, u)
  BY <1>1, StartIndexKeeps
<1>2. CASE \E w \in Worker : ReadAsset(w)
  BY <1>2, ReadAssetKeeps
<1>3. CASE \E w \in Worker : WriteAsset(w)
  BY <1>3, WriteAssetKeeps
<1>4. CASE \E w \in Worker : ReadToken(w)
  BY <1>4, ReadTokenKeeps
<1>5. CASE \E w \in Worker : WriteToken(w)
  BY <1>5, WriteTokenKeeps
<1>6. CASE \E w \in Worker : FinishIndex(w) \/ FailIndex(w)
  BY <1>6, EndIndexKeeps
<1>7. CASE \E s \in Swapper, pair \in Swaps : StartSwap(s, pair[1], pair[2])
  BY <1>7, StartSwapKeeps
<1>8. CASE \E s \in Swapper : CommitSwap(s) \/ FailSwap(s)
  BY <1>8, EndSwapKeeps
<1>9. CASE \/ \E t \in Token, b \in BOOLEAN : UpdateOwner(t, b)
           \/ \E t \in Token, o \in Account : RefreshOwners(t, o)
           \/ \E a \in Asset : StoreThumbnail(a)
  BY <1>9, EnvironmentKeeps
<1>10. CASE UNCHANGED vars
  BY <1>10 DEF vars, IInv
<1>. QED
  BY <1>1, <1>2, <1>3, <1>4, <1>5, <1>6, <1>7, <1>8, <1>9, <1>10 DEF Next

(* The links of documents are always intact.                                *)
LEMMA AlwaysLinked == Spec => []IInv
  BY InitHolds, StepKeeps, PTL DEF Spec

(* The links between stored documents lead to stored documents: the asset a *)
(* token belongs to is there when the token is written (store.go:248-419),  *)
(* and each end of a swap names the other (store.go:440-546).               *)
THEOREM IndexLinks == Spec => [](LinkedAssetExists /\ SwapLinks)
<1>1. IInv => LinkedAssetExists /\ SwapLinks
  <2> SUFFICES ASSUME IInv PROVE LinkedAssetExists /\ SwapLinks
    OBVIOUS
  <2>1. \A t \in Stored(tokens) : t \in Token /\ tokens[t] # None
    BY DEF IInv, DocsOK, TokenDocs, Stored
  <2>2. LinkedAssetExists
    BY <2>1 DEF LinkedAssetExists, IInv, DocsOK, Linked
  <2>3. SwapLinks
    BY <2>1 DEF SwapLinks, IInv, DocsOK, SwapsLinked, To, From
  <2>. QED
    BY <2>2, <2>3
<1>. QED
  BY <1>1, AlwaysLinked, PTL

(* The source of a token of Feral File, in one step.                        *)
Stays(t) ==
  (tokens[t] # None /\ tokens[t].source = FeralFile)
    => (tokens'[t] # None /\
         (tokens'[t].source = FeralFile
           \/ \E s \in Swapper : swapping[s].to = t /\ swapping'[s] = NoSwap))

(* Whoever writes one token and is not a swap keeps the source of all.      *)
LEMMA WriteStays ==
  ASSUME IInv, NEW x \in Token, NEW doc \in TokenDoc, NEW t \in Token,
         tokens' = [tokens EXCEPT ![x] = doc],
         tokens[x] # None /\ tokens[x].source = FeralFile => doc.source = FeralFile
  PROVE  Stays(t)
<1>1. tokens'[t] = IF t = x THEN doc ELSE tokens[t]
  BY DEF IInv, DocsOK, TokenDocs
<1>. QED
  BY <1>1, DocumentAssumption DEF Stays

(* A worker of IndexAsset keeps the sources (store.go:219-236, 341-343).    *)
LEMMA IndexStays ==
  ASSUME IInv, NEW w \in Worker, WriteToken(w), NEW t \in Token
  PROVE  Stays(t)
<1> DEFINE u == jobs[w].update
           x == CurrentToken(w)
<1>1. jobs[w].at = "writeToken" /\ jobs[w].at # "idle"
  BY DEF WriteToken, At
<1>2. /\ x \in Token /\ u \in Updates /\ DocsOK(assets, tokens)
      /\ jobs[w].read # None => tokens[x] # None
  BY <1>1, CallFacts DEF JobFits, CurrentToken, IInv
<1>3. CASE tokens' = tokens
  BY <1>3 DEF Stays
<1>4. CASE tokens[x] = None /\ tokens' = [tokens EXCEPT ![x] = NewToken(u)]
  <2>1. NewToken(u) \in TokenDoc
    BY <1>2, <1>4, WrittenToken
  <2>. QED
    BY <1>2, <1>4, <2>1, WriteStays
<1>5. CASE tokens[x] # None /\ tokens' = [tokens EXCEPT ![x] = UpdatedToken(tokens[x], u)]
  <2>1. UpdatedToken(tokens[x], u) \in TokenDoc
    BY <1>2, <1>5, WrittenToken
  <2>2. tokens[x].source = FeralFile => UpdatedToken(tokens[x], u).source = FeralFile
    BY DEF UpdatedToken, TokenSource
  <2>. QED
    BY <1>2, <1>5, <2>1, <2>2, WriteStays
<1>. QED
  BY <1>2, <1>3, <1>4, <1>5 DEF WriteToken

(* A swap keeps the source of every token but the one it swaps to.          *)
LEMMA SwapStays ==
  ASSUME IInv, NEW s \in Swapper, CommitSwap(s), NEW t \in Token
  PROVE  Stays(t)
<1> DEFINE o == swapping[s].from
           n == swapping[s].to
           read == swapping[s].read
<1>1. /\ swapping[s].at = "read"
      /\ tokens' = [tokens EXCEPT ![o] = SwappedAway(tokens[o], n),
                                  ![n] = SwappedIn(read, o, tokens[n])]
      /\ swapping' = [swapping EXCEPT ![s] = NoSwap]
  BY DEF CommitSwap
<1>2. /\ o \in Token /\ n \in Token /\ o # n /\ tokens[o] # None /\ read \in TokenDoc
      /\ assets[read.asset] # None /\ DocsOK(assets, tokens)
  BY <1>1 DEF IInv, SwapsOK, SwapFits
<1>3. tokens[t] # None => tokens'[t] # None
  <2>1. Grows(assets, assets, tokens, tokens')
    BY <1>1, <1>2, TokensSwapped
  <2>. QED
    BY <2>1 DEF Grows
<1>4. CASE t = n
  <2>1. swapping[s].to = t /\ swapping'[s] = NoSwap
    BY <1>1, <1>4 DEF IInv, SwapsOK
  <2>. QED
    BY <1>3, <2>1 DEF Stays
<1>5. CASE t # n
  <2>1. tokens'[t] = IF t = o THEN SwappedAway(tokens[o], n) ELSE tokens[t]
    BY <1>1, <1>2, <1>5 DEF DocsOK, TokenDocs
  <2>2. SwappedAway(tokens[o], n).source = tokens[o].source
    BY DEF SwappedAway
  <2>. QED
    BY <1>3, <2>1, <2>2 DEF Stays
<1>. QED
  BY <1>4, <1>5

(* An owner that is written leaves the source alone (store.go:704-727).     *)
LEMMA OwnerStays ==
  ASSUME IInv, NEW x \in Token, NEW b \in BOOLEAN, UpdateOwner(x, b), NEW t \in Token
  PROVE  Stays(t)
<1> DEFINE doc == [source |-> tokens[x].source, asset |-> tokens[x].asset,
                   burned |-> b, swapped |-> tokens[x].swapped,
                   swappedTo |-> tokens[x].swappedTo,
                   swappedFrom |-> tokens[x].swappedFrom]
<1>1. tokens[x] # None /\ tokens' = [tokens EXCEPT ![x] = doc]
  BY DEF UpdateOwner
<1>2. tokens[x] \in TokenDoc
  BY <1>1 DEF IInv, DocsOK, TokenDocs
<1>3. doc \in TokenDoc
  BY <1>2 DEF TokenDoc
<1>. QED
  BY <1>1, <1>3, WriteStays

(* A token that Feral File has claimed stays one of its own, whatever the   *)
(* indexing engine read before (store.go:219-236), unless a swap copies     *)
(* another token over it.                                                   *)
THEOREM FeralFileKeepsTokens == Spec => FeralFileStays
<1>1. ASSUME IInv, Next, NEW t \in Token PROVE Stays(t)
  <2>1. CASE tokens' = tokens
    BY <2>1 DEF Stays
  <2>2. CASE \E w \in Worker : WriteToken(w)
    BY <1>1, <2>2, IndexStays
  <2>3. CASE \E s \in Swapper : CommitSwap(s)
    BY <1>1, <2>3, SwapStays
  <2>4. CASE \E x \in Token, b \in BOOLEAN : UpdateOwner(x, b)
    BY <1>1, <2>4, OwnerStays
  <2>. QED
    BY <1>1, <2>1, <2>2, <2>3, <2>4
       DEF Next, StartIndex, ReadAsset, WriteAsset, ReadToken, FinishIndex, FailIndex,
           StartSwap, FailSwap, RefreshOwners, StoreThumbnail
<1>2. IInv /\ [Next]_vars => [\A t \in Token : Stays(t)]_vars
  BY <1>1
<1>3. [\A t \in Token : Stays(t)]_vars
        <=> [\A t \in Token :
               (tokens[t] # None /\ tokens[t].source = FeralFile)
                 => (tokens'[t] # None /\
                      (tokens'[t].source = FeralFile
                        \/ \E s \in Swapper : swapping[s].to = t /\ swapping'[s] = NoSwap))]_vars
  BY DEF Stays
<1>. QED
  BY <1>2, <1>3, AlwaysLinked, PTL DEF Spec, FeralFileStays

-----------------------------------------------------------------------------
(* The order of the account tokens.                                         *)

(* NoLater is a total order, so the places of the entries are 1 to n.       *)
LEMMA NoLaterIsOrder ==
  ASSUME NEW n \in Nat, NEW F, NEW i \in 1..n, NEW j \in 1..n, NEW k \in 1..n
  PROVE  /\ NoLater(i, i, F)
         /\ NoLater(i, j, F) \/ NoLater(j, i, F)
         /\ NoLater(i, j, F) /\ NoLater(j, i, F) => i = j
         /\ NoLater(i, j, F) /\ NoLater(j, k, F) => NoLater(i, k, F)
  BY DEF NoLater

LEMMA PlacesDiffer ==
  ASSUME NEW n \in Nat, NEW F, NEW i \in 1..n, NEW j \in 1..n, i # j, NoLater(i, j, F)
  PROVE  Place(i, n, F) # Place(j, n, F)
<1> DEFINE I == {k \in 1..n : NoLater(k, i, F)}
           J == {k \in 1..n : NoLater(k, j, F)}
<1>1. IsFiniteSet(J)
  <2>1. IsFiniteSet(1..n)
    BY FS_Interval
  <2>. QED
    BY <2>1, FS_Subset
<1>2. I \in SUBSET J
  BY NoLaterIsOrder
<1>3. j \in J /\ j \notin I
  BY NoLaterIsOrder
<1> HIDE DEF I, J
<1>4. Cardinality(J) # Cardinality(I)
  BY <1>1, <1>2, <1>3, FS_Subset
<1>. QED
  BY <1>4 DEF Place, I, J

LEMMA Places ==
  ASSUME NEW n \in Nat, NEW F
  PROVE  /\ \A i \in 1..n : Place(i, n, F) \in 1..n
         /\ \A i, j \in 1..n : Place(i, n, F) = Place(j, n, F) => i = j
         /\ \A k \in 1..n : \E i \in 1..n : Place(i, n, F) = k
<1> DEFINE p == [i \in 1..n |-> Place(i, n, F)]
<1>1. IsFiniteSet(1..n) /\ Cardinality(1..n) = n
  BY FS_Interval
<1>2. ASSUME NEW i \in 1..n PROVE Place(i, n, F) \in 1..n
  <2> DEFINE I == {k \in 1..n : NoLater(k, i, F)}
  <2>1. I \in SUBSET (1..n) /\ i \in I
    BY NoLaterIsOrder
  <2> HIDE DEF I
  <2>2. IsFiniteSet(I) /\ Cardinality(I) <= n
    BY <1>1, <2>1, FS_Subset
  <2>3. Cardinality(I) \in Nat /\ Cardinality(I) # 0
    BY <2>1, <2>2, FS_CardinalityType, FS_EmptySet
  <2>. QED
    BY <2>2, <2>3 DEF Place, I
<1>3. ASSUME NEW i \in 1..n, NEW j \in 1..n, Place(i, n, F) = Place(j, n, F)
      PROVE  i = j
  BY <1>3, NoLaterIsOrder, PlacesDiffer
<1>4. p \in Injection(1..n, 1..n)
  BY <1>2, <1>3 DEF Injection, IsInjective
<1>5. p \in Surjection(1..n, 1..n)
  BY <1>1, <1>4, FS_Injection
<1>. QED
  BY <1>2, <1>3, <1>5 DEF Surjection

(* A refresh changes entries and moves them, and that is all.               *)
Rearranged(list, S, change, from) ==
  LET n == Len(list)
      L == Refreshed(list, S, change)
  IN  /\ from \in [1..n -> 1..n]
      /\ \A j, k \in 1..n : from[j] = from[k] => j = k
      /\ \A i \in 1..n : \E k \in 1..n : from[k] = i
      /\ L \in Seq(AccountToken) /\ Len(L) = n
      /\ \A k \in 1..n :
           L[k] = IF Key(list[from[k]]) \in S THEN change[list[from[k]]] ELSE list[from[k]]

LEMMA RefreshRearranges ==
  ASSUME NEW list \in Seq(AccountToken), NEW S,
         NEW change \in [AccountToken -> AccountToken]
  PROVE  \E from : Rearranged(list, S, change, from)
<1> DEFINE n == Len(list)
           F == {i \in DOMAIN list : Key(list[i]) \in S}
           From1(k) == CHOOSE i \in DOMAIN list : Place(i, n, F) = k
           from == [k \in 1..n |-> From1(k)]
           L == Refreshed(list, S, change)
<1>1. n \in Nat /\ DOMAIN list = 1..n /\ \A i \in 1..n : list[i] \in AccountToken
  OBVIOUS
<1>2. /\ \A i \in 1..n : Place(i, n, F) \in 1..n
      /\ \A i, j \in 1..n : Place(i, n, F) = Place(j, n, F) => i = j
      /\ \A k \in 1..n : \E i \in 1..n : Place(i, n, F) = k
  <2> HIDE DEF n, F
  <2>. QED
    BY <1>1, Places
<1>3. \A k \in 1..n : From1(k) \in 1..n /\ Place(From1(k), n, F) = k
  <2> HIDE DEF n, F
  <2>. QED
    BY <1>1, <1>2
<1>4. L = [k \in 1..n |-> IF From1(k) \in F THEN change[list[From1(k)]] ELSE list[From1(k)]]
  BY <1>1 DEF Refreshed
<1>5. \A i \in 1..n : i \in F <=> Key(list[i]) \in S
  BY <1>1
<1> HIDE DEF n, F, From1
<1>6. from \in [1..n -> 1..n] /\ \A k \in 1..n : from[k] = From1(k)
  BY <1>3
<1> HIDE DEF from, L
<1>7. \A j, k \in 1..n : from[j] = from[k] => j = k
  BY <1>3, <1>6
<1>8. \A i \in 1..n : \E k \in 1..n : from[k] = i
  BY <1>2, <1>3, <1>6
<1>9. \A k \in 1..n :
        L[k] = IF Key(list[from[k]]) \in S THEN change[list[from[k]]] ELSE list[from[k]]
  BY <1>3, <1>4, <1>5, <1>6
<1>10. L \in Seq(AccountToken) /\ Len(L) = n
  <2>1. \A k \in 1..n : L[k] \in AccountToken
    BY <1>1, <1>6, <1>9
  <2>2. DOMAIN L = 1..n /\ L = [k \in 1..n |-> L[k]]
    BY <1>4
  <2>. QED
    BY <1>1, <2>1, <2>2
<1>. QED
  BY <1>6, <1>7, <1>8, <1>9, <1>10 DEF Rearranged, L, n

(* No account has two entries of a token.                                   *)
Unique(L) == \A i, j \in 1..Len(L) : Key(L[i]) = Key(L[j]) => i = j

ListingOK(L, T) ==
  /\ L \in Seq(AccountToken)
  /\ Unique(L)
  /\ \A i \in 1..Len(L) : T[L[i].token] # None

KeepsKeys(change) ==
  /\ change \in [AccountToken -> AccountToken]
  /\ \A e \in AccountToken : change[e].token = e.token /\ change[e].owner = e.owner

LEMMA Changes ==
  /\ KeepsKeys(Same) /\ KeepsKeys(Held) /\ KeepsKeys(Dropped)
  /\ \A n \in Token : /\ Moved(n) \in [AccountToken -> AccountToken]
                      /\ \A e \in AccountToken :
                           Moved(n)[e] = [token |-> n, owner |-> e.owner, held |-> e.held]
<1>1. ASSUME NEW e \in AccountToken, NEW b \in BOOLEAN
      PROVE  /\ [e EXCEPT !.held = b] \in AccountToken
             /\ [e EXCEPT !.held = b].token = e.token /\ [e EXCEPT !.held = b].owner = e.owner
  BY DEF AccountToken
<1>2. ASSUME NEW e \in AccountToken, NEW n \in Token
      PROVE  /\ [e EXCEPT !.token = n] \in AccountToken
             /\ [e EXCEPT !.token = n] = [token |-> n, owner |-> e.owner, held |-> e.held]
  BY DEF AccountToken
<1>3. KeepsKeys(Same)
  BY DEF KeepsKeys, Same
<1>4. KeepsKeys(Held) /\ KeepsKeys(Dropped)
  BY <1>1 DEF KeepsKeys, Held, Dropped
<1>5. ASSUME NEW n \in Token
      PROVE  /\ Moved(n) \in [AccountToken -> AccountToken]
             /\ \A e \in AccountToken :
                  Moved(n)[e] = [token |-> n, owner |-> e.owner, held |-> e.held]
  BY <1>2 DEF Moved
<1>. QED
  BY <1>3, <1>4, <1>5

(* Entries that keep their keys keep the list consistent.                   *)
LEMMA RefreshKeeps ==
  ASSUME NEW list, NEW T, ListingOK(list, T), NEW S, NEW change, KeepsKeys(change)
  PROVE  /\ ListingOK(Refreshed(list, S, change), T)
         /\ Keys(Refreshed(list, S, change)) = Keys(list)
<1> DEFINE n == Len(list)
           L == Refreshed(list, S, change)
<1>1. /\ list \in Seq(AccountToken) /\ n \in Nat /\ DOMAIN list = 1..n
      /\ \A i \in 1..n : list[i] \in AccountToken
      /\ change \in [AccountToken -> AccountToken]
  BY DEF ListingOK, KeepsKeys
<1>2. PICK from : Rearranged(list, S, change, from)
  BY <1>1, RefreshRearranges
<1>3. /\ from \in [1..n -> 1..n]
      /\ \A j, k \in 1..n : from[j] = from[k] => j = k
      /\ \A i \in 1..n : \E k \in 1..n : from[k] = i
      /\ L \in Seq(AccountToken) /\ Len(L) = n /\ DOMAIN L = 1..n
      /\ \A k \in 1..n :
           L[k] = IF Key(list[from[k]]) \in S THEN change[list[from[k]]] ELSE list[from[k]]
  BY <1>1, <1>2 DEF Rearranged
<1> HIDE DEF L, n
<1>4. ASSUME NEW k \in 1..n
      PROVE  /\ L[k].token = list[from[k]].token /\ L[k].owner = list[from[k]].owner
             /\ Key(L[k]) = Key(list[from[k]]) /\ from[k] \in 1..n
  BY <1>1, <1>3 DEF KeepsKeys, Key
<1>5. /\ \A i, j \in 1..n : Key(list[i]) = Key(list[j]) => i = j
      /\ \A i \in 1..n : T[list[i].token] # None
  BY DEF ListingOK, Unique, n
<1>6. Unique(L)
  <2> SUFFICES ASSUME NEW j \in 1..n, NEW k \in 1..n, Key(L[j]) = Key(L[k])
               PROVE  j = k
    BY <1>3 DEF Unique
  <2>1. from[j] = from[k]
    BY <1>4, <1>5
  <2>. QED
    BY <1>3, <2>1
<1>7. \A k \in 1..n : T[L[k].token] # None
  BY <1>4, <1>5
<1>8. Keys(L) = Keys(list)
  <2>1. ASSUME NEW k \in 1..n PROVE Key(L[k]) \in Keys(list)
    BY <1>1, <1>4 DEF Keys
  <2>2. ASSUME NEW i \in 1..n PROVE Key(list[i]) \in Keys(L)
    <3>1. PICK k \in 1..n : from[k] = i
      BY <1>3
    <3>. QED
      BY <1>3, <1>4, <3>1 DEF Keys
  <2>. QED
    BY <1>1, <1>3, <2>1, <2>2 DEF Keys
<1>. QED
  BY <1>3, <1>6, <1>7, <1>8 DEF ListingOK, L

(* So does an upsert for a token that is stored.                            *)
LEMMA UpsertKeeps ==
  ASSUME NEW list, NEW T, ListingOK(list, T), NEW t \in Token, NEW o \in Account, T[t] # None
  PROVE  ListingOK(Upserted(list, t, o), T)
<1> DEFINE e == [token |-> t, owner |-> o, held |-> TRUE]
           L == <<e>> \o list
           n == Len(list)
<1>1. CASE <<t, o>> \in Keys(list)
  BY <1>1, Changes, RefreshKeeps DEF Upserted
<1>2. CASE <<t, o>> \notin Keys(list)
  <2>1. /\ list \in Seq(AccountToken) /\ n \in Nat /\ DOMAIN list = 1..n
        /\ \A i \in 1..n : list[i] \in AccountToken
        /\ Unique(list) /\ \A i \in 1..n : T[list[i].token] # None
    BY DEF ListingOK
  <2>2. e \in AccountToken /\ Key(e) = <<t, o>> /\ e.token = t
    BY DEF AccountToken, Key
  <2> HIDE DEF e
  <2>3. /\ L \in Seq(AccountToken) /\ Len(L) = n + 1 /\ L[1] = e
        /\ \A k \in 1..(n + 1) : k # 1 => k - 1 \in 1..n /\ L[k] = list[k - 1]
    BY <2>1, <2>2
  <2> HIDE DEF L, n
  <2>4. \A i \in 1..n : Key(list[i]) # Key(e)
    BY <1>2, <2>1, <2>2 DEF Keys
  <2>5. Unique(L)
    <3> SUFFICES ASSUME NEW i \in 1..(n + 1), NEW j \in 1..(n + 1), Key(L[i]) = Key(L[j])
                 PROVE  i = j
      BY <2>3 DEF Unique
    <3>1. CASE i = 1 \/ j = 1
      BY <2>3, <2>4, <3>1
    <3>2. CASE i # 1 /\ j # 1
      <4>1. i - 1 = j - 1
        BY <2>1, <2>3, <3>2 DEF Unique, n
      <4>. QED
        BY <2>1, <4>1
    <3>. QED
      BY <3>1, <3>2
  <2>6. \A k \in 1..(n + 1) : T[L[k].token] # None
    BY <2>1, <2>2, <2>3
  <2>7. ListingOK(L, T)
    BY <2>3, <2>5, <2>6 DEF ListingOK
  <2>. QED
    BY <1>2, <2>7 DEF Upserted, L, e
<1>. QED
  BY <1>1, <1>2

(* And the move of all holders to a token that none of them holds.          *)
LEMMA MoveKeeps ==
  ASSUME NEW list, NEW T, NEW U, ListingOK(list, T), NEW o \in Token, NEW n \in Token,
         \A t \in Token : T[t] # None => U[t] # None, U[n] # None,
         NEW S, \A i \in DOMAIN list : Key(list[i]) \in S <=> list[i].token = o,
         \A a \in Account : ~ ({<<o, a>>, <<n, a>>} \subseteq Keys(list))
  PROVE  /\ ListingOK(Refreshed(list, S, Moved(n)), U)
         /\ \A i \in DOMAIN list : list[i].token = o =>
              \E k \in DOMAIN Refreshed(list, S, Moved(n)) :
                Refreshed(list, S, Moved(n))[k]
                  = [token |-> n, owner |-> list[i].owner, held |-> list[i].held]
         /\ o # n => \A k \in DOMAIN Refreshed(list, S, Moved(n)) :
                       Refreshed(list, S, Moved(n))[k].token # o
<1> DEFINE m == Len(list)
           L == Refreshed(list, S, Moved(n))
           E(e) == [token |-> n, owner |-> e.owner, held |-> e.held]
<1>1. /\ list \in Seq(AccountToken) /\ m \in Nat /\ DOMAIN list = 1..m
      /\ \A i \in 1..m : list[i] \in AccountToken
      /\ Unique(list) /\ \A i \in 1..m : T[list[i].token] # None
      /\ \A i \in 1..m : Key(list[i]) \in S <=> list[i].token = o
  BY DEF ListingOK
<1>2. PICK from : Rearranged(list, S, Moved(n), from)
  BY <1>1, RefreshRearranges, Changes
<1>3. /\ from \in [1..m -> 1..m]
      /\ \A j, k \in 1..m : from[j] = from[k] => j = k
      /\ \A i \in 1..m : \E k \in 1..m : from[k] = i
      /\ L \in Seq(AccountToken) /\ Len(L) = m /\ DOMAIN L = 1..m
      /\ \A k \in 1..m :
           L[k] = IF Key(list[from[k]]) \in S THEN Moved(n)[list[from[k]]] ELSE list[from[k]]
  BY <1>1, <1>2 DEF Rearranged
<1> HIDE DEF L, m
<1>4. ASSUME NEW k \in 1..m
      PROVE  /\ from[k] \in 1..m /\ list[from[k]] \in AccountToken
             /\ list[from[k]].token = o => L[k] = E(list[from[k]])
             /\ list[from[k]].token # o => L[k] = list[from[k]]
  <2>1. from[k] \in 1..m /\ list[from[k]] \in AccountToken
    BY <1>1, <1>3
  <2>2. Key(list[from[k]]) \in S <=> list[from[k]].token = o
    BY <1>1, <2>1
  <2>3. Moved(n)[list[from[k]]] = E(list[from[k]])
    BY <2>1, Changes
  <2> HIDE DEF E
  <2>. QED
    BY <1>3, <2>1, <2>2, <2>3
<1>5. ASSUME NEW k \in 1..m
      PROVE  /\ L[k].owner = list[from[k]].owner
             /\ L[k].token = IF list[from[k]].token = o THEN n ELSE list[from[k]].token
  <2>1. CASE list[from[k]].token = o
    <3> DEFINE e == list[from[k]]
    <3>1. L[k] = [token |-> n, owner |-> e.owner, held |-> e.held]
      BY <1>4, <2>1
    <3> HIDE DEF e
    <3>2. L[k].owner = e.owner /\ L[k].token = n
      BY <3>1
    <3>. QED
      BY <2>1, <3>2 DEF e
  <2>2. CASE list[from[k]].token # o
    BY <1>4, <2>2
  <2>. QED
    BY <2>1, <2>2
<1>6. Unique(L)
  <2> SUFFICES ASSUME NEW j \in 1..m, NEW k \in 1..m, Key(L[j]) = Key(L[k])
               PROVE  j = k
    BY <1>3 DEF Unique
  <2> DEFINE d == list[from[j]]
             e == list[from[k]]
  <2>1. /\ L[j].token = L[k].token /\ d.owner = e.owner
        /\ d \in AccountToken /\ e \in AccountToken
        /\ from[j] \in 1..m /\ from[k] \in 1..m
        /\ L[j].token = IF d.token = o THEN n ELSE d.token
        /\ L[k].token = IF e.token = o THEN n ELSE e.token
    BY <1>4, <1>5 DEF Key
  <2>2. Key(d) \in Keys(list) /\ Key(e) \in Keys(list) /\ d.owner \in Account
    BY <1>1, <2>1 DEF Keys, AccountToken
  <2> HIDE DEF d, e
  <2>3. d.token = e.token
    <3>1. ~ (<<o, d.owner>> \in Keys(list) /\ <<n, d.owner>> \in Keys(list))
      BY <2>2
    <3>. QED
      BY <2>1, <2>2, <3>1 DEF Key
  <2>4. from[j] = from[k]
    BY <1>1, <2>1, <2>3 DEF Unique, Key, d, e, m
  <2>. QED
    BY <1>3, <2>4
<1>7. \A k \in 1..m : U[L[k].token] # None
  <2>1. \A k \in 1..m : list[from[k]].token \in Token /\ T[list[from[k]].token] # None
    BY <1>1, <1>4 DEF AccountToken
  <2>. QED
    BY <1>5, <2>1
<1>8. ASSUME NEW i \in 1..m, list[i].token = o PROVE \E k \in 1..m : L[k] = E(list[i])
  <2>1. PICK k \in 1..m : from[k] = i
    BY <1>3
  <2>. QED
    BY <1>4, <1>8, <2>1
<1>9. ASSUME o # n, NEW k \in 1..m PROVE L[k].token # o
  BY <1>5, <1>9
<1>. QED
  BY <1>1, <1>3, <1>6, <1>7, <1>8, <1>9 DEF ListingOK, L

-----------------------------------------------------------------------------
(* The account tokens.                                                      *)

(* The tokens that a call is past are stored, and a worker without a call   *)
(* remembers none.                                                          *)
Past(job, T) ==
  /\ job.at = "idle" => job = NoJob
  /\ job.at \in {"readAsset", "writeAsset"} => job.next = 0
  /\ job.at \in {"readToken", "writeToken"} =>
       \A i \in 1..(job.next - 1) : T[job.update.tokens[i]] # None
  /\ job.at = "mark" =>
       \A i \in 1..Len(job.update.tokens) : T[job.update.tokens[i]] # None

ConsistentInv ==
  /\ IInv
  /\ \A w \in Worker : Past(jobs[w], tokens)
  /\ ListingOK(listing, tokens)
  /\ calls \in 0..MaxCalls

LEMMA TokensGrow ==
  ASSUME IInv, Next, NEW t \in Token, tokens[t] # None
  PROVE  tokens'[t] # None
<1>1. DocsOK(assets, tokens) /\ tokens \in TokenDocs
  BY DEF IInv, DocsOK
<1>2. CASE tokens' = tokens
  BY <1>2
<1>3. CASE \E x \in Token, doc \in TokenDoc : tokens' = [tokens EXCEPT ![x] = doc]
  BY <1>1, <1>3, DocumentAssumption DEF TokenDocs
<1>4. ASSUME NEW w \in Worker, WriteToken(w)
      PROVE  tokens'[t] # None
  <2> DEFINE x == CurrentToken(w)
             u == jobs[w].update
  <2>1. jobs[w].at = "writeToken" /\ jobs[w].at # "idle"
    BY <1>4 DEF WriteToken, At
  <2>2. /\ x \in Token /\ u \in Updates
        /\ jobs[w].read # None => tokens[x] # None
    BY <2>1, CallFacts DEF JobFits, CurrentToken
  <2>3. CASE tokens[x] = None /\ tokens' = [tokens EXCEPT ![x] = NewToken(u)]
    BY <1>1, <1>3, <2>2, <2>3, WrittenToken
  <2>4. CASE tokens[x] # None /\ tokens' = [tokens EXCEPT ![x] = UpdatedToken(tokens[x], u)]
    BY <1>1, <1>3, <2>2, <2>4, WrittenToken
  <2>. QED
    BY <1>2, <1>4, <2>2, <2>3, <2>4 DEF WriteToken
<1>5. ASSUME NEW s \in Swapper, CommitSwap(s)
      PROVE  tokens'[t] # None
  <2> DEFINE o == swapping[s].from
             n == swapping[s].to
             read == swapping[s].read
  <2>1. /\ swapping[s].at = "read"
        /\ tokens' = [tokens EXCEPT ![o] = SwappedAway(tokens[o], n),
                                    ![n] = SwappedIn(read, o, tokens[n])]
    BY <1>5 DEF CommitSwap
  <2>2. /\ o \in Token /\ n \in Token /\ o # n /\ tokens[o] # None /\ read \in TokenDoc
        /\ assets[read.asset] # None
    BY <2>1 DEF IInv, SwapsOK, SwapFits
  <2>3. Grows(assets, assets, tokens, tokens')
    BY <1>1, <2>1, <2>2, TokensSwapped
  <2>. QED
    BY <2>3 DEF Grows
<1>6. ASSUME NEW x \in Token, NEW b \in BOOLEAN, UpdateOwner(x, b)
      PROVE  tokens'[t] # None
  <2> DEFINE doc == [source |-> tokens[x].source, asset |-> tokens[x].asset,
                     burned |-> b, swapped |-> tokens[x].swapped,
                     swappedTo |-> tokens[x].swappedTo,
                     swappedFrom |-> tokens[x].swappedFrom]
  <2>1. tokens[x] # None /\ tokens' = [tokens EXCEPT ![x] = doc]
    BY <1>6 DEF UpdateOwner
  <2>2. doc \in TokenDoc
    BY <1>1, <2>1 DEF TokenDocs, TokenDoc
  <2>. QED
    BY <1>3, <2>1, <2>2
<1>. QED
  BY <1>2, <1>4, <1>5, <1>6
     DEF Next, StartIndex, ReadAsset, WriteAsset, ReadToken, FinishIndex, FailIndex,
         StartSwap, FailSwap, RefreshOwners, StoreThumbnail

LEMMA PastStays ==
  ASSUME IInv, NEW w \in Worker, Past(jobs[w], tokens),
         \A t \in Token : tokens[t] # None => tokens'[t] # None
  PROVE  Past(jobs[w], tokens')
<1>1. CASE jobs[w].at = "idle"
  BY <1>1 DEF Past
<1>2. CASE jobs[w].at # "idle"
  <2> DEFINE u == jobs[w].update
             next == jobs[w].next
  <2>1. u.tokens \in Seq(Token) /\ next \in 0..Len(u.tokens) /\ Len(u.tokens) \in Nat
    BY <1>2, CallFacts
  <2>2. \A i \in 1..Len(u.tokens) : u.tokens[i] \in Token
    BY <2>1
  <2>3. \A i \in 1..(next - 1) : i \in 1..Len(u.tokens)
    BY <2>1
  <2>. QED
    BY <1>2, <2>2, <2>3 DEF Past
<1>. QED
  BY <1>1, <1>2

(* One call goes on while documents are only added. *)
LEMMA PastStep ==
  ASSUME ConsistentInv, NEW w \in Worker, NEW job, Past(job, tokens'),
         jobs' = [jobs EXCEPT ![w] = job],
         \A t \in Token : tokens[t] # None => tokens'[t] # None
  PROVE  \A v \in Worker : Past(jobs'[v], tokens')
<1> TAKE v \in Worker
<1>1. jobs'[v] = IF v = w THEN job ELSE jobs[v]
  BY DEF ConsistentInv, IInv, JobsOK
<1>2. Past(jobs[v], tokens')
  BY PastStays DEF ConsistentInv
<1>. QED
  BY <1>1, <1>2

LEMMA AdvancePast ==
  ASSUME ConsistentInv, NEW w \in Worker, jobs[w].at # "idle", Advance(w),
         \A t \in Token : tokens[t] # None => tokens'[t] # None,
         \A i \in 1..jobs[w].next : tokens'[jobs[w].update.tokens[i]] # None
  PROVE  \A v \in Worker : Past(jobs'[v], tokens')
<1> DEFINE u == jobs[w].update
           n == jobs[w].next
           last == n = Len(u.tokens)
           job == [at |-> IF last THEN "mark" ELSE "readToken", update |-> u,
                   next |-> IF last THEN n ELSE n + 1, read |-> None]
<1>1. jobs' = [jobs EXCEPT ![w] = job]
  BY DEF Advance, SetJob
<1>2. n \in 0..Len(u.tokens) /\ Len(u.tokens) \in Nat
  BY CallFacts DEF ConsistentInv
<1>3. Past(job, tokens')
  <2>1. CASE last
    BY <1>2, <2>1 DEF Past
  <2>2. CASE ~ last
    BY <1>2, <2>2 DEF Past
  <2>. QED
    BY <2>1, <2>2
<1> HIDE DEF job
<1>. QED
  BY <1>1, <1>3, PastStep

LEMMA AbortPast ==
  ASSUME ConsistentInv, NEW w \in Worker, Abort(w),
         \A t \in Token : tokens[t] # None => tokens'[t] # None
  PROVE  \A v \in Worker : Past(jobs'[v], tokens')
<1>1. Past(NoJob, tokens')
  BY DEF Past, NoJob
<1>. QED
  BY <1>1, PastStep DEF Abort

LEMMA CallsPast ==
  ASSUME ConsistentInv, Next, \A t \in Token : tokens[t] # None => tokens'[t] # None
  PROVE  \A v \in Worker : Past(jobs'[v], tokens')
<1>1. ASSUME NEW w \in Worker, NEW u \in Updates, StartIndex(w, u)
      PROVE  \A v \in Worker : Past(jobs'[v], tokens')
  <2> DEFINE job == [at |-> "readAsset", update |-> u, next |-> 0, read |-> None]
  <2>1. Past(job, tokens') /\ jobs' = [jobs EXCEPT ![w] = job]
    BY <1>1 DEF StartIndex, Past
  <2> HIDE DEF job
  <2>. QED
    BY <2>1, PastStep
<1>2. ASSUME NEW w \in Worker, NEW step, NEW read, Go(w, step, read),
             \/ step = "writeAsset" /\ jobs[w].at = "readAsset"
             \/ step = "writeToken" /\ jobs[w].at = "readToken"
      PROVE  \A v \in Worker : Past(jobs'[v], tokens')
  <2> DEFINE job == [at |-> step, update |-> jobs[w].update, next |-> jobs[w].next,
                     read |-> read]
  <2>1. jobs' = [jobs EXCEPT ![w] = job]
    BY <1>2 DEF Go, SetJob
  <2>2. Past(jobs[w], tokens')
    BY PastStays DEF ConsistentInv
  <2>3. Past(job, tokens')
    BY <1>2, <2>2 DEF Past
  <2> HIDE DEF job
  <2>. QED
    BY <2>1, <2>3, PastStep
<1>3. ASSUME NEW w \in Worker, WriteAsset(w)
      PROVE  \A v \in Worker : Past(jobs'[v], tokens')
  <2>1. jobs[w].at = "writeAsset" /\ jobs[w].at # "idle" /\ (Advance(w) \/ Abort(w))
    BY <1>3 DEF WriteAsset, At
  <2>2. jobs[w].next = 0
    BY <2>1 DEF ConsistentInv, Past
  <2>3. \A i \in 1..jobs[w].next : tokens'[jobs[w].update.tokens[i]] # None
    BY <2>2
  <2>. QED
    BY <2>1, <2>3, AdvancePast, AbortPast
<1>4. ASSUME NEW w \in Worker, WriteToken(w)
      PROVE  \A v \in Worker : Past(jobs'[v], tokens')
  <2> DEFINE t == CurrentToken(w)
             u == jobs[w].update
             n == jobs[w].next
  <2>1. /\ jobs[w].at = "writeToken" /\ jobs[w].at # "idle" /\ (Advance(w) \/ Abort(w))
    BY <1>4 DEF WriteToken, At
  <2>2. /\ u \in Updates /\ u.tokens \in Seq(Token) /\ n \in 1..Len(u.tokens)
        /\ Len(u.tokens) \in Nat /\ t = u.tokens[n] /\ t \in Token
        /\ jobs[w].read # None => tokens[t] # None
        /\ DocsOK(assets, tokens) /\ tokens \in TokenDocs
    BY <2>1, CallFacts DEF ConsistentInv, JobFits, CurrentToken, IInv, DocsOK
  <2>3. CASE Advance(w) /\ ~ Abort(w)
    <3>1. tokens'[t] # None
      <4>1. CASE tokens[t] = None
        <5>1. tokens' = [tokens EXCEPT ![t] = NewToken(u)]
          BY <1>4, <2>2, <2>3, <4>1 DEF WriteToken
        <5>2. NewToken(u) \in TokenDoc
          BY <2>2, <4>1, WrittenToken
        <5>. QED
          BY <2>2, <5>1, <5>2, DocumentAssumption DEF TokenDocs
      <4>2. CASE tokens[t] # None
        BY <2>2, <4>2
      <4>. QED
        BY <4>1, <4>2
    <3>2. Past(jobs[w], tokens')
      BY PastStays DEF ConsistentInv
    <3>3. \A i \in 1..(n - 1) : tokens'[u.tokens[i]] # None
      BY <2>1, <3>2 DEF Past
    <3>4. ASSUME NEW i \in 1..n PROVE tokens'[u.tokens[i]] # None
      <4>1. i = n \/ i \in 1..(n - 1)
        BY <2>2
      <4>. QED
        BY <2>2, <3>1, <3>3, <4>1
    <3>. QED
      BY <2>1, <2>3, <3>4, AdvancePast
  <2>. QED
    BY <2>1, <2>3, AbortPast
<1>5. ASSUME NEW w \in Worker, FinishIndex(w) \/ FailIndex(w)
      PROVE  \A v \in Worker : Past(jobs'[v], tokens')
  BY <1>5, AbortPast DEF FinishIndex, FailIndex
<1>6. CASE jobs' = jobs
  BY <1>6, PastStays DEF ConsistentInv
<1>7. ASSUME NEW w \in Worker, ReadAsset(w)
      PROVE  \A v \in Worker : Past(jobs'[v], tokens')
  BY <1>2, <1>7 DEF ReadAsset, At
<1>8. ASSUME NEW w \in Worker, ReadToken(w)
      PROVE  \A v \in Worker : Past(jobs'[v], tokens')
  BY <1>2, <1>8 DEF ReadToken, At
<1>. QED
  BY <1>1, <1>3, <1>4, <1>5, <1>6, <1>7, <1>8
     DEF Next, StartSwap, CommitSwap, FailSwap, UpdateOwner, RefreshOwners, StoreThumbnail

LEMMA ListingStays ==
  ASSUME ListingOK(listing, tokens), UNCHANGED listing,
         \A t \in Token : tokens[t] # None => tokens'[t] # None
  PROVE  ListingOK(listing', tokens')
<1>1. listing \in Seq(AccountToken)
  BY DEF ListingOK
<1>2. \A i \in 1..Len(listing) : listing[i] \in AccountToken
  BY <1>1
<1>3. \A i \in 1..Len(listing) : listing[i].token \in Token
  BY <1>2 DEF AccountToken
<1>. QED
  BY <1>3 DEF ListingOK

(* What a swap does to the list (store.go:500-535). *)
LEMMA SwapMoves ==
  ASSUME ConsistentInv, NEW s \in Swapper, CommitSwap(s),
         \A t \in Token : tokens[t] # None => tokens'[t] # None
  PROVE  LET o == swapping[s].from
             n == swapping[s].to
         IN  /\ o \in Token /\ n \in Token /\ o # n
             /\ ListingOK(listing', tokens')
             /\ \A i \in DOMAIN listing : listing[i].token = o =>
                  \E k \in DOMAIN listing' :
                    listing'[k] = [token |-> n, owner |-> listing[i].owner,
                                   held |-> listing[i].held]
             /\ \A k \in DOMAIN listing' : listing'[k].token # o
<1> DEFINE o == swapping[s].from
           n == swapping[s].to
           read == swapping[s].read
           S == KeysOf({o})
<1>1. /\ swapping[s].at = "read" /\ ~ HoldsBoth(o, n)
      /\ tokens' = [tokens EXCEPT ![o] = SwappedAway(tokens[o], n),
                                  ![n] = SwappedIn(read, o, tokens[n])]
      /\ listing' = Refreshed(listing, S, Moved(n))
  BY DEF CommitSwap, MovedHolders
<1>2. /\ o \in Token /\ n \in Token /\ o # n /\ tokens[o] # None /\ read \in TokenDoc
      /\ assets[read.asset] # None /\ DocsOK(assets, tokens) /\ tokens \in TokenDocs
  BY <1>1 DEF ConsistentInv, IInv, SwapsOK, SwapFits, DocsOK
<1>3. tokens'[n] # None
  <2>1. tokens'[n] = SwappedIn(read, o, tokens[n])
    BY <1>1, <1>2 DEF TokenDocs
  <2>2. tokens[n] # None => tokens[n] \in TokenDoc
    BY <1>2 DEF TokenDocs
  <2>3. SwappedIn(read, o, tokens[n]) \in TokenDoc
    BY <1>2, <2>2 DEF SwappedIn, TokenDoc
  <2>. QED
    BY <2>1, <2>3, DocumentAssumption
<1>4. \A i \in DOMAIN listing : Key(listing[i]) \in S <=> listing[i].token = o
  BY DEF KeysOf, ListedKeys, Keys, Key
<1>5. \A a \in Account : ~ ({<<o, a>>, <<n, a>>} \subseteq Keys(listing))
  BY <1>1 DEF HoldsBoth, ListedKeys
<1>6. ListingOK(listing, tokens)
  BY DEF ConsistentInv
<1> HIDE DEF o, n, S, read
<1>7. /\ ListingOK(Refreshed(listing, S, Moved(n)), tokens')
      /\ \A i \in DOMAIN listing : listing[i].token = o =>
           \E k \in DOMAIN Refreshed(listing, S, Moved(n)) :
             Refreshed(listing, S, Moved(n))[k]
               = [token |-> n, owner |-> listing[i].owner, held |-> listing[i].held]
      /\ o # n => \A k \in DOMAIN Refreshed(listing, S, Moved(n)) :
                    Refreshed(listing, S, Moved(n))[k].token # o
  BY <1>2, <1>3, <1>4, <1>5, <1>6, MoveKeeps
<1>8. /\ ListingOK(listing', tokens')
      /\ \A i \in DOMAIN listing : listing[i].token = o =>
           \E k \in DOMAIN listing' :
             listing'[k] = [token |-> n, owner |-> listing[i].owner, held |-> listing[i].held]
      /\ \A k \in DOMAIN listing' : listing'[k].token # o
  BY <1>1, <1>2, <1>7
<1>. QED
  BY <1>2, <1>8 DEF o, n

LEMMA ListingKept ==
  ASSUME ConsistentInv, Next, \A t \in Token : tokens[t] # None => tokens'[t] # None
  PROVE  ListingOK(listing', tokens')
<1>1. ListingOK(listing, tokens)
  BY DEF ConsistentInv
<1>2. CASE listing' = listing
  BY <1>1, <1>2, ListingStays
<1>3. ASSUME NEW w \in Worker, FinishIndex(w)
      PROVE  ListingOK(listing', tokens')
  <2> DEFINE u == jobs[w].update
             t == u.tokens[1]
  <2>1. jobs[w].at = "mark" /\ jobs[w].at # "idle" /\ tokens' = tokens
    BY <1>3 DEF FinishIndex, At
  <2>2. CASE u.caller = API
    <3>1. listing' = Refreshed(listing, KeysOf({u.tokens[i] : i \in DOMAIN u.tokens}), Same)
      BY <1>3, <2>2 DEF FinishIndex, MarkAccountTokenChanged
    <3>. QED
      BY <1>1, <2>1, <3>1, Changes, RefreshKeeps
  <2>3. CASE u.caller # API
    <3>1. u \in Updates /\ u.tokens \in Seq(Token) /\ u.caller \in Account /\ u.tokens # <<>>
      BY <2>1, <2>3, CallFacts, AssetIndexAssumption DEF ConsistentInv, Update
    <3>2. 1 \in 1..Len(u.tokens) /\ t \in Token
      BY <3>1
    <3>3. tokens[t] # None
      BY <2>1, <3>2 DEF ConsistentInv, Past
    <3>4. IndexAccountToken(t, u.caller)
      BY <1>3, <2>3 DEF FinishIndex
    <3> HIDE DEF t, u
    <3>5. CASE listing' = Upserted(listing, t, u.caller)
      BY <1>1, <2>1, <3>1, <3>2, <3>3, <3>5, UpsertKeeps
    <3>. QED
      BY <1>2, <3>4, <3>5 DEF IndexAccountToken
  <2>. QED
    BY <2>2, <2>3
<1>4. ASSUME NEW t \in Token, NEW o \in Account, RefreshOwners(t, o)
      PROVE  ListingOK(listing', tokens')
  <2> DEFINE rest == Refreshed(listing, KeysOf({t}), Dropped)
  <2>1. tokens[t] # None /\ tokens' = tokens /\ listing' = Upserted(rest, t, o)
    BY <1>4 DEF RefreshOwners, UpdateAccountTokenOwners
  <2>2. ListingOK(rest, tokens)
    BY <1>1, Changes, RefreshKeeps
  <2> HIDE DEF rest
  <2>. QED
    BY <2>1, <2>2, UpsertKeeps
<1>5. ASSUME NEW s \in Swapper, CommitSwap(s)
      PROVE  ListingOK(listing', tokens')
  BY <1>5, SwapMoves
<1>. QED
  BY <1>2, <1>3, <1>4, <1>5
     DEF Next, StartIndex, ReadAsset, WriteAsset, ReadToken, WriteToken, FailIndex, StartSwap,
         FailSwap, UpdateOwner, StoreThumbnail

LEMMA ConsistentInit == Init => ConsistentInv
<1> SUFFICES ASSUME Init PROVE ConsistentInv
  OBVIOUS
<1>1. IInv
  BY InitHolds
<1>2. \A w \in Worker : Past(jobs[w], tokens)
  BY DEF Init, Past, NoJob
<1>3. ListingOK(listing, tokens)
  BY DEF Init, ListingOK, Unique
<1>4. calls \in 0..MaxCalls
  BY AssetIndexAssumption DEF Init
<1>. QED
  BY <1>1, <1>2, <1>3, <1>4 DEF ConsistentInv

LEMMA ConsistentStep == ConsistentInv /\ [Next]_vars => ConsistentInv'
<1> SUFFICES ASSUME ConsistentInv, [Next]_vars PROVE ConsistentInv'
  OBVIOUS
<1>1. IInv'
  BY StepKeeps DEF ConsistentInv
<1>2. CASE Next
  <2>1. \A t \in Token : tokens[t] # None => tokens'[t] # None
    BY <1>2, TokensGrow DEF ConsistentInv
  <2>2. \A w \in Worker : Past(jobs'[w], tokens')
    BY <1>2, <2>1, CallsPast
  <2>3. ListingOK(listing', tokens')
    BY <1>2, <2>1, ListingKept
  <2>4. calls' = calls \/ (calls < MaxCalls /\ calls' = calls + 1)
    BY <1>2 DEF Next, Call, StartIndex, ReadAsset, WriteAsset, ReadToken, WriteToken,
       FinishIndex, FailIndex, StartSwap, CommitSwap, FailSwap, UpdateOwner, RefreshOwners,
       StoreThumbnail
  <2>5. calls' \in 0..MaxCalls
    BY <2>4, AssetIndexAssumption DEF ConsistentInv
  <2>. QED
    BY <1>1, <2>2, <2>3, <2>5 DEF ConsistentInv
<1>3. CASE UNCHANGED vars
  BY <1>1, <1>3 DEF vars, ConsistentInv
<1>. QED
  BY <1>2, <1>3

LEMMA AlwaysConsistent == Spec => []ConsistentInv
  BY ConsistentInit, ConsistentStep, PTL DEF Spec

LEMMA ConsistentHolds == ConsistentInv => Consistent
<1> SUFFICES ASSUME ConsistentInv PROVE Consistent
  OBVIOUS
<1>1. \A t \in Stored(tokens) : t \in Token /\ tokens[t] # None
  BY DEF ConsistentInv, IInv, DocsOK, TokenDocs, Stored
<1>2. LinkedAssetExists
  BY <1>1 DEF LinkedAssetExists, ConsistentInv, IInv, DocsOK, Linked
<1>3. SwapLinks
  BY <1>1 DEF SwapLinks, ConsistentInv, IInv, DocsOK, SwapsLinked, To, From
<1>4. /\ listing \in Seq(AccountToken) /\ DOMAIN listing = 1..Len(listing)
      /\ Unique(listing) /\ \A i \in 1..Len(listing) : tokens[listing[i].token] # None
  BY DEF ConsistentInv, ListingOK
<1>5. ListedTokenExists
  BY <1>4 DEF ListedTokenExists, Listed, Unique
<1>6. ASSUME NEW w \in Worker PROVE JobOK(jobs[w])
  <2>1. /\ Past(jobs[w], tokens) /\ JobFits(jobs[w], assets, tokens) /\ jobs[w] \in Job
    BY DEF ConsistentInv, IInv, JobsOK
  <2>. QED
    BY <2>1 DEF Past, JobFits, JobOK, Job
<1>7. TypeOK
  BY <1>4, <1>6 DEF TypeOK, ConsistentInv, IInv, DocsOK, AssetDocs, TokenDocs
<1>. QED
  BY <1>2, <1>3, <1>5, <1>7 DEF Consistent

(* The whole index is consistent between any two writes, the account tokens *)
(* included: each belongs to a stored token and no account has two of one   *)
(* token, though indexing, refreshes and swaps write them at the same time  *)
(* (store.go:248-546, 1309-1440).                                           *)
THEOREM IndexIsConsistent == Spec => []Consistent
  BY AlwaysConsistent, ConsistentHolds, PTL

(* The holders of the token that a swap replaces, in one step.              *)
HoldersKept ==
  \A o, n \in Token : Swapped(o, n) =>
    \A a \in Account, held \in BOOLEAN :
      [token |-> o, owner |-> a, held |-> held] \in Listed
        => /\ [token |-> n, owner |-> a, held |-> held] \in Listed'
           /\ <<o, a>> \notin ListedKeys'

LEMMA SwapsKeepHolders ==
  ASSUME ConsistentInv, Next
  PROVE  HoldersKept
<1> SUFFICES ASSUME NEW o \in Token, NEW n \in Token, Swapped(o, n),
                    NEW a \in Account, NEW held \in BOOLEAN,
                    [token |-> o, owner |-> a, held |-> held] \in Listed
             PROVE  /\ [token |-> n, owner |-> a, held |-> held] \in Listed'
                    /\ <<o, a>> \notin ListedKeys'
  BY DEF HoldersKept
<1>1. PICK s \in Swapper : /\ swapping[s] # NoSwap /\ swapping'[s] = NoSwap
                           /\ swapping[s].from = o /\ swapping[s].to = n
                           /\ <<tokens, listing>>' # <<tokens, listing>>
  BY DEF Swapped
<1>2. swapping \in [Swapper -> Swap]
  BY DEF ConsistentInv, IInv, SwapsOK
<1>3. swapping' # swapping
  BY <1>1
<1>4. PICK v \in Swapper : CommitSwap(v)
  BY <1>1, <1>3 DEF Next, StartIndex, ReadAsset, WriteAsset, ReadToken, WriteToken, FinishIndex,
     FailIndex, StartSwap, FailSwap, UpdateOwner, RefreshOwners, StoreThumbnail
<1>5. v = s
  BY <1>1, <1>2, <1>4 DEF CommitSwap
<1>6. \A t \in Token : tokens[t] # None => tokens'[t] # None
  BY TokensGrow DEF ConsistentInv
<1>7. /\ o # n
      /\ \A i \in DOMAIN listing : listing[i].token = o =>
           \E k \in DOMAIN listing' :
             listing'[k] = [token |-> n, owner |-> listing[i].owner, held |-> listing[i].held]
      /\ \A k \in DOMAIN listing' : listing'[k].token # o
  BY <1>1, <1>4, <1>5, <1>6, SwapMoves
<1>8. PICK i \in DOMAIN listing : listing[i] = [token |-> o, owner |-> a, held |-> held]
  BY DEF Listed
<1>9. PICK k \in DOMAIN listing' : listing'[k] = [token |-> n, owner |-> a, held |-> held]
  BY <1>7, <1>8
<1>. QED
  BY <1>7, <1>9 DEF Listed, ListedKeys, Keys, Key

(* A swap moves every holder of the original to the new token, with the     *)
(* balance it had, and leaves nobody behind (store.go:500-535).             *)
THEOREM SwapsMoveHolders == Spec => SwapKeepsHolders
<1>1. ConsistentInv /\ [Next]_vars => [HoldersKept]_vars
  BY SwapsKeepHolders
<1>2. [HoldersKept]_vars
        <=> [\A o, n \in Token : Swapped(o, n) =>
               \A a \in Account, held \in BOOLEAN :
                 [token |-> o, owner |-> a, held |-> held] \in Listed
                   => /\ [token |-> n, owner |-> a, held |-> held] \in Listed'
                      /\ <<o, a>> \notin ListedKeys']_vars
  BY DEF HoldersKept
<1>. QED
  BY <1>1, <1>2, AlwaysConsistent, PTL DEF Spec, SwapKeepsHolders
=============================================================================
