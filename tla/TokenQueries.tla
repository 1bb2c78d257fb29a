----------------------------- MODULE TokenQueries -----------------------------
(***************************************************************************)
(* The read side of the asset and token index: the queries of store.go     *)
(* that the API answers with, as operators on the documents of AssetIndex. *)
(* A list is put together from pages: account tokens are fetched a page at *)
(* a time, each page is joined with the tokens and their assets, and what  *)
(* is hidden (burned, of another source) drops out of it.                  *)
(***************************************************************************)
EXTENDS AssetIndex, SequencesExt, FiniteSetsExt

CONSTANTS
  QueryPageSize,  \* documents fetched by one query (25 in the code)
  BatchSize,      \* index ids of one ownership check (25 in the code)
  MaxSize         \* bound: sizes and offsets asked for

ASSUME QueryAssumption ==
  /\ {QueryPageSize, BatchSize} \subseteq Nat \ {0}
  /\ MaxSize \in Nat \ {0}

AnySource == None

(* Go's s[offset : min(offset + size, len)].  Of ids, an offset past the    *)
(* end panics: no caller here passes one.  Of account tokens it is the skip *)
(* of the query, empty past the end.                                        *)
Slice(s, offset, size) ==
  SubSeq(s, offset + 1, IF offset + size > Len(s) THEN Len(s) ELSE offset + size)


getPageCounts(length, pageSize) ==
  length \div pageSize + (IF length % pageSize # 0 THEN 1 ELSE 0)

Pages(s, pageSize) ==
  [i \in 1..getPageCounts(Len(s), pageSize) |-> Slice(s, (i - 1) * pageSize, pageSize)]

(* The view token_assets joins a token with its asset and drops a token     *)
(* without one.                                                             *)
InView(t, source, burnedIncluded) ==
  /\ tokens[t] # None
  /\ assets[tokens[t].asset] # None
  /\ burnedIncluded \/ ~ tokens[t].burned
  /\ source \in {AnySource, AssetSource[tokens[t].asset]}

(* The tokens of one query, each once, in the order they were asked for. *)
getDetailedTokensV2InView(ids, source) ==
  LET found == {i \in DOMAIN ids : /\ InView(ids[i], source, FALSE)
                                   /\ \A j \in 1..(i - 1) : ids[j] # ids[i]}
      order == SetToSortSeq(found, <)
  IN  [k \in DOMAIN order |-> ids[order[k]]]

GetDetailedTokensV2(ids, source, offset, size) ==
  LET pages == Pages(Slice(ids, offset, size), QueryPageSize)
  IN  FlattenSeq([i \in DOMAIN pages |-> getDetailedTokensV2InView(pages[i], source)])

(* GetDetailedTokens by ids, as the set of tokens it returns. *)
GetDetailedTokens(ids, source, burnedIncluded) ==
  LET pages == Pages(ids, QueryPageSize)
  IN  {t \in UNION {ToSet(pages[i]) : i \in DOMAIN pages} :
         InView(t, source, burnedIncluded)}

AccountTokens(owners) ==
  LET Theirs(entry) == entry.owner \in owners IN SelectSeq(listing, Theirs)

IndexIDs(entries) == [i \in DOMAIN entries |-> entries[i].token]

(* The offset is applied to the entries fetched when no source is given,    *)
(* and to the entries that are left when one is.  Pages are fetched until   *)
(* one is empty or the tokens found reach the size that is expected.        *)
FirstFetched(source, offset) == IF source = AnySource THEN offset ELSE 0

(* A mutant: the entries that will be skipped are not counted. *)
ExpectedSize_Mut(source, offset, size) == size

ExpectedSize(source, offset, size) ==
  IF source = AnySource THEN size ELSE offset + size

(* A mutant: the offset is applied to what is left as well. *)
Skipped_Mut(source, offset) == offset

Skipped(source, offset) == IF source = AnySource THEN 0 ELSE offset

GetDetailedAccountTokensByOwners(owners, source, offset, size) ==
  LET all == AccountTokens(owners)
      first == FirstFetched(source, offset)
      Page(k) == Slice(all, first + k * QueryPageSize, QueryPageSize)
      Details(k) == LET ids == IndexIDs(Page(k))
                    IN  GetDetailedTokensV2(ids, source, 0, Len(ids))
      Found(k) == FlattenSeq([i \in 1..(k + 1) |-> Details(i - 1)])
      Enough(k) == Len(Found(k)) >= ExpectedSize(source, offset, size)
      last == Min({k \in 0..Len(all) : Page(k) = <<>> \/ Enough(k)})
      InMap(entry) == entry.token \in ToSet(Found(last))
      entries == SelectSeq(Slice(all, first, (last + 1) * QueryPageSize), InMap)
  IN  Slice(entries, Skipped(source, offset), size)

checkAddressOwnTokenHasIndexID(address, t) ==
  [token |-> t, owner |-> address, held |-> TRUE] \in Listed

checkAddressOwnTokenInSource(address, source) ==
  LET Owned(entry) == entry.owner = address /\ entry.held
      batches == Pages(IndexIDs(SelectSeq(listing, Owned)), BatchSize)
  IN  \E i \in DOMAIN batches : \E t \in ToSet(batches[i]) :
        tokens[t] # None /\ tokens[t].source = source

(* QueryNFTsV2 sends what it asked for and did not get to be indexed. *)
IndexMissingTokens(ids, offset, size) ==
  IF Len(ids) > Len(GetDetailedTokensV2(ids, AnySource, offset, size))
    THEN ToSet(ids) \ ToSet(GetDetailedTokensV2(ids, AnySource, offset, size))
    ELSE {}

-----------------------------------------------------------------------------
Visible(owners, source) ==
  LET Shown(entry) == InView(entry.token, source, FALSE)
  IN  SelectSeq(AccountTokens(owners), Shown)

Owners == SUBSET Account \ {{}}

(* A list that is filtered by source is cut exactly (store.go:1584-1688):   *)
(* offset and size count the entries of that source, whatever lies on the   *)
(* pages in between and however often a token occurs.                       *)
SourcePagesExact ==
  \A owners \in Owners, source \in Source, offset \in 0..MaxSize, size \in 1..MaxSize :
    GetDetailedAccountTokensByOwners(owners, source, offset, size)
      = Slice(Visible(owners, source), offset, size)

(* A client that reads a list without a source filter in steps of size      *)
(* meets every entry that is shown, although entries that are hidden count  *)
(* for the offset and not for the size (it may meet an entry twice).        *)
PagingMissesNothing ==
  \A owners \in Owners, size \in 1..MaxSize :
    ToSet(Visible(owners, AnySource)) \subseteq
      UNION {ToSet(GetDetailedAccountTokensByOwners(owners, AnySource, k * size, size))
               : k \in 0..Len(listing)}

(* The two criteria of CheckAddressOwnTokenByCriteria (store.go:1887-1975)  *)
(* agree: an address owns a token of a source, by batches, exactly if it    *)
(* owns one of that source by its index id.                                 *)
CriteriaAgree ==
  \A address \in Account :
    checkAddressOwnTokenInSource(address, FeralFile) <=>
      \E t \in Token : /\ tokens[t] # None
                       /\ tokens[t].source = FeralFile
                       /\ checkAddressOwnTokenHasIndexID(address, t)

(* A stored token is found by its id (store.go:617-657, 1701-1785) in every *)
(* query, however the ids are paged, and is not sent to be indexed again.   *)
(* A burned one is hidden and is, whenever it is asked for.                 *)
StoredIsFound ==
  \A s, t \in Token :
    LET ids == <<s, t>>
        shown == {x \in {s, t} : tokens[x] # None /\ ~ tokens[x].burned}
    IN  /\ GetDetailedTokens(ids, AnySource, TRUE) = {s, t} \cap Stored(tokens)
        /\ GetDetailedTokens(ids, AnySource, FALSE) = shown
        /\ IndexMissingTokens(ids, 0, Len(ids)) = {s, t} \ shown

=============================================================================
