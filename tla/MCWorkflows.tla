----------------------------- MODULE MCWorkflows ------------------------------
(***************************************************************************)
(* Small instances of the workflows of the workflow runner: the indexing   *)
(* of an account, of token sales and of exchange rates.  They have nothing *)
(* to do with each other: a behaviour is one of them, as part says.        *)
(***************************************************************************)
EXTENDS AccountIndexing, TokenSales, ExchangeRates

CONSTANTS t1, t2, t3, buyer, market, proxy, seller, fees, wallet, none, a, b, e

MCNFTs == <<a, e, b>>

MCPairs == <<"ETH-USD", "XTZ-USD">>

-----------------------------------------------------------------------------
(* Payments: all sequences of two among these, and longer ones by hand. *)
Pay(from, to, amount) == [contract |-> "weth", from |-> from, to |-> to, amount |-> amount]
OneStep == {Pay(from, to, amount) : from \in {buyer, market, proxy, fees},
              to \in {market, proxy, seller, fees, wallet}, amount \in {1, 40}}
TwoSteps == [1..2 -> OneStep]
ByHand == {
  <<Pay(buyer, market, 80), Pay(market, proxy, 80), Pay(proxy, fees, 1), Pay(proxy, seller, 79)>>,
  <<Pay(market, proxy, 40), Pay(proxy, seller, 40), Pay(seller, proxy, 40), Pay(proxy, wallet, 40)>>,
  <<Pay(proxy, seller, 40), Pay(market, proxy, 40)>>,
  <<Pay(market, wallet, 40), Pay(wallet, seller, 39)>>}

Move(token, from, to, amount) == [token |-> token, from |-> from, to |-> to, amount |-> amount]
Sold == <<Move(a, seller, market, 1), Move(a, market, buyer, 1)>>
Bundle == Sold \o <<Move(b, seller, buyer, 1)>>

Receipt(to, erc20, internal, moves) ==
  [ok |-> TRUE, to |-> to, eth |-> internal # <<>> /\ erc20 = <<>>,
   erc20 |-> erc20, internal |-> internal, moves |-> moves]
Plain == Receipt(market, <<>>, <<Pay(market, seller, 40)>>, Sold)
NoSales == {[Plain EXCEPT !.ok = FALSE], [Plain EXCEPT !.to = none],
            [Plain EXCEPT !.moves = <<Move(a, seller, buyer, 2)>>],
            [Plain EXCEPT !.erc20 = <<Pay(buyer, seller, 1)>>],
            [Plain EXCEPT !.eth = FALSE, !.erc20 =
               <<Pay(buyer, seller, 1), [Pay(buyer, seller, 1) EXCEPT !.contract = "usdc"]>>],
            Receipt(proxy, <<Pay(buyer, seller, 1)>>, <<>>, Bundle)}

Blocks(receipts, list) ==
  [blockchain |-> "ethereum", content |-> receipts, list |-> list]
EthereumPayments ==
  {Blocks([t \in Tx |-> Receipt(market, <<>>, pays, Sold)], <<{t1}>>) : pays \in TwoSteps \cup ByHand}
  \cup {Blocks([t \in Tx |-> Receipt(proxy, SubSeq(pays, 1, 2), SubSeq(pays, 3, Len(pays)), Bundle)],
               <<{t1}>>) : pays \in ByHand}
EthereumBlocks == {Blocks((t1 :> Plain) @@ (t2 :> Plain) @@ (t3 :> other),
                          <<{t1}, {}, {t2, t3}>>) : other \in NoSales}

Op(kind, from, to, amount) == [kind |-> kind, applied |-> TRUE, token |-> a,
                               from |-> from, to |-> to, amount |-> amount]
TezosSale == <<Op("sale", buyer, market, 0), Op("transfer", seller, buyer, 1),
               Op("pay", buyer, proxy, 80), Op("pay", proxy, fees, 2), Op("pay", market, seller, 78)>>
TezosOthers == {<<Op("sale", buyer, market, 0)>>, Tail(TezosSale),
                [TezosSale EXCEPT ![3].applied = FALSE],
                [TezosSale EXCEPT ![3].kind = "coins"]}
TezosLists == {[blockchain |-> "tezos", list |-> <<{t1}, {t2}, {t1}, {t3}>>,
                content |-> (t1 :> TezosSale) @@ (t2 :> TezosSale) @@ (t3 :> other)] :
                  other \in TezosOthers \cup {TezosSale}}

MCChain == EthereumPayments \cup EthereumBlocks \cup TezosLists
FirstChain == CHOOSE c \in EthereumBlocks : TRUE

-----------------------------------------------------------------------------
VARIABLE part

(* Where the many payments are tried, on a list of one block, nothing fails *)
(* and nobody but the scan starts a workflow.                               *)

MCInit ==
  /\ part \in {"account", "sales", "rates"}
  /\ Init /\ SalesInit /\ RatesInit
  /\ part # "account" => blockchain = "tezos"
  /\ part # "sales" => chain = FirstChain

MCNext ==
  \/ part = "account" /\ Next /\ UNCHANGED <<part, salesVars, ratesVars>>
  \/ /\ part = "sales" /\ SalesNext /\ UNCHANGED <<part, vars, ratesVars>>
     /\ Len(List) = 1 => starts' = 0 /\ salesFaults' = 0
  \/ part = "rates" /\ RatesNext /\ UNCHANGED <<part, vars, salesVars>>

MCSpec ==
  /\ MCInit /\ [][MCNext]_<<part, vars, salesVars, ratesVars>>
  /\ Fairness
=============================================================================
