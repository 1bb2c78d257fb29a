----------------------------- MODULE ExchangeRates -----------------------------
(***************************************************************************)
(* The exchange rates of currency pairs.  A cron workflow asks for the     *)
(* candles from the latest stored one, of whatever pair, until now.  It    *)
(* cuts the time into windows and asks for every pair and window in a      *)
(* workflow of its own, a batch of them at a time; the first one that      *)
(* fails ends the run, and the next run starts from the latest candle      *)
(* again.  Time is counted in candles.                                     *)
(***************************************************************************)
EXTENDS Integers, Sequences, FiniteSets

CONSTANTS
  Pair,        \* currency pairs
  Pairs,       \* the pairs, as a sequence
  Window,      \* candles of a request (maxCandlesPerRequest, 300)
  ChunkSize,   \* requests that run at once (chunkSize, 25)
  MaxTime,     \* bound: the time
  MaxFailures  \* bound: requests and runs that fail

ASSUME RatesAssumption ==
  /\ Pairs \in Seq(Pair) /\ Pair = {Pairs[i] : i \in DOMAIN Pairs}
  /\ Pair # {} /\ {Window, ChunkSize} \subseteq Nat \ {0}
  /\ {MaxTime, MaxFailures} \subseteq Nat

VARIABLES
  now,       \* the latest candle of the exchange
  rates,     \* historical_exchange_rates: pairs and times
  requests,  \* the requests of the run that have not been sent
  sent,      \* the requests of the batch that runs
  crawling,  \* whether a run is in progress
  failures,  \* failures so far
  failed     \* history: the requests of the runs that failed

ratesVars == <<now, rates, requests, sent, crawling, failures, failed>>

Times == 0..MaxTime
Request == [pair : Pair, start : Times, end : Times]

(* An operator has stored the first candle of every pair. *)
RatesInit ==
  /\ now = 0
  /\ rates = Pair \X {0}
  /\ requests = <<>>
  /\ sent = {}
  /\ crawling = FALSE
  /\ failures = 0
  /\ failed = {}

StoredTimes(pair) == {time \in Times : <<pair, time>> \in rates}

NextCandle ==
  /\ now < MaxTime
  /\ now' = now + 1
  /\ UNCHANGED <<rates, requests, sent, crawling, failures, failed>>

(* A mutant: the candle after the latest one. *)
GetExchangeRateLastTime_Mut ==
  LET times == UNION {StoredTimes(pair) : pair \in Pair}
  IN  1 + CHOOSE time \in times : \A other \in times : other <= time

GetExchangeRateLastTime ==
  LET times == UNION {StoredTimes(pair) : pair \in Pair}
  IN  CHOOSE time \in times : \A other \in times : other <= time

(* The requests, window by window, and in a window pair by pair. *)
RequestsFrom(start, end) ==
  LET windows == (end - start + Window - 1) \div Window
      n == Len(Pairs)
      WindowStart(i) == start + ((i - 1) \div n) * Window
      WindowEnd(i) == IF WindowStart(i) + Window > end THEN end ELSE WindowStart(i) + Window
  IN  [i \in 1..(windows * n) |->
         [pair |-> Pairs[((i - 1) % n) + 1], start |-> WindowStart(i), end |-> WindowEnd(i)]]

(* The cron starts no run while one is in progress. *)
CrawlHistoricalExchangeRate ==
  /\ ~crawling
  /\ GetExchangeRateLastTime < now
  /\ requests' = RequestsFrom(GetExchangeRateLastTime, now)
  /\ crawling' = TRUE
  /\ UNCHANGED <<now, rates, sent, failures, failed>>

Batched == IF Len(requests) < ChunkSize THEN Len(requests) ELSE ChunkSize

SendBatch ==
  /\ crawling /\ sent = {} /\ requests # <<>>
  /\ sent' = {requests[i] : i \in 1..Batched}
  /\ requests' = SubSeq(requests, Batched + 1, Len(requests))
  /\ UNCHANGED <<now, rates, crawling, failures, failed>>

(* CrawlExchangeRateByCurrencyPair fetches and writes; the exchange answers  *)
(* with the candles of the window, its end included or not.                  *)
CrawlExchangeRateByCurrencyPair(request) ==
  /\ request \in sent
  /\ \E last \in {request.end - 1, request.end} :
       rates' = rates \cup ({request.pair} \X (request.start..last))
  /\ sent' = sent \ {request}
  /\ UNCHANGED <<now, requests, crawling, failures, failed>>

EndCrawl ==
  /\ crawling /\ sent = {} /\ requests = <<>>
  /\ crawling' = FALSE
  /\ UNCHANGED <<now, rates, requests, sent, failures, failed>>

(* A request fails, perhaps with its latest candles written, or the run      *)
(* takes longer than five minutes: what runs is terminated and what was not  *)
(* sent is not asked for.                                                    *)
FailCrawl ==
  /\ crawling /\ failures < MaxFailures
  /\ failures' = failures + 1
  /\ failed' = failed \cup sent \cup {requests[i] : i \in DOMAIN requests}
  /\ requests' = <<>>
  /\ sent' = {}
  /\ crawling' = FALSE
  /\ \/ UNCHANGED rates
     \/ \E request \in sent : \E first \in request.start..request.end :
          rates' = rates \cup ({request.pair} \X (first..request.end))
  /\ UNCHANGED now

RatesNext ==
  \/ NextCandle
  \/ CrawlHistoricalExchangeRate \/ SendBatch \/ EndCrawl \/ FailCrawl
  \/ \E request \in sent : CrawlExchangeRateByCurrencyPair(request)

RatesSpec == RatesInit /\ [][RatesNext]_ratesVars

-----------------------------------------------------------------------------
(* The rate that is used for a time: the closest of the latest before it and *)
(* the earliest after it, the former when they are as close.                 *)

None == -1
Latest(times) ==
  IF times = {} THEN None ELSE CHOOSE t \in times : \A other \in times : other <= t
Earliest(times) ==
  IF times = {} THEN None ELSE CHOOSE t \in times : \A other \in times : other >= t

Before(pair, time) == {t \in StoredTimes(pair) : t <= time}
After(pair, time) == {t \in StoredTimes(pair) : t >= time}

(* A mutant: the sort order of the later rates is that of the earlier ones. *)
GetHistoricalExchangeRate_Mut(pair, time) ==
  LET lower == Latest(Before(pair, time))
      greater == Latest(After(pair, time))
  IN  IF lower = None THEN greater
      ELSE IF greater = None \/ time - lower <= greater - time THEN lower
      ELSE greater

GetHistoricalExchangeRate(pair, time) ==
  LET lower == Latest(Before(pair, time))
      greater == Earliest(After(pair, time))
  IN  IF lower = None THEN greater
      ELSE IF greater = None \/ time - lower <= greater - time THEN lower
      ELSE greater

Distance(s, t) == IF s < t THEN t - s ELSE s - t
Covers(request, pair, time) == request.pair = pair /\ time \in request.start..request.end

-----------------------------------------------------------------------------
(* INVARIANT.  There is no gap before the latest candle but those that a    *)
(* failed run left: a candle is stored, asked for, or was asked for by a    *)
(* run that failed; windows leave nothing between them, and a run starts    *)
(* where every pair is stored although it looks at the latest of all        *)
(* (CrawlHistoricalExchangeRate).                                           *)
NoGapWithoutFailure ==
  \A pair \in Pair : \A time \in 0..(GetExchangeRateLastTime - 1) :
    \/ <<pair, time>> \in rates
    \/ \E request \in failed \cup sent \cup {requests[i] : i \in DOMAIN requests} :
         Covers(request, pair, time)

(* INVARIANT.  No stored rate of the pair is closer to the time asked for,  *)
(* whatever gaps there are.                                                 *)
ClosestRate == \A pair \in Pair, time \in Times :
  LET used == GetHistoricalExchangeRate(pair, time)
  IN  \A other \in StoredTimes(pair) : Distance(used, time) <= Distance(other, time)
=============================================================================
