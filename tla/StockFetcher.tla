---------------------------- MODULE StockFetcher ----------------------------
(***************************************************************************)
(* The fetcher's thread (src/ingestion/stock_fetcher.{hpp,cpp}):           *)
(* start_polling() asks for the quote of one ticker after the other, keeps *)
(* the API's rate limit in between, and sleeps from cycle to cycle.  Time  *)
(* is in seconds: Tick is a second that passes in a request or a sleep,    *)
(* the code between them takes none.                                       *)
(***************************************************************************)
EXTENDS Integers

CONSTANTS Tickers,        \* how many are watched; 10
          RateLimit,      \* ALPHA_VANTAGE_RATE_LIMIT_MS; 20
          RequestTimeout, \* CURLOPT_TIMEOUT; 10
          Interval        \* of the cycles; 60

ASSUME TimeAssumption ==
  Tickers \in Nat /\ {RateLimit, RequestTimeout, Interval} \subseteq Nat \ {0}

VARIABLES
  place,     \* where the thread is
  ticker,    \* the index in tickers_ that fetch_alpha_vantage() is at
  chunk,     \* i of the sleep between the cycles
  timer,     \* seconds left of the request or the sleep
  running_,
  silence,   \* seconds without a request, up to RateLimit
  usable,    \* did the last request give a tick?
  stopping   \* history: seconds since stop(), while the thread goes on

vars == <<place, ticker, chunk, timer, running_, silence, usable, stopping>>

Init ==
  /\ place = "idle" /\ ticker = 1 /\ chunk = 0 /\ timer = 0 /\ running_ = FALSE
  /\ silence = RateLimit /\ usable = TRUE /\ stopping = 0

Sleeping == place \in {"delay", "pause"}

\* In the worst case a request and the delay after it.
StopTime == RequestTimeout + RateLimit

\* A second passes.
Tick ==
  /\ (place = "request" \/ Sleeping) /\ timer > 0
  /\ timer' = timer - 1
  /\ silence' = IF Sleeping /\ silence < RateLimit THEN silence + 1 ELSE silence
  /\ stopping' = IF running_ \/ stopping > StopTime THEN stopping ELSE stopping + 1
  /\ UNCHANGED <<place, ticker, chunk, running_, usable>>

\* stop(), from any thread.
Stop ==
  /\ running_
  /\ running_' = FALSE
  /\ UNCHANGED <<place, ticker, chunk, timer, silence, usable, stopping>>

-----------------------------------------------------------------------------
(* fetch_alpha_vantage().                                                  *)

\* Mutation: the loop over the tickers does not look at running_.
MayRequest_Always == TRUE
MayRequest == running_

\* The head of the loop over the tickers.
NextTicker ==
  /\ place = "ticker"
  /\ IF ticker =< Tickers /\ MayRequest
       THEN place' = "request" /\ timer' = RequestTimeout
       ELSE place' = "rest" /\ UNCHANGED timer
  /\ UNCHANGED <<ticker, chunk, running_, silence, usable, stopping>>

\* Mutation: the first ticker is the one without a delay after it.
LastTicker_First == 1
LastTicker == Tickers

\* http_get() and the parsers give a tick, which goes to the callback.
GoodResponse ==
  /\ place = "request"
  /\ usable' = TRUE /\ silence' = 0
  /\ IF ticker # LastTicker
       THEN place' = "delay" /\ timer' = RateLimit /\ UNCHANGED ticker
       ELSE place' = "ticker" /\ timer' = 0 /\ ticker' = ticker + 1
  /\ UNCHANGED <<chunk, running_, stopping>>

Delayed ==
  /\ place = "delay" /\ timer = 0
  /\ place' = "ticker" /\ ticker' = ticker + 1
  /\ UNCHANGED <<chunk, timer, running_, silence, usable, stopping>>

\* Mutation: a ticker without a quote ends the cycle.
AfterFailure_Break == "rest"
AfterFailure == "ticker"

\* No answer in time, a status that is not 2xx, an empty body, no JSON, the
\* API's note that its limit is hit, a missing field: the five continues.
UnusableResponse ==
  /\ place = "request"
  /\ usable' = FALSE /\ silence' = 0 /\ timer' = 0
  /\ place' = AfterFailure /\ ticker' = ticker + 1
  /\ UNCHANGED <<chunk, running_, stopping>>

\* A field that is not a string, or not a number in a string, throws out of
\* the thread, and the process terminates.
BadField ==
  /\ place = "request" /\ place' = "dead"
  /\ UNCHANGED <<ticker, chunk, timer, running_, silence, usable, stopping>>

-----------------------------------------------------------------------------
(* start_polling().                                                        *)

StartPolling ==
  /\ place = "idle"
  /\ running_' = TRUE /\ place' = "cycle"
  /\ UNCHANGED <<ticker, chunk, timer, silence, usable, stopping>>

Cycle ==
  /\ place = "cycle"
  /\ IF running_ THEN place' = "ticker" /\ ticker' = 1
                 ELSE place' = "over" /\ UNCHANGED ticker
  /\ UNCHANGED <<chunk, timer, running_, silence, usable, stopping>>

\* The sleep between the cycles, one second at a time.
Rest ==
  /\ place = "rest"
  /\ IF chunk < Interval /\ running_
       THEN place' = "pause" /\ timer' = 1 /\ UNCHANGED chunk
       ELSE place' = "cycle" /\ chunk' = 0 /\ UNCHANGED timer
  /\ UNCHANGED <<ticker, running_, silence, usable, stopping>>

Wake ==
  /\ place = "pause" /\ timer = 0
  /\ place' = "rest" /\ chunk' = chunk + 1
  /\ UNCHANGED <<ticker, timer, running_, silence, usable, stopping>>

-----------------------------------------------------------------------------
ThreadStep == \/ StartPolling \/ Cycle \/ Rest \/ Wake
              \/ NextTicker \/ GoodResponse \/ Delayed \/ UnusableResponse

Next == Tick \/ Stop \/ ThreadStep \/ BadField

Spec == Init /\ [][Next]_vars

\* Time passes and the thread goes on; nobody need call stop().
FairSpec == Spec /\ WF_vars(Tick \/ ThreadStep)

-----------------------------------------------------------------------------
TypeOK ==
  /\ place \in {"idle", "cycle", "ticker", "request", "delay", "rest",
                "pause", "over", "dead"}
  /\ ticker \in 1 .. Tickers + 1 /\ chunk \in 0 .. Interval
  /\ timer \in 0 .. (RateLimit + RequestTimeout)
  /\ running_ \in BOOLEAN /\ usable \in BOOLEAN
  /\ silence \in 0 .. RateLimit /\ stopping \in Nat

(***************************************************************************)
(* "Min delay between Alpha Vantage requests to stay within rate limits"   *)
(* (stock_fetcher.hpp): a request comes at least RateLimit seconds after   *)
(* the end of the one before, in the same cycle or in the last, unless     *)
(* that one gave no tick: then the next may follow at once, also when the  *)
(* API had just said that its limit is hit.                                *)
(***************************************************************************)
RateKept ==
  /\ TypeOK
  /\ place = "request" /\ usable => silence >= RateLimit

(***************************************************************************)
(* The pause between cycles is slept in chunks "so stop() is responsive":  *)
(* after stop() the thread goes on for a request and the delay after it at *)
(* the most, whatever it was doing.                                        *)
(***************************************************************************)
StopIsPrompt == place \notin {"over", "dead"} => stopping =< StopTime

(***************************************************************************)
(* Unless stop() is called or a response throws, the quote of every ticker *)
(* is asked for again and again, whatever the others' responses are.       *)
(***************************************************************************)
EveryTickerTried ==
  \A k \in 1 .. Tickers :
    \/ []<>(place = "request" /\ ticker = k)
    \/ <>(place = "over" \/ place = "dead")
=============================================================================
