----------------------- MODULE SparkRestClient_proofs -----------------------
(***************************************************************************)
(* For any interval, deadline and request timeout, and whatever the master *)
(* answers: submit_and_wait() returns within an interval and a request of  *)
(* its deadline, what it returns is true of the job, and an end of the job *)
(* is noticed in time.                                                     *)
(* And of the fetcher, for any number of tickers and any limits: it keeps  *)
(* the rate limit as long as its cycles are no shorter than the limit, and *)
(* stops within a request and a delay.                                     *)
(***************************************************************************)
EXTENDS SparkRestClient, TLAPS

\* The deadline was not over when the current sleep began, and the time spent
\* since then with what is still to wait is that of a sleep and a request.
DeadlineInv ==
  /\ place = "post" => elapsed = 0 /\ timer =< RequestTimeout
  /\ place = "sleep" => timer =< PollInterval /\ elapsed + timer < Timeout + PollInterval
  /\ place = "status" => /\ timer =< RequestTimeout
                         /\ elapsed + timer < Timeout + PollInterval + RequestTimeout
  /\ elapsed < Timeout + PollInterval + RequestTimeout

\* A job is polled only once it was created, and does not change once it has
\* ended: what the master was asked about is still so when it answers.
JobInv ==
  /\ place = "post" => job = "none"
  /\ place \in {"sleep", "status"} => job # "none"
  /\ place = "status" /\ asked \in Ends => job = asked
  /\ place = "status" => asked # "none"

\* What was not noticed of the end of the job, in the request in which it came
\* about, in the sleep after it and in the request that brings it.
NoticeInv ==
  /\ job \notin Ends => noticed = 0
  /\ place = "sleep" /\ job \in Final => noticed + timer =< RequestTimeout + PollInterval
  /\ place = "status" /\ job \in Final =>
       noticed + timer =< IF asked \in Final THEN NoticeTime ELSE RequestTimeout

LEMMA Bounds ==
  /\ PollInterval \in Nat /\ PollInterval > 0
  /\ Timeout \in Nat /\ Timeout > 0
  /\ RequestTimeout \in Nat /\ RequestTimeout > 0
<1>1. {PollInterval, Timeout, RequestTimeout} \subseteq {n \in Nat : n # 0}
  BY TimeAssumption
<1>. QED BY <1>1

-----------------------------------------------------------------------------
\* What the actions that set result do, its fields taken apart.

LEMMA InitFacts ==
  ASSUME Init
  PROVE  /\ place = "idle" /\ timer = 0 /\ elapsed = 0 /\ headers = "none"
         /\ result.status = "unset" /\ result.success \in BOOLEAN /\ ~result.success
         /\ job = "none" /\ asked = "none" /\ noticed = 0
BY Zenon DEF Init

LEMMA SubmitFacts ==
  ASSUME Submit
  PROVE  /\ place = "idle"
         /\ place' = "post" /\ timer' = RequestTimeout /\ headers' = "set"
         /\ job' = "none" /\ noticed' = 0 /\ elapsed' = 0 /\ asked' = asked
         /\ result'.status = "unset"
         /\ result'.success \in BOOLEAN /\ ~result'.success
BY Zenon DEF Submit

LEMMA ReturnFacts ==
  ASSUME NEW status, NEW success, Return(status, success)
  PROVE  /\ place' = "idle" /\ timer' = 0
         /\ result'.status = status /\ result'.success = success
BY Zenon DEF Return

\* The submission went well and is followed by the first sleep, or it did not.
LEMMA SubmissionFacts ==
  ASSUME SubmissionResponse
  PROVE  /\ place = "post" /\ headers' = "freed"
         /\ UNCHANGED <<elapsed, asked, noticed>> /\ result'.success \in BOOLEAN
         /\ \/ /\ job' = "running" /\ place' = "sleep" /\ timer' = PollInterval
               /\ result'.success
            \/ /\ job' \in {"none", "running"} /\ place' = "idle" /\ timer' = 0
               /\ result'.status = "failed" /\ result'.success = FALSE
<1>1. /\ place = "post" /\ headers' = "freed"
      /\ UNCHANGED <<elapsed, asked, noticed>>
  BY Zenon DEF SubmissionResponse
<1>2. PICK answer \in {"accepted", "rejected", "unread"} :
        /\ job' \in JobAfter(answer)
        /\ \/ /\ answer = "accepted"
              /\ place' = "sleep" /\ timer' = PollInterval
              /\ result' = [status |-> "submitted", success |-> TRUE]
           \/ answer # "accepted" /\ Return("failed", FALSE)
  BY Zenon DEF SubmissionResponse
<1>3. JobAfter(answer) \subseteq {"none", "running"}
      /\ (answer = "accepted" => JobAfter(answer) = {"running"})
  BY DEF JobAfter
<1>4. CASE answer = "accepted"
  <2>1. /\ place' = "sleep" /\ timer' = PollInterval
        /\ result' = [status |-> "submitted", success |-> TRUE]
    BY <1>2, <1>4, Zenon
  <2>2. result'.success = TRUE
    BY <2>1, Zenon
  <2>. QED BY <1>1, <1>2, <1>3, <1>4, <2>1, <2>2, Zenon
<1>5. CASE answer # "accepted"
  <2>1. Return("failed", FALSE)
    BY <1>2, <1>5, Zenon
  <2>2. /\ place' = "idle" /\ timer' = 0
        /\ result'.status = "failed" /\ result'.success = FALSE
    BY <2>1, ReturnFacts, Zenon
  <2>. QED BY <1>1, <1>2, <1>3, <2>2, Zenon
<1>. QED BY <1>4, <1>5

\* The loop after a status: it returns the final one, gives up, or sleeps.
LEMMA GoOnFacts ==
  ASSUME NEW status, GoOn(status)
  PROVE  /\ result'.success \in BOOLEAN
         /\ \/ /\ status \in Final /\ place' = "idle" /\ timer' = 0
               /\ result'.status = status
               /\ (result'.success <=> status = "FINISHED")
            \/ /\ status \notin Final /\ elapsed >= Timeout /\ place' = "idle" /\ timer' = 0
               /\ result'.status = "timeout" /\ ~result'.success
            \/ /\ status \notin Final /\ ~(elapsed >= Timeout)
               /\ place' = "sleep" /\ timer' = PollInterval
               /\ (result'.success <=> status = "FINISHED")
<1>1. CASE status \in Final /\ Return(status, Success(status))
  BY <1>1, ReturnFacts, Zenon DEF Success
<1>2. CASE status \notin Final /\ TimedOut /\ Return("timeout", FALSE)
  BY <1>2, ReturnFacts, Zenon DEF TimedOut
<1>3. CASE /\ status \notin Final /\ ~TimedOut
           /\ place' = "sleep" /\ timer' = PollInterval
           /\ result' = [status |-> status, success |-> Success(status)]
  BY <1>3, Zenon DEF TimedOut, Success
<1>. QED BY <1>1, <1>2, <1>3, Zenon DEF GoOn

-----------------------------------------------------------------------------
LEMMA DeadlineInit == Init => TypeOK /\ DeadlineInv
<1> SUFFICES ASSUME Init PROVE TypeOK /\ DeadlineInv
  OBVIOUS
<1>1. TypeOK
  BY InitFacts, Bounds DEF TypeOK, Ends
<1>2. DeadlineInv
  BY InitFacts, Bounds DEF DeadlineInv
<1>. QED BY <1>1, <1>2

LEMMA DeadlineStep ==
  ASSUME TypeOK, DeadlineInv, [Next]_vars
  PROVE  TypeOK' /\ DeadlineInv'
<1> USE Bounds DEF TypeOK, DeadlineInv, Ends
<1>1. CASE Tick
  BY <1>1 DEF Tick, Ends, NoticeTime
<1>2. CASE JobEnds
  BY <1>2 DEF JobEnds, call
<1>3. CASE Submit
  BY <1>3, SubmitFacts
<1>4. CASE SubmissionResponse
  <2>1. /\ elapsed = 0 /\ elapsed' = 0 /\ headers' = "freed"
        /\ asked' = asked /\ noticed' = noticed
        /\ result'.success \in BOOLEAN /\ job' \in {"none", "running"}
        /\ \/ place' = "sleep" /\ timer' = PollInterval
           \/ place' = "idle" /\ timer' = 0
    BY <1>4, SubmissionFacts
  <2>2. TypeOK'
    BY <2>1
  <2>3. DeadlineInv'
    BY <2>1
  <2>. QED BY <2>2, <2>3
<1>5. CASE AskStatus
  BY <1>5 DEF AskStatus
<1>6. ASSUME NEW status \in {asked, job, "unknown"}, place = "status", GoOn(status),
             UNCHANGED <<elapsed, headers, job, asked>>, noticed' \in {noticed, 0}
      PROVE  TypeOK' /\ DeadlineInv'
  BY <1>6, GoOnFacts
<1>7. CASE BadField
  BY <1>7 DEF BadField, JobAfter
<1>8. CASE ReadFreedHeaders
  BY <1>8 DEF ReadFreedHeaders
<1>9. CASE UNCHANGED vars
  BY <1>9 DEF vars, call
<1>. QED BY <1>1, <1>2, <1>3, <1>4, <1>5, <1>6, <1>7, <1>8, <1>9
         DEF Next, CallStep, StatusResponse, StatusUnknown

LEMMA SpecDeadline == Spec => [](TypeOK /\ DeadlineInv)
BY DeadlineInit, DeadlineStep, PTL DEF Spec

(***************************************************************************)
(* timeout_ms is exceeded by less than a poll interval and a request, for  *)
(* all values of the three times.                                          *)
(***************************************************************************)
THEOREM DeadlineKept == Spec => []ReturnsByDeadline
<1>1. TypeOK /\ DeadlineInv => ReturnsByDeadline
  BY DEF DeadlineInv, ReturnsByDeadline
<1>. QED BY <1>1, SpecDeadline, PTL

-----------------------------------------------------------------------------
LEMMA JobStep ==
  ASSUME TypeOK, DeadlineInv, JobInv, ResultIsTrue, [Next]_vars
  PROVE  JobInv' /\ ResultIsTrue'
<1> USE Bounds DEF TypeOK, DeadlineInv, JobInv, ResultIsTrue, Ends
<1>1. CASE Tick
  BY <1>1 DEF Tick
<1>2. CASE JobEnds
  BY <1>2 DEF JobEnds, call
<1>3. CASE Submit
  BY <1>3, SubmitFacts
<1>4. CASE SubmissionResponse
  BY <1>4, SubmissionFacts
<1>5. CASE AskStatus
  BY <1>5 DEF AskStatus
<1>6. ASSUME NEW status \in {asked, job, "unknown"}, place = "status", GoOn(status),
             UNCHANGED <<elapsed, headers, job, asked>>
      PROVE  JobInv' /\ ResultIsTrue'
  BY <1>6, GoOnFacts DEF Final
<1>7. CASE BadField
  BY <1>7 DEF BadField, JobAfter
<1>8. CASE ReadFreedHeaders
  BY <1>8 DEF ReadFreedHeaders
<1>9. CASE UNCHANGED vars
  BY <1>9 DEF vars, call
<1>. QED BY <1>1, <1>2, <1>3, <1>4, <1>5, <1>6, <1>7, <1>8, <1>9
         DEF Next, CallStep, StatusResponse, StatusUnknown

(***************************************************************************)
(* Whatever the master answers, and whenever the job ends, what is         *)
(* returned is the state the job is in when it is returned.                *)
(***************************************************************************)
THEOREM ResultsAreTrue == Spec => []ResultIsTrue
<1>1. Init => JobInv /\ ResultIsTrue
  BY InitFacts DEF JobInv, ResultIsTrue
<1>2. TypeOK /\ DeadlineInv /\ JobInv /\ ResultIsTrue /\ [Next]_vars
        => JobInv' /\ ResultIsTrue'
  BY JobStep
<1>. QED BY <1>1, <1>2, SpecDeadline, PTL DEF Spec

-----------------------------------------------------------------------------
LEMMA NoticeStep ==
  ASSUME TypeOK, DeadlineInv, JobInv, NoticeInv, [Next]_vars
  PROVE  NoticeInv'
<1> USE Bounds DEF TypeOK, DeadlineInv, JobInv, NoticeInv, Ends, Final, NoticeTime
<1>1. CASE Tick
  BY <1>1 DEF Tick
<1>2. CASE JobEnds
  BY <1>2 DEF JobEnds, call
<1>3. CASE Submit
  BY <1>3, SubmitFacts
<1>4. CASE SubmissionResponse
  BY <1>4, SubmissionFacts
<1>5. CASE AskStatus
  BY <1>5 DEF AskStatus
<1>6. CASE StatusResponse
  BY <1>6, GoOnFacts DEF StatusResponse
<1>7. CASE StatusUnknown
  BY <1>7, GoOnFacts DEF StatusUnknown
<1>8. CASE BadField
  BY <1>8 DEF BadField, JobAfter
<1>9. CASE ReadFreedHeaders
  BY <1>9 DEF ReadFreedHeaders
<1>10. CASE UNCHANGED vars
  BY <1>10 DEF vars, call
<1>. QED BY <1>1, <1>2, <1>3, <1>4, <1>5, <1>6, <1>7, <1>8, <1>9, <1>10
         DEF Next, CallStep

(***************************************************************************)
(* A job that has ended does not keep the caller longer than two requests  *)
(* and an interval, counted from its end or from a failed status request,  *)
(* however the answers are delayed.                                        *)
(***************************************************************************)
THEOREM EndsAreNoticed == Spec => []EndIsNoticed
<1>1. Init => JobInv /\ ResultIsTrue /\ NoticeInv
  BY InitFacts DEF JobInv, ResultIsTrue, NoticeInv, Ends, Final
<1>2. TypeOK /\ DeadlineInv /\ JobInv /\ ResultIsTrue /\ [Next]_vars
        => JobInv' /\ ResultIsTrue'
  BY JobStep
<1>3. TypeOK /\ DeadlineInv /\ JobInv /\ NoticeInv /\ [Next]_vars => NoticeInv'
  BY NoticeStep
<1>4. TypeOK /\ NoticeInv => EndIsNoticed
  BY Bounds DEF TypeOK, NoticeInv, EndIsNoticed, NoticeTime, Final
<1>. QED BY <1>1, <1>2, <1>3, <1>4, SpecDeadline, PTL DEF Spec
-----------------------------------------------------------------------------
(***************************************************************************)
(* The fetcher, another client of a remote service behind the same         *)
(* CURLOPT_TIMEOUT.  Its place and timer have names of their own here.     *)
(***************************************************************************)
CONSTANTS Tickers, RateLimit, Interval

VARIABLES at, left, ticker, chunk, running_, silence, usable, stopping

Fetcher == INSTANCE StockFetcher WITH place <- at, timer <- left

\* The times it is built with: TimeAssumption of StockFetcher.
FetcherTimes ==
  /\ Tickers \in Nat
  /\ RateLimit \in Nat /\ RateLimit > 0
  /\ RequestTimeout \in Nat /\ RequestTimeout > 0
  /\ Interval \in Nat /\ Interval > 0

\* The timer is that of the request or the sleep the thread is in, and what it
\* asks for or sleeps after is one of the tickers.  Seconds are counted in the
\* sleep between the cycles only.
TimerInv ==
  /\ at = "request" => left =< RequestTimeout /\ ticker =< Tickers
  /\ at = "delay" => left =< RateLimit /\ ticker =< Tickers
  /\ at = "pause" => left =< 1 /\ chunk < Interval
  /\ at \notin {"rest", "pause"} => chunk = 0

\* After a usable tick, the silence that the sleeps have made so far and that
\* the current one will still make.  Outside the sleeps it is long enough for
\* the next request, unless the thread is on its way out.
SilenceInv ==
  usable =>
    /\ at \in {"idle", "request"} => silence >= RateLimit
    /\ at = "ticker" => ticker > Tickers \/ silence >= RateLimit
    /\ at = "delay" => silence + left >= RateLimit
    /\ at = "rest" => silence >= RateLimit \/ silence >= chunk
    /\ at = "pause" => silence >= RateLimit \/ silence + left >= chunk + 1
    /\ at = "cycle" => silence >= RateLimit \/ ~running_

\* The seconds since stop() and those the thread has still to wait.
StopInv ==
  /\ at = "idle" \/ running_ => stopping = 0
  /\ at = "request" => stopping + left =< RequestTimeout
  /\ at \in {"delay", "pause"} => stopping + left =< Fetcher!StopTime
  /\ at \notin {"over", "dead"} => stopping =< Fetcher!StopTime

LEMMA FetcherTypeInit ==
  ASSUME FetcherTimes, Fetcher!Init
  PROVE  Fetcher!TypeOK /\ TimerInv
<1> USE DEF FetcherTimes, Fetcher!Init
<1>1. TimerInv
  BY DEF TimerInv
<1>2. at \in {"idle", "cycle", "ticker", "request", "delay", "rest",
                "pause", "over", "dead"}
  OBVIOUS
<1>3. ticker \in 1 .. Tickers + 1
  OBVIOUS
<1>4. chunk \in 0 .. Interval /\ left \in 0 .. (RateLimit + RequestTimeout)
  OBVIOUS
<1>5. running_ \in BOOLEAN /\ usable \in BOOLEAN
  OBVIOUS
<1>6. silence \in 0 .. RateLimit /\ stopping \in Nat
  OBVIOUS
<1>. QED BY <1>1, <1>2, <1>3, <1>4, <1>5, <1>6 DEF Fetcher!TypeOK

LEMMA FetcherTypeStep ==
  ASSUME FetcherTimes, Fetcher!TypeOK, TimerInv, [Fetcher!Next]_(Fetcher!vars)
  PROVE  Fetcher!TypeOK' /\ TimerInv'
<1> USE DEF FetcherTimes, Fetcher!TypeOK, TimerInv
<1>1. CASE Fetcher!Tick
  BY <1>1 DEF Fetcher!Tick, Fetcher!Sleeping, Fetcher!StopTime
<1>2. CASE Fetcher!Stop
  BY <1>2 DEF Fetcher!Stop
<1>3. CASE Fetcher!StartPolling
  BY <1>3 DEF Fetcher!StartPolling
<1>4. CASE Fetcher!Cycle
  BY <1>4 DEF Fetcher!Cycle
<1>5. CASE Fetcher!Rest
  BY <1>5 DEF Fetcher!Rest
<1>6. CASE Fetcher!Wake
  BY <1>6 DEF Fetcher!Wake
<1>7. CASE Fetcher!NextTicker
  BY <1>7 DEF Fetcher!NextTicker, Fetcher!MayRequest
<1>8. CASE Fetcher!Delayed
  BY <1>8 DEF Fetcher!Delayed
<1>9. CASE Fetcher!GoodResponse
  BY <1>9 DEF Fetcher!GoodResponse, Fetcher!LastTicker
<1>10. CASE Fetcher!UnusableResponse
  <2>1. /\ at = "request" /\ at' = "ticker" /\ left' = 0 /\ silence' = 0
        /\ usable' = FALSE /\ ticker' = ticker + 1 /\ ticker =< Tickers
        /\ UNCHANGED <<chunk, running_, stopping>>
    BY <1>10 DEF Fetcher!UnusableResponse, Fetcher!AfterFailure
  <2>2. ticker' \in 1 .. Tickers + 1 /\ chunk' \in 0 .. Interval
    BY <2>1
  <2>3. left' \in 0 .. (RateLimit + RequestTimeout) /\ silence' \in 0 .. RateLimit
    BY <2>1
  <2>4. TimerInv'
    BY <2>1
  <2>5. running_' \in BOOLEAN /\ usable' \in BOOLEAN
    BY <2>1
  <2>6. stopping' \in Nat
    BY <2>1
  <2>. QED BY <2>1, <2>2, <2>3, <2>4, <2>5, <2>6
<1>11. CASE Fetcher!BadField
  BY <1>11 DEF Fetcher!BadField
<1>12. CASE UNCHANGED Fetcher!vars
  BY <1>12 DEF Fetcher!vars
<1>. QED BY <1>1, <1>2, <1>3, <1>4, <1>5, <1>6, <1>7, <1>8, <1>9, <1>10,
            <1>11, <1>12 DEF Fetcher!Next, Fetcher!ThreadStep

LEMMA FetcherType ==
  FetcherTimes => (Fetcher!Spec => [](Fetcher!TypeOK /\ TimerInv))
<1> SUFFICES ASSUME FetcherTimes PROVE Fetcher!Spec => [](Fetcher!TypeOK /\ TimerInv)
  OBVIOUS
<1>1. Fetcher!Init => Fetcher!TypeOK /\ TimerInv
  BY FetcherTypeInit
<1>2. Fetcher!TypeOK /\ TimerInv /\ [Fetcher!Next]_(Fetcher!vars)
        => Fetcher!TypeOK' /\ TimerInv'
  BY FetcherTypeStep
<1>. QED BY <1>1, <1>2, PTL DEF Fetcher!Spec

-----------------------------------------------------------------------------
LEMMA FetcherSilenceStep ==
  ASSUME FetcherTimes, RateLimit =< Interval,
         Fetcher!TypeOK, TimerInv, SilenceInv, [Fetcher!Next]_(Fetcher!vars)
  PROVE  SilenceInv'
<1> USE DEF FetcherTimes, Fetcher!TypeOK, TimerInv, SilenceInv
<1>1. CASE Fetcher!Tick
  BY <1>1 DEF Fetcher!Tick, Fetcher!Sleeping
<1>2. CASE Fetcher!Stop
  BY <1>2 DEF Fetcher!Stop
<1>3. CASE Fetcher!StartPolling
  BY <1>3 DEF Fetcher!StartPolling
<1>4. CASE Fetcher!Cycle
  BY <1>4 DEF Fetcher!Cycle
<1>5. CASE Fetcher!Rest
  BY <1>5 DEF Fetcher!Rest
<1>6. CASE Fetcher!Wake
  BY <1>6 DEF Fetcher!Wake
<1>7. CASE Fetcher!NextTicker
  <2>1. CASE ticker =< Tickers /\ running_
    BY <1>7, <2>1 DEF Fetcher!NextTicker, Fetcher!MayRequest
  <2>2. CASE ~(ticker =< Tickers /\ running_)
    BY <1>7, <2>2 DEF Fetcher!NextTicker, Fetcher!MayRequest
  <2>. QED BY <2>1, <2>2
<1>8. CASE Fetcher!Delayed
  BY <1>8 DEF Fetcher!Delayed
<1>9. CASE Fetcher!GoodResponse
  BY <1>9 DEF Fetcher!GoodResponse, Fetcher!LastTicker
<1>10. CASE Fetcher!UnusableResponse
  BY <1>10 DEF Fetcher!UnusableResponse, Fetcher!AfterFailure
<1>11. CASE Fetcher!BadField
  BY <1>11 DEF Fetcher!BadField
<1>12. CASE UNCHANGED Fetcher!vars
  BY <1>12 DEF Fetcher!vars
<1>. QED BY <1>1, <1>2, <1>3, <1>4, <1>5, <1>6, <1>7, <1>8, <1>9, <1>10,
            <1>11, <1>12 DEF Fetcher!Next, Fetcher!ThreadStep

(***************************************************************************)
(* With cycles no shorter than the rate limit, whatever the number of      *)
(* tickers and the times, no request follows a tick too early: not within  *)
(* a cycle, and not from the last ticker of one to the first of the next,  *)
(* between which there is no delay but only the sleep.                     *)
(***************************************************************************)
THEOREM RateIsKept ==
  FetcherTimes /\ RateLimit =< Interval => (Fetcher!Spec => []Fetcher!RateKept)
<1> SUFFICES ASSUME FetcherTimes, RateLimit =< Interval
             PROVE  Fetcher!Spec => []Fetcher!RateKept
  OBVIOUS
<1>1. Fetcher!Init => SilenceInv
  BY DEF FetcherTimes, Fetcher!Init, SilenceInv
<1>2. Fetcher!TypeOK /\ TimerInv /\ SilenceInv /\ [Fetcher!Next]_(Fetcher!vars)
        => SilenceInv'
  BY FetcherSilenceStep
<1>3. Fetcher!TypeOK /\ SilenceInv => Fetcher!RateKept
  BY DEF SilenceInv, Fetcher!RateKept
<1>4. Fetcher!Spec => [](Fetcher!TypeOK /\ TimerInv)
  BY FetcherType
<1>. QED BY <1>1, <1>2, <1>3, <1>4, PTL DEF Fetcher!Spec

-----------------------------------------------------------------------------
LEMMA FetcherStopStep ==
  ASSUME FetcherTimes, Fetcher!TypeOK, TimerInv, StopInv, [Fetcher!Next]_(Fetcher!vars)
  PROVE  StopInv'
<1> USE DEF FetcherTimes, Fetcher!TypeOK, TimerInv, StopInv, Fetcher!StopTime
<1>1. CASE Fetcher!Tick
  BY <1>1 DEF Fetcher!Tick, Fetcher!Sleeping
<1>2. CASE Fetcher!Stop
  BY <1>2 DEF Fetcher!Stop
<1>3. CASE Fetcher!StartPolling
  BY <1>3 DEF Fetcher!StartPolling
<1>4. CASE Fetcher!Cycle
  BY <1>4 DEF Fetcher!Cycle
<1>5. CASE Fetcher!Rest
  BY <1>5 DEF Fetcher!Rest
<1>6. CASE Fetcher!Wake
  BY <1>6 DEF Fetcher!Wake
<1>7. CASE Fetcher!NextTicker
  BY <1>7 DEF Fetcher!NextTicker, Fetcher!MayRequest
<1>8. CASE Fetcher!Delayed
  BY <1>8 DEF Fetcher!Delayed
<1>9. CASE Fetcher!GoodResponse
  BY <1>9 DEF Fetcher!GoodResponse, Fetcher!LastTicker
<1>10. CASE Fetcher!UnusableResponse
  BY <1>10 DEF Fetcher!UnusableResponse, Fetcher!AfterFailure
<1>11. CASE Fetcher!BadField
  BY <1>11 DEF Fetcher!BadField
<1>12. CASE UNCHANGED Fetcher!vars
  BY <1>12 DEF Fetcher!vars
<1>. QED BY <1>1, <1>2, <1>3, <1>4, <1>5, <1>6, <1>7, <1>8, <1>9, <1>10,
            <1>11, <1>12 DEF Fetcher!Next, Fetcher!ThreadStep

(***************************************************************************)
(* After stop() the thread goes on for one request and one delay at the    *)
(* most, for all timeouts, limits and intervals.                           *)
(***************************************************************************)
THEOREM StopsPromptly == FetcherTimes => (Fetcher!Spec => []Fetcher!StopIsPrompt)
<1> SUFFICES ASSUME FetcherTimes PROVE Fetcher!Spec => []Fetcher!StopIsPrompt
  OBVIOUS
<1>1. Fetcher!Init => StopInv
  BY DEF FetcherTimes, Fetcher!Init, StopInv, Fetcher!StopTime
<1>2. Fetcher!TypeOK /\ TimerInv /\ StopInv /\ [Fetcher!Next]_(Fetcher!vars) => StopInv'
  BY FetcherStopStep
<1>3. StopInv => Fetcher!StopIsPrompt
  BY DEF StopInv, Fetcher!StopIsPrompt
<1>4. Fetcher!Spec => [](Fetcher!TypeOK /\ TimerInv)
  BY FetcherType
<1>. QED BY <1>1, <1>2, <1>3, <1>4, PTL DEF Fetcher!Spec
=============================================================================
