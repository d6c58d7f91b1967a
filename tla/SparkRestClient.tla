--------------------------- MODULE SparkRestClient ---------------------------
(***************************************************************************)
(* The client of the Spark master                                          *)
(* (src/processing/spark_bridge/spark_rest_client.{hpp,cpp}):              *)
(* submit_and_wait() posts a job and asks for its state until it has ended *)
(* or the deadline is over.  Time is in seconds and passes in requests and *)
(* sleeps only.  The master and its job (external) go their own way: they  *)
(* may answer late, not at all, or with something else.                    *)
(***************************************************************************)
EXTENDS Integers

CONSTANTS PollInterval,   \* poll_interval_ms; 2
          Timeout,        \* timeout_ms; 300
          RequestTimeout  \* CURLOPT_TIMEOUT; 10

ASSUME TimeAssumption == {PollInterval, Timeout, RequestTimeout} \subseteq Nat \ {0}

VARIABLES
  place,    \* where the caller's thread is
  timer,    \* seconds left of the request or the sleep
  elapsed,  \* seconds since start
  result,   \* the JobResult: its status, "unset" when empty, and success
  headers,  \* the list of CURLOPT_HTTPHEADER: "none", "set" or "freed"
  job,      \* the state of the job on the cluster
  asked,    \* its state when the last status request was sent
  noticed   \* history: seconds since the job ended or a request has failed

call == <<place, timer, elapsed, result, headers>>
vars == <<call, job, asked, noticed>>

Init ==
  /\ place = "idle" /\ timer = 0 /\ elapsed = 0 /\ headers = "none"
  /\ result = [status |-> "unset", success |-> FALSE]
  /\ job = "none" /\ asked = "none" /\ noticed = 0

Ends == {"FINISHED", "FAILED", "KILLED", "ERROR"}

\* The longest a state can go unnoticed: the request in flight when it came
\* about, the sleep, and the request that brings it.
NoticeTime == RequestTimeout + PollInterval + RequestTimeout

Tick ==
  /\ place \in {"post", "sleep", "status"} /\ timer > 0
  /\ timer' = timer - 1
  /\ elapsed' = IF place = "post" THEN elapsed ELSE elapsed + 1
  /\ noticed' = IF job \in Ends /\ noticed =< NoticeTime THEN noticed + 1 ELSE noticed
  /\ UNCHANGED <<place, result, headers, job, asked>>

JobEnds ==
  /\ job = "running" /\ job' \in Ends
  /\ UNCHANGED <<call, asked, noticed>>

Return(status, success) ==
  /\ place' = "idle" /\ timer' = 0
  /\ result' = [status |-> status, success |-> success]

-----------------------------------------------------------------------------
(* submit_aggregation_job().                                               *)

\* submit_and_wait() is called; what an earlier call has started is left
\* to itself.  http_post() sets its headers and sends the request.
Submit ==
  /\ place = "idle"
  /\ place' = "post" /\ timer' = RequestTimeout /\ headers' = "set"
  /\ job' = "none" /\ noticed' = 0 /\ elapsed' = 0
  /\ result' = [status |-> "unset", success |-> FALSE]
  /\ UNCHANGED asked

\* An answer may be lost, or not parse, after the job was created.
JobAfter(answer) ==
  CASE answer = "accepted" -> {"running"}
    [] answer = "rejected" -> {"none"}
    [] answer = "unread"   -> {"none", "running"}

\* The response, if any, is read; the list of headers is freed.
SubmissionResponse ==
  /\ place = "post"
  /\ headers' = "freed"
  /\ \E answer \in {"accepted", "rejected", "unread"} :
       /\ job' \in JobAfter(answer)
       /\ \/ /\ answer = "accepted"
             /\ place' = "sleep" /\ timer' = PollInterval
             /\ result' = [status |-> "submitted", success |-> TRUE]
          \/ answer # "accepted" /\ Return("failed", FALSE)
  /\ UNCHANGED <<elapsed, asked, noticed>>

-----------------------------------------------------------------------------
(* The polling loop with get_job_status().                                 *)

AskStatus ==
  /\ place = "sleep" /\ timer = 0
  /\ place' = "status" /\ timer' = RequestTimeout
  /\ asked' = job
  /\ UNCHANGED <<elapsed, result, headers, job, noticed>>

\* Mutation: a job that was killed is not taken to be over.
Final_NotKilled == {"FINISHED", "FAILED"}
Final == {"FINISHED", "FAILED", "KILLED"}

\* Mutation: the deadline is tested with > instead of >=.
TimedOut_Later == elapsed > Timeout
TimedOut == elapsed >= Timeout

\* Mutation: success says that the master has answered.
Success_Answered(status) == status # "unknown"
Success(status) == status = "FINISHED"

\* What follows get_job_status() in the loop.
GoOn(status) ==
  \/ /\ status \in Final
     /\ Return(status, Success(status))
  \/ /\ status \notin Final /\ TimedOut
     /\ Return("timeout", FALSE)
  \/ /\ status \notin Final /\ ~TimedOut
     /\ place' = "sleep" /\ timer' = PollInterval
     /\ result' = [status |-> status, success |-> Success(status)]

\* The master answers with the state the job had meanwhile.
StatusResponse ==
  /\ place = "status"
  /\ \E status \in {asked, job} : GoOn(status)
  /\ UNCHANGED <<elapsed, headers, job, asked, noticed>>

\* No answer in time, or none that parses and names a state.
StatusUnknown ==
  /\ place = "status"
  /\ GoOn("unknown") /\ noticed' = 0
  /\ UNCHANGED <<elapsed, headers, job, asked>>

\* A field of another type than expected throws out of the call.
BadField ==
  /\ place \in {"post", "status"}
  /\ place' = "thrown"
  /\ headers' = "freed"
  /\ job' \in IF place = "post" THEN JobAfter("unread") ELSE {job}
  /\ UNCHANGED <<timer, elapsed, result, asked, noticed>>

\* A GET, of get_job_status() or is_available(), reads the list of headers
\* that http_post() has freed but left in the handle.
ReadFreedHeaders ==
  /\ place \in {"idle", "status"} /\ headers = "freed"
  /\ place' = "crashed"
  /\ UNCHANGED <<timer, elapsed, result, headers, job, asked, noticed>>

-----------------------------------------------------------------------------
CallStep == \/ SubmissionResponse \/ AskStatus \/ StatusResponse \/ StatusUnknown

Next == \/ Tick \/ JobEnds \/ Submit \/ CallStep \/ BadField \/ ReadFreedHeaders

Spec == Init /\ [][Next]_vars

-----------------------------------------------------------------------------
TypeOK ==
  /\ place \in {"idle", "post", "sleep", "status", "thrown", "crashed"}
  /\ timer \in 0 .. (PollInterval + RequestTimeout) /\ elapsed \in Nat
  /\ headers \in {"none", "set", "freed"}
  /\ result.success \in BOOLEAN
  /\ {job, asked} \subseteq {"none", "running"} \cup Ends
  /\ noticed \in Nat

(***************************************************************************)
(* timeout_ms is not "the maximum time to wait" (spark_rest_client.hpp):   *)
(* the deadline is tested after a sleep and a request only.  But the call  *)
(* is not late by more than one of each, whatever the master does.         *)
(***************************************************************************)
ReturnsByDeadline ==
  /\ TypeOK
  /\ elapsed < Timeout + PollInterval + RequestTimeout

(***************************************************************************)
(* What submit_and_wait() returns is true of the job at that moment, and   *)
(* not only of some answer on the way: success means that it is FINISHED,  *)
(* the name of a final state that it is in it, a timeout that the deadline *)
(* is over; nothing but these and a failed submission is returned.         *)
(***************************************************************************)
ResultIsTrue ==
  place = "idle" /\ result.status # "unset" =>
    /\ result.success => job = "FINISHED"
    /\ \/ result.status = job /\ job \in Ends
       \/ result.status = "timeout" /\ elapsed >= Timeout
       \/ result.status = "failed" /\ elapsed = 0

(***************************************************************************)
(* "Poll until completion or timeout" (spark_rest_client.cpp): a job that  *)
(* is FINISHED, FAILED or KILLED does not keep the caller longer than      *)
(* NoticeTime, counted from its end or from the last status request that   *)
(* failed.  (A job that ends in ERROR, which is final for the master,      *)
(* keeps it until the deadline.)                                           *)
(***************************************************************************)
EndIsNoticed ==
  place \in {"sleep", "status"} /\ job \in {"FINISHED", "FAILED", "KILLED"} =>
    noticed =< NoticeTime
=============================================================================
