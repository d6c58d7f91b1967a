--------------------------- MODULE StreamProcessor ---------------------------
(***************************************************************************)
(* The stream processor (src/processing/stream_processor.{hpp,cpp}): the   *)
(* consumer thread turns every raw tick into a task of the processor's own *)
(* pool, the workers feed it to the indicators of its ticker and publish   *)
(* the enriched tick, and the destructor tears the members down in the     *)
(* reverse of their declaration order.  The pool is TaskService, which     *)
(* ThreadPool implements; task n processes raw tick n.                     *)
(***************************************************************************)
EXTENDS Integers, Sequences, FiniteSets

CONSTANTS Ticker,
          Worker,   \* the workers of pool_
          Period,   \* how many prices sma_50 needs to be ready
          MaxTicks  \* bound on the number of raw ticks

ASSUME BoundAssumption == Period \in Nat /\ MaxTicks \in Nat

VARIABLES
  raw,          \* history: the raw ticks handled, in offset order
  running_,     \* the consumer's flag, cleared by stop()
  consumer,     \* where the poll loop is
  accepted, pending, running, finished, joined,  \* pool_, a TaskService
  place,        \* where in process_tick() each worker is
  snapshot,     \* the indicator state each worker's update() started from
  indicators_,  \* per ticker, the ticks its indicators have absorbed
  raced,        \* history: tickers two workers updated at the same time
  overlapped,   \* history: tickers two workers had a task of at the same time
  absorbed,     \* history: the ticks whose update() calls have returned
  published,    \* the enriched ticks accepted by the producer, in order
  unpublished,  \* history: the ticks the producer refused
  ticks_processed_,
  members       \* how far the destructor has got

pool == <<accepted, pending, running, finished, joined>>
races == <<raced, overlapped>>
vars == <<raw, running_, consumer, pool, place, snapshot, indicators_, races,
          absorbed, published, unpublished, ticks_processed_, members>>

Service == INSTANCE TaskService

\* Raw ticks: with a price, without a positive one, or with a field of the
\* wrong type, which makes tick.value() throw.
RawTick == [ticker : Ticker, kind : {"priced", "unpriced", "malformed"}]

Init ==
  /\ raw = <<>> /\ running_ = TRUE /\ consumer = "check"
  /\ Service!Init
  /\ place = [w \in Worker |-> "idle"]
  /\ snapshot = [w \in Worker |-> <<>>]
  /\ indicators_ = [t \in Ticker |-> <<>>]
  /\ raced = {} /\ overlapped = {} /\ absorbed = {}
  /\ published = <<>> /\ unpublished = {}
  /\ ticks_processed_ = 0 /\ members = "alive"

TickerOf(w) == raw[running[w]].ticker

\* The process has not been brought down.
Alive == members # "crashed"

-----------------------------------------------------------------------------
(* The consumer thread: the loop of KafkaConsumer::start() and on_tick().  *)

\* Mutation: the loop does not look at the flag.
AfterCheck_Forever == "poll"
AfterCheck == IF running_ THEN "poll" ELSE "ended"

CheckRunning ==
  /\ Alive /\ consumer = "check"
  /\ consumer' = AfterCheck
  /\ UNCHANGED <<raw, running_, pool, place, snapshot, indicators_, races,
                 absorbed, published, unpublished, ticks_processed_, members>>

\* A message arrived; on_tick() submits its task and drops the future.
OnTick(tick) ==
  /\ Alive /\ consumer = "poll" /\ Len(raw) < MaxTicks
  /\ raw' = Append(raw, tick)
  /\ Service!Accept
  /\ consumer' = "check"
  /\ UNCHANGED <<running_, place, snapshot, indicators_, races, absorbed,
                 published, unpublished, ticks_processed_, members>>

PollTimesOut ==
  /\ Alive /\ consumer = "poll"
  /\ consumer' = "check"
  /\ UNCHANGED <<raw, running_, pool, place, snapshot, indicators_, races,
                 absorbed, published, unpublished, ticks_processed_, members>>

Stop ==
  /\ Alive /\ running_
  /\ running_' = FALSE
  /\ UNCHANGED <<raw, consumer, pool, place, snapshot, indicators_, races,
                 absorbed, published, unpublished, ticks_processed_, members>>

-----------------------------------------------------------------------------
(* process_tick(), on a worker.  The indicators are updated without a      *)
(* lock: update() reads the state of the ticker and writes it back.        *)

Holding(t) == {w \in Worker : place[w] # "idle" /\ TickerOf(w) = t}

TakeTask(w) ==
  /\ Alive /\ place[w] = "idle"
  /\ Service!Start(w)
  /\ place' = [place EXCEPT ![w] = "taken"]
  /\ LET ticker == raw[Head(pending)].ticker IN
     overlapped' = IF Holding(ticker) = {} THEN overlapped
                   ELSE overlapped \cup {ticker}
  /\ UNCHANGED <<raw, running_, consumer, snapshot, indicators_, raced,
                 absorbed, published, unpublished, ticks_processed_, members>>

\* An early return, or an exception that ends in the dropped future.
SkipTick(w) ==
  /\ Alive /\ place[w] = "taken" /\ raw[running[w]].kind # "priced"
  /\ Service!Finish(w)
  /\ place' = [place EXCEPT ![w] = "idle"]
  /\ UNCHANGED <<raw, running_, consumer, snapshot, indicators_, races,
                 absorbed, published, unpublished, ticks_processed_, members>>

\* The entry get_indicators() finds or creates.
EntryOf(w) == TickerOf(w)

Updating(t) == {w \in Worker : place[w] = "updating" /\ EntryOf(w) = t}

BeginUpdate(w) ==
  /\ Alive /\ place[w] = "taken" /\ raw[running[w]].kind = "priced"
  /\ snapshot' = [snapshot EXCEPT ![w] = indicators_[EntryOf(w)]]
  /\ raced' = IF Updating(EntryOf(w)) = {} THEN raced
              ELSE raced \cup {EntryOf(w)}
  /\ place' = [place EXCEPT ![w] = "updating"]
  /\ UNCHANGED <<raw, running_, consumer, pool, indicators_, overlapped,
                 absorbed, published, unpublished, ticks_processed_, members>>

\* What unsynchronised writers leave behind: a state that is the history of
\* no sequence of ticks.
Torn == <<0>>

\* Mutation: the update works on a copy and is not written back.
Written_Copy(w) == {indicators_[EntryOf(w)]}
Written(w) == {Append(snapshot[w], running[w])}
                \cup (IF EntryOf(w) \in raced THEN {Torn} ELSE {})

EndUpdate(w) ==
  /\ Alive /\ place[w] = "updating"
  /\ \E state \in Written(w) :
       /\ indicators_' = [indicators_ EXCEPT ![EntryOf(w)] = state]
       /\ snapshot' = [snapshot EXCEPT ![w] = state]
  /\ absorbed' = absorbed \cup {running[w]}
  /\ place' = [place EXCEPT ![w] = "updated"]
  /\ UNCHANGED <<raw, running_, consumer, pool, races, published, unpublished,
                 ticks_processed_, members>>

\* The values are those update() returned; the flag is read from the map now.
Enriched(w) ==
  [tick |-> running[w], ticker |-> TickerOf(w), absorbed |-> snapshot[w],
   indicators_ready |-> Len(indicators_[EntryOf(w)]) >= Period]

\* Mutation: only ticks that were published are counted.
ProcessedAfter_OnSuccess(ok) == ticks_processed_ + (IF ok THEN 1 ELSE 0)
ProcessedAfter(ok) == ticks_processed_ + 1

\* publish() and the counter; ok is false when the producer's queue is full.
Publish(w, ok) ==
  /\ Alive /\ place[w] = "updated"
  /\ published' = IF ok THEN Append(published, Enriched(w)) ELSE published
  /\ unpublished' = IF ok THEN unpublished ELSE unpublished \cup {running[w]}
  /\ ticks_processed_' = ProcessedAfter(ok)
  /\ Service!Finish(w)
  /\ place' = [place EXCEPT ![w] = "idle"]
  /\ UNCHANGED <<raw, running_, consumer, snapshot, indicators_, races,
                 absorbed, members>>

-----------------------------------------------------------------------------
(* ~StreamProcessor(), after main has joined the consumer thread: stop(),  *)
(* then indicators_mutex_ and indicators_, then pool_, then producer_.     *)

DestroyIndicators ==
  /\ members = "alive" /\ consumer = "ended"
  /\ members' = "no indicators"
  /\ UNCHANGED <<raw, running_, consumer, pool, place, snapshot, indicators_,
                 races, absorbed, published, unpublished, ticks_processed_>>

\* Mutation: the producer is declared after the pool and dies before it.
PoolIsGone_NotAwaited == TRUE
PoolIsGone == joined

DestroyPool ==
  /\ members = "no indicators" /\ ~joined
  /\ Service!Join
  /\ UNCHANGED <<raw, running_, consumer, place, snapshot, indicators_, races,
                 absorbed, published, unpublished, ticks_processed_, members>>

DestroyProducer ==
  /\ members = "no indicators" /\ PoolIsGone
  /\ members' = "no producer"
  /\ UNCHANGED <<raw, running_, consumer, pool, place, snapshot, indicators_,
                 races, absorbed, published, unpublished, ticks_processed_>>

\* A worker that reaches into the destroyed map may bring the process down.
UsesIndicators(w) ==
  \/ place[w] = "taken" /\ raw[running[w]].kind = "priced"
  \/ place[w] = "updating"

Crash ==
  /\ members \in {"no indicators", "no producer"}
  /\ \E w \in Worker : UsesIndicators(w)
  /\ members' = "crashed"
  /\ UNCHANGED <<raw, running_, consumer, pool, place, snapshot, indicators_,
                 races, absorbed, published, unpublished, ticks_processed_>>

Terminated == members = "crashed" \/ (members = "no producer" /\ joined)

-----------------------------------------------------------------------------
ConsumerStep == CheckRunning \/ PollTimesOut \/ \E tick \in RawTick : OnTick(tick)

WorkerStep(w) == \/ TakeTask(w) \/ SkipTick(w)
                 \/ BeginUpdate(w) \/ EndUpdate(w)
                 \/ \E ok \in BOOLEAN : Publish(w, ok)

Teardown == DestroyIndicators \/ DestroyPool \/ DestroyProducer

Next == \/ ConsumerStep \/ Stop \/ Teardown \/ Crash
        \/ \E w \in Worker : WorkerStep(w)
        \/ Terminated /\ UNCHANGED vars

Spec == Init /\ [][Next]_vars

\* Every thread that can take a step takes one; stop() may never be called.
FairSpec ==
  /\ Spec
  /\ WF_vars(ConsumerStep) /\ WF_vars(Teardown)
  /\ \A w \in Worker : WF_vars(WorkerStep(w))

-----------------------------------------------------------------------------
TypeOK ==
  /\ raw \in Seq(RawTick) /\ Len(raw) = accepted
  /\ running_ \in BOOLEAN /\ consumer \in {"check", "poll", "ended"}
  /\ place \in [Worker -> {"idle", "taken", "updating", "updated"}]
  /\ snapshot \in [Worker -> Seq(0 .. MaxTicks)]
  /\ indicators_ \in [Ticker -> Seq(0 .. MaxTicks)]
  /\ raced \subseteq Ticker /\ overlapped \subseteq Ticker
  /\ absorbed \subseteq 1 .. MaxTicks
  /\ published \in Seq([tick : 1 .. MaxTicks, ticker : Ticker,
                        absorbed : Seq(0 .. MaxTicks),
                        indicators_ready : BOOLEAN])
  /\ unpublished \subseteq 1 .. MaxTicks /\ ticks_processed_ \in 0 .. MaxTicks
  /\ members \in {"alive", "no indicators", "no producer", "crashed"}

Ticks(S) == {n \in S : raw[n].kind = "priced"}
Elements(s) == {s[i] : i \in 1 .. Len(s)}

(***************************************************************************)
(* The indicators of a symbol no two workers ever updated at the same time *)
(* have absorbed each of its ticks once: losing a tick takes a race.       *)
(***************************************************************************)
LossNeedsARace ==
  \A t \in Ticker \ raced :
    /\ Elements(indicators_[t]) = {n \in absorbed : raw[n].ticker = t}
    /\ Len(indicators_[t]) = Cardinality(Elements(indicators_[t]))

(***************************************************************************)
(* A raw tick is published at most once, and the counter of the health log *)
(* is the number of ticks that were published or that the producer refused *)
(* even while tasks are in flight.                                         *)
(***************************************************************************)
EachTickOnce ==
  /\ TypeOK
  /\ \A i, j \in 1 .. Len(published) :
       published[i].tick = published[j].tick => i = j
  /\ ticks_processed_ = Len(published) + Cardinality(unpublished)
  /\ \A i \in 1 .. Len(published) : published[i].tick \notin unpublished

(***************************************************************************)
(* producer_ is declared before pool_ and so outlives every task: when it  *)
(* is destroyed no worker is left that could publish, and every priced     *)
(* tick the consumer handled has been published or refused.                *)
(***************************************************************************)
ProducerOutlivesTasks ==
  members = "no producer" =>
    /\ \A w \in Worker : place[w] = "idle"
    /\ Ticks(1 .. Len(raw)) =
         unpublished \cup {published[i].tick : i \in 1 .. Len(published)}

(***************************************************************************)
(* Once stop() is called the poll loop ends and the members are torn down, *)
(* whatever was queued.                                                    *)
(***************************************************************************)
StopCompletes == ~running_ ~> Terminated

(***************************************************************************)
(* The ticks of one symbol are published in the order of the feed ("the    *)
(* same ticker symbol always maps to the same partition", which "preserves *)
(* message order per stock symbol", kafka_producer.cpp) as long as no two  *)
(* workers hold ticks of it at the same time: with one worker, always.     *)
(***************************************************************************)
PublishedInOrder ==
  \A i, j \in 1 .. Len(published) :
    (i < j /\ published[i].ticker = published[j].ticker)
      => \/ published[i].tick < published[j].tick
         \/ published[i].ticker \in overlapped

(***************************************************************************)
(* As long as no two workers hold ticks of its symbol at the same time, a  *)
(* published tick carries the indicators of exactly the ticks up to and    *)
(* including itself, in feed order, and is flagged ready exactly when they *)
(* fill the SMA's window: before that update() returns 0, which the        *)
(* database would store as an average.                                     *)
(***************************************************************************)
ExactIndicators ==
  \A i \in 1 .. Len(published) :
    LET p == published[i] IN
    p.ticker \notin overlapped =>
      /\ \A j, k \in 1 .. Len(p.absorbed) :
           j < k => p.absorbed[j] < p.absorbed[k]
      /\ Elements(p.absorbed) =
           {n \in Ticks(1 .. p.tick) : raw[n].ticker = p.ticker}
      /\ p.indicators_ready <=> Len(p.absorbed) >= Period
=============================================================================
