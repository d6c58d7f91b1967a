----------------------- MODULE StreamProcessor_proofs -----------------------
(***************************************************************************)
(* For any number of tickers, workers and ticks: each tick is published at *)
(* most once, the producer outlives every task, ticks are lost to the      *)
(* indicators in races only, and where no two workers hold ticks of one    *)
(* symbol its ticks are published in order and with exact indicators.      *)
(***************************************************************************)
EXTENDS StreamProcessor, FiniteSetTheorems, SequenceTheorems, TLAPS

\* How many tasks were started: those up to this one, by their numbers.
Begun == accepted - Len(pending)

(***************************************************************************)
(* The pool.  The tasks that wait are the last ones accepted, in order;    *)
(* each one before them is finished or runs on one worker.                 *)
(***************************************************************************)
PoolInv ==
  /\ accepted \in 0 .. MaxTicks
  /\ pending \in Seq(Nat) /\ Len(pending) =< accepted
  /\ \A i \in 1 .. Len(pending) : pending[i] = Begun + i
  /\ running \in [Worker -> 0 .. Begun]
  /\ finished \subseteq 1 .. Begun
  /\ \A w \in Worker : running[w] \notin finished
  /\ \A v, w \in Worker : running[v] = running[w] /\ running[v] # 0 => v = w
  /\ \A n \in 1 .. Begun : n \in finished \/ \E w \in Worker : running[w] = n
  /\ joined \in BOOLEAN
  /\ joined => pending = <<>> /\ \A w \in Worker : running[w] = 0

StateType ==
  /\ raw \in Seq(RawTick) /\ Len(raw) = accepted
  /\ place \in [Worker -> {"idle", "taken", "updating", "updated"}]
  /\ snapshot \in [Worker -> Seq(0 .. MaxTicks)]
  /\ indicators_ \in [Ticker -> Seq(0 .. MaxTicks)]
  /\ raced \subseteq Ticker /\ overlapped \subseteq Ticker

FlowType ==
  /\ running_ \in BOOLEAN /\ consumer \in {"check", "poll", "ended"}
  /\ members \in {"alive", "no indicators", "no producer", "crashed"}

Priced(n) == raw[n].kind = "priced"

\* A worker is in process_tick() while it has a task, and gets past the early
\* return with a priced tick only.
PlaceInv ==
  /\ \A w \in Worker : place[w] = "idle" <=> running[w] = 0
  /\ \A w \in Worker : place[w] \in {"updating", "updated"} => Priced(running[w])

\* The producer is destroyed after the pool.
MemberInv == members = "no producer" => joined

\* The indicators have absorbed the priced ticks that are finished, and those
\* whose update() has returned.
AbsorbInv ==
  /\ absorbed \subseteq 1 .. Begun
  /\ \A n \in absorbed : Priced(n)
  /\ \A n \in finished : Priced(n) => n \in absorbed
  /\ \A w \in Worker : place[w] \in {"taken", "updating"} => running[w] \notin absorbed
  /\ \A w \in Worker : place[w] = "updated" => running[w] \in absorbed

\* A worker that updates a symbol nobody has raced on is the only one, and
\* starts from what the indicators are.
RaceInv ==
  \A w \in Worker :
    place[w] = "updating" /\ TickerOf(w) \notin raced =>
      /\ snapshot[w] = indicators_[TickerOf(w)]
      /\ Updating(TickerOf(w)) = {w}

Increasing(s) == \A i, j \in 1 .. Len(s) : i < j => s[i] < s[j]

\* While its symbol was never held twice, the tick a worker holds is the last
\* one of the symbol that was started; the indicators are those of its update.
HeldInv ==
  /\ raced \subseteq overlapped
  /\ \A w \in Worker : place[w] # "idle" /\ TickerOf(w) \notin overlapped =>
       /\ \A n \in 1 .. Begun : raw[n].ticker = TickerOf(w) => n =< running[w]
       /\ place[w] = "updated" => snapshot[w] = indicators_[TickerOf(w)]
  /\ \A t \in Ticker \ overlapped : Increasing(indicators_[t])

\* The priced ticks that are finished, and no others, were published or
\* refused, each once.
PublishInv ==
  /\ unpublished \subseteq Ticks(finished)
  /\ \A i \in 1 .. Len(published) :
       /\ published[i].tick \in Ticks(finished) \ unpublished
       /\ published[i].ticker = raw[published[i].tick].ticker
  /\ \A i, j \in 1 .. Len(published) : published[i].tick = published[j].tick => i = j
  /\ \A n \in Ticks(finished) \ unpublished :
       \E i \in 1 .. Len(published) : published[i].tick = n
  /\ published \in Seq([tick : 1 .. MaxTicks, ticker : Ticker,
                        absorbed : Seq(0 .. MaxTicks), indicators_ready : BOOLEAN])

\* The counters count them.
CountInv ==
  /\ ticks_processed_ = Cardinality(Ticks(finished))
  /\ ticks_processed_ = Len(published) + Cardinality(unpublished)

Inv == /\ PoolInv /\ StateType /\ FlowType /\ PlaceInv /\ MemberInv
       /\ AbsorbInv /\ RaceInv /\ LossNeedsARace /\ HeldInv
       /\ PublishInv /\ CountInv /\ PublishedInOrder /\ ExactIndicators
-----------------------------------------------------------------------------
\* Sequences that grow, and the sets of their elements.

LEMMA Appended ==
  ASSUME NEW S, NEW s \in Seq(S), NEW e \in S
  PROVE  /\ Append(s, e) \in Seq(S)
         /\ Len(s) \in Nat /\ Len(Append(s, e)) = Len(s) + 1
         /\ Append(s, e)[Len(s) + 1] = e
         /\ \A i \in 1 .. Len(s) : Append(s, e)[i] = s[i]
OBVIOUS

LEMMA ElementsAppended ==
  ASSUME NEW S, NEW s \in Seq(S), NEW e \in S
  PROVE  Elements(Append(s, e)) = Elements(s) \cup {e}
<1> DEFINE a == Append(s, e)
<1>1. /\ Len(s) \in Nat /\ Len(a) = Len(s) + 1 /\ a[Len(s) + 1] = e
      /\ \A i \in 1 .. Len(s) : a[i] = s[i]
  BY Appended
<1> HIDE DEF a
<1>2. \A i \in 1 .. Len(a) : i \in 1 .. Len(s) \/ i = Len(s) + 1
  BY <1>1
<1>3. 1 .. Len(s) \subseteq 1 .. Len(a) /\ Len(s) + 1 \in 1 .. Len(a)
  BY <1>1
<1>4. Elements(a) \subseteq Elements(s) \cup {e}
  BY <1>1, <1>2 DEF Elements
<1>5. Elements(s) \cup {e} \subseteq Elements(a)
  BY <1>1, <1>3 DEF Elements
<1>. QED BY <1>4, <1>5 DEF a

LEMMA ElementsFinite ==
  ASSUME NEW S, NEW s \in Seq(S)
  PROVE  IsFiniteSet(Elements(s)) /\ Cardinality(Elements(s)) \in Nat
<1> DEFINE f == [i \in 1 .. Len(s) |-> s[i]]
<1>1. f \in Surjection(1 .. Len(s), Elements(s))
  BY DEF Elements, Surjection
<1>2. IsFiniteSet(1 .. Len(s))
  BY FS_Interval
<1>. QED BY <1>1, <1>2, FS_Surjection, FS_CardinalityType

-----------------------------------------------------------------------------
\* What the consumer, the owner and the teardown leave alone.
work == <<raw, accepted, pending, running, finished, place, snapshot,
          indicators_, races, absorbed, published, unpublished, ticks_processed_>>

LEMMA StepCases ==
  ASSUME [Next]_vars
  PROVE  \/ \E tick \in RawTick : OnTick(tick)
         \/ \E w \in Worker : \/ TakeTask(w) \/ SkipTick(w) \/ BeginUpdate(w)
                              \/ EndUpdate(w) \/ \E ok \in BOOLEAN : Publish(w, ok)
         \/ UNCHANGED work /\ (UNCHANGED joined \/ Service!Join)
<1>1. CASE CheckRunning \/ PollTimesOut \/ Stop
  BY <1>1 DEF CheckRunning, PollTimesOut, Stop, work, pool
<1>2. CASE DestroyIndicators \/ DestroyProducer \/ Crash
  BY <1>2 DEF DestroyIndicators, DestroyProducer, Crash, work, pool
<1>3. CASE DestroyPool
  BY <1>3 DEF DestroyPool, Service!Join, work
<1>4. CASE UNCHANGED vars
  BY <1>4 DEF vars, work, pool
<1>. QED BY <1>1, <1>2, <1>3, <1>4 DEF Next, ConsumerStep, WorkerStep, Teardown

-----------------------------------------------------------------------------
\* The pool.

LEMMA AcceptStep ==
  ASSUME PoolInv, Service!Accept, accepted < MaxTicks
  PROVE  PoolInv' /\ Begun' = Begun /\ accepted' = accepted + 1
<1> USE BoundAssumption DEF PoolInv
<1>1. /\ accepted' = accepted + 1 /\ pending' = Append(pending, accepted + 1)
      /\ UNCHANGED <<running, finished, joined>> /\ ~joined
  BY DEF Service!Accept, Service!Enqueued
<1>2. /\ pending' \in Seq(Nat) /\ Len(pending) \in Nat /\ Len(pending') = Len(pending) + 1
      /\ pending'[Len(pending) + 1] = accepted + 1
      /\ \A i \in 1 .. Len(pending) : pending'[i] = pending[i]
  BY <1>1, Appended
<1>3. Begun' = Begun /\ Begun \in Nat /\ accepted' \in 0 .. MaxTicks /\ Len(pending') =< accepted'
  BY <1>1, <1>2 DEF Begun
<1>4. ASSUME NEW i \in 1 .. Len(pending') PROVE pending'[i] = Begun' + i
  <2>1. CASE i = Len(pending) + 1
    BY <2>1, <1>1, <1>2, <1>3 DEF Begun
  <2>2. CASE i # Len(pending) + 1
    BY <2>2, <1>1, <1>2, <1>3 DEF Begun
  <2>. QED BY <2>1, <2>2
<1>. QED BY <1>1, <1>2, <1>3, <1>4

LEMMA StartStep ==
  ASSUME PoolInv, NEW w \in Worker, Service!Start(w)
  PROVE  /\ PoolInv' /\ Begun \in Nat /\ Begun' = Begun + 1 /\ Begun' =< accepted
         /\ Head(pending) = Begun + 1
         /\ running' = [running EXCEPT ![w] = Begun + 1] /\ running[w] = 0
         /\ UNCHANGED <<accepted, finished, joined>>
<1> USE DEF PoolInv
<1>1. /\ pending # <<>> /\ running[w] = 0 /\ running' = [running EXCEPT ![w] = Head(pending)]
      /\ pending' = Tail(pending) /\ UNCHANGED <<accepted, finished, joined>>
  BY DEF Service!Start
<1>2. /\ pending' \in Seq(Nat) /\ Len(pending) \in Nat /\ Len(pending) > 0
      /\ Len(pending') = Len(pending) - 1 /\ Head(pending) = pending[1]
      /\ \A i \in 1 .. Len(pending') : pending'[i] = pending[i + 1]
  BY <1>1, HeadTailProperties
<1>3. Begun \in Nat /\ Begun' = Begun + 1 /\ Head(pending) = Begun + 1 /\ Begun' =< accepted
  BY <1>1, <1>2 DEF Begun
<1>4. running' = [running EXCEPT ![w] = Begun + 1]
  BY <1>1, <1>3
<1>5. ASSUME NEW i \in 1 .. Len(pending') PROVE pending'[i] = Begun' + i
  BY <1>2, <1>3, SMTT(30)
<1>6. running' \in [Worker -> 0 .. Begun'] /\ finished' \subseteq 1 .. Begun'
  BY <1>1, <1>3, <1>4
<1>7. \A v \in Worker : running'[v] \notin finished'
  BY <1>1, <1>3, <1>4
<1>8. \A u, v \in Worker : running'[u] = running'[v] /\ running'[u] # 0 => u = v
  BY <1>1, <1>3, <1>4
<1>9. \A n \in 1 .. Begun' : n \in finished' \/ \E v \in Worker : running'[v] = n
  <2> TAKE n \in 1 .. Begun'
  <2>1. CASE n = Begun + 1
    BY <2>1, <1>4
  <2>2. CASE n # Begun + 1
    <3>1. n \in 1 .. Begun
      BY <2>2, <1>3
    <3>2. n \in finished \/ \E v \in Worker : v # w /\ running[v] = n
      BY <3>1, <1>1
    <3>. QED BY <3>2, <1>1, <1>4
  <2>. QED BY <2>1, <2>2
<1>10. joined' \in BOOLEAN /\ ~joined'
  BY <1>1
<1>11. accepted' \in 0 .. MaxTicks /\ Len(pending') =< accepted'
  BY <1>1, <1>2
<1>12. PoolInv'
  BY <1>2, <1>5, <1>6, <1>7, <1>8, <1>9, <1>10, <1>11, Zenon
<1>. QED BY <1>1, <1>3, <1>4, <1>12

LEMMA FinishStep ==
  ASSUME PoolInv, NEW w \in Worker, Service!Finish(w)
  PROVE  /\ PoolInv' /\ Begun' = Begun
         /\ running[w] \in 1 .. Begun /\ running[w] \notin finished
         /\ finished' = finished \cup {running[w]}
         /\ running' = [running EXCEPT ![w] = 0]
         /\ UNCHANGED <<accepted, pending, joined>>
<1> USE DEF PoolInv
<1>1. /\ running[w] # 0 /\ finished' = finished \cup {running[w]}
      /\ running' = [running EXCEPT ![w] = 0]
      /\ UNCHANGED <<accepted, pending, joined>>
  BY DEF Service!Finish
<1>2. Begun' = Begun /\ Begun \in Nat
  BY <1>1 DEF Begun
<1>3. running[w] \in 1 .. Begun /\ running[w] \notin finished
  BY <1>1, <1>2
<1>4. running' \in [Worker -> 0 .. Begun'] /\ finished' \subseteq 1 .. Begun'
  <2>1. 0 \in 0 .. Begun /\ running[w] \in 1 .. Begun
    BY <1>2, <1>3
  <2>. QED BY <2>1, <1>1, <1>2
<1>5. \A v \in Worker : running'[v] \notin finished'
  BY <1>1, <1>2, <1>3
<1>6. \A u, v \in Worker : running'[u] = running'[v] /\ running'[u] # 0 => u = v
  BY <1>1
<1>7. \A n \in 1 .. Begun' : n \in finished' \/ \E v \in Worker : running'[v] = n
  BY <1>1, <1>2
<1>. QED BY <1>1, <1>2, <1>3, <1>4, <1>5, <1>6, <1>7 DEF Begun

LEMMA Numbers ==
  ASSUME PoolInv
  PROVE  /\ accepted \in Nat /\ Begun \in Nat /\ Begun =< accepted /\ accepted =< MaxTicks
         /\ \A w \in Worker : running[w] \in 0 .. Begun
BY BoundAssumption DEF PoolInv, Begun

LEMMA PoolStep == ASSUME Inv, [Next]_vars PROVE PoolInv'
<1>1. ASSUME NEW tick \in RawTick, OnTick(tick) PROVE PoolInv'
  BY <1>1, AcceptStep DEF Inv, StateType, OnTick
<1>2. ASSUME NEW w \in Worker, TakeTask(w) PROVE PoolInv'
  BY <1>2, StartStep DEF Inv, TakeTask
<1>3. ASSUME NEW w \in Worker, SkipTick(w) PROVE PoolInv'
  BY <1>3, FinishStep DEF Inv, SkipTick
<1>4. ASSUME NEW w \in Worker, BeginUpdate(w) \/ EndUpdate(w) PROVE PoolInv'
  <2>1. UNCHANGED <<accepted, pending, running, finished, joined>>
    BY <1>4 DEF BeginUpdate, EndUpdate, pool
  <2>. QED BY <2>1 DEF Inv, PoolInv, Begun
<1>5. ASSUME NEW w \in Worker, NEW ok \in BOOLEAN, Publish(w, ok) PROVE PoolInv'
  BY <1>5, FinishStep DEF Inv, Publish
<1>6. CASE UNCHANGED work /\ (UNCHANGED joined \/ Service!Join)
  <2>1. UNCHANGED <<accepted, pending, running, finished>>
    BY <1>6 DEF work
  <2>2. PoolInv
    BY DEF Inv
  <2>3. /\ joined' \in BOOLEAN
        /\ joined' => pending' = <<>> /\ \A w \in Worker : running'[w] = 0
    <3>1. CASE UNCHANGED joined
      BY <3>1, <2>1, <2>2 DEF PoolInv
    <3>2. CASE Service!Join
      BY <3>2, <2>1, <2>2 DEF PoolInv, Service!Join
    <3>. QED BY <3>1, <3>2, <1>6
  <2>4. Begun' = Begun
    BY <2>1 DEF Begun
  <2>. QED BY <2>1, <2>2, <2>3, <2>4 DEF PoolInv
<1>. QED BY StepCases, <1>1, <1>2, <1>3, <1>4, <1>5, <1>6

LEMMA HeldTick ==
  ASSUME Inv, NEW w \in Worker, place[w] # "idle"
  PROVE  /\ running[w] \in 1 .. Begun /\ running[w] \in 1 .. accepted
         /\ running[w] \in 0 .. MaxTicks
         /\ raw[running[w]] \in RawTick /\ TickerOf(w) \in Ticker
<1>1. running[w] # 0
  BY DEF Inv, PlaceInv
<1>2. running[w] \in 1 .. Begun /\ running[w] \in 1 .. accepted /\ running[w] \in 0 .. MaxTicks
  BY <1>1, Numbers, BoundAssumption DEF Inv
<1>3. raw[running[w]] \in RawTick
  BY <1>2, ElementOfSeq DEF Inv, StateType
<1>. QED BY <1>2, <1>3 DEF TickerOf, RawTick

\* A tick once handled does not change.
LEMMA RawKept ==
  ASSUME Inv, [Next]_vars
  PROVE  /\ \A n \in 1 .. accepted : raw'[n] = raw[n]
         /\ accepted' >= accepted /\ raw' \in Seq(RawTick) /\ Len(raw') = accepted'
<1>1. ASSUME NEW tick \in RawTick, OnTick(tick)
      PROVE  /\ \A n \in 1 .. accepted : raw'[n] = raw[n]
             /\ accepted' >= accepted /\ raw' \in Seq(RawTick) /\ Len(raw') = accepted'
  <2>1. raw' = Append(raw, tick) /\ Service!Accept /\ Len(raw) < MaxTicks
    BY <1>1 DEF OnTick
  <2>2. raw \in Seq(RawTick) /\ Len(raw) = accepted /\ accepted \in Nat
    BY Numbers DEF Inv, StateType
  <2>3. accepted' = accepted + 1
    BY <2>1, <2>2, AcceptStep DEF Inv
  <2>. QED BY <2>1, <2>2, <2>3, Appended
<1>2. CASE UNCHANGED <<raw, accepted>>
  BY <1>2, Numbers DEF Inv, StateType
<1>3. ASSUME NEW w \in Worker,
             \/ TakeTask(w) \/ SkipTick(w) \/ BeginUpdate(w) \/ EndUpdate(w)
             \/ \E ok \in BOOLEAN : Publish(w, ok)
      PROVE  UNCHANGED <<raw, accepted>>
  BY <1>3 DEF TakeTask, SkipTick, BeginUpdate, EndUpdate, Publish, pool,
              Service!Start, Service!Finish
<1>. QED BY StepCases, <1>1, <1>2, <1>3 DEF work

LEMMA StateStep == ASSUME Inv, [Next]_vars PROVE StateType'
<1> DEFINE Types == /\ place \in [Worker -> {"idle", "taken", "updating", "updated"}]
                    /\ snapshot \in [Worker -> Seq(0 .. MaxTicks)]
                    /\ indicators_ \in [Ticker -> Seq(0 .. MaxTicks)]
                    /\ raced \subseteq Ticker /\ overlapped \subseteq Ticker
<1>0. Types
  BY DEF Inv, StateType
<1>1. ASSUME NEW tick \in RawTick, OnTick(tick) PROVE Types'
  BY <1>0, <1>1 DEF OnTick, races
<1>2. ASSUME NEW w \in Worker, TakeTask(w) PROVE Types'
  <2>1. Head(pending) \in 1 .. accepted
    BY <1>2, StartStep, Numbers DEF Inv, TakeTask
  <2>2. raw[Head(pending)].ticker \in Ticker
    <3>1. raw[Head(pending)] \in RawTick
      BY <2>1, ElementOfSeq DEF Inv, StateType
    <3>. QED BY <3>1 DEF RawTick
  <2>. QED BY <1>0, <1>2, <2>2 DEF TakeTask
<1>3. ASSUME NEW w \in Worker, SkipTick(w) PROVE Types'
  BY <1>0, <1>3 DEF SkipTick, races
<1>4. ASSUME NEW w \in Worker, BeginUpdate(w) PROVE Types'
  <2>1. TickerOf(w) \in Ticker
    BY <1>4, HeldTick DEF BeginUpdate
  <2>. QED BY <1>0, <1>4, <2>1 DEF BeginUpdate, EntryOf
<1>5. ASSUME NEW w \in Worker, EndUpdate(w) PROVE Types'
  <2>1. running[w] \in 0 .. MaxTicks
    BY <1>5, HeldTick DEF EndUpdate
  <2>2. Written(w) \subseteq Seq(0 .. MaxTicks)
    <3>1. Append(snapshot[w], running[w]) \in Seq(0 .. MaxTicks)
      BY <1>0, <2>1, Appended
    <3>2. Torn \in Seq(0 .. MaxTicks)
      BY BoundAssumption DEF Torn
    <3>. QED BY <3>1, <3>2 DEF Written
  <2>. QED BY <1>0, <1>5, <2>2 DEF EndUpdate, races
<1>6. ASSUME NEW w \in Worker, NEW ok \in BOOLEAN, Publish(w, ok) PROVE Types'
  BY <1>0, <1>6 DEF Publish, races
<1>7. ASSUME UNCHANGED work PROVE Types'
  <2>1. UNCHANGED <<place, snapshot, indicators_, raced, overlapped>>
    BY <1>7 DEF work, races
  <2>. QED BY <1>0, <2>1
<1> HIDE DEF Types
<1>8. Types'
  BY StepCases, <1>1, <1>2, <1>3, <1>4, <1>5, <1>6, <1>7
<1>. QED BY <1>8, RawKept DEF StateType, Types

LEMMA FlowStep == ASSUME Inv, [Next]_vars PROVE FlowType' /\ MemberInv'
<1> USE DEF Inv, FlowType, MemberInv
<1>1. CASE ConsumerStep
  BY <1>1 DEF ConsumerStep, CheckRunning, AfterCheck, PollTimesOut, OnTick, pool,
              Service!Accept
<1>2. CASE Stop
  BY <1>2 DEF Stop, pool
<1>3. CASE Teardown
  BY <1>3 DEF Teardown, DestroyIndicators, DestroyPool, DestroyProducer, PoolIsGone,
              pool, Service!Join
<1>4. CASE Crash
  BY <1>4 DEF Crash, pool
<1>5. ASSUME NEW w \in Worker, WorkerStep(w) PROVE FlowType' /\ MemberInv'
  BY <1>5 DEF WorkerStep, TakeTask, SkipTick, BeginUpdate, EndUpdate, Publish, pool,
              Service!Start, Service!Finish
<1>6. CASE UNCHANGED vars
  BY <1>6 DEF vars, pool
<1>. QED BY <1>1, <1>2, <1>3, <1>4, <1>5, <1>6 DEF Next

-----------------------------------------------------------------------------
\* The workers.

\* What a worker's step leaves of the ticks it is about.
LEMMA HeldKept ==
  ASSUME Inv, [Next]_vars, NEW w \in Worker, place[w] # "idle"
  PROVE  raw'[running[w]] = raw[running[w]]
BY HeldTick, RawKept

LEMMA BegunKept ==
  ASSUME Inv, [Next]_vars
  PROVE  \A n \in 1 .. Begun : raw'[n] = raw[n]
BY RawKept, Numbers DEF Inv

LEMMA PlaceStep == ASSUME Inv, [Next]_vars PROVE PlaceInv'
<1>0. /\ PlaceInv /\ PoolInv
      /\ place \in [Worker -> {"idle", "taken", "updating", "updated"}]
      /\ running \in [Worker -> 0 .. Begun] /\ Begun \in Nat
  BY Numbers DEF Inv, StateType, PoolInv
<1>1. ASSUME NEW tick \in RawTick, OnTick(tick) PROVE PlaceInv'
  <2>1. UNCHANGED <<place, running>>
    BY <1>1 DEF OnTick, Service!Accept
  <2>. QED BY <1>0, <2>1, HeldKept DEF PlaceInv, Priced
<1>2. ASSUME NEW w \in Worker, TakeTask(w) PROVE PlaceInv'
  <2>1. /\ running' = [running EXCEPT ![w] = Begun + 1]
        /\ place' = [place EXCEPT ![w] = "taken"] /\ raw' = raw
    BY <1>0, <1>2, StartStep DEF TakeTask
  <2>. QED BY <1>0, <2>1 DEF PlaceInv, Priced
<1>3. ASSUME NEW w \in Worker, SkipTick(w) PROVE PlaceInv'
  <2>1. /\ running' = [running EXCEPT ![w] = 0]
        /\ place' = [place EXCEPT ![w] = "idle"] /\ raw' = raw
    BY <1>3 DEF SkipTick, Service!Finish
  <2>. QED BY <1>0, <2>1 DEF PlaceInv, Priced
<1>4. ASSUME NEW w \in Worker, BeginUpdate(w) PROVE PlaceInv'
  <2>1. /\ UNCHANGED <<running, raw>> /\ place[w] = "taken" /\ Priced(running[w])
        /\ place' = [place EXCEPT ![w] = "updating"]
    BY <1>4 DEF BeginUpdate, pool, Priced
  <2>. QED BY <1>0, <2>1 DEF PlaceInv, Priced
<1>5. ASSUME NEW w \in Worker, EndUpdate(w) PROVE PlaceInv'
  <2>1. /\ UNCHANGED <<running, raw>> /\ place[w] = "updating"
        /\ place' = [place EXCEPT ![w] = "updated"]
    BY <1>5 DEF EndUpdate, pool
  <2>. QED BY <1>0, <2>1 DEF PlaceInv, Priced
<1>6. ASSUME NEW w \in Worker, NEW ok \in BOOLEAN, Publish(w, ok) PROVE PlaceInv'
  <2>1. /\ running' = [running EXCEPT ![w] = 0]
        /\ place' = [place EXCEPT ![w] = "idle"] /\ raw' = raw
    BY <1>6 DEF Publish, Service!Finish
  <2>. QED BY <1>0, <2>1 DEF PlaceInv, Priced
<1>7. ASSUME UNCHANGED work PROVE PlaceInv'
  <2>1. UNCHANGED <<place, running, raw>>
    BY <1>7 DEF work
  <2>. QED BY <1>0, <2>1 DEF PlaceInv, Priced
<1>. QED BY StepCases, <1>1, <1>2, <1>3, <1>4, <1>5, <1>6, <1>7

LEMMA AbsorbStep == ASSUME Inv, [Next]_vars PROVE AbsorbInv'
<1>0. /\ AbsorbInv /\ PoolInv /\ PlaceInv
      /\ place \in [Worker -> {"idle", "taken", "updating", "updated"}]
      /\ running \in [Worker -> 0 .. Begun] /\ Begun \in Nat
      /\ finished \subseteq 1 .. Begun
  BY Numbers DEF Inv, StateType, PoolInv
<1>1. ASSUME NEW tick \in RawTick, OnTick(tick) PROVE AbsorbInv'
  <2>1. UNCHANGED <<place, running, finished, absorbed>>
    BY <1>1 DEF OnTick, Service!Accept
  <2>2. Begun' = Begun
    BY <1>0, <1>1, AcceptStep DEF Inv, StateType, OnTick
  <2>. QED BY <1>0, <2>1, <2>2, BegunKept DEF AbsorbInv, Priced
<1>2. ASSUME NEW w \in Worker, TakeTask(w) PROVE AbsorbInv'
  <2>1. /\ running' = [running EXCEPT ![w] = Begun + 1] /\ Begun' = Begun + 1
        /\ place' = [place EXCEPT ![w] = "taken"] /\ UNCHANGED <<raw, finished, absorbed>>
    BY <1>0, <1>2, StartStep DEF TakeTask
  <2>. QED BY <1>0, <2>1 DEF AbsorbInv, Priced
<1>3. ASSUME NEW w \in Worker, SkipTick(w) PROVE AbsorbInv'
  <2>1. /\ running' = [running EXCEPT ![w] = 0] /\ Begun' = Begun
        /\ finished' = finished \cup {running[w]} /\ ~Priced(running[w])
        /\ place' = [place EXCEPT ![w] = "idle"] /\ UNCHANGED <<raw, absorbed>>
    BY <1>0, <1>3, FinishStep DEF SkipTick, Priced
  <2>. QED BY <1>0, <2>1 DEF AbsorbInv, Priced
<1>4. ASSUME NEW w \in Worker, BeginUpdate(w) PROVE AbsorbInv'
  <2>1. /\ UNCHANGED <<running, raw, finished, absorbed, Begun>> /\ place[w] = "taken"
        /\ place' = [place EXCEPT ![w] = "updating"]
    BY <1>4 DEF BeginUpdate, pool, Begun
  <2>. QED BY <1>0, <2>1 DEF AbsorbInv, Priced
<1>5. ASSUME NEW w \in Worker, EndUpdate(w) PROVE AbsorbInv'
  <2>1. /\ UNCHANGED <<running, raw, finished, Begun>> /\ place[w] = "updating"
        /\ absorbed' = absorbed \cup {running[w]}
        /\ place' = [place EXCEPT ![w] = "updated"]
    BY <1>5 DEF EndUpdate, pool, Begun
  <2>2. running[w] \in 1 .. Begun /\ Priced(running[w])
    BY <1>0, <2>1, HeldTick DEF PlaceInv
  <2>3. \A v \in Worker : v # w => running[v] # running[w]
    BY <1>0, <2>2 DEF PoolInv
  <2>. QED BY <1>0, <2>1, <2>2, <2>3 DEF AbsorbInv, Priced
<1>6. ASSUME NEW w \in Worker, NEW ok \in BOOLEAN, Publish(w, ok) PROVE AbsorbInv'
  <2>1. /\ running' = [running EXCEPT ![w] = 0] /\ Begun' = Begun
        /\ finished' = finished \cup {running[w]} /\ place[w] = "updated"
        /\ place' = [place EXCEPT ![w] = "idle"] /\ UNCHANGED <<raw, absorbed>>
    BY <1>0, <1>6, FinishStep DEF Publish
  <2>. QED BY <1>0, <2>1 DEF AbsorbInv, Priced
<1>7. ASSUME UNCHANGED work PROVE AbsorbInv'
  <2>1. UNCHANGED <<place, running, raw, finished, absorbed, Begun>>
    BY <1>7 DEF work, Begun
  <2>. QED BY <1>0, <2>1 DEF AbsorbInv, Priced
<1>. QED BY StepCases, <1>1, <1>2, <1>3, <1>4, <1>5, <1>6, <1>7

\* RaceInv, worker by worker.
Alone ==
  \A v \in Worker :
    place[v] = "updating" /\ TickerOf(v) \notin raced =>
      /\ snapshot[v] = indicators_[TickerOf(v)]
      /\ \A u \in Worker :
           place[u] = "updating" /\ TickerOf(u) = TickerOf(v) => u = v

LEMMA AloneIsRaceInv == Alone <=> RaceInv
BY DEF Alone, RaceInv, Updating, EntryOf

LEMMA AloneStep == ASSUME Inv, [Next]_vars PROVE Alone'
<1>0. /\ Alone
      /\ place \in [Worker -> {"idle", "taken", "updating", "updated"}]
      /\ running \in [Worker -> 0 .. Begun] /\ Begun \in Nat
      /\ snapshot \in [Worker -> Seq(0 .. MaxTicks)]
      /\ indicators_ \in [Ticker -> Seq(0 .. MaxTicks)]
      /\ \A v \in Worker : place[v] # "idle" => TickerOf(v) \in Ticker
  BY Numbers, AloneIsRaceInv, HeldTick DEF Inv, StateType, PoolInv
<1>1. ASSUME NEW tick \in RawTick, OnTick(tick) PROVE Alone'
  <2>1. UNCHANGED <<place, running, snapshot, indicators_, raced>>
    BY <1>1 DEF OnTick, races, Service!Accept
  <2>2. \A v \in Worker : place[v] # "idle" => TickerOf(v)' = TickerOf(v)
    BY <2>1, HeldKept DEF TickerOf
  <2>. QED BY <1>0, <2>1, <2>2 DEF Alone
<1>2. ASSUME NEW w \in Worker, TakeTask(w) PROVE Alone'
  <2>1. /\ running' = [running EXCEPT ![w] = Begun + 1] /\ place' = [place EXCEPT ![w] = "taken"]
        /\ UNCHANGED <<raw, snapshot, indicators_, raced>>
    BY <1>0, <1>2, StartStep DEF TakeTask, Inv
  <2>. QED BY <1>0, <2>1 DEF Alone, TickerOf
<1>3. ASSUME NEW w \in Worker, SkipTick(w) PROVE Alone'
  <2>1. /\ running' = [running EXCEPT ![w] = 0] /\ place' = [place EXCEPT ![w] = "idle"]
        /\ UNCHANGED <<raw, snapshot, indicators_, raced>>
    BY <1>3 DEF SkipTick, races, Service!Finish
  <2>. QED BY <1>0, <2>1 DEF Alone, TickerOf
<1>4. ASSUME NEW w \in Worker, BeginUpdate(w) PROVE Alone'
  <2>1. /\ UNCHANGED <<running, raw, indicators_>> /\ place[w] = "taken"
        /\ place' = [place EXCEPT ![w] = "updating"]
        /\ snapshot' = [snapshot EXCEPT ![w] = indicators_[TickerOf(w)]]
        /\ raced' = IF Updating(TickerOf(w)) = {} THEN raced ELSE raced \cup {TickerOf(w)}
    BY <1>4 DEF BeginUpdate, pool, EntryOf
  <2>2. \A v \in Worker : TickerOf(v)' = TickerOf(v)
    BY <2>1 DEF TickerOf
  <2>3. ASSUME NEW u \in Worker, u # w, place[u] = "updating", TickerOf(u) = TickerOf(w)
        PROVE  TickerOf(w) \in raced'
    BY <2>1, <2>3 DEF Updating, EntryOf
  <2>4. raced \subseteq raced'
    BY <2>1
  <2>. QED BY <1>0, <2>1, <2>2, <2>3, <2>4 DEF Alone
<1>5. ASSUME NEW w \in Worker, EndUpdate(w) PROVE Alone'
  <2>1. /\ UNCHANGED <<running, raw, raced>> /\ place[w] = "updating"
        /\ place' = [place EXCEPT ![w] = "updated"]
    BY <1>5 DEF EndUpdate, pool, races
  <2>2. \A v \in Worker : TickerOf(v)' = TickerOf(v)
    BY <2>1 DEF TickerOf
  <2>3. /\ \A v \in Worker : v # w => snapshot'[v] = snapshot[v]
        /\ \A t \in Ticker : t # TickerOf(w) => indicators_'[t] = indicators_[t]
    BY <1>0, <1>5 DEF EndUpdate, EntryOf
  <2>. QED BY <1>0, <2>1, <2>2, <2>3, ZenonT(60) DEF Alone
<1>6. ASSUME NEW w \in Worker, NEW ok \in BOOLEAN, Publish(w, ok) PROVE Alone'
  <2>1. /\ running' = [running EXCEPT ![w] = 0] /\ place' = [place EXCEPT ![w] = "idle"]
        /\ UNCHANGED <<raw, snapshot, indicators_, raced>>
    BY <1>6 DEF Publish, races, Service!Finish
  <2>. QED BY <1>0, <2>1 DEF Alone, TickerOf
<1>7. ASSUME UNCHANGED work PROVE Alone'
  <2>1. UNCHANGED <<place, running, raw, snapshot, indicators_, raced>>
    BY <1>7 DEF work, races
  <2>. QED BY <1>0, <2>1 DEF Alone, TickerOf
<1>. QED BY StepCases, <1>1, <1>2, <1>3, <1>4, <1>5, <1>6, <1>7

LEMMA RaceStep == ASSUME Inv, [Next]_vars PROVE RaceInv'
BY AloneStep, AloneIsRaceInv, PTL

\* What EndUpdate() does to the indicators of a symbol without a race.
LEMMA UpdateEffect ==
  ASSUME Inv, NEW w \in Worker, EndUpdate(w)
  PROVE  /\ running[w] \in 1 .. Begun /\ running[w] \notin absorbed
         /\ running[w] \in 0 .. MaxTicks /\ TickerOf(w) \in Ticker
         /\ absorbed' = absorbed \cup {running[w]}
         /\ UNCHANGED <<raw, running, raced, overlapped, accepted, pending>>
         /\ \A t \in Ticker : t # TickerOf(w) => indicators_'[t] = indicators_[t]
         /\ snapshot'[w] = indicators_'[TickerOf(w)]
         /\ \A v \in Worker : v # w => snapshot'[v] = snapshot[v]
         /\ TickerOf(w) \notin raced =>
              indicators_'[TickerOf(w)] = Append(indicators_[TickerOf(w)], running[w])
<1>0. /\ snapshot \in [Worker -> Seq(0 .. MaxTicks)]
      /\ indicators_ \in [Ticker -> Seq(0 .. MaxTicks)] /\ place[w] = "updating"
  BY DEF Inv, StateType, EndUpdate
<1>1. /\ running[w] \in 1 .. Begun /\ running[w] \in 0 .. MaxTicks /\ TickerOf(w) \in Ticker
  BY <1>0, HeldTick
<1>2. running[w] \notin absorbed
  BY <1>0 DEF Inv, AbsorbInv
<1>3. /\ absorbed' = absorbed \cup {running[w]}
      /\ UNCHANGED <<raw, running, raced, overlapped, accepted, pending>>
  BY DEF EndUpdate, races, pool
<1>4. PICK state \in Written(w) :
        /\ indicators_' = [indicators_ EXCEPT ![TickerOf(w)] = state]
        /\ snapshot' = [snapshot EXCEPT ![w] = state]
  BY DEF EndUpdate, EntryOf
<1>5. TickerOf(w) \notin raced => state = Append(indicators_[TickerOf(w)], running[w])
  BY <1>0, <1>4 DEF Written, EntryOf, Inv, RaceInv
<1>. QED BY <1>0, <1>1, <1>2, <1>3, <1>4, <1>5

LEMMA LossStep == ASSUME Inv, [Next]_vars PROVE LossNeedsARace'
<1> DEFINE Holds(t) == /\ Elements(indicators_[t]) = {n \in absorbed : raw[n].ticker = t}
                       /\ Len(indicators_[t]) = Cardinality(Elements(indicators_[t]))
<1>0. /\ \A t \in Ticker \ raced : Holds(t)
      /\ indicators_ \in [Ticker -> Seq(0 .. MaxTicks)]
      /\ absorbed \subseteq 1 .. Begun
  BY DEF Inv, LossNeedsARace, StateType, AbsorbInv
<1>1. ASSUME UNCHANGED <<indicators_, absorbed>>, raced \subseteq raced' PROVE LossNeedsARace'
  <2>1. \A n \in absorbed : raw'[n] = raw[n]
    BY <1>0, BegunKept
  <2>2. \A t : {n \in absorbed : raw'[n].ticker = t} = {n \in absorbed : raw[n].ticker = t}
    BY <2>1
  <2>3. \A t : Elements(indicators_[t])' = Elements(indicators_[t])
    BY <1>1 DEF Elements
  <2>. QED BY <1>0, <1>1, <2>2, <2>3 DEF LossNeedsARace
<1>2. ASSUME NEW tick \in RawTick, OnTick(tick) PROVE LossNeedsARace'
  BY <1>1, <1>2 DEF OnTick, races
<1>3. ASSUME NEW w \in Worker, TakeTask(w) PROVE LossNeedsARace'
  BY <1>1, <1>3 DEF TakeTask
<1>4. ASSUME NEW w \in Worker, SkipTick(w) PROVE LossNeedsARace'
  BY <1>1, <1>4 DEF SkipTick, races
<1>5. ASSUME NEW w \in Worker, BeginUpdate(w) PROVE LossNeedsARace'
  BY <1>1, <1>5 DEF BeginUpdate
<1>6. ASSUME NEW w \in Worker, EndUpdate(w) PROVE LossNeedsARace'
  <2> DEFINE T == TickerOf(w)
  <2>1. /\ running[w] \in 0 .. MaxTicks /\ running[w] \notin absorbed
        /\ absorbed' = absorbed \cup {running[w]} /\ UNCHANGED <<raw, raced>>
        /\ \A t \in Ticker : t # T => indicators_'[t] = indicators_[t]
        /\ T \notin raced => indicators_'[T] = Append(indicators_[T], running[w])
        /\ raw[running[w]].ticker = T
    BY <1>6, UpdateEffect DEF TickerOf
  <2> HIDE DEF T
  <2> SUFFICES ASSUME NEW t \in Ticker \ raced PROVE Holds(t)'
    BY <2>1 DEF LossNeedsARace
  <2>2. CASE t # T
    <3>1. {n \in absorbed' : raw'[n].ticker = t} = {n \in absorbed : raw[n].ticker = t}
      BY <2>1, <2>2
    <3>2. indicators_'[t] = indicators_[t]
      BY <2>1, <2>2
    <3>3. Elements(indicators_[t])' = Elements(indicators_[t])
      BY <3>2 DEF Elements
    <3>. QED BY <1>0, <3>1, <3>2, <3>3
  <2>3. CASE t = T
    <3>1. indicators_'[t] = Append(indicators_[t], running[w]) /\ indicators_[t] \in Seq(0 .. MaxTicks)
      BY <1>0, <2>1, <2>3
    <3> DEFINE s == indicators_[t]
    <3>8. /\ Elements(Append(s, running[w])) = Elements(s) \cup {running[w]}
          /\ Len(Append(s, running[w])) = Len(s) + 1
      <4> s \in Seq(0 .. MaxTicks) /\ running[w] \in 0 .. MaxTicks
        BY <2>1, <3>1
      <4> HIDE DEF s
      <4>1. Elements(Append(s, running[w])) = Elements(s) \cup {running[w]}
        BY ElementsAppended, ZenonT(60)
      <4>2. Len(Append(s, running[w])) = Len(s) + 1
        BY Appended
      <4>. QED BY <4>1, <4>2
    <3>9. IsFiniteSet(Elements(s))
      BY <3>1, ElementsFinite
    <3>2. /\ Elements(indicators_'[t]) = Elements(indicators_[t]) \cup {running[w]}
          /\ Len(indicators_'[t]) = Len(indicators_[t]) + 1
          /\ IsFiniteSet(Elements(indicators_[t]))
      BY <3>1, <3>8, <3>9
    <3>3. /\ Elements(indicators_[t]) = {n \in absorbed : raw[n].ticker = t}
          /\ Len(indicators_[t]) = Cardinality(Elements(indicators_[t]))
      BY <1>0
    <3>4. running[w] \notin Elements(indicators_[t])
      BY <2>1, <3>3
    <3>5. Cardinality(Elements(indicators_'[t])) = Cardinality(Elements(indicators_[t])) + 1
      BY <3>2, <3>4, FS_AddElement
    <3>6. {n \in absorbed' : raw'[n].ticker = t} = {n \in absorbed : raw[n].ticker = t} \cup {running[w]}
      BY <2>1, <2>3
    <3>7. Elements(indicators_[t])' = Elements(indicators_'[t])
      BY <2>1 DEF Elements
    <3>. QED BY <3>2, <3>3, <3>5, <3>6, <3>7
  <2>. QED BY <2>2, <2>3
<1>7. ASSUME NEW w \in Worker, NEW ok \in BOOLEAN, Publish(w, ok) PROVE LossNeedsARace'
  BY <1>1, <1>7 DEF Publish, races
<1>8. ASSUME UNCHANGED work PROVE LossNeedsARace'
  BY <1>1, <1>8 DEF work, races
<1>. QED BY StepCases, <1>2, <1>3, <1>4, <1>5, <1>6, <1>7, <1>8

\* A symbol that was never held twice has one holder.
LEMMA SoleHolder ==
  ASSUME Inv, NEW v \in Worker, NEW w \in Worker, place[v] # "idle", place[w] # "idle",
         TickerOf(v) = TickerOf(w), TickerOf(v) \notin overlapped
  PROVE  v = w
<1>1. /\ running[v] \in 1 .. Begun /\ raw[running[v]].ticker = TickerOf(v)
      /\ running[w] \in 1 .. Begun /\ raw[running[w]].ticker = TickerOf(w)
  BY HeldTick DEF TickerOf
<1>2. running[v] =< running[w] /\ running[w] =< running[v]
  BY <1>1 DEF Inv, HeldInv
<1>3. running[v] = running[w] /\ running[v] # 0
  BY <1>1, <1>2, Numbers DEF Inv
<1>. QED BY <1>3 DEF Inv, PoolInv

\* HeldInv, worker by worker.
Latest ==
  \A v \in Worker : place[v] # "idle" /\ TickerOf(v) \notin overlapped =>
    \A n \in 1 .. Begun : raw[n].ticker = TickerOf(v) => n =< running[v]
Current ==
  \A v \in Worker : place[v] = "updated" /\ TickerOf(v) \notin overlapped =>
    snapshot[v] = indicators_[TickerOf(v)]
Sorted == \A t \in Ticker \ overlapped : Increasing(indicators_[t])

LEMMA HeldInvParts ==
  ASSUME place \in [Worker -> {"idle", "taken", "updating", "updated"}]
  PROVE  HeldInv <=> raced \subseteq overlapped /\ Latest /\ Current /\ Sorted
BY DEF HeldInv, Latest, Current, Sorted

LEMMA HeldParts ==
  ASSUME Inv
  PROVE  /\ raced \subseteq overlapped /\ Latest /\ Current /\ Sorted
         /\ place \in [Worker -> {"idle", "taken", "updating", "updated"}]
         /\ running \in [Worker -> 0 .. Begun] /\ Begun \in Nat
         /\ snapshot \in [Worker -> Seq(0 .. MaxTicks)]
         /\ indicators_ \in [Ticker -> Seq(0 .. MaxTicks)]
         /\ \A v \in Worker : place[v] # "idle" =>
              TickerOf(v) \in Ticker /\ running[v] \in 1 .. Begun
BY HeldInvParts, Numbers, HeldTick DEF Inv, StateType, PoolInv

LEMMA RacedStep == ASSUME Inv, [Next]_vars PROVE (raced \subseteq overlapped)'
<1>1. ASSUME UNCHANGED raced, overlapped \subseteq overlapped' PROVE (raced \subseteq overlapped)'
  BY <1>1, HeldParts
<1>2. ASSUME NEW tick \in RawTick, OnTick(tick) PROVE (raced \subseteq overlapped)'
  BY <1>1, <1>2 DEF OnTick, races
<1>3. ASSUME NEW w \in Worker, TakeTask(w) PROVE (raced \subseteq overlapped)'
  BY <1>1, <1>3 DEF TakeTask
<1>4. ASSUME NEW w \in Worker, SkipTick(w) PROVE (raced \subseteq overlapped)'
  BY <1>1, <1>4 DEF SkipTick, races
<1>5. ASSUME NEW w \in Worker, BeginUpdate(w) PROVE (raced \subseteq overlapped)'
  <2>1. /\ overlapped' = overlapped /\ place[w] = "taken"
        /\ raced' = IF Updating(TickerOf(w)) = {} THEN raced ELSE raced \cup {TickerOf(w)}
    BY <1>5 DEF BeginUpdate, EntryOf
  <2>2. CASE Updating(TickerOf(w)) = {}
    BY <2>1, <2>2, HeldParts
  <2>3. CASE Updating(TickerOf(w)) # {}
    <3>1. PICK v \in Worker : place[v] = "updating" /\ TickerOf(v) = TickerOf(w)
      BY <2>3 DEF Updating, EntryOf
    <3>2. TickerOf(w) \in overlapped
      BY <2>1, <3>1, SoleHolder
    <3>. QED BY <2>1, <2>3, <3>2, HeldParts
  <2>. QED BY <2>2, <2>3
<1>6. ASSUME NEW w \in Worker, EndUpdate(w) PROVE (raced \subseteq overlapped)'
  BY <1>1, <1>6 DEF EndUpdate, races
<1>7. ASSUME NEW w \in Worker, NEW ok \in BOOLEAN, Publish(w, ok) PROVE (raced \subseteq overlapped)'
  BY <1>1, <1>7 DEF Publish, races
<1>8. ASSUME UNCHANGED work PROVE (raced \subseteq overlapped)'
  BY <1>1, <1>8 DEF work, races
<1>. QED BY StepCases, <1>2, <1>3, <1>4, <1>5, <1>6, <1>7, <1>8

LEMMA LatestStep == ASSUME Inv, [Next]_vars PROVE Latest' /\ Current'
<1>0. /\ Latest /\ Current
      /\ place \in [Worker -> {"idle", "taken", "updating", "updated"}]
      /\ running \in [Worker -> 0 .. Begun] /\ Begun \in Nat
      /\ \A v \in Worker : place[v] # "idle" =>
           TickerOf(v) \in Ticker /\ running[v] \in 1 .. Begun
  BY HeldParts
<1>1. ASSUME NEW tick \in RawTick, OnTick(tick) PROVE Latest' /\ Current'
  <2>1. UNCHANGED <<place, running, snapshot, indicators_, overlapped>>
    BY <1>1 DEF OnTick, races, Service!Accept
  <2>2. Begun' = Begun
    BY <1>1, AcceptStep DEF Inv, StateType, OnTick
  <2>3. \A v \in Worker : place[v] # "idle" => TickerOf(v)' = TickerOf(v)
    BY <2>1, HeldKept DEF TickerOf
  <2>4. \A n \in 1 .. Begun : raw'[n] = raw[n]
    BY BegunKept
  <2>5. Latest'
    BY <1>0, <2>1, <2>2, <2>3, <2>4 DEF Latest
  <2>6. Current'
    BY <1>0, <2>1, <2>3 DEF Current
  <2>. QED BY <2>5, <2>6
<1>2. ASSUME NEW w \in Worker, TakeTask(w) PROVE Latest' /\ Current'
  <2> DEFINE T == raw[Begun + 1].ticker
  <2>1. /\ running' = [running EXCEPT ![w] = Begun + 1] /\ Begun' = Begun + 1
        /\ place' = [place EXCEPT ![w] = "taken"] /\ UNCHANGED <<raw, snapshot, indicators_>>
        /\ overlapped' = IF Holding(T) = {} THEN overlapped ELSE overlapped \cup {T}
    BY <1>2, StartStep DEF TakeTask, Inv
  <2>2. /\ TickerOf(w)' = T
        /\ \A v \in Worker : v # w => TickerOf(v)' = TickerOf(v)
    BY <1>0, <2>1 DEF TickerOf
  <2>3. \A v \in Worker : place[v] # "idle" /\ TickerOf(v) = T => T \in overlapped'
    BY <2>1 DEF Holding
  <2>4. overlapped \subseteq overlapped'
    BY <2>1
  <2>5. Latest'
    <3> SUFFICES ASSUME NEW v \in Worker, (place[v] # "idle" /\ TickerOf(v) \notin overlapped)',
                        NEW n \in 1 .. Begun + 1, raw[n].ticker = TickerOf(v)'
                 PROVE  n =< running'[v]
      BY <2>1 DEF Latest
    <3>1. CASE v = w
      BY <3>1, <1>0, <2>1
    <3>2. CASE v # w
      <4>1. /\ place[v] # "idle" /\ running'[v] = running[v] /\ TickerOf(v) \notin overlapped
            /\ TickerOf(v)' = TickerOf(v) /\ TickerOf(v) # T
        BY <3>2, <1>0, <2>1, <2>2, <2>3, <2>4
      <4>2. n \in 1 .. Begun
        BY <4>1, <1>0
      <4>. QED BY <4>1, <4>2, <1>0 DEF Latest
    <3>. QED BY <3>1, <3>2
  <2>6. Current'
    BY <1>0, <2>1, <2>2, <2>4 DEF Current
  <2>. QED BY <2>5, <2>6
<1>3. ASSUME NEW w \in Worker, SkipTick(w) PROVE Latest' /\ Current'
  <2>1. /\ running' = [running EXCEPT ![w] = 0] /\ place' = [place EXCEPT ![w] = "idle"]
        /\ Begun' = Begun /\ UNCHANGED <<raw, snapshot, indicators_, overlapped>>
    BY <1>3, FinishStep DEF SkipTick, races, Inv
  <2>2. \A v \in Worker : v # w => TickerOf(v)' = TickerOf(v)
    BY <2>1 DEF TickerOf
  <2>. QED BY <1>0, <2>1, <2>2 DEF Latest, Current
<1>4. ASSUME NEW w \in Worker, BeginUpdate(w) PROVE Latest' /\ Current'
  <2>1. /\ UNCHANGED <<running, raw, indicators_, overlapped, Begun>> /\ place[w] = "taken"
        /\ place' = [place EXCEPT ![w] = "updating"]
        /\ \A v \in Worker : v # w => snapshot'[v] = snapshot[v]
    BY <1>4, HeldParts DEF BeginUpdate, pool, Begun
  <2>2. \A v \in Worker : TickerOf(v)' = TickerOf(v)
    BY <2>1 DEF TickerOf
  <2>3. Latest'
    BY <1>0, <2>1, <2>2 DEF Latest
  <2>4. Current'
    BY <1>0, <2>1, <2>2 DEF Current
  <2>. QED BY <2>3, <2>4
<1>5. ASSUME NEW w \in Worker, EndUpdate(w) PROVE Latest' /\ Current'
  <2>1. /\ UNCHANGED <<running, raw, overlapped, Begun>> /\ place[w] = "updating"
        /\ place' = [place EXCEPT ![w] = "updated"]
    BY <1>5 DEF EndUpdate, pool, races, Begun
  <2>2. \A v \in Worker : TickerOf(v)' = TickerOf(v)
    BY <2>1 DEF TickerOf
  <2>3. Latest'
    BY <1>0, <2>1, <2>2 DEF Latest
  <2>4. Current'
    <3> SUFFICES ASSUME NEW v \in Worker, place'[v] = "updated", TickerOf(v) \notin overlapped
                 PROVE  snapshot'[v] = indicators_'[TickerOf(v)]
      BY <2>1, <2>2 DEF Current
    <3>1. CASE v = w
      BY <3>1, <1>5, UpdateEffect
    <3>2. CASE v # w
      <4>1. place[v] = "updated"
        BY <3>2, <1>0, <2>1
      <4>2. TickerOf(v) # TickerOf(w)
        BY <4>1, <3>2, <2>1, SoleHolder
      <4>. QED BY <4>1, <4>2, <3>2, <1>0, <1>5, UpdateEffect DEF Current
    <3>. QED BY <3>1, <3>2
  <2>. QED BY <2>3, <2>4
<1>6. ASSUME NEW w \in Worker, NEW ok \in BOOLEAN, Publish(w, ok) PROVE Latest' /\ Current'
  <2>1. /\ running' = [running EXCEPT ![w] = 0] /\ place' = [place EXCEPT ![w] = "idle"]
        /\ Begun' = Begun /\ UNCHANGED <<raw, snapshot, indicators_, overlapped>>
    BY <1>6, FinishStep DEF Publish, races, Inv
  <2>2. \A v \in Worker : v # w => TickerOf(v)' = TickerOf(v)
    BY <2>1 DEF TickerOf
  <2>. QED BY <1>0, <2>1, <2>2 DEF Latest, Current
<1>7. ASSUME UNCHANGED work PROVE Latest' /\ Current'
  <2>1. UNCHANGED <<place, running, raw, snapshot, indicators_, overlapped, Begun>>
    BY <1>7 DEF work, races, Begun
  <2>. QED BY <1>0, <2>1 DEF Latest, Current, TickerOf
<1>. QED BY StepCases, <1>1, <1>2, <1>3, <1>4, <1>5, <1>6, <1>7

LEMMA SortedStep == ASSUME Inv, [Next]_vars PROVE Sorted'
<1>1. ASSUME UNCHANGED indicators_, overlapped \subseteq overlapped' PROVE Sorted'
  BY <1>1, HeldParts DEF Sorted, Increasing
<1>2. ASSUME NEW tick \in RawTick, OnTick(tick) PROVE Sorted'
  BY <1>1, <1>2 DEF OnTick, races
<1>3. ASSUME NEW w \in Worker, TakeTask(w) PROVE Sorted'
  BY <1>1, <1>3 DEF TakeTask
<1>4. ASSUME NEW w \in Worker, SkipTick(w) PROVE Sorted'
  BY <1>1, <1>4 DEF SkipTick, races
<1>5. ASSUME NEW w \in Worker, BeginUpdate(w) PROVE Sorted'
  BY <1>1, <1>5 DEF BeginUpdate
<1>6. ASSUME NEW w \in Worker, EndUpdate(w) PROVE Sorted'
  <2> DEFINE T == TickerOf(w)
             s == indicators_[T]
  <2>1. /\ UNCHANGED overlapped /\ place[w] = "updating"
        /\ \A t \in Ticker : t # T => indicators_'[t] = indicators_[t]
    BY <1>6, UpdateEffect DEF EndUpdate
  <2>2. ASSUME T \in Ticker \ overlapped PROVE Increasing(indicators_'[T])
    <3>1. /\ indicators_'[T] = Append(s, running[w]) /\ Increasing(s)
          /\ s \in Seq(0 .. MaxTicks) /\ running[w] \in 0 .. MaxTicks
      BY <1>6, <2>2, UpdateEffect, HeldParts DEF Sorted
    <3>2. ASSUME NEW i \in 1 .. Len(s) PROVE s[i] < running[w]
      <4>1. s[i] \in Elements(s)
        BY DEF Elements
      <4>2. s[i] \in absorbed /\ raw[s[i]].ticker = T
        BY <4>1, <2>2, HeldParts DEF Inv, LossNeedsARace
      <4>3. s[i] \in 1 .. Begun /\ running[w] \in 1 .. Begun /\ s[i] # running[w]
        BY <4>2, <1>6, UpdateEffect DEF Inv, AbsorbInv
      <4>4. s[i] =< running[w]
        BY <4>2, <4>3, <2>1, <2>2, HeldParts DEF Latest
      <4>. QED BY <4>3, <4>4
    <3> HIDE DEF s
    <3>3. /\ Len(s) \in Nat /\ Len(Append(s, running[w])) = Len(s) + 1
          /\ Append(s, running[w])[Len(s) + 1] = running[w]
          /\ \A i \in 1 .. Len(s) : Append(s, running[w])[i] = s[i]
      BY <3>1, Appended
    <3>4. Increasing(Append(s, running[w]))
      BY <3>1, <3>2, <3>3 DEF Increasing
    <3>. QED BY <3>1, <3>4
  <2> HIDE DEF T, s
  <2>3. ASSUME NEW t \in Ticker \ overlapped PROVE Increasing(indicators_'[t])
    BY <2>1, <2>2, HeldParts DEF Sorted
  <2>. QED BY <2>1, <2>3 DEF Sorted, Increasing
<1>7. ASSUME NEW w \in Worker, NEW ok \in BOOLEAN, Publish(w, ok) PROVE Sorted'
  BY <1>1, <1>7 DEF Publish, races
<1>8. ASSUME UNCHANGED work PROVE Sorted'
  BY <1>1, <1>8 DEF work, races
<1>. QED BY StepCases, <1>2, <1>3, <1>4, <1>5, <1>6, <1>7, <1>8

LEMMA HeldStep == ASSUME Inv, [Next]_vars PROVE HeldInv'
<1>1. StateType' /\ (raced \subseteq overlapped)' /\ Latest' /\ Current' /\ Sorted'
  BY StateStep, RacedStep, LatestStep, SortedStep
<1>. QED BY <1>1 DEF HeldInv, Latest, Current, Sorted, StateType

-----------------------------------------------------------------------------
\* What is published.

Entry == [tick : 1 .. MaxTicks, ticker : Ticker, absorbed : Seq(0 .. MaxTicks),
          indicators_ready : BOOLEAN]

LEMMA EnrichedFacts ==
  ASSUME NEW w \in Worker
  PROVE  /\ Enriched(w).tick = running[w] /\ Enriched(w).ticker = TickerOf(w)
         /\ Enriched(w).absorbed = snapshot[w]
         /\ Enriched(w).indicators_ready <=> Len(indicators_[TickerOf(w)]) >= Period
BY Zenon DEF Enriched, EntryOf

LEMMA EnrichedType ==
  ASSUME NEW w \in Worker, running[w] \in 1 .. MaxTicks, TickerOf(w) \in Ticker,
         snapshot[w] \in Seq(0 .. MaxTicks)
  PROVE  Enriched(w) \in Entry
<1> DEFINE ready == Len(indicators_[EntryOf(w)]) >= Period
<1>1. ready \in BOOLEAN
  OBVIOUS
<1>2. Enriched(w) = [tick |-> running[w], ticker |-> TickerOf(w), absorbed |-> snapshot[w],
                     indicators_ready |-> ready]
  BY Zenon DEF Enriched
<1> HIDE DEF ready
<1>. QED BY <1>1, <1>2 DEF Entry

\* A worker that publishes: its tick joins the finished priced ones.
LEMMA PublishEffect ==
  ASSUME Inv, NEW w \in Worker, NEW ok \in BOOLEAN, Publish(w, ok)
  PROVE  /\ running[w] \in 1 .. Begun /\ running[w] \in 1 .. MaxTicks
         /\ running[w] \notin Ticks(finished) /\ place[w] = "updated"
         /\ TickerOf(w) = raw[running[w]].ticker /\ TickerOf(w) \in Ticker
         /\ UNCHANGED <<raw, overlapped>> /\ Begun' = Begun
         /\ Ticks(finished)' = Ticks(finished) \cup {running[w]}
         /\ ticks_processed_' = ticks_processed_ + 1
         /\ Enriched(w) \in Entry
<1>1. /\ place[w] = "updated" /\ UNCHANGED <<raw, overlapped>> /\ Service!Finish(w)
      /\ ticks_processed_' = ticks_processed_ + 1
  BY DEF Publish, races, ProcessedAfter
<1>2. /\ running[w] \in 1 .. Begun /\ running[w] \in 0 .. MaxTicks /\ TickerOf(w) \in Ticker
  BY <1>1, HeldTick
<1>3. running[w] \in 1 .. MaxTicks
  BY <1>2, BoundAssumption, Numbers DEF Inv
<1>4. /\ running[w] \notin finished /\ finished' = finished \cup {running[w]} /\ Begun' = Begun
  BY <1>1, FinishStep DEF Inv
<1>5. raw[running[w]].kind = "priced"
  BY <1>1 DEF Inv, PlaceInv, Priced
<1>6. /\ running[w] \notin Ticks(finished)
      /\ Ticks(finished)' = Ticks(finished) \cup {running[w]}
  BY <1>1, <1>4, <1>5 DEF Ticks
<1>7. Enriched(w) \in Entry
  BY <1>2, <1>3, EnrichedType DEF Inv, StateType
<1>. QED BY <1>1, <1>2, <1>3, <1>4, <1>6, <1>7 DEF TickerOf

LEMMA AcceptedEffect ==
  ASSUME Inv, NEW w \in Worker, NEW ok \in BOOLEAN, Publish(w, ok), ok
  PROVE  /\ unpublished' = unpublished /\ published' \in Seq(Entry)
         /\ Len(published) \in Nat /\ Len(published') = Len(published) + 1
         /\ published'[Len(published) + 1] = Enriched(w)
         /\ \A i \in 1 .. Len(published) : published'[i] = published[i]
<1>1. published' = Append(published, Enriched(w)) /\ unpublished' = unpublished
  BY Zenon DEF Publish
<1>2. published \in Seq(Entry) /\ Enriched(w) \in Entry
  BY PublishEffect DEF Inv, PublishInv, Entry
<1>. QED BY <1>1, <1>2, Appended

LEMMA RefusedEffect ==
  ASSUME Inv, NEW w \in Worker, NEW ok \in BOOLEAN, Publish(w, ok), ~ok
  PROVE  published' = published /\ unpublished' = unpublished \cup {running[w]}
BY Zenon DEF Publish

\* No other step changes what is published or which priced ticks are finished.
Quiet == /\ UNCHANGED <<published, unpublished, ticks_processed_>>
         /\ Ticks(finished)' = Ticks(finished) /\ overlapped \subseteq overlapped'

LEMMA QuietSteps ==
  ASSUME Inv, [Next]_vars
  PROVE  Quiet \/ \E w \in Worker, ok \in BOOLEAN : Publish(w, ok)
<1>0. ASSUME UNCHANGED finished PROVE Ticks(finished)' = Ticks(finished)
  <2>1. \A n \in finished : raw'[n] = raw[n]
    BY BegunKept DEF Inv, PoolInv
  <2>. QED BY <1>0, <2>1 DEF Ticks
<1>1. ASSUME NEW tick \in RawTick, OnTick(tick) PROVE Quiet
  BY <1>0, <1>1 DEF OnTick, races, Service!Accept, Quiet
<1>2. ASSUME NEW w \in Worker, TakeTask(w) PROVE Quiet
  BY <1>0, <1>2 DEF TakeTask, Service!Start, Quiet
<1>3. ASSUME NEW w \in Worker, SkipTick(w) PROVE Quiet
  <2>1. /\ finished' = finished \cup {running[w]} /\ raw[running[w]].kind # "priced"
        /\ UNCHANGED <<raw, published, unpublished, ticks_processed_, overlapped>>
    BY <1>3 DEF SkipTick, races, Service!Finish
  <2>2. Ticks(finished)' = Ticks(finished)
    BY <2>1 DEF Ticks
  <2>. QED BY <2>1, <2>2 DEF Quiet
<1>4. ASSUME NEW w \in Worker, BeginUpdate(w) PROVE Quiet
  BY <1>0, <1>4 DEF BeginUpdate, pool, Quiet
<1>5. ASSUME NEW w \in Worker, EndUpdate(w) PROVE Quiet
  BY <1>0, <1>5 DEF EndUpdate, pool, races, Quiet
<1>6. ASSUME UNCHANGED work PROVE Quiet
  BY <1>0, <1>6 DEF work, races, Quiet
<1>. QED BY StepCases, <1>1, <1>2, <1>3, <1>4, <1>5, <1>6

LEMMA PublishStep == ASSUME Inv, [Next]_vars PROVE PublishInv'
<1>0. /\ PublishInv /\ published \in Seq(Entry) /\ Len(published) \in Nat
      /\ finished \subseteq 1 .. Begun /\ Ticks(finished) \subseteq finished
  BY DEF Inv, PublishInv, PoolInv, Entry, Ticks
<1>1. CASE Quiet
  <2>1. /\ UNCHANGED <<published, unpublished>> /\ Ticks(finished)' = Ticks(finished)
        /\ \A n \in Ticks(finished) : raw'[n] = raw[n]
    BY <1>0, <1>1, BegunKept DEF Quiet
  <2>2. \A i \in 1 .. Len(published) : published[i].tick \in Ticks(finished)
    BY <1>0, Zenon DEF PublishInv
  <2>3. \A i \in 1 .. Len(published) : published'[i].ticker = raw'[published'[i].tick].ticker
    BY <1>0, <2>1, <2>2 DEF PublishInv
  <2>. QED BY <1>0, <2>1, <2>3, Zenon DEF PublishInv
<1>2. ASSUME NEW w \in Worker, NEW ok \in BOOLEAN, Publish(w, ok) PROVE PublishInv'
  <2> DEFINE F == Ticks(finished)
  <2>1. /\ running[w] \notin F /\ UNCHANGED raw /\ F' = F \cup {running[w]}
        /\ TickerOf(w) = raw[running[w]].ticker
    BY <1>2, PublishEffect
  <2>2. /\ unpublished \subseteq F
        /\ \A i \in 1 .. Len(published) :
             /\ published[i].tick \in F \ unpublished
             /\ published[i].ticker = raw[published[i].tick].ticker
        /\ \A i, j \in 1 .. Len(published) : published[i].tick = published[j].tick => i = j
        /\ \A n \in F \ unpublished : \E i \in 1 .. Len(published) : published[i].tick = n
    BY <1>0 DEF PublishInv
  <2> HIDE DEF F
  <2>3. CASE ok
    <3>1. /\ unpublished' = unpublished /\ published' \in Seq(Entry)
          /\ Len(published') = Len(published) + 1
          /\ published'[Len(published) + 1].tick = running[w]
          /\ published'[Len(published) + 1].ticker = TickerOf(w)
          /\ \A i \in 1 .. Len(published) : published'[i] = published[i]
      BY <1>2, <2>3, AcceptedEffect, EnrichedFacts
    <3>2. \A i \in 1 .. Len(published') : i \in 1 .. Len(published) \/ i = Len(published) + 1
      BY <1>0, <3>1
    <3>3. unpublished' \subseteq F'
      BY <2>1, <2>2, <3>1
    <3>4. \A i \in 1 .. Len(published') :
            /\ published'[i].tick \in F' \ unpublished'
            /\ published'[i].ticker = raw'[published'[i].tick].ticker
      BY <2>1, <2>2, <3>1, <3>2
    <3>5. \A i, j \in 1 .. Len(published') : published'[i].tick = published'[j].tick => i = j
      BY <2>1, <2>2, <3>1, <3>2
    <3>6. \A n \in F' \ unpublished' : \E i \in 1 .. Len(published') : published'[i].tick = n
      <4>1. Len(published) + 1 \in 1 .. Len(published') /\ 1 .. Len(published) \subseteq 1 .. Len(published')
        BY <1>0, <3>1
      <4>2. \A n \in F' \ unpublished' : n \in F \ unpublished \/ n = running[w]
        BY <2>1, <3>1
      <4>. QED BY <4>1, <4>2, <2>2, <3>1
    <3>. QED BY <3>1, <3>3, <3>4, <3>5, <3>6 DEF PublishInv, F, Entry
  <2>4. CASE ~ok
    <3>1. published' = published /\ unpublished' = unpublished \cup {running[w]}
      BY <1>2, <2>4, RefusedEffect
    <3>2. unpublished' \subseteq F'
      BY <2>1, <2>2, <3>1
    <3>3. \A i \in 1 .. Len(published') :
            /\ published'[i].tick \in F' \ unpublished'
            /\ published'[i].ticker = raw'[published'[i].tick].ticker
      BY <2>1, <2>2, <3>1
    <3>4. \A n \in F' \ unpublished' : \E i \in 1 .. Len(published') : published'[i].tick = n
      BY <2>1, <2>2, <3>1
    <3>5. \A i, j \in 1 .. Len(published') : published'[i].tick = published'[j].tick => i = j
      BY <2>2, <3>1
    <3>. QED BY <1>0, <3>1, <3>2, <3>3, <3>4, <3>5 DEF PublishInv, F, Entry
  <2>. QED BY <2>3, <2>4
<1>. QED BY QuietSteps, <1>1, <1>2

LEMMA FiniteTicks ==
  ASSUME Inv
  PROVE  /\ IsFiniteSet(Ticks(finished)) /\ IsFiniteSet(unpublished)
         /\ Cardinality(Ticks(finished)) \in 0 .. MaxTicks
         /\ Cardinality(unpublished) \in Nat
<1>1. Begun \in Nat /\ Begun =< MaxTicks /\ Ticks(finished) \subseteq 1 .. Begun
  <2>1. Begun \in Nat /\ Begun =< accepted /\ accepted =< MaxTicks /\ accepted \in Nat
    BY Numbers DEF Inv
  <2>2. Begun =< MaxTicks
    BY <2>1, BoundAssumption
  <2>3. Ticks(finished) \subseteq 1 .. Begun
    BY DEF Inv, PoolInv, Ticks
  <2>. QED BY <2>1, <2>2, <2>3
<1>2. IsFiniteSet(1 .. Begun) /\ Cardinality(1 .. Begun) = Begun
  <2>1. Cardinality(1 .. Begun) = IF 1 > Begun THEN 0 ELSE Begun - 1 + 1
    BY <1>1, FS_Interval
  <2>2. IsFiniteSet(1 .. Begun)
    BY <1>1, FS_Interval
  <2>. QED BY <1>1, <2>1, <2>2
<1>3. IsFiniteSet(Ticks(finished)) /\ Cardinality(Ticks(finished)) =< Begun
  BY <1>1, <1>2, FS_Subset
<1>4. Cardinality(Ticks(finished)) \in Nat
  BY <1>3, FS_CardinalityType
<1>5. unpublished \subseteq Ticks(finished)
  BY DEF Inv, PublishInv
<1>6. IsFiniteSet(unpublished)
  BY <1>3, <1>5, FS_Subset
<1>7. Cardinality(unpublished) \in Nat
  BY <1>6, FS_CardinalityType
<1>. QED BY <1>1, <1>3, <1>4, <1>6, <1>7, BoundAssumption

LEMMA CountStep == ASSUME Inv, [Next]_vars PROVE CountInv'
<1> DEFINE F == Ticks(finished)
<1>0. /\ ticks_processed_ = Cardinality(F)
      /\ ticks_processed_ = Len(published) + Cardinality(unpublished)
      /\ IsFiniteSet(F) /\ IsFiniteSet(unpublished)
      /\ Cardinality(F) \in Nat /\ Cardinality(unpublished) \in Nat
      /\ Len(published) \in Nat
  BY FiniteTicks DEF Inv, CountInv, PublishInv
<1>1. CASE Quiet
  BY <1>0, <1>1 DEF Quiet, CountInv
<1>2. ASSUME NEW w \in Worker, NEW ok \in BOOLEAN, Publish(w, ok) PROVE CountInv'
  <2>1. /\ F' = F \cup {running[w]} /\ running[w] \notin F
        /\ ticks_processed_' = ticks_processed_ + 1
    BY <1>2, PublishEffect
  <2> HIDE DEF F
  <2>2. Cardinality(F') = Cardinality(F) + 1
    BY <1>0, <2>1, FS_AddElement
  <2>3. CASE ok
    <3>1. Len(published') = Len(published) + 1 /\ unpublished' = unpublished
      BY <1>2, <2>3, AcceptedEffect
    <3>. QED BY <1>0, <2>1, <2>2, <3>1 DEF CountInv, F
  <2>4. CASE ~ok
    <3>1. published' = published /\ unpublished' = unpublished \cup {running[w]}
      BY <1>2, <2>4, RefusedEffect
    <3>2. running[w] \notin unpublished
      BY <2>1 DEF Inv, PublishInv, F
    <3>3. Cardinality(unpublished') = Cardinality(unpublished) + 1
      BY <1>0, <3>1, <3>2, FS_AddElement
    <3>. QED BY <1>0, <2>1, <2>2, <3>1, <3>3 DEF CountInv, F
  <2>. QED BY <2>3, <2>4
<1>. QED BY QuietSteps, <1>1, <1>2

LEMMA OrderStep == ASSUME Inv, [Next]_vars PROVE PublishedInOrder'
<1>0. /\ PublishedInOrder /\ Len(published) \in Nat
      /\ \A i \in 1 .. Len(published) :
           /\ published[i].tick \in 1 .. Begun /\ published[i].tick \in Ticks(finished)
           /\ published[i].ticker = raw[published[i].tick].ticker
  <2>1. /\ PublishInv /\ finished \subseteq 1 .. Begun /\ PublishedInOrder
    BY DEF Inv, PoolInv
  <2>2. Ticks(finished) \subseteq finished
    BY DEF Ticks
  <2>. QED BY <2>1, <2>2 DEF PublishInv
<1>1. CASE Quiet
  BY <1>0, <1>1 DEF Quiet, PublishedInOrder
<1>2. ASSUME NEW w \in Worker, NEW ok \in BOOLEAN, Publish(w, ok) PROVE PublishedInOrder'
  <2>1. /\ overlapped' = overlapped /\ running[w] \notin Ticks(finished)
        /\ running[w] \in 1 .. Begun /\ place[w] = "updated"
    BY <1>2, PublishEffect
  <2>2. CASE ok
    <3>1. /\ Len(published') = Len(published) + 1
          /\ published'[Len(published) + 1].tick = running[w]
          /\ published'[Len(published) + 1].ticker = TickerOf(w)
          /\ \A i \in 1 .. Len(published) : published'[i] = published[i]
      BY <1>2, <2>2, AcceptedEffect, EnrichedFacts
    <3>2. ASSUME NEW i \in 1 .. Len(published), published[i].ticker = TickerOf(w),
                 TickerOf(w) \notin overlapped
          PROVE  published[i].tick < running[w]
      <4>1. published[i].tick =< running[w]
        BY <1>0, <2>1, <3>2, HeldParts DEF Latest
      <4>2. published[i].tick # running[w]
        BY <1>0, <2>1
      <4>3. published[i].tick \in 1 .. Begun /\ running[w] \in 1 .. Begun
        BY <1>0, <2>1
      <4>. QED BY <4>1, <4>2, <4>3
    <3> SUFFICES ASSUME NEW i \in 1 .. Len(published'), NEW j \in 1 .. Len(published'),
                        i < j, published'[i].ticker = published'[j].ticker,
                        published'[i].ticker \notin overlapped
                 PROVE  published'[i].tick < published'[j].tick
      BY <2>1 DEF PublishedInOrder
    <3>3. i \in 1 .. Len(published) /\ published'[i] = published[i]
      BY <1>0, <3>1
    <3>4. CASE j = Len(published) + 1
      BY <3>1, <3>2, <3>3, <3>4
    <3>5. CASE j # Len(published) + 1
      <4>1. j \in 1 .. Len(published) /\ published'[j] = published[j]
        BY <1>0, <3>1, <3>5
      <4>. QED BY <1>0, <3>3, <4>1 DEF PublishedInOrder
    <3>. QED BY <3>4, <3>5
  <2>3. CASE ~ok
    BY <1>0, <1>2, <2>1, <2>3, RefusedEffect DEF PublishedInOrder
  <2>. QED BY <2>2, <2>3
<1>. QED BY QuietSteps, <1>1, <1>2

\* A published tick p that carries the indicators of exactly its feed so far.
Exact(p) ==
  /\ Increasing(p.absorbed)
  /\ Elements(p.absorbed) = {n \in Ticks(1 .. p.tick) : raw[n].ticker = p.ticker}
  /\ p.indicators_ready <=> Len(p.absorbed) >= Period

AllExact ==
  \A i \in 1 .. Len(published) :
    published[i].ticker \notin overlapped => Exact(published[i])

LEMMA ExactParts == ExactIndicators <=> AllExact
BY Zenon DEF ExactIndicators, AllExact, Exact, Increasing

\* What stands in the indicators when a worker publishes.
LEMMA ExactUpdate ==
  ASSUME Inv, NEW w \in Worker, place[w] = "updated", TickerOf(w) \notin overlapped
  PROVE  /\ Increasing(snapshot[w]) /\ snapshot[w] = indicators_[TickerOf(w)]
         /\ Elements(snapshot[w]) =
              {n \in Ticks(1 .. running[w]) : raw[n].ticker = TickerOf(w)}
<1> DEFINE T == TickerOf(w)
           s == indicators_[T]
<1>1. /\ T \in Ticker \ overlapped /\ T \in Ticker \ raced
      /\ running[w] \in 1 .. Begun /\ Begun \in Nat
  BY HeldParts
<1>2. snapshot[w] = s /\ Increasing(s)
  BY <1>1, HeldParts DEF Current, Sorted
<1>3. Elements(s) = {n \in absorbed : raw[n].ticker = T}
  BY <1>1 DEF Inv, LossNeedsARace
<1>4. \A n \in 1 .. Begun : raw[n].ticker = T => n =< running[w]
  BY <1>1, HeldParts DEF Latest
<1>5. absorbed \subseteq 1 .. Begun /\ \A n \in absorbed : raw[n].kind = "priced"
  BY DEF Inv, AbsorbInv, Priced
<1>6. running[w] \in absorbed
  BY DEF Inv, AbsorbInv
<1>7. ASSUME NEW n \in 1 .. running[w], raw[n].kind = "priced", raw[n].ticker = T
      PROVE  n \in absorbed
  <2>1. n \in 1 .. Begun
    BY <1>1
  <2>2. CASE n \in finished
    BY <1>7, <2>2 DEF Inv, AbsorbInv, Priced
  <2>3. CASE n \notin finished
    <3>1. PICK v \in Worker : running[v] = n
      BY <2>1, <2>3 DEF Inv, PoolInv
    <3>2. place[v] # "idle"
      BY <2>1, <3>1 DEF Inv, PlaceInv
    <3>3. TickerOf(v) = T
      BY <1>7, <3>1 DEF TickerOf
    <3>4. v = w
      BY <3>2, <3>3, SoleHolder
    <3>. QED BY <1>6, <3>1, <3>4
  <2>. QED BY <2>2, <2>3
<1> HIDE DEF T, s
<1>8. Elements(s) \subseteq {n \in Ticks(1 .. running[w]) : raw[n].ticker = T}
  <2> SUFFICES ASSUME NEW n \in Elements(s)
               PROVE  n \in Ticks(1 .. running[w]) /\ raw[n].ticker = T
    OBVIOUS
  <2>1. n \in absorbed /\ raw[n].ticker = T
    BY <1>3
  <2>2. n \in 1 .. Begun /\ raw[n].kind = "priced" /\ n =< running[w]
    BY <2>1, <1>4, <1>5
  <2>3. n \in 1 .. running[w]
    BY <2>2, <1>1
  <2>. QED BY <2>1, <2>2, <2>3 DEF Ticks
<1>9. {n \in Ticks(1 .. running[w]) : raw[n].ticker = T} \subseteq Elements(s)
  BY <1>3, <1>7 DEF Ticks
<1>. QED BY <1>2, <1>8, <1>9 DEF T, s

LEMMA AllExactStep == ASSUME Inv, [Next]_vars PROVE AllExact'
<1>0. /\ \A i \in 1 .. Len(published) :
           published[i].ticker \notin overlapped => Exact(published[i])
      /\ Len(published) \in Nat /\ Begun \in Nat
      /\ \A i \in 1 .. Len(published) : published[i].tick \in 1 .. Begun
  <2>1. PublishInv /\ finished \subseteq 1 .. Begun /\ AllExact /\ Begun \in Nat
    BY ExactParts, Numbers DEF Inv, PoolInv
  <2>2. Ticks(finished) \subseteq finished
    BY DEF Ticks
  <2>3. /\ Len(published) \in Nat
        /\ \A i \in 1 .. Len(published) : published[i].tick \in Ticks(finished)
    <3>1. published \in Seq([tick : 1 .. MaxTicks, ticker : Ticker,
                             absorbed : Seq(0 .. MaxTicks), indicators_ready : BOOLEAN])
      BY <2>1 DEF PublishInv
    <3>2. Len(published) \in Nat
      BY ONLY <3>1
    <3>3. \A i \in 1 .. Len(published) : published[i].tick \in Ticks(finished) \ unpublished
      BY <2>1, Zenon DEF PublishInv
    <3>. QED BY ONLY <3>2, <3>3
  <2>4. Ticks(finished) \subseteq 1 .. Begun
    BY <2>1, <2>2
  <2>. QED BY <2>1, <2>3, <2>4 DEF AllExact
<1>1. ASSUME NEW i \in 1 .. Len(published), published[i].ticker \notin overlapped,
             published'[i] = published[i]
      PROVE  Exact(published[i])'
  <2> DEFINE p == published[i]
  <2>1. Exact(p) /\ p' = p /\ p.tick \in 1 .. Begun
    BY <1>0, <1>1
  <2>2. \A n \in 1 .. p.tick : raw'[n] = raw[n]
    BY <1>0, <2>1, BegunKept
  <2> HIDE DEF p
  <2>3. {n \in Ticks(1 .. p.tick)' : raw'[n].ticker = p.ticker}
          = {n \in Ticks(1 .. p.tick) : raw[n].ticker = p.ticker}
    BY <2>1, <2>2 DEF Ticks
  <2>4. Elements(p.absorbed)' = Elements(p.absorbed) /\ Increasing(p.absorbed)' = Increasing(p.absorbed)
    BY <2>1 DEF Elements, Increasing
  <2>5. Exact(p)'
    BY <2>1, <2>3, <2>4 DEF Exact
  <2>. QED BY <2>5 DEF p
<1>2. CASE Quiet
  <2>1. published' = published /\ overlapped \subseteq overlapped'
    BY <1>2 DEF Quiet
  <2>. QED BY <1>1, <2>1 DEF AllExact
<1>3. ASSUME NEW w \in Worker, NEW ok \in BOOLEAN, Publish(w, ok) PROVE AllExact'
  <2>1. overlapped' = overlapped /\ raw' = raw /\ place[w] = "updated"
    BY <1>3, PublishEffect
  <2>2. CASE ok
    <3>1. /\ Len(published') = Len(published) + 1
          /\ published'[Len(published) + 1] = Enriched(w)
          /\ \A i \in 1 .. Len(published) : published'[i] = published[i]
      BY <1>3, <2>2, AcceptedEffect
    <3>2. ASSUME TickerOf(w) \notin overlapped PROVE Exact(Enriched(w))
      BY <2>1, <3>2, ExactUpdate, EnrichedFacts DEF Exact
    <3>3. Enriched(w).ticker = TickerOf(w)
      BY EnrichedFacts
    <3>4. \A p : Exact(p)' <=> Exact(p)
      BY <2>1 DEF Exact, Increasing, Elements, Ticks
    <3>5. \A i \in 1 .. Len(published') : i \in 1 .. Len(published) \/ i = Len(published) + 1
      BY <1>0, <3>1
    <3>6. ASSUME NEW i \in 1 .. Len(published'), published'[i].ticker \notin overlapped
          PROVE  Exact(published'[i])
      <4>1. CASE i \in 1 .. Len(published)
        BY <4>1, <1>0, <3>1, <3>6
      <4>2. CASE i = Len(published) + 1
        BY <4>2, <3>1, <3>2, <3>3, <3>6
      <4>. QED BY <3>5, <4>1, <4>2
    <3>. QED BY <2>1, <3>4, <3>6 DEF AllExact
  <2>3. CASE ~ok
    <3>1. published' = published
      BY <1>3, <2>3, RefusedEffect
    <3>. QED BY <1>1, <2>1, <3>1 DEF AllExact
  <2>. QED BY <2>2, <2>3
<1>. QED BY QuietSteps, <1>2, <1>3

LEMMA ExactStep == ASSUME Inv, [Next]_vars PROVE ExactIndicators'
BY AllExactStep, ExactParts, PTL

-----------------------------------------------------------------------------
\* The invariant, and what it says.

LEMMA InitInv == Init => Inv
<1> SUFFICES ASSUME Init PROVE Inv
  OBVIOUS
<1>1. /\ raw = <<>> /\ running_ = TRUE /\ consumer = "check"
      /\ accepted = 0 /\ pending = <<>> /\ finished = {} /\ joined = FALSE
      /\ running = [w \in Worker |-> 0] /\ place = [w \in Worker |-> "idle"]
      /\ snapshot = [w \in Worker |-> <<>>] /\ indicators_ = [t \in Ticker |-> <<>>]
      /\ raced = {} /\ overlapped = {} /\ absorbed = {} /\ published = <<>>
      /\ unpublished = {} /\ ticks_processed_ = 0 /\ members = "alive"
  BY Zenon DEF Init, Service!Init
<1>2. Begun = 0
  <2>1. accepted = 0 /\ Len(pending) = 0
    BY <1>1
  <2>. QED BY <2>1 DEF Begun
<1>3. PoolInv
  <2>1. /\ accepted \in 0 .. MaxTicks /\ pending \in Seq(Nat) /\ Len(pending) = 0
        /\ running \in [Worker -> 0 .. Begun] /\ finished \subseteq 1 .. Begun
    BY <1>1, <1>2, BoundAssumption
  <2>2. joined \in BOOLEAN /\ ~joined
    BY <1>1, Zenon
  <2>. QED BY <1>1, <1>2, <2>1, <2>2 DEF PoolInv
<1>4. StateType
  BY <1>1 DEF StateType
<1>5. FlowType /\ MemberInv
  BY <1>1, Zenon DEF FlowType, MemberInv
<1>6. PlaceInv
  BY <1>1 DEF PlaceInv
<1>7. AbsorbInv /\ RaceInv
  BY <1>1 DEF AbsorbInv, RaceInv
<1>8. Elements(<<>>) = {}
  BY DEF Elements
<1>9. LossNeedsARace
  <2>1. Cardinality({}) = 0
    BY FS_EmptySet
  <2>. QED BY <1>1, <1>8, <2>1 DEF LossNeedsARace
<1>10. HeldInv
  BY <1>1 DEF HeldInv, Increasing
<1>11. Ticks(finished) = {}
  BY <1>1 DEF Ticks
<1>12. PublishInv
  BY <1>1, <1>11 DEF PublishInv
<1>13. CountInv
  <2>1. Cardinality({}) = 0 /\ Len(published) = 0 /\ ticks_processed_ = 0
    BY <1>1, FS_EmptySet
  <2>2. unpublished = {}
    BY <1>1
  <2>. QED BY <2>1, <2>2, <1>11 DEF CountInv
<1>14. PublishedInOrder /\ ExactIndicators
  BY <1>1 DEF PublishedInOrder, ExactIndicators
<1>. QED BY <1>3, <1>4, <1>5, <1>6, <1>7, <1>9, <1>10, <1>12, <1>13, <1>14 DEF Inv

LEMMA SpecInv == Spec => []Inv
<1>1. Inv /\ [Next]_vars => Inv'
  <2> SUFFICES ASSUME Inv, [Next]_vars PROVE Inv'
    OBVIOUS
  <2>1. PoolInv' /\ StateType' /\ FlowType' /\ MemberInv' /\ PlaceInv'
    BY PoolStep, StateStep, FlowStep, PlaceStep
  <2>2. AbsorbInv' /\ RaceInv' /\ LossNeedsARace' /\ HeldInv'
    BY AbsorbStep, RaceStep, LossStep, HeldStep
  <2>3. PublishInv' /\ CountInv' /\ PublishedInOrder' /\ ExactIndicators'
    BY PublishStep, CountStep, OrderStep, ExactStep
  <2>. QED BY <2>1, <2>2, <2>3 DEF Inv
<1>. QED BY InitInv, <1>1, PTL DEF Spec

LEMMA TypesHold == Inv => TypeOK
<1> SUFFICES ASSUME Inv PROVE TypeOK
  OBVIOUS
<1>1. /\ Begun \in Nat /\ Begun =< accepted /\ accepted =< MaxTicks /\ accepted \in Nat
  BY Numbers DEF Inv
<1>2. 1 .. Begun \subseteq 1 .. MaxTicks
  BY <1>1, BoundAssumption
<1>3. absorbed \subseteq 1 .. MaxTicks /\ finished \subseteq 1 .. MaxTicks
  BY <1>2 DEF Inv, AbsorbInv, PoolInv
<1>4. unpublished \subseteq 1 .. MaxTicks
  BY <1>3 DEF Inv, PublishInv, Ticks
<1>5. ticks_processed_ \in 0 .. MaxTicks
  BY FiniteTicks DEF Inv, CountInv
<1>. QED BY <1>3, <1>4, <1>5 DEF Inv, StateType, FlowType, PublishInv, TypeOK

(***************************************************************************)
(* A raw tick is published at most once, and the counter is the number of  *)
(* the ticks published or refused, however many workers publish.           *)
(***************************************************************************)
THEOREM TicksArePublishedOnce == Spec => []EachTickOnce
<1>1. Inv => EachTickOnce
  BY TypesHold DEF Inv, EachTickOnce, PublishInv, CountInv
<1>. QED BY <1>1, SpecInv, PTL

(***************************************************************************)
(* When producer_ is destroyed, after pool_, no worker is left that could  *)
(* publish, and every priced tick handled was published or refused.        *)
(***************************************************************************)
THEOREM ProducerIsLast == Spec => []ProducerOutlivesTasks
<1>1. ASSUME Inv, members = "no producer" PROVE \A w \in Worker : place[w] = "idle"
  BY <1>1 DEF Inv, MemberInv, PoolInv, PlaceInv
<1>2. ASSUME Inv, members = "no producer"
      PROVE  Ticks(1 .. Len(raw)) =
               unpublished \cup {published[i].tick : i \in 1 .. Len(published)}
  <2>1. joined /\ PoolInv /\ PublishInv /\ Len(raw) = accepted
    BY <1>2 DEF Inv, MemberInv, StateType
  <2>2. pending = <<>> /\ \A w \in Worker : running[w] = 0
    BY <2>1 DEF PoolInv
  <2>3. Begun = accepted /\ accepted \in Nat
    BY <2>1, <2>2, Numbers DEF Begun
  <2>4. finished = 1 .. accepted
    <3>1. finished \subseteq 1 .. accepted
      BY <2>1, <2>3 DEF PoolInv
    <3>2. \A n \in 1 .. accepted : n # 0 /\ (n \in finished \/ \E w \in Worker : running[w] = n)
      BY <2>1, <2>3 DEF PoolInv
    <3>. QED BY <3>1, <3>2, <2>2
  <2>5. Ticks(1 .. Len(raw)) = Ticks(finished)
    BY <2>1, <2>4
  <2> DEFINE F == Ticks(finished)
             P == {published[i].tick : i \in 1 .. Len(published)}
  <2>6. /\ unpublished \subseteq F
        /\ \A i \in 1 .. Len(published) : published[i].tick \in F \ unpublished
        /\ \A n \in F \ unpublished : \E i \in 1 .. Len(published) : published[i].tick = n
    BY <2>1 DEF PublishInv
  <2> HIDE DEF F
  <2>7. F = unpublished \cup P
    BY <2>6
  <2>. QED BY <2>5, <2>7 DEF F
<1>3. Inv => ProducerOutlivesTasks
  BY <1>1, <1>2 DEF ProducerOutlivesTasks
<1>. QED BY <1>3, SpecInv, PTL

(***************************************************************************)
(* Without a lock on the indicators a tick can be lost, but only to two    *)
(* update() calls on the same symbol at the same time.                     *)
(***************************************************************************)
THEOREM LossIsARace == Spec => []LossNeedsARace
<1>1. Inv => LossNeedsARace
  BY DEF Inv
<1>. QED BY <1>1, SpecInv, PTL

(***************************************************************************)
(* Ticks of a symbol leave in the order they came in unless two workers    *)
(* had a task of it at the same time.                                      *)
(***************************************************************************)
THEOREM OrderSurvives == Spec => []PublishedInOrder
<1>1. Inv => PublishedInOrder
  BY DEF Inv
<1>. QED BY <1>1, SpecInv, PTL

(***************************************************************************)
(* Under the same condition a published tick carries the indicators of     *)
(* exactly the ticks up to itself, and is ready when their window is full. *)
(***************************************************************************)
THEOREM IndicatorsAreExact == Spec => []ExactIndicators
<1>1. Inv => ExactIndicators
  BY DEF Inv
<1>. QED BY <1>1, SpecInv, PTL
=============================================================================
