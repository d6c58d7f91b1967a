-------------------------- MODULE ParallelPipeline --------------------------
(***************************************************************************)
(* Batches over a shared pool (src/processing/parallel_pipeline.cpp):      *)
(* process_batch() splits its ticks by symbol, submits one task for each   *)
(* symbol and waits for their futures in turn; process_batch_async() runs  *)
(* the whole of that as one more task of the same pool.  The pool is       *)
(* TaskService, which ThreadPool implements, together with the refusal of  *)
(* submit() once the destructor has begun.                                 *)
(***************************************************************************)
EXTENDS Integers, Sequences, FiniteSets

CONSTANTS Worker,      \* the workers of pool_
          SyncBatch,   \* calls of process_batch() from outside the pool
          AsyncBatch,  \* calls of process_batch_async()
          Ticker,
          NoTicker,    \* the tick has no "ticker" field
          BadTicker,   \* its "ticker" is not a string
          Whole,       \* marks the task that runs a whole batch
          Content      \* the sequences of ticks a caller may pass, by batch

Batch == SyncBatch \cup AsyncBatch

ASSUME BatchAssumption == SyncBatch \cap AsyncBatch = {}
ASSUME ContentAssumption ==
  /\ {NoTicker, BadTicker, Whole} \cap Ticker = {}
  /\ \A b \in Batch :
       Content[b] \subseteq Seq([ticker : Ticker \cup {NoTicker, BadTicker},
                                kind : {"valued", "malformed"}])

VARIABLES
  accepted, pending, running, finished, joined,  \* pool_, a TaskService
  stopping,  \* the pool's destructor has begun
  work,      \* work[n] is what task n does: [batch, ticker]
  ticks,     \* the ticks of each batch
  stage,     \* where the process_batch() of each batch is
  todo,      \* the symbols it has still to submit
  futures,   \* the tasks it waits for, in the order of submission
  got,       \* how many of them it has collected
  results,   \* the symbols in its result map
  called,    \* the batches whose callback was invoked
  batches_processed_, ticks_processed_

pool == <<accepted, pending, running, finished, joined>>
batch == <<ticks, stage, todo, futures, got, results, called>>
counters == <<batches_processed_, ticks_processed_>>
vars == <<pool, stopping, work, batch, counters>>

Service == INSTANCE TaskService

Init ==
  /\ Service!Init /\ stopping = FALSE /\ work = <<>>
  /\ ticks = [b \in Batch |-> <<>>]
  /\ stage = [b \in Batch |-> "uncalled"]
  /\ todo = [b \in Batch |-> {}]
  /\ futures = [b \in Batch |-> <<>>]
  /\ got = [b \in Batch |-> 0]
  /\ results = [b \in Batch |-> {}]
  /\ called = {}
  /\ batches_processed_ = 0 /\ ticks_processed_ = 0

TickersOf(content) == {content[i].ticker : i \in 1 .. Len(content)}

\* partition_by_ticker(): ticks without a ticker are skipped.
Symbols(content) == TickersOf(content) \cap Ticker

\* process_ticker_batch() throws when a field has the wrong type; get() then
\* throws in its place.
Throws(n) ==
  LET content == ticks[work[n].batch] IN
  \E i \in 1 .. Len(content) :
    content[i].ticker = work[n].ticker /\ content[i].kind = "malformed"

-----------------------------------------------------------------------------
(* The calls.                                                              *)

\* Where process_batch() is after the split: nothing to do, an exception out
\* of partition_by_ticker(), nothing to wait for, or symbols to submit.
AfterSplit(content) ==
  IF content = <<>> THEN "done"
  ELSE IF BadTicker \in TickersOf(content) THEN "abandoned"
  ELSE IF Symbols(content) = {} THEN "collecting" ELSE "submitting"

ProcessBatch(b, content) ==
  /\ ~stopping /\ stage[b] = "uncalled"
  /\ ticks' = [ticks EXCEPT ![b] = content]
  /\ stage' = [stage EXCEPT ![b] = AfterSplit(content)]
  /\ todo' = [todo EXCEPT ![b] = Symbols(content)]
  /\ UNCHANGED <<pool, stopping, work, futures, got, results, called, counters>>

ProcessBatchAsync(b, content) ==
  /\ ~stopping /\ stage[b] = "uncalled"
  /\ ticks' = [ticks EXCEPT ![b] = content]
  /\ stage' = [stage EXCEPT ![b] = "queued"]
  /\ Service!Accept
  /\ work' = Append(work, [batch |-> b, ticker |-> Whole])
  /\ UNCHANGED <<stopping, todo, futures, got, results, called, counters>>

-----------------------------------------------------------------------------
(* process_batch(), in the calling thread or on the worker of its task.    *)

SubmitSymbol(b, t) ==
  /\ ~stopping /\ stage[b] = "submitting" /\ t \in todo[b]
  /\ Service!Accept
  /\ work' = Append(work, [batch |-> b, ticker |-> t])
  /\ futures' = [futures EXCEPT ![b] = Append(@, accepted')]
  /\ todo' = [todo EXCEPT ![b] = @ \ {t}]
  /\ stage' = [stage EXCEPT ![b] = IF todo'[b] = {} THEN "collecting" ELSE @]
  /\ UNCHANGED <<stopping, ticks, got, results, called, counters>>

\* submit() throws; so does process_batch(), and the callback is not called.
SubmitThrows(b) ==
  /\ stopping /\ stage[b] = "submitting"
  /\ stage' = [stage EXCEPT ![b] = "abandoned"]
  /\ UNCHANGED <<pool, stopping, work, ticks, todo, futures, got, results,
                 called, counters>>

\* Mutation: a task that throws never makes its future ready.
Ready_OnSuccess(n) == n \in finished /\ ~Throws(n)
Ready(n) == n \in finished

\* Mutation: the first exception ends the collection.
AfterException_Abort(b) == Len(futures[b])
AfterException(b) == got[b] + 1

\* One future.get(); an exception costs the symbol, not the batch.
Collect(b) ==
  /\ stage[b] = "collecting" /\ got[b] < Len(futures[b])
  /\ LET n == futures[b][got[b] + 1] IN
     /\ Ready(n)
     /\ IF Throws(n)
        THEN got' = [got EXCEPT ![b] = AfterException(b)] /\ UNCHANGED results
        ELSE /\ got' = [got EXCEPT ![b] = @ + 1]
             /\ results' = [results EXCEPT ![b] = @ \cup {work[n].ticker}]
  /\ UNCHANGED <<pool, stopping, work, ticks, stage, todo, futures, called, counters>>

\* Every tick of the batch, the skipped ones too.
TicksCounted(b) == Len(ticks[b])

Return(b) ==
  /\ stage[b] = "collecting" /\ got[b] = Len(futures[b])
  /\ stage' = [stage EXCEPT ![b] = "done"]
  /\ batches_processed_' = batches_processed_ + 1
  /\ ticks_processed_' = ticks_processed_ + TicksCounted(b)
  /\ UNCHANGED <<pool, stopping, work, ticks, todo, futures, got, results, called>>

-----------------------------------------------------------------------------
(* The workers.                                                            *)

\* The batch whose whole process_batch() is the task of worker w.
Running(w, b) == running[w] # 0 /\ work[running[w]] = [batch |-> b, ticker |-> Whole]

TakeTask(w) ==
  /\ Service!Start(w)
  /\ LET b == work[Head(pending)].batch IN
     IF work[Head(pending)].ticker = Whole
     THEN /\ stage' = [stage EXCEPT ![b] = AfterSplit(ticks[b])]
          /\ todo' = [todo EXCEPT ![b] = Symbols(ticks[b])]
     ELSE UNCHANGED <<stage, todo>>
  /\ UNCHANGED <<stopping, work, ticks, futures, got, results, called, counters>>

\* process_ticker_batch() returns or throws.
FinishSymbol(w) ==
  /\ running[w] # 0 /\ work[running[w]].ticker # Whole
  /\ Service!Finish(w)
  /\ UNCHANGED <<stopping, work, batch, counters>>

\* The batch returned: its callback is invoked on the worker.  It threw: the
\* exception ends in the dropped future.
FinishBatch(w, b) ==
  /\ Running(w, b) /\ stage[b] \in {"done", "abandoned"}
  /\ called' = IF stage[b] = "done" THEN called \cup {b} ELSE called
  /\ Service!Finish(w)
  /\ UNCHANGED <<stopping, work, ticks, stage, todo, futures, got, results, counters>>

-----------------------------------------------------------------------------
(* The pool's destructor, run by the pipeline's own when its pool_ is the  *)
(* last reference: tasks still use the counters and the pointer, whose     *)
(* storage is released only after the workers are joined.  An outside      *)
(* caller is not inside a call.  A pipeline destroyed while others hold    *)
(* the pool is not modelled: its tasks would use freed memory.             *)

StopPool ==
  /\ ~stopping
  /\ \A b \in SyncBatch : stage[b] \in {"uncalled", "done", "abandoned"}
  /\ stopping' = TRUE
  /\ UNCHANGED <<pool, work, batch, counters>>

JoinPool ==
  /\ stopping /\ ~joined
  /\ Service!Join
  /\ UNCHANGED <<stopping, work, batch, counters>>

\* Every worker runs a whole batch that waits for a task still in the queue.
Waits(b) ==
  /\ stage[b] = "collecting" /\ got[b] < Len(futures[b])
  /\ \E i \in 1 .. Len(pending) : pending[i] = futures[b][got[b] + 1]

Starved == \A w \in Worker : \E b \in AsyncBatch : Running(w, b) /\ Waits(b)

-----------------------------------------------------------------------------
BatchStep(b) == \/ \E t \in Ticker : SubmitSymbol(b, t)
                \/ SubmitThrows(b) \/ Collect(b) \/ Return(b)

WorkerStep(w) == \/ TakeTask(w) \/ FinishSymbol(w)
                 \/ \E b \in AsyncBatch : FinishBatch(w, b)

Next == \/ \E b \in SyncBatch : \E c \in Content[b] : ProcessBatch(b, c)
        \/ \E b \in AsyncBatch : \E c \in Content[b] : ProcessBatchAsync(b, c)
        \/ \E b \in Batch : BatchStep(b)
        \/ \E w \in Worker : WorkerStep(w)
        \/ StopPool \/ JoinPool

Spec == Init /\ [][Next]_vars

\* Workers and callers go on when they can; nobody has to call or to stop.
FairSpec ==
  /\ Spec
  /\ \A b \in Batch : WF_vars(BatchStep(b))
  /\ \A w \in Worker : WF_vars(WorkerStep(w))
  /\ WF_vars(JoinPool)

-----------------------------------------------------------------------------
Settled(b) == stage[b] \in {"done", "abandoned"}

TypeOK ==
  /\ stopping \in BOOLEAN
  /\ work \in Seq([batch : Batch, ticker : Ticker \cup {Whole}])
  /\ Len(work) = accepted
  /\ \A b \in Batch : ticks[b] = <<>> \/ ticks[b] \in Content[b]
  /\ stage \in [Batch -> {"uncalled", "queued", "submitting", "collecting",
                          "done", "abandoned"}]
  /\ todo \in [Batch -> SUBSET Ticker] /\ results \in [Batch -> SUBSET Ticker]
  /\ futures \in [Batch -> Seq(1 .. accepted)]
  /\ got \in [Batch -> Nat] /\ \A b \in Batch : got[b] =< Len(futures[b])
  /\ called \subseteq AsyncBatch
  /\ batches_processed_ \in Nat /\ ticks_processed_ \in Nat

(***************************************************************************)
(* "A single ticker failing should not abort the entire batch"             *)
(* (parallel_pipeline.cpp): whatever batches share the pool, one that is   *)
(* done has a result for exactly the symbols of its own ticks whose task   *)
(* did not throw, and none of its tasks is still in the pool.  The         *)
(* counters, which several threads update at the end of their batches, are *)
(* the number of done batches that had ticks and of the ticks in them, the *)
(* skipped ones included.                                                  *)
(***************************************************************************)
OneResultPerSymbol ==
  LET done == {b \in Batch : stage[b] = "done" /\ ticks[b] # <<>>} IN
  /\ TypeOK
  /\ \A b \in Batch : stage[b] = "done" =>
       /\ results[b] = {t \in Symbols(ticks[b]) :
                          \A i \in 1 .. Len(ticks[b]) :
                            ticks[b][i].ticker = t => ticks[b][i].kind = "valued"}
       /\ \A i \in 1 .. Len(futures[b]) : futures[b][i] \in finished
  /\ batches_processed_ = Cardinality(done)
  /\ ticks_processed_ = Cardinality(UNION {{b} \X DOMAIN ticks[b] : b \in done})

(***************************************************************************)
(* A batch that was called ends, an asynchronous one in its callback or    *)
(* because the split or the pool threw, and the destructor of the pool     *)
(* returns, unless every worker runs an asynchronous batch that waits for  *)
(* a symbol still in the queue (future.get() on a worker): there is no     *)
(* other way for batches, failing tasks and a stopping pool to block each  *)
(* other.                                                                  *)
(***************************************************************************)
EndsUnlessStarved ==
  /\ \A b \in SyncBatch : (stage[b] # "uncalled") ~> (Settled(b) \/ Starved)
  /\ \A b \in AsyncBatch : (stage[b] # "uncalled") ~>
       (b \in called \/ stage[b] = "abandoned" \/ Starved)
  /\ stopping ~> (joined \/ Starved)
=============================================================================
