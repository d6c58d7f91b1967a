----------------------------- MODULE ThreadPool -----------------------------
(***************************************************************************)
(* The worker pool (src/processing/thread_pool.{hpp,cpp}): a task queue    *)
(* behind queue_mutex_, a condition variable, and a destructor that stores *)
(* stopped_ and notifies WITHOUT taking the mutex.  A thread that submits  *)
(* is an outside caller or a worker in the middle of a task (the pipeline  *)
(* submits from inside its asynchronous task); an outside caller is done   *)
(* with the pool before the destructor starts, as C++ requires of it.      *)
(***************************************************************************)
EXTENDS Integers, Sequences

CONSTANTS Worker,    \* workers_
          Submitter, \* outside threads that call submit()
          NoThread,  \* the owner of a free mutex
          MaxTasks   \* bound on the number of tasks accepted

Thread == Worker \cup Submitter

ASSUME ThreadAssumption ==
  /\ Worker # {} /\ Worker \cap Submitter = {} /\ NoThread \notin Thread

VARIABLES
  tasks_,       \* the queue; task n is the n-th one accepted
  stopped_,
  queue_mutex_, \* its owner
  pc,           \* where each thread is
  current,      \* the task each worker runs, 0 when it has none
  dtor,         \* where the destructor is
  accepted,     \* how many tasks submit() enqueued
  started,      \* history: the tasks dequeued, in order
  finished      \* the tasks whose future is ready

vars == <<tasks_, stopped_, queue_mutex_, pc, current, dtor, accepted, started,
          finished>>

Init ==
  /\ tasks_ = <<>> /\ stopped_ = FALSE /\ queue_mutex_ = NoThread
  /\ pc = [p \in Thread |-> IF p \in Worker THEN "locking" ELSE "idle"]
  /\ current = [w \in Worker |-> 0]
  /\ dtor = "alive" /\ accepted = 0 /\ started = <<>> /\ finished = {}

Goto(p, place) == pc' = [pc EXCEPT ![p] = place]

\* What a thread goes back to when submit() returns.
Home(p) == IF p \in Worker THEN "running" ELSE "idle"

Free == queue_mutex_ = NoThread

-----------------------------------------------------------------------------
(* submit(), called outside or from the body of a task.                    *)

Accepting == ~stopped_

MaySubmit(p) ==
  \/ p \in Worker /\ pc[p] = "running"
  \/ p \in Submitter /\ pc[p] = "idle" /\ dtor = "alive"

\* The lock is taken and stopped_ is false: the task will be enqueued.  When
\* stopped_ is set submit() throws instead, and the pool is as it was.
SubmitCheck(p) ==
  /\ MaySubmit(p) /\ Free /\ Accepting /\ accepted < MaxTasks
  /\ queue_mutex_' = p
  /\ Goto(p, "pushing")
  /\ UNCHANGED <<tasks_, stopped_, current, dtor, accepted, started, finished>>

\* emplace, and the end of the locked block.
SubmitPush(p) ==
  /\ pc[p] = "pushing"
  /\ accepted' = accepted + 1
  /\ tasks_' = Append(tasks_, accepted + 1)
  /\ queue_mutex_' = NoThread
  /\ Goto(p, "notifying")
  /\ UNCHANGED <<stopped_, current, dtor, started, finished>>

Waiting == {w \in Worker : pc[w] = "waiting"}

\* Mutation: the submitter returns without waking anybody.
WokenByOne_Nobody == {{}}
\* notify_one(): any one of the waiting workers, nobody when none waits.
WokenByOne == IF Waiting = {} THEN {{}} ELSE {{w} : w \in Waiting}

SubmitNotify(p) ==
  /\ pc[p] = "notifying"
  /\ \E woken \in WokenByOne :
       pc' = [q \in Thread |-> IF q = p THEN Home(p)
                               ELSE IF q \in woken THEN "locking" ELSE pc[q]]
  /\ UNCHANGED <<tasks_, stopped_, queue_mutex_, current, dtor, accepted,
                 started, finished>>

-----------------------------------------------------------------------------
(* worker_loop().                                                          *)

\* Mutation: the front is read but never popped.
AfterPop_NotPopped == tasks_
AfterPop == Tail(tasks_)

Dequeue(w) ==
  /\ pc[w] = "locking" /\ Free /\ tasks_ # <<>>
  /\ current' = [current EXCEPT ![w] = Head(tasks_)]
  /\ tasks_' = AfterPop
  /\ started' = Append(started, Head(tasks_))
  /\ Goto(w, "running")
  /\ UNCHANGED <<stopped_, queue_mutex_, dtor, accepted, finished>>

\* Mutation: a stopping worker leaves whatever is queued.
MayExit_LeavesQueue == stopped_
MayExit == stopped_ /\ tasks_ = <<>>

Exit(w) ==
  /\ pc[w] = "locking" /\ Free /\ MayExit
  /\ Goto(w, "done")
  /\ UNCHANGED <<tasks_, stopped_, queue_mutex_, current, dtor, accepted,
                 started, finished>>

\* The predicate of cv_.wait() is false; the worker still holds the mutex.
DecideToWait(w) ==
  /\ pc[w] = "locking" /\ Free /\ tasks_ = <<>> /\ ~stopped_
  /\ queue_mutex_' = w
  /\ Goto(w, "parking")
  /\ UNCHANGED <<tasks_, stopped_, current, dtor, accepted, started, finished>>

\* cv_.wait() releases the mutex and sleeps, in one step.
Park(w) ==
  /\ pc[w] = "parking"
  /\ queue_mutex_' = NoThread
  /\ Goto(w, "waiting")
  /\ UNCHANGED <<tasks_, stopped_, current, dtor, accepted, started, finished>>

SpuriousWakeup(w) ==
  /\ pc[w] = "waiting"
  /\ Goto(w, "locking")
  /\ UNCHANGED <<tasks_, stopped_, queue_mutex_, current, dtor, accepted,
                 started, finished>>

\* The packaged task returns; its value or its exception is in the future.
FinishTask(w) ==
  /\ pc[w] = "running"
  /\ finished' = finished \cup {current[w]}
  /\ current' = [current EXCEPT ![w] = 0]
  /\ Goto(w, "locking")
  /\ UNCHANGED <<tasks_, stopped_, queue_mutex_, dtor, accepted, started>>

-----------------------------------------------------------------------------
(* ~ThreadPool().                                                          *)

StoreStopped ==
  /\ dtor = "alive" /\ \A s \in Submitter : pc[s] = "idle"
  /\ stopped_' = TRUE
  /\ dtor' = "notifying"
  /\ UNCHANGED <<tasks_, queue_mutex_, pc, current, accepted, started, finished>>

\* Mutation: the destructor wakes one worker and not all.
WokenByAll_One == IF Waiting = {} THEN {} ELSE {CHOOSE w \in Waiting : TRUE}
WokenByAll == Waiting

NotifyAll ==
  /\ dtor = "notifying"
  /\ dtor' = "joining"
  /\ pc' = [q \in Thread |-> IF q \in WokenByAll THEN "locking" ELSE pc[q]]
  /\ UNCHANGED <<tasks_, stopped_, queue_mutex_, current, accepted, started,
                 finished>>

JoinAll ==
  /\ dtor = "joining" /\ \A w \in Worker : pc[w] = "done"
  /\ dtor' = "destroyed"
  /\ UNCHANGED <<tasks_, stopped_, queue_mutex_, pc, current, accepted,
                 started, finished>>

Terminated == dtor = "destroyed" /\ UNCHANGED vars

-----------------------------------------------------------------------------
SubmitStep(p) == SubmitCheck(p) \/ SubmitPush(p) \/ SubmitNotify(p)

WorkerStep(w) ==
  Dequeue(w) \/ Exit(w) \/ DecideToWait(w) \/ Park(w) \/ FinishTask(w)

Next == \/ \E p \in Thread : SubmitStep(p)
        \/ \E w \in Worker : WorkerStep(w) \/ SpuriousWakeup(w)
        \/ StoreStopped \/ NotifyAll \/ JoinAll
        \/ Terminated

Spec == Init /\ [][Next]_vars

(***************************************************************************)
(* A thread that can go on goes on, and every task returns.  Nobody is     *)
(* obliged to call submit() or to destroy the pool, and the implementation *)
(* owes no one a spurious wakeup.                                          *)
(***************************************************************************)
Fairness ==
  /\ \A p \in Thread : WF_vars(SubmitPush(p)) /\ WF_vars(SubmitNotify(p))
  /\ \A w \in Worker : WF_vars(WorkerStep(w))
  /\ WF_vars(NotifyAll) /\ WF_vars(JoinAll)

FairSpec == Spec /\ Fairness

-----------------------------------------------------------------------------
TypeOK ==
  /\ tasks_ \in Seq(Nat) /\ started \in Seq(Nat)
  /\ stopped_ \in BOOLEAN
  /\ queue_mutex_ \in Thread \cup {NoThread}
  /\ pc \in [Thread -> {"idle", "pushing", "notifying", "locking", "running",
                        "parking", "waiting", "done"}]
  /\ \A s \in Submitter : pc[s] \in {"idle", "pushing", "notifying"}
  /\ \A w \in Worker : pc[w] # "idle"
  /\ current \in [Worker -> Nat]
  /\ dtor \in {"alive", "notifying", "joining", "destroyed"}
  /\ accepted \in Nat
  /\ finished \subseteq Nat

(***************************************************************************)
(* The tasks dequeued and the tasks queued are, together and in this       *)
(* order, the tasks accepted: none is lost, none is taken by two workers   *)
(* and none overtakes another, however many threads submit and dequeue.    *)
(***************************************************************************)
FifoExactlyOnce == started \o tasks_ = [n \in 1 .. accepted |-> n]

(***************************************************************************)
(* A worker leaves its loop only when nothing can be queued any more: no   *)
(* submission that saw stopped_ unset is still to come, although stopped_  *)
(* is set without the mutex.                                               *)
(***************************************************************************)
ExitIsFinal ==
  \A w \in Worker : pc[w] = "done" =>
    /\ stopped_ /\ tasks_ = <<>>
    /\ \A p \in Thread : pc[p] # "pushing"

(***************************************************************************)
(* "No tasks are dropped" (thread_pool.hpp, the destructor): when it has   *)
(* returned, every task ever accepted has run to its end.                  *)
(***************************************************************************)
NoTaskDropped == dtor = "destroyed" => finished = 1 .. accepted

\* The promise the pool keeps.
Service == INSTANCE TaskService
  WITH pending <- tasks_, running <- current, joined <- (dtor = "destroyed")

(***************************************************************************)
(* The pool implements the task service its users rely on.                 *)
(***************************************************************************)
ImplementsService == Service!Spec

(***************************************************************************)
(* No notification is lost between submit() and a worker on its way to     *)
(* sleep: every task accepted is eventually finished, also while the pool  *)
(* shuts down.                                                             *)
(***************************************************************************)
EveryTaskRuns ==
  \A n \in 1 .. MaxTasks : (accepted >= n) ~> (n \in finished)

(***************************************************************************)
(* Once stopped_ is stored, only a worker caught between finding nothing   *)
(* to do and falling asleep can keep the destructor from returning: no     *)
(* other interleaving of sleepers, running tasks and nested submissions.   *)
(***************************************************************************)
ReturnsUnlessCaught ==
  (dtor = "notifying" /\ \A w \in Worker : pc[w] # "parking")
    ~> (dtor = "destroyed")
=============================================================================
