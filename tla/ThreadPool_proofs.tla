-------------------------- MODULE ThreadPool_proofs --------------------------
(***************************************************************************)
(* For any number of workers, submitters and tasks: the pool keeps its     *)
(* type, runs its tasks first in first out and exactly once, drops none at *)
(* destruction, and implements the task service.  And what a user makes of *)
(* that service: batches of a ParallelPipeline, of any number and size,    *)
(* have one result for each symbol.                                        *)
(***************************************************************************)
EXTENDS ThreadPool, FiniteSetTheorems, SequenceTheorems, TLAPS

\* Moving the head of one sequence to the end of another changes nothing in
\* their concatenation, in which it is the element after the first ones.
LEMMA HeadMoves ==
  ASSUME NEW a \in Seq(Nat), NEW s \in Seq(Nat), s # <<>>
  PROVE  /\ Head(s) \in Nat /\ Tail(s) \in Seq(Nat) /\ Append(a, Head(s)) \in Seq(Nat)
         /\ Append(a, Head(s)) \o Tail(s) = a \o s
         /\ Len(a) + 1 \in 1 .. Len(a \o s)
         /\ (a \o s)[Len(a) + 1] = Head(s)
         /\ \A i \in 1 .. Len(a) : (a \o s)[i] = a[i]
<1> DEFINE b == Append(a, Head(s))
<1>1. Head(s) \in Nat /\ Tail(s) \in Seq(Nat) /\ Len(Tail(s)) = Len(s) - 1
      /\ Head(s) = s[1] /\ Len(s) \in Nat /\ Len(s) >= 1 /\ Len(a) \in Nat
      /\ \A i \in 1 .. Len(s) - 1 : Tail(s)[i] = s[i + 1]
  BY HeadTailProperties
<1>2. b \in Seq(Nat) /\ Len(b) = Len(a) + 1 /\ b[Len(a) + 1] = s[1]
      /\ \A i \in 1 .. Len(a) : b[i] = a[i]
  BY <1>1
<1>3. /\ a \o s \in Seq(Nat) /\ Len(a \o s) = Len(a) + Len(s)
      /\ \A i \in 1 .. Len(a) + Len(s) :
           (a \o s)[i] = IF i =< Len(a) THEN a[i] ELSE s[i - Len(a)]
  BY ConcatProperties
<1> HIDE DEF b
<1>4. /\ b \o Tail(s) \in Seq(Nat) /\ Len(b \o Tail(s)) = Len(b) + Len(Tail(s))
      /\ \A i \in 1 .. Len(b) + Len(Tail(s)) :
           (b \o Tail(s))[i] = IF i =< Len(b) THEN b[i] ELSE Tail(s)[i - Len(b)]
  BY <1>1, <1>2, ConcatProperties, ZenonT(60)
<1>5. ASSUME NEW i \in 1 .. Len(a) + Len(s)
      PROVE  (b \o Tail(s))[i] = (a \o s)[i]
  <2>1. CASE i =< Len(a)
    BY <2>1, <1>1, <1>2, <1>3, <1>4
  <2>2. CASE i = Len(a) + 1
    BY <2>2, <1>1, <1>2, <1>3, <1>4
  <2>3. CASE i > Len(a) + 1
    <3>1. /\ (b \o Tail(s))[i] = Tail(s)[i - (Len(a) + 1)]
          /\ (a \o s)[i] = s[i - Len(a)]
          /\ i - (Len(a) + 1) \in 1 .. Len(s) - 1
          /\ (i - (Len(a) + 1)) + 1 = i - Len(a)
      BY <2>3, <1>1, <1>2, <1>3, <1>4, SMTT(30)
    <3>. QED BY <3>1, <1>1
  <2>4. i \in Nat /\ Len(a) \in Nat
    BY <1>1
  <2>5. i =< Len(a) \/ i = Len(a) + 1 \/ i > Len(a) + 1
    BY ONLY <2>4
  <2>. QED BY ONLY <2>1, <2>2, <2>3, <2>5
<1>6. b \o Tail(s) = a \o s
  <2>1. Len(b \o Tail(s)) = Len(a \o s)
    BY <1>1, <1>2, <1>3, <1>4
  <2>. QED BY <2>1, <1>3, <1>4, <1>5, SeqEqual
<1>7. (a \o s)[Len(a) + 1] = Head(s) /\ Len(a) + 1 \in 1 .. Len(a \o s)
  BY <1>1, <1>3
<1>8. \A i \in 1 .. Len(a) : (a \o s)[i] = a[i]
  BY <1>1, <1>3
<1>. QED BY <1>1, <1>2, <1>6, <1>7, <1>8 DEF b

\* Who may be where, and who holds the mutex there.
PcInv ==
  /\ \A s \in Submitter : pc[s] \in {"idle", "pushing", "notifying"}
  /\ \A w \in Worker : pc[w] # "idle"
  /\ \A p \in Thread : pc[p] \in {"pushing", "parking"} <=> queue_mutex_ = p

\* A worker has a task from the moment it dequeues it until it finishes it,
\* whatever it submits meanwhile.
CurrentInv ==
  \A w \in Worker :
    current[w] # 0 <=> pc[w] \in {"running", "pushing", "notifying"}

\* The destructor's progress: outside callers are gone and stopped_ is set.
StopInv ==
  /\ stopped_ <=> dtor # "alive"
  /\ dtor # "alive" => \A s \in Submitter : pc[s] = "idle"
  /\ dtor = "destroyed" => \A w \in Worker : pc[w] = "done"

\* A task dequeued is finished or is some worker's current task.
RunInv ==
  /\ \A i \in 1 .. Len(started) :
       started[i] \in finished \/ \E w \in Worker : current[w] = started[i]
  /\ \A w \in Worker : current[w] \in 0 .. accepted
  /\ finished \subseteq 1 .. accepted

\* The inductive invariant.
Inv == /\ TypeOK /\ PcInv /\ CurrentInv /\ StopInv /\ RunInv
       /\ FifoExactlyOnce /\ ExitIsFinal

LEMMA InitInv == Init => Inv
<1> SUFFICES ASSUME Init PROVE Inv
  OBVIOUS
<1>1. TypeOK
  <2>1. tasks_ \in Seq(Nat) /\ started \in Seq(Nat)
    BY DEF Init
  <2>2. /\ pc \in [Thread -> {"idle", "pushing", "notifying", "locking",
                            "running", "parking", "waiting", "done"}]
        /\ current \in [Worker -> Nat]
    BY DEF Init
  <2>. QED BY <2>1, <2>2, ThreadAssumption DEF Init, TypeOK, Thread
<1>2. PcInv /\ CurrentInv /\ StopInv /\ ExitIsFinal
  BY ThreadAssumption DEF Init, PcInv, CurrentInv, StopInv, ExitIsFinal, Thread
<1>3. RunInv /\ FifoExactlyOnce
  BY DEF Init, RunInv, FifoExactlyOnce
<1>. QED BY <1>1, <1>2, <1>3 DEF Inv

-----------------------------------------------------------------------------
\* Each conjunct is preserved by every step.

LEMMA PcStep == Inv /\ [Next]_vars => PcInv'
<1> SUFFICES ASSUME TypeOK, PcInv, [Next]_vars PROVE PcInv'
  BY DEF Inv
<1> USE ThreadAssumption DEF TypeOK, PcInv, Goto, Thread, Free
<1>1. ASSUME NEW p \in Thread, SubmitCheck(p) PROVE PcInv'
  BY <1>1 DEF SubmitCheck, MaySubmit, Home
<1>2. ASSUME NEW p \in Thread, SubmitPush(p) PROVE PcInv'
  BY <1>2 DEF SubmitPush
<1>3. ASSUME NEW p \in Thread, SubmitNotify(p) PROVE PcInv'
  BY <1>3, ZenonT(60) DEF SubmitNotify, Home, WokenByOne, Waiting
<1>4. ASSUME NEW w \in Worker, Dequeue(w) PROVE PcInv'
  BY <1>4 DEF Dequeue
<1>5. ASSUME NEW w \in Worker, Exit(w) PROVE PcInv'
  BY <1>5 DEF Exit
<1>6. ASSUME NEW w \in Worker, DecideToWait(w) PROVE PcInv'
  BY <1>6 DEF DecideToWait
<1>7. ASSUME NEW w \in Worker, Park(w) \/ SpuriousWakeup(w) PROVE PcInv'
  BY <1>7 DEF Park, SpuriousWakeup
<1>8. ASSUME NEW w \in Worker, FinishTask(w) PROVE PcInv'
  BY <1>8 DEF FinishTask
<1>9. CASE StoreStopped \/ NotifyAll \/ JoinAll
  BY <1>9 DEF StoreStopped, NotifyAll, JoinAll, WokenByAll, Waiting
<1>10. CASE UNCHANGED vars
  BY <1>10 DEF vars
<1>. QED BY <1>1, <1>2, <1>3, <1>4, <1>5, <1>6, <1>7, <1>8, <1>9, <1>10
         DEF Next, SubmitStep, WorkerStep, Terminated

LEMMA TypeStep == Inv /\ [Next]_vars => TypeOK'
<1> SUFFICES ASSUME TypeOK, PcInv', [Next]_vars PROVE TypeOK'
  BY PcStep DEF Inv
<1> DEFINE Types == /\ tasks_ \in Seq(Nat) /\ started \in Seq(Nat)
                    /\ stopped_ \in BOOLEAN
                    /\ queue_mutex_ \in Thread \cup {NoThread}
                    /\ pc \in [Thread -> {"idle", "pushing", "notifying", "locking",
                                          "running", "parking", "waiting", "done"}]
                    /\ current \in [Worker -> Nat]
                    /\ dtor \in {"alive", "notifying", "joining", "destroyed"}
                    /\ accepted \in Nat
                    /\ finished \subseteq Nat
<1> USE DEF TypeOK, Goto
<1>1. ASSUME NEW p \in Thread, SubmitCheck(p) PROVE Types'
  BY <1>1 DEF SubmitCheck
<1>2. ASSUME NEW p \in Thread, SubmitPush(p) PROVE Types'
  BY <1>2 DEF SubmitPush
<1>3. ASSUME NEW p \in Thread, SubmitNotify(p) PROVE Types'
  BY <1>3 DEF SubmitNotify, Home
<1>4. ASSUME NEW w \in Worker, Dequeue(w) PROVE Types'
  <2>1. Head(tasks_) \in Nat /\ Tail(tasks_) \in Seq(Nat)
        /\ Append(started, Head(tasks_)) \in Seq(Nat)
    BY <1>4, HeadMoves DEF Dequeue
  <2>. QED BY <1>4, <2>1 DEF Dequeue, AfterPop
<1>5. ASSUME NEW w \in Worker, Exit(w) PROVE Types'
  BY <1>5 DEF Exit
<1>6. ASSUME NEW w \in Worker, DecideToWait(w) PROVE Types'
  BY <1>6 DEF DecideToWait, Thread
<1>7. ASSUME NEW w \in Worker, Park(w) \/ SpuriousWakeup(w) PROVE Types'
  BY <1>7 DEF Park, SpuriousWakeup
<1>8. ASSUME NEW w \in Worker, FinishTask(w) PROVE Types'
  BY <1>8 DEF FinishTask
<1>9. ASSUME StoreStopped \/ NotifyAll \/ JoinAll PROVE Types'
  BY <1>9 DEF StoreStopped, NotifyAll, JoinAll
<1>10. ASSUME UNCHANGED vars PROVE Types'
  BY <1>10 DEF vars
<1>11. Types'
  BY <1>1, <1>2, <1>3, <1>4, <1>5, <1>6, <1>7, <1>8, <1>9, <1>10
     DEF Next, SubmitStep, WorkerStep, Terminated
<1>. QED BY <1>11 DEF PcInv

LEMMA FifoStep == Inv /\ [Next]_vars => FifoExactlyOnce'
<1> SUFFICES ASSUME TypeOK, FifoExactlyOnce, [Next]_vars PROVE FifoExactlyOnce'
  BY DEF Inv
<1>1. ASSUME NEW p \in Thread, SubmitPush(p) PROVE FifoExactlyOnce'
  <2>1. /\ started' = started /\ tasks_' = Append(tasks_, accepted + 1)
        /\ accepted' = accepted + 1
    BY <1>1 DEF SubmitPush
  <2>2. started \o Append(tasks_, accepted + 1) = Append(started \o tasks_, accepted + 1)
    BY SMTT(30) DEF TypeOK
  <2>3. Append([n \in 1 .. accepted |-> n], accepted + 1) = [n \in 1 .. accepted + 1 |-> n]
    BY DEF TypeOK
  <2>. QED BY <2>1, <2>2, <2>3 DEF FifoExactlyOnce
<1>2. ASSUME NEW w \in Worker, Dequeue(w) PROVE FifoExactlyOnce'
  <2>1. /\ started' = Append(started, Head(tasks_)) /\ tasks_' = Tail(tasks_)
        /\ tasks_ # <<>> /\ accepted' = accepted
    BY <1>2 DEF Dequeue, AfterPop
  <2>2. Append(started, Head(tasks_)) \o Tail(tasks_) = started \o tasks_
    BY <2>1, HeadMoves DEF TypeOK
  <2>. QED BY <2>1, <2>2 DEF FifoExactlyOnce
<1>3. ASSUME UNCHANGED <<started, tasks_, accepted>> PROVE FifoExactlyOnce'
  BY <1>3 DEF FifoExactlyOnce
<1>. QED BY <1>1, <1>2, <1>3
         DEF Next, SubmitStep, WorkerStep, Terminated, vars, SubmitCheck,
             SubmitNotify, Exit, DecideToWait, Park, SpuriousWakeup, FinishTask,
             StoreStopped, NotifyAll, JoinAll

LEMMA CurrentStep == Inv /\ [Next]_vars => CurrentInv'
<1> SUFFICES ASSUME Inv, [Next]_vars PROVE CurrentInv'
  OBVIOUS
<1> USE ThreadAssumption DEF Inv, TypeOK, CurrentInv, Goto, Thread
<1>1. ASSUME NEW p \in Thread, SubmitCheck(p) PROVE CurrentInv'
  BY <1>1 DEF SubmitCheck, MaySubmit, Home
<1>2. ASSUME NEW p \in Thread, SubmitPush(p) PROVE CurrentInv'
  BY <1>2 DEF SubmitPush
<1>3. ASSUME NEW p \in Thread, SubmitNotify(p) PROVE CurrentInv'
  BY <1>3 DEF SubmitNotify, Home, WokenByOne, Waiting
<1>4. ASSUME NEW w \in Worker, Dequeue(w) PROVE CurrentInv'
  <2>1. Head(tasks_) # 0
    <3>1. /\ tasks_ # <<>> /\ (started \o tasks_)[Len(started) + 1] = Head(tasks_)
          /\ Len(started) + 1 \in 1 .. Len(started \o tasks_)
      BY <1>4 DEF Dequeue
    <3>2. Len(started \o tasks_) = accepted
      BY DEF FifoExactlyOnce
    <3>. QED BY <3>1, <3>2 DEF FifoExactlyOnce
  <2>. QED BY <1>4, <2>1 DEF Dequeue
<1>5. ASSUME NEW w \in Worker, Exit(w) \/ DecideToWait(w) \/ Park(w) \/ SpuriousWakeup(w)
      PROVE  CurrentInv'
  BY <1>5 DEF Exit, DecideToWait, Park, SpuriousWakeup
<1>6. ASSUME NEW w \in Worker, FinishTask(w) PROVE CurrentInv'
  BY <1>6 DEF FinishTask
<1>7. CASE StoreStopped \/ NotifyAll \/ JoinAll
  BY <1>7 DEF StoreStopped, NotifyAll, JoinAll, WokenByAll, Waiting
<1>8. CASE UNCHANGED vars
  BY <1>8 DEF vars
<1>. QED BY <1>1, <1>2, <1>3, <1>4, <1>5, <1>6, <1>7, <1>8
         DEF Next, SubmitStep, WorkerStep, Terminated

LEMMA StopStep == Inv /\ [Next]_vars => StopInv'
<1> SUFFICES ASSUME TypeOK, PcInv, StopInv, [Next]_vars PROVE StopInv'
  BY DEF Inv
<1> USE ThreadAssumption DEF TypeOK, PcInv, StopInv, Goto, Thread
<1>1. ASSUME NEW p \in Thread, SubmitCheck(p) PROVE StopInv'
  BY <1>1 DEF SubmitCheck, MaySubmit, Home
<1>2. ASSUME NEW p \in Thread, SubmitPush(p) PROVE StopInv'
  BY <1>2 DEF SubmitPush
<1>3. ASSUME NEW p \in Thread, SubmitNotify(p) PROVE StopInv'
  BY <1>3 DEF SubmitNotify, Home, WokenByOne, Waiting
<1>4. ASSUME NEW w \in Worker, WorkerStep(w) \/ SpuriousWakeup(w) PROVE StopInv'
  BY <1>4 DEF WorkerStep, Dequeue, Exit, DecideToWait, Park, SpuriousWakeup, FinishTask
<1>5. CASE StoreStopped
  BY <1>5 DEF StoreStopped
<1>6. CASE NotifyAll
  BY <1>6 DEF NotifyAll, WokenByAll, Waiting
<1>7. CASE JoinAll
  BY <1>7 DEF JoinAll
<1>8. CASE UNCHANGED vars
  BY <1>8 DEF vars
<1>. QED BY <1>1, <1>2, <1>3, <1>4, <1>5, <1>6, <1>7, <1>8
         DEF Next, SubmitStep, Terminated

LEMMA ExitStep == Inv /\ [Next]_vars => ExitIsFinal'
<1> SUFFICES ASSUME TypeOK, PcInv, ExitIsFinal, [Next]_vars PROVE ExitIsFinal'
  BY DEF Inv
<1> USE ThreadAssumption DEF TypeOK, PcInv, ExitIsFinal, Goto, Thread, Free
<1>1. ASSUME NEW p \in Thread, SubmitCheck(p) PROVE ExitIsFinal'
  BY <1>1 DEF SubmitCheck, Accepting, MaySubmit, Home
<1>2. ASSUME NEW p \in Thread, SubmitPush(p) PROVE ExitIsFinal'
  BY <1>2 DEF SubmitPush
<1>3. ASSUME NEW p \in Thread, SubmitNotify(p) PROVE ExitIsFinal'
  BY <1>3 DEF SubmitNotify, Home
<1>4. ASSUME NEW w \in Worker, Exit(w) PROVE ExitIsFinal'
  BY <1>4 DEF Exit, MayExit
<1>5. ASSUME NEW w \in Worker, Dequeue(w) PROVE ExitIsFinal'
  BY <1>5 DEF Dequeue
<1>6. ASSUME NEW w \in Worker, DecideToWait(w) \/ Park(w) \/ SpuriousWakeup(w) \/ FinishTask(w)
      PROVE  ExitIsFinal'
  BY <1>6 DEF DecideToWait, Park, SpuriousWakeup, FinishTask
<1>7. CASE StoreStopped \/ NotifyAll \/ JoinAll
  BY <1>7 DEF StoreStopped, NotifyAll, JoinAll
<1>8. CASE UNCHANGED vars
  BY <1>8 DEF vars
<1>. QED BY <1>1, <1>2, <1>3, <1>4, <1>5, <1>6, <1>7, <1>8
         DEF Next, SubmitStep, WorkerStep, Terminated

LEMMA RunStep == Inv /\ [Next]_vars => RunInv'
<1> SUFFICES ASSUME Inv, [Next]_vars PROVE RunInv'
  OBVIOUS
<1> USE DEF Inv, TypeOK, RunInv
<1>1. ASSUME NEW p \in Thread, SubmitPush(p) PROVE RunInv'
  BY <1>1 DEF SubmitPush
<1>2. ASSUME NEW w \in Worker, Dequeue(w) PROVE RunInv'
  <2>1. /\ tasks_ # <<>> /\ current' = [current EXCEPT ![w] = Head(tasks_)]
        /\ started' = Append(started, Head(tasks_))
        /\ accepted' = accepted /\ finished' = finished
    BY <1>2 DEF Dequeue
  <2>2. current[w] = 0
    BY <1>2 DEF Dequeue, CurrentInv
  <2>3. /\ Len(started \o tasks_) = accepted
        /\ \A n \in 1 .. accepted : (started \o tasks_)[n] = n
    <3>1. started \o tasks_ = [n \in 1 .. accepted |-> n] /\ accepted \in Nat
      BY DEF FifoExactlyOnce
    <3>. QED BY ONLY <3>1
  <2>. /\ Len(started) + 1 \in 1 .. accepted
       /\ (started \o tasks_)[Len(started) + 1] = Head(tasks_)
       /\ \A i \in 1 .. Len(started) : (started \o tasks_)[i] = started[i]
    BY <2>1, <2>3, HeadMoves
  <2>4. Head(tasks_) \in 1 .. accepted
    BY <2>3
  <2>5. \A i \in 1 .. Len(started) : started[i] # 0
    BY <2>3
  <2>6. ASSUME NEW i \in 1 .. Len(started')
        PROVE  started'[i] \in finished' \/ \E v \in Worker : current'[v] = started'[i]
    <3>1. CASE i = Len(started')
      <4>1. started'[i] = Head(tasks_)
        BY <2>1, <3>1
      <4>. QED BY <4>1, <2>1
    <3>2. CASE i # Len(started')
      <4>1. i \in 1 .. Len(started) /\ started'[i] = started[i]
        BY <2>1, <3>2
      <4>. QED BY <4>1, <2>1, <2>2, <2>5
    <3>. QED BY <3>1, <3>2
  <2>. QED BY <2>1, <2>4, <2>6
<1>3. ASSUME NEW w \in Worker, FinishTask(w) PROVE RunInv'
  <2>1. current[w] \in 1 .. accepted
    BY <1>3 DEF FinishTask, CurrentInv
  <2>2. /\ started' = started /\ accepted' = accepted
        /\ finished' = finished \cup {current[w]}
        /\ current' = [current EXCEPT ![w] = 0]
    BY <1>3 DEF FinishTask
  <2>3. ASSUME NEW i \in 1 .. Len(started')
        PROVE  started'[i] \in finished' \/ \E v \in Worker : current'[v] = started'[i]
    <3>1. CASE started[i] \in finished
      BY <2>2, <3>1
    <3>2. ASSUME NEW v \in Worker, current[v] = started[i]
          PROVE  started'[i] \in finished' \/ \E u \in Worker : current'[u] = started'[i]
      BY <2>2, <3>2
    <3>. QED BY <2>2, <2>3, <3>1, <3>2
  <2>4. finished' \subseteq 1 .. accepted'
    BY <2>1, <2>2
  <2>5. \A v \in Worker : current'[v] \in 0 .. accepted'
    BY <2>2
  <2> HIDE DEF Inv, TypeOK
  <2>. QED BY <2>3, <2>4, <2>5
<1>4. ASSUME UNCHANGED <<started, current, accepted, finished>> PROVE RunInv'
  BY <1>4
<1>. QED BY <1>1, <1>2, <1>3, <1>4
         DEF Next, SubmitStep, WorkerStep, Terminated, vars, SubmitCheck,
             SubmitNotify, Exit, DecideToWait, Park, SpuriousWakeup,
             StoreStopped, NotifyAll, JoinAll

LEMMA SpecInv == Spec => []Inv
<1>1. Inv /\ [Next]_vars => Inv'
  BY TypeStep, PcStep, FifoStep, CurrentStep, StopStep, ExitStep, RunStep DEF Inv
<1>. QED BY <1>1, InitInv, PTL DEF Spec

-----------------------------------------------------------------------------
(***************************************************************************)
(* Type correctness of the pool.                                           *)
(***************************************************************************)
THEOREM TypeCorrect == Spec => []TypeOK
BY SpecInv, PTL DEF Inv

(***************************************************************************)
(* Any number of submitters and workers dequeue the tasks in the order of  *)
(* acceptance, each exactly once.                                          *)
(***************************************************************************)
THEOREM FirstInFirstOut == Spec => []FifoExactlyOnce
BY SpecInv, PTL DEF Inv

(***************************************************************************)
(* A worker that left its loop has left nothing behind and nothing can be  *)
(* enqueued after it.                                                      *)
(***************************************************************************)
THEOREM ExitsAreFinal == Spec => []ExitIsFinal
BY SpecInv, PTL DEF Inv

(***************************************************************************)
(* The destructor returns only when every task accepted has run.           *)
(***************************************************************************)
THEOREM NoneDropped == Spec => []NoTaskDropped
<1>1. Inv => NoTaskDropped
  <2> SUFFICES ASSUME Inv, dtor = "destroyed" PROVE finished = 1 .. accepted
    BY DEF NoTaskDropped
  <2> USE DEF Inv, TypeOK
  <2>1. \A w \in Worker : pc[w] = "done" /\ current[w] = 0
    BY DEF StopInv, CurrentInv
  <2>2. tasks_ = <<>>
    BY <2>1, ThreadAssumption DEF ExitIsFinal
  <2>3. started = [n \in 1 .. accepted |-> n]
    BY <2>2 DEF FifoExactlyOnce
  <2>4. Len(started) = accepted /\ \A n \in 1 .. accepted : started[n] = n
    BY <2>3
  <2>5. \A n \in 1 .. accepted : n \in finished
    BY <2>1, <2>4 DEF RunInv
  <2>. QED BY <2>5 DEF RunInv
<1>. QED BY <1>1, SpecInv, PTL

(***************************************************************************)
(* The pool implements the task service, for any number of workers.        *)
(***************************************************************************)
THEOREM PoolImplementsService == Spec => ImplementsService
<1>1. Init => Service!Init
  BY DEF Init, Service!Init
<1>2. Inv /\ [Next]_vars => [Service!Next]_(Service!vars)
  <2> SUFFICES ASSUME Inv, [Next]_vars
               PROVE  Service!Next \/ UNCHANGED Service!vars
    OBVIOUS
  <2> USE DEF Inv, TypeOK
  <2>1. ASSUME NEW p \in Thread, SubmitPush(p) PROVE Service!Accept
    <3>1. dtor # "destroyed"
      BY <2>1 DEF SubmitPush, StopInv, Thread
    <3>. QED BY <2>1, <3>1 DEF SubmitPush, Service!Accept, Service!Enqueued
  <2>2. ASSUME NEW w \in Worker, Dequeue(w) PROVE Service!Start(w)
    <3>1. current[w] = 0
      BY <2>2 DEF Dequeue, CurrentInv
    <3>. QED BY <2>2, <3>1 DEF Dequeue, AfterPop, Service!Start
  <2>3. ASSUME NEW w \in Worker, FinishTask(w) PROVE Service!Finish(w)
    <3>1. current[w] # 0
      BY <2>3 DEF FinishTask, CurrentInv
    <3>. QED BY <2>3, <3>1 DEF FinishTask, Service!Finish
  <2>4. CASE JoinAll
    <3>1. tasks_ = <<>> /\ \A w \in Worker : current[w] = 0
      BY <2>4, ThreadAssumption DEF JoinAll, ExitIsFinal, CurrentInv
    <3>2. (dtor' = "destroyed") = TRUE /\ UNCHANGED <<accepted, tasks_, current, finished>>
      BY <2>4 DEF JoinAll
    <3>. QED BY <3>1, <3>2, Zenon DEF Service!Join, Service!Next
  <2>5. CASE StoreStopped \/ NotifyAll
    BY <2>5 DEF StoreStopped, NotifyAll, Service!vars
  <2>6. ASSUME UNCHANGED <<accepted, tasks_, current, finished, dtor>>
        PROVE  UNCHANGED Service!vars
    BY <2>6 DEF Service!vars
  <2>. QED BY <2>1, <2>2, <2>3, <2>4, <2>5, <2>6
           DEF Next, SubmitStep, WorkerStep, Terminated, vars, SubmitCheck,
               SubmitNotify, Exit, DecideToWait, Park, SpuriousWakeup, Service!Next
<1>. QED BY <1>1, <1>2, SpecInv, PTL DEF Spec, ImplementsService, Service!Spec

-----------------------------------------------------------------------------
(***************************************************************************)
(* The pipeline, on a TaskService of its own: submitted and completed are  *)
(* the tasks that service has accepted and finished.                       *)
(***************************************************************************)
CONSTANTS SyncBatch, AsyncBatch, Ticker, NoTicker, BadTicker, Whole, Content

VARIABLES submitted, pending, running, completed, joined, stopping, work,
          ticks, stage, todo, futures, got, results, called,
          batches_processed_, ticks_processed_

Pipeline == INSTANCE ParallelPipeline WITH accepted <- submitted, finished <- completed

\* The state of the batches.

Stages == {"uncalled", "queued", "submitting", "collecting", "done", "abandoned"}

Tick == [ticker : Ticker \cup {NoTicker, BadTicker}, kind : {"valued", "malformed"}]

\* What a caller may pass: ContentAssumption of ParallelPipeline.
ContentFits ==
  /\ {NoTicker, BadTicker, Whole} \cap Ticker = {}
  /\ \A b \in Pipeline!Batch : Content[b] \subseteq Seq(Tick)

\* The tasks that wait are in the order of their numbers.
QueueInv ==
  /\ submitted \in Nat /\ pending \in Seq(1 .. submitted)
  /\ \A i, j \in 1 .. Len(pending) : i < j => pending[i] < pending[j]
  /\ work \in Seq([batch : Pipeline!Batch, ticker : Ticker \cup {Whole}])
  /\ Len(work) = submitted

\* A batch has at most one task that is the whole of it, and is "queued" as
\* long as that task is.
WholeInv ==
  /\ \A m, n \in 1 .. submitted :
       work[m].ticker = Whole /\ work[n] = work[m] => m = n
  /\ \A n \in 1 .. submitted :
       work[n].ticker = Whole => stage[work[n].batch] # "uncalled"
  /\ \A i \in 1 .. Len(pending) :
       work[pending[i]].ticker = Whole => stage[work[pending[i]].batch] = "queued"

BatchType ==
  /\ stopping \in BOOLEAN /\ called \subseteq AsyncBatch
  /\ DOMAIN ticks = Pipeline!Batch
  /\ \A b \in Pipeline!Batch : ticks[b] = <<>> \/ ticks[b] \in Content[b]
  /\ stage \in [Pipeline!Batch -> Stages]
  /\ todo \in [Pipeline!Batch -> SUBSET Ticker]
  /\ results \in [Pipeline!Batch -> SUBSET Ticker]
  /\ futures \in [Pipeline!Batch -> Seq(1 .. submitted)]
  /\ got \in [Pipeline!Batch -> Nat]

\* The symbols that have a task, and those whose task gave a result so far.
Asked(b) == {work[futures[b][i]].ticker : i \in 1 .. Len(futures[b])}
Given(b) == {work[futures[b][i]].ticker :
               i \in {j \in 1 .. got[b] : ~Pipeline!Throws(futures[b][j])}}

\* The futures of a batch are its own tasks, those collected have ended, and
\* each symbol is still to be submitted or has one.
Sound(b) ==
  /\ got[b] =< Len(futures[b])
  /\ stage[b] \in {"uncalled", "queued"} => futures[b] = <<>> /\ results[b] = {}
  /\ \A i \in 1 .. Len(futures[b]) :
       work[futures[b][i]].batch = b /\ work[futures[b][i]].ticker \in Ticker
  /\ \A i \in 1 .. got[b] : futures[b][i] \in completed
  /\ stage[b] \in {"submitting", "collecting", "done"} =>
       Asked(b) \cup todo[b] = Pipeline!Symbols(ticks[b])
  /\ stage[b] \in {"submitting", "collecting"} => ticks[b] # <<>>
  /\ stage[b] \in {"collecting", "done"} => todo[b] = {}
  /\ stage[b] = "done" => got[b] = Len(futures[b])
  /\ results[b] = Given(b)

\* The batches that count, and their ticks.
Done == {b \in Pipeline!Batch : stage[b] = "done" /\ ticks[b] # <<>>}
TicksOf(B) == UNION {{b} \X DOMAIN ticks[b] : b \in B}

CountInv ==
  /\ IsFiniteSet(Done) /\ IsFiniteSet(TicksOf(Done))
  /\ batches_processed_ = Cardinality(Done)
  /\ ticks_processed_ = Cardinality(TicksOf(Done))

BatchInv == /\ QueueInv /\ WholeInv /\ BatchType /\ CountInv
            /\ \A b \in Pipeline!Batch : Sound(b)
-----------------------------------------------------------------------------
\* What a step does to the batches.

\* A new task goes to the end of the queue.
Grows(task) ==
  /\ submitted' = submitted + 1 /\ pending' = Append(pending, submitted + 1)
  /\ work' = Append(work, task) /\ completed' = completed

LEMMA GrowsFacts ==
  ASSUME QueueInv, NEW task \in [batch : Pipeline!Batch, ticker : Ticker \cup {Whole}],
         Grows(task)
  PROVE  /\ QueueInv'
         /\ Len(pending) \in Nat /\ Len(pending') = Len(pending) + 1
         /\ pending'[Len(pending')] = submitted'
         /\ \A i \in 1 .. Len(pending) : pending'[i] = pending[i] /\ pending[i] \in 1 .. submitted
         /\ submitted \in Nat /\ submitted' = submitted + 1
         /\ \A n \in 1 .. submitted : work'[n] = work[n]
         /\ work'[submitted'] = task
<1>1. /\ submitted \in Nat /\ submitted' = submitted + 1
      /\ pending \in Seq(1 .. submitted) /\ pending' = Append(pending, submitted + 1)
      /\ work' = Append(work, task) /\ Len(work) = submitted
      /\ work \in Seq([batch : Pipeline!Batch, ticker : Ticker \cup {Whole}])
  BY DEF QueueInv, Grows
<1>2. /\ Len(pending) \in Nat /\ Len(pending') = Len(pending) + 1
      /\ \A i \in 1 .. Len(pending) : pending'[i] = pending[i] /\ pending[i] \in 1 .. submitted
      /\ pending'[Len(pending) + 1] = submitted + 1
      /\ pending \in Seq(1 .. submitted')
  BY <1>1
<1>3. pending' \in Seq(1 .. submitted')
  BY <1>1, <1>2
<1>4. /\ work' \in Seq([batch : Pipeline!Batch, ticker : Ticker \cup {Whole}])
      /\ Len(work') = submitted'
      /\ \A n \in 1 .. submitted : work'[n] = work[n]
      /\ work'[submitted'] = task
  <2> DEFINE S == [batch : Pipeline!Batch, ticker : Ticker \cup {Whole}]
  <2>1. work \in Seq(S) /\ task \in S
    BY <1>1
  <2> HIDE DEF S
  <2>2. /\ Append(work, task) \in Seq(S) /\ Len(Append(work, task)) = Len(work) + 1
        /\ Append(work, task)[Len(work) + 1] = task
        /\ \A n \in 1 .. Len(work) : Append(work, task)[n] = work[n]
    BY <2>1
  <2>. QED BY <1>1, <2>2 DEF S
<1>5. ASSUME NEW i \in 1 .. Len(pending'), NEW j \in 1 .. Len(pending'), i < j
      PROVE  pending'[i] < pending'[j]
  <2>1. i \in 1 .. Len(pending) /\ (j \in 1 .. Len(pending) \/ j = Len(pending) + 1)
    BY <1>2, <1>5
  <2>. QED BY <1>1, <1>2, <1>5, <2>1 DEF QueueInv
<1>. QED BY <1>1, <1>2, <1>3, <1>4, <1>5 DEF QueueInv

\* A batch that takes no part in a step stays sound.
LEMMA Frame ==
  ASSUME BatchInv, NEW b \in Pipeline!Batch, completed \subseteq completed',
         \A n \in 1 .. submitted : work'[n] = work[n],
         ticks'[b] = ticks[b], stage'[b] = stage[b], todo'[b] = todo[b],
         futures'[b] = futures[b], got'[b] = got[b], results'[b] = results[b]
  PROVE  Sound(b)'
<1>1. Sound(b) /\ futures[b] \in Seq(1 .. submitted) /\ got[b] \in Nat
  BY DEF BatchInv, BatchType
<1>2. \A i \in 1 .. Len(futures[b]) : futures[b][i] \in 1 .. submitted
  BY <1>1, ElementOfSeq
<1>3. \A i \in 1 .. Len(futures[b]) : work'[futures[b][i]] = work[futures[b][i]]
  BY <1>2
<1>4. \A i \in 1 .. got[b] : i \in 1 .. Len(futures[b])
  BY <1>1 DEF Sound
<1>5. Asked(b)' = Asked(b)
  BY <1>3 DEF Asked
<1>6. \A i \in 1 .. got[b] : Pipeline!Throws(futures[b][i])' <=> Pipeline!Throws(futures[b][i])
  <2> TAKE i \in 1 .. got[b]
  <2>1. work'[futures[b][i]] = work[futures[b][i]] /\ work[futures[b][i]].batch = b
    BY <1>1, <1>3, <1>4 DEF Sound
  <2>. QED BY <2>1 DEF Pipeline!Throws
<1>7. Given(b)' = Given(b)
  BY <1>3, <1>4, <1>6 DEF Given
<1>. QED BY <1>1, <1>3, <1>5, <1>7 DEF Sound

\* A batch that begins its process_batch().
LEMMA Entered ==
  ASSUME ContentFits, NEW b \in Pipeline!Batch,
         ticks'[b] = <<>> \/ ticks'[b] \in Content[b],
         stage'[b] = Pipeline!AfterSplit(ticks'[b]),
         todo'[b] = Pipeline!Symbols(ticks'[b]),
         futures'[b] = <<>>, got'[b] = 0, results'[b] = {}
  PROVE  /\ Sound(b)'
         /\ stage'[b] \in Stages \ {"uncalled", "queued"} /\ todo'[b] \in SUBSET Ticker
         /\ stage'[b] = "done" => ticks'[b] = <<>>
<1>1. /\ todo'[b] \in SUBSET Ticker
      /\ ticks'[b] = <<>> => todo'[b] = {} /\ stage'[b] = "done"
      /\ stage'[b] \in {"done", "abandoned", "collecting", "submitting"}
      /\ stage'[b] = "done" => ticks'[b] = <<>>
      /\ stage'[b] = "collecting" => todo'[b] = {}
  BY DEF Pipeline!AfterSplit, Pipeline!Symbols, Pipeline!TickersOf
<1>2. Asked(b)' = {} /\ Given(b)' = {} /\ Len(futures'[b]) = 0
  BY DEF Asked, Given
<1>. QED BY <1>1, <1>2 DEF Sound, Stages

\* The counters are left alone by a step after which the same batches count.
LEMMA CountFrame ==
  ASSUME CountInv,
         \A b \in Pipeline!Batch :
           (stage'[b] = "done" /\ ticks'[b] # <<>>) <=> (stage[b] = "done" /\ ticks[b] # <<>>),
         \A b \in Pipeline!Batch : stage[b] = "done" => ticks'[b] = ticks[b],
         UNCHANGED <<batches_processed_, ticks_processed_>>
  PROVE  CountInv'
<1>1. Done' = Done
  BY DEF Done
<1>2. \A b \in Done : DOMAIN ticks'[b] = DOMAIN ticks[b]
  BY DEF Done
<1>3. TicksOf(Done)' = TicksOf(Done)
  BY <1>1, <1>2 DEF TicksOf
<1>. QED BY <1>1, <1>3 DEF CountInv

LEMMA Counted ==
  ASSUME ContentFits, BatchInv, NEW b \in Pipeline!Batch, Pipeline!Return(b)
  PROVE  CountInv'
<1>1. /\ stage[b] = "collecting" /\ stage' = [stage EXCEPT ![b] = "done"]
      /\ batches_processed_' = batches_processed_ + 1
      /\ ticks_processed_' = ticks_processed_ + Len(ticks[b]) /\ ticks' = ticks
  BY DEF Pipeline!Return, Pipeline!TicksCounted
<1>2. ticks[b] # <<>> /\ ticks[b] \in Content[b] /\ stage \in [Pipeline!Batch -> Stages]
  BY <1>1 DEF BatchInv, BatchType, Sound
<1>3. ticks[b] \in Seq(Tick)
  BY <1>2 DEF ContentFits
<1>4. DOMAIN ticks[b] = 1 .. Len(ticks[b]) /\ Len(ticks[b]) \in Nat
  BY <1>3
<1>5. Done' = Done \cup {b} /\ b \notin Done
  BY <1>1, <1>2 DEF Done
<1>6. TicksOf(Done)' = TicksOf(Done) \cup ({b} \X DOMAIN ticks[b])
  BY <1>1, <1>5 DEF TicksOf
<1>7. TicksOf(Done) \cap ({b} \X DOMAIN ticks[b]) = {}
  BY <1>5 DEF TicksOf
<1>8. /\ IsFiniteSet({b} \X DOMAIN ticks[b])
      /\ Cardinality({b} \X DOMAIN ticks[b]) = Len(ticks[b])
  <2>1. IsFiniteSet(1 .. Len(ticks[b])) /\ Cardinality(1 .. Len(ticks[b])) = Len(ticks[b])
    BY <1>4, FS_Interval
  <2>2. IsFiniteSet({b}) /\ Cardinality({b}) = 1
    BY FS_Singleton
  <2>3. /\ IsFiniteSet({b} \X DOMAIN ticks[b])
        /\ Cardinality({b} \X DOMAIN ticks[b]) = Cardinality({b}) * Cardinality(DOMAIN ticks[b])
    BY <1>4, <2>1, <2>2, FS_Product
  <2>. QED BY <1>4, <2>1, <2>2, <2>3
<1>9. /\ IsFiniteSet(Done) /\ Cardinality(Done) \in Nat
      /\ IsFiniteSet(TicksOf(Done)) /\ Cardinality(TicksOf(Done)) \in Nat
      /\ batches_processed_ = Cardinality(Done) /\ ticks_processed_ = Cardinality(TicksOf(Done))
  BY FS_CardinalityType DEF BatchInv, CountInv
<1>10. IsFiniteSet(Done') /\ Cardinality(Done') = Cardinality(Done) + 1
  BY <1>5, <1>9, FS_AddElement
<1>11. /\ IsFiniteSet(TicksOf(Done)')
       /\ Cardinality(TicksOf(Done)') = Cardinality(TicksOf(Done)) + Len(ticks[b])
  <2>1. Cardinality({}) = 0
    BY FS_EmptySet
  <2> HIDE DEF TicksOf
  <2>2. /\ IsFiniteSet(TicksOf(Done) \cup ({b} \X DOMAIN ticks[b]))
        /\ Cardinality(TicksOf(Done) \cup ({b} \X DOMAIN ticks[b]))
             = Cardinality(TicksOf(Done)) + Len(ticks[b]) - Cardinality({})
    BY <1>7, <1>8, <1>9, FS_Union
  <2>. QED BY <1>4, <1>6, <1>9, <2>1, <2>2
<1>. QED BY <1>1, <1>9, <1>10, <1>11 DEF CountInv

-----------------------------------------------------------------------------
\* The steps.

LEMMA CallStep ==
  ASSUME ContentFits, BatchInv, NEW b \in Pipeline!Batch, NEW c \in Content[b],
         Pipeline!ProcessBatch(b, c)
  PROVE  BatchInv'
<1>1. /\ stage[b] = "uncalled" /\ ticks' = [ticks EXCEPT ![b] = c]
      /\ stage' = [stage EXCEPT ![b] = Pipeline!AfterSplit(c)]
      /\ todo' = [todo EXCEPT ![b] = Pipeline!Symbols(c)]
      /\ UNCHANGED <<submitted, pending, completed, stopping, work, futures, got,
                     results, called, batches_processed_, ticks_processed_>>
  BY DEF Pipeline!ProcessBatch, Pipeline!pool, Pipeline!counters
<1>2. /\ QueueInv /\ WholeInv /\ BatchType /\ CountInv /\ Sound(b)
  BY DEF BatchInv
<1>3. /\ futures[b] = <<>> /\ got[b] = 0 /\ results[b] = {}
  BY <1>1, <1>2 DEF Sound, BatchType
<1>4. /\ ticks'[b] = c /\ stage'[b] = Pipeline!AfterSplit(c) /\ todo'[b] = Pipeline!Symbols(c)
      /\ \A d \in Pipeline!Batch : d # b => ticks'[d] = ticks[d] /\ stage'[d] = stage[d]
                                             /\ todo'[d] = todo[d]
  BY <1>1, <1>2 DEF BatchType
<1>5. /\ Sound(b)' /\ stage'[b] \in Stages \ {"uncalled", "queued"}
      /\ todo'[b] \in SUBSET Ticker
      /\ stage'[b] = "done" => ticks'[b] = <<>>
  BY <1>1, <1>3, <1>4, Entered
<1>6. QueueInv'
  BY <1>1, <1>2 DEF QueueInv
<1>7. WholeInv'
  BY <1>1, <1>2, <1>4, <1>5 DEF WholeInv, QueueInv
<1>8. BatchType'
  BY <1>1, <1>2, <1>4, <1>5 DEF BatchType
<1>9. \A d \in Pipeline!Batch : Sound(d)'
  BY <1>1, <1>4, <1>5, Frame
<1>10. CountInv'
  BY <1>1, <1>2, <1>4, <1>5, CountFrame
<1>. QED BY <1>6, <1>7, <1>8, <1>9, <1>10 DEF BatchInv

LEMMA AsyncCallStep ==
  ASSUME ContentFits, BatchInv, NEW b \in Pipeline!Batch, NEW c \in Content[b],
         Pipeline!ProcessBatchAsync(b, c)
  PROVE  BatchInv'
<1> DEFINE task == [batch |-> b, ticker |-> Whole]
<1>1. /\ stage[b] = "uncalled" /\ ticks' = [ticks EXCEPT ![b] = c]
      /\ stage' = [stage EXCEPT ![b] = "queued"] /\ Grows(task)
      /\ UNCHANGED <<stopping, todo, futures, got, results, called,
                     batches_processed_, ticks_processed_>>
  BY DEF Pipeline!ProcessBatchAsync, Pipeline!Service!Accept, Pipeline!Service!Enqueued,
         Pipeline!counters, Grows
<1>2. /\ QueueInv /\ WholeInv /\ BatchType /\ CountInv /\ Sound(b)
  BY DEF BatchInv
<1>3. /\ futures[b] = <<>> /\ got[b] = 0 /\ results[b] = {}
  BY <1>1, <1>2 DEF Sound, BatchType
<1>4. /\ ticks'[b] = c /\ stage'[b] = "queued"
      /\ \A d \in Pipeline!Batch : d # b => ticks'[d] = ticks[d] /\ stage'[d] = stage[d]
  BY <1>1, <1>2 DEF BatchType
<1>5. task \in [batch : Pipeline!Batch, ticker : Ticker \cup {Whole}]
      /\ task.batch = b /\ task.ticker = Whole
  OBVIOUS
<1> HIDE DEF task
<1>6. /\ QueueInv'
      /\ Len(pending) \in Nat /\ Len(pending') = Len(pending) + 1
      /\ pending'[Len(pending')] = submitted'
      /\ \A i \in 1 .. Len(pending) : pending'[i] = pending[i] /\ pending[i] \in 1 .. submitted
      /\ submitted \in Nat /\ submitted' = submitted + 1
      /\ \A n \in 1 .. submitted : work'[n] = work[n]
      /\ work'[submitted'] = task
  BY <1>1, <1>2, <1>5, GrowsFacts
<1>7. WholeInv'
  <2>1. ASSUME NEW n \in 1 .. submitted, work'[n].ticker = Whole
        PROVE  work'[n].batch # b /\ work[n].batch \in Pipeline!Batch
               /\ stage'[work'[n].batch] = stage[work[n].batch]
               /\ stage[work[n].batch] # "uncalled"
    <3>1. work[n].ticker = Whole /\ work[n].batch \in Pipeline!Batch
      <4>1. work[n] \in [batch : Pipeline!Batch, ticker : Ticker \cup {Whole}]
        BY <1>2, ElementOfSeq DEF QueueInv
      <4>. QED BY <1>6, <2>1, <4>1
    <3>. QED BY <1>1, <1>2, <1>4, <1>6, <3>1 DEF WholeInv
  <2>2. ASSUME NEW m \in 1 .. submitted', NEW n \in 1 .. submitted',
               work'[m].ticker = Whole, work'[n] = work'[m]
        PROVE  m = n
    <3>1. (m \in 1 .. submitted \/ m = submitted') /\ (n \in 1 .. submitted \/ n = submitted')
      BY <1>6
    <3>. QED BY <1>2, <1>5, <1>6, <2>1, <2>2, <3>1 DEF WholeInv
  <2>3. ASSUME NEW n \in 1 .. submitted', work'[n].ticker = Whole
        PROVE  stage'[work'[n].batch] # "uncalled"
    <3>1. n \in 1 .. submitted \/ n = submitted'
      BY <1>6
    <3>. QED BY <1>4, <1>5, <1>6, <2>1, <2>3, <3>1
  <2>4. ASSUME NEW i \in 1 .. Len(pending'), work'[pending'[i]].ticker = Whole
        PROVE  stage'[work'[pending'[i]].batch] = "queued"
    <3>1. i \in 1 .. Len(pending) \/ i = Len(pending')
      BY <1>6
    <3>2. CASE i \in 1 .. Len(pending)
      BY <1>2, <1>6, <2>1, <2>4, <3>2 DEF WholeInv
    <3>3. CASE i = Len(pending')
      BY <1>4, <1>5, <1>6, <3>3
    <3>. QED BY <3>1, <3>2, <3>3
  <2>. QED BY <2>2, <2>3, <2>4 DEF WholeInv
<1>8. BatchType'
  <2>1. 1 .. submitted \subseteq 1 .. submitted'
    BY <1>6
  <2>2. \A d \in Pipeline!Batch : futures[d] \in Seq(1 .. submitted')
    <3>1. Seq(1 .. submitted) \subseteq Seq(1 .. submitted')
      BY <2>1, SeqMonotonic
    <3>. QED BY <1>2, <3>1 DEF BatchType
  <2>3. futures' \in [Pipeline!Batch -> Seq(1 .. submitted')]
    BY <1>1, <1>2, <2>2 DEF BatchType
  <2>. QED BY <1>1, <1>2, <1>4, <2>3 DEF BatchType, Stages
<1>9. \A d \in Pipeline!Batch : Sound(d)'
  <2>1. completed' = completed
    BY <1>1 DEF Grows
  <2>2. Asked(b)' = {} /\ Given(b)' = {} /\ Len(futures'[b]) = 0
    BY <1>1, <1>3 DEF Asked, Given
  <2>3. Sound(b)'
    BY <1>1, <1>3, <1>4, <2>2 DEF Sound
  <2>. QED BY <1>1, <1>4, <1>6, <2>1, <2>3, Frame
<1>10. CountInv'
  BY <1>1, <1>2, <1>4, CountFrame
<1>. QED BY <1>6, <1>7, <1>8, <1>9, <1>10 DEF BatchInv

LEMMA SymbolStep ==
  ASSUME ContentFits, BatchInv, NEW b \in Pipeline!Batch, NEW t \in Ticker,
         Pipeline!SubmitSymbol(b, t)
  PROVE  BatchInv'
<1> DEFINE task == [batch |-> b, ticker |-> t]
<1>1. /\ stage[b] = "submitting" /\ t \in todo[b] /\ Grows(task)
      /\ futures' = [futures EXCEPT ![b] = Append(futures[b], submitted')]
      /\ todo' = [todo EXCEPT ![b] = todo[b] \ {t}]
      /\ stage' = [stage EXCEPT ![b] = IF todo'[b] = {} THEN "collecting" ELSE stage[b]]
      /\ UNCHANGED <<stopping, ticks, got, results, called, batches_processed_,
                     ticks_processed_>>
  BY DEF Pipeline!SubmitSymbol, Pipeline!Service!Accept, Pipeline!Service!Enqueued,
         Pipeline!counters, Grows
<1>2. /\ QueueInv /\ WholeInv /\ BatchType /\ CountInv /\ Sound(b)
  BY DEF BatchInv
<1>3. /\ futures[b] \in Seq(1 .. submitted) /\ got[b] \in Nat /\ got[b] =< Len(futures[b])
      /\ todo[b] \in SUBSET Ticker
  BY <1>2 DEF BatchType, Sound
<1>4. /\ todo'[b] = todo[b] \ {t} /\ futures'[b] = Append(futures[b], submitted')
      /\ stage'[b] \in {"submitting", "collecting"}
      /\ stage'[b] = "collecting" => todo'[b] = {}
      /\ \A d \in Pipeline!Batch : d # b => todo'[d] = todo[d] /\ stage'[d] = stage[d]
                                             /\ futures'[d] = futures[d]
  BY <1>1, <1>2 DEF BatchType
<1>5. /\ task \in [batch : Pipeline!Batch, ticker : Ticker \cup {Whole}]
      /\ task.batch = b /\ task.ticker = t /\ t # Whole
  BY DEF ContentFits
<1> HIDE DEF task
<1>6. /\ QueueInv'
      /\ Len(pending) \in Nat /\ Len(pending') = Len(pending) + 1
      /\ pending'[Len(pending')] = submitted'
      /\ \A i \in 1 .. Len(pending) : pending'[i] = pending[i] /\ pending[i] \in 1 .. submitted
      /\ submitted \in Nat /\ submitted' = submitted + 1
      /\ \A n \in 1 .. submitted : work'[n] = work[n]
      /\ work'[submitted'] = task
  BY <1>1, <1>2, <1>5, GrowsFacts
<1>7. WholeInv'
  <2>1. ASSUME NEW n \in 1 .. submitted', work'[n].ticker = Whole
        PROVE  n \in 1 .. submitted /\ work[n] = work'[n]
    BY <1>5, <1>6, <2>1
  <2>2. ASSUME NEW n \in 1 .. submitted, work[n].ticker = Whole
        PROVE  stage'[work[n].batch] # "uncalled"
    <3>1. work[n] \in [batch : Pipeline!Batch, ticker : Ticker \cup {Whole}]
      BY <1>2, ElementOfSeq DEF QueueInv
    <3>. QED BY <1>2, <1>4, <2>2, <3>1 DEF WholeInv
  <2>3. ASSUME NEW n \in 1 .. submitted, work[n].ticker = Whole,
               stage[work[n].batch] = "queued"
        PROVE  stage'[work[n].batch] = "queued"
    <3>1. work[n] \in [batch : Pipeline!Batch, ticker : Ticker \cup {Whole}]
      BY <1>2, ElementOfSeq DEF QueueInv
    <3>. QED BY <1>1, <1>4, <2>3, <3>1
  <2>4. ASSUME NEW i \in 1 .. Len(pending'), work'[pending'[i]].ticker = Whole
        PROVE  stage'[work'[pending'[i]].batch] = "queued"
    <3>1. i \in 1 .. Len(pending) \/ i = Len(pending')
      BY <1>6
    <3>2. i # Len(pending')
      BY <1>5, <1>6, <2>4
    <3>. QED BY <1>2, <1>6, <2>3, <2>4, <3>1, <3>2 DEF WholeInv
  <2>5. ASSUME NEW m \in 1 .. submitted', NEW n \in 1 .. submitted',
               work'[m].ticker = Whole, work'[n] = work'[m]
        PROVE  m = n
    BY <1>2, <2>1, <2>5 DEF WholeInv
  <2>. QED BY <2>1, <2>2, <2>4, <2>5 DEF WholeInv
<1>8. /\ futures'[b] \in Seq(1 .. submitted') /\ Len(futures'[b]) = Len(futures[b]) + 1
      /\ futures'[b][Len(futures[b]) + 1] = submitted' /\ Len(futures[b]) \in Nat
      /\ \A i \in 1 .. Len(futures[b]) :
           futures'[b][i] = futures[b][i] /\ futures[b][i] \in 1 .. submitted
  <2> DEFINE s == futures[b]
  <2>1. s \in Seq(1 .. submitted') /\ submitted' \in 1 .. submitted'
        /\ \A i \in 1 .. Len(s) : s[i] \in 1 .. submitted
    <3>1. 1 .. submitted \subseteq 1 .. submitted' /\ submitted' \in 1 .. submitted'
      BY <1>6
    <3>. QED BY <1>3, <3>1, SeqMonotonic, ElementOfSeq
  <2>2. futures'[b] = Append(s, submitted')
    BY <1>4
  <2> HIDE DEF s
  <2>3. futures'[b] \in Seq(1 .. submitted') /\ Len(futures'[b]) = Len(s) + 1 /\ Len(s) \in Nat
        /\ futures'[b][Len(s) + 1] = submitted'
        /\ \A i \in 1 .. Len(s) : futures'[b][i] = s[i]
    BY <2>1, <2>2
  <2>. QED BY <2>1, <2>3 DEF s
<1>9. BatchType'
  <2>1. 1 .. submitted \subseteq 1 .. submitted'
    BY <1>6
  <2>2. \A d \in Pipeline!Batch : futures[d] \in Seq(1 .. submitted')
    <3>1. Seq(1 .. submitted) \subseteq Seq(1 .. submitted')
      BY <2>1, SeqMonotonic
    <3>. QED BY <1>2, <3>1 DEF BatchType
  <2>3. futures' \in [Pipeline!Batch -> Seq(1 .. submitted')]
    BY <1>1, <1>2, <1>4, <1>8, <2>2 DEF BatchType
  <2>. QED BY <1>1, <1>2, <1>3, <1>4, <2>3 DEF BatchType, Stages
<1>10. Sound(b)'
  <2>1. \A i \in 1 .. Len(futures[b]) : work'[futures'[b][i]] = work[futures[b][i]]
    BY <1>6, <1>8
  <2>2. work'[futures'[b][Len(futures[b]) + 1]] = task
    BY <1>6, <1>8
  <2>3. \A i \in 1 .. Len(futures'[b]) : i \in 1 .. Len(futures[b]) \/ i = Len(futures[b]) + 1
    BY <1>8
  <2>4. Asked(b)' = Asked(b) \cup {t}
    <3>1. 1 .. Len(futures'[b]) = (1 .. Len(futures[b])) \cup {Len(futures[b]) + 1}
      BY <1>8
    <3>. QED BY <1>5, <2>1, <2>2, <3>1, SMTT(30) DEF Asked
  <2>5. \A i \in 1 .. got[b] : i \in 1 .. Len(futures[b])
    BY <1>3, <1>8
  <2>6. Given(b)' = Given(b)
    <3>1. \A i \in 1 .. got[b] : Pipeline!Throws(futures[b][i])' <=> Pipeline!Throws(futures[b][i])
      BY <1>1, <2>1, <2>5 DEF Pipeline!Throws
    <3>. QED BY <1>1, <2>1, <2>5, <3>1, SMTT(30) DEF Given
  <2>7. \A i \in 1 .. Len(futures'[b]) :
          work'[futures'[b][i]].batch = b /\ work'[futures'[b][i]].ticker \in Ticker
    BY <1>2, <1>5, <2>1, <2>2, <2>3 DEF Sound
  <2>8. Asked(b)' \cup todo'[b] = Pipeline!Symbols(ticks'[b])
    <3>1. Asked(b) \cup todo[b] = Pipeline!Symbols(ticks[b])
      BY <1>1, <1>2 DEF Sound
    <3>. QED BY <1>1, <1>4, <2>4, <3>1
  <2>9. /\ \A i \in 1 .. got[b] : futures'[b][i] \in completed'
        /\ got'[b] =< Len(futures'[b]) /\ results'[b] = Given(b)' /\ ticks'[b] # <<>>
    BY <1>1, <1>2, <1>3, <1>8, <2>5, <2>6 DEF Sound, Grows
  <2>. QED BY <1>1, <1>4, <2>7, <2>8, <2>9 DEF Sound
<1>11. \A d \in Pipeline!Batch : Sound(d)'
  <2>1. completed' = completed
    BY <1>1 DEF Grows
  <2>. QED BY <1>1, <1>4, <1>6, <1>10, <2>1, Frame
<1>12. CountInv'
  BY <1>1, <1>2, <1>4, CountFrame
<1>. QED BY <1>6, <1>7, <1>9, <1>11, <1>12 DEF BatchInv

LEMMA CollectStep ==
  ASSUME ContentFits, BatchInv, NEW b \in Pipeline!Batch, Pipeline!Collect(b)
  PROVE  BatchInv'
<1> DEFINE n == futures[b][got[b] + 1]
<1>1. /\ stage[b] = "collecting" /\ got[b] < Len(futures[b]) /\ n \in completed
      /\ got' = [got EXCEPT ![b] = got[b] + 1]
      /\ results' = IF Pipeline!Throws(n) THEN results
                    ELSE [results EXCEPT ![b] = results[b] \cup {work[n].ticker}]
      /\ UNCHANGED <<submitted, pending, completed, stopping, work, ticks, stage, todo,
                     futures, called, batches_processed_, ticks_processed_>>
  BY DEF Pipeline!Collect, Pipeline!Ready, Pipeline!AfterException, Pipeline!pool,
         Pipeline!counters
<1>2. /\ QueueInv /\ WholeInv /\ BatchType /\ CountInv /\ Sound(b)
  BY DEF BatchInv
<1>3. /\ got[b] \in Nat /\ Len(futures[b]) \in Nat /\ got'[b] = got[b] + 1
      /\ got[b] + 1 \in 1 .. Len(futures[b])
      /\ \A i \in 1 .. got[b] + 1 : i \in 1 .. got[b] \/ i = got[b] + 1
      /\ \A d \in Pipeline!Batch : d # b => got'[d] = got[d] /\ results'[d] = results[d]
  <2>1. got[b] \in Nat /\ futures[b] \in Seq(1 .. submitted)
    BY <1>2 DEF BatchType
  <2>2. Len(futures[b]) \in Nat
    BY <2>1, LenProperties
  <2>. QED BY <1>1, <1>2, <2>1, <2>2 DEF BatchType
<1>4. work[n].batch = b /\ work[n].ticker \in Ticker
  BY <1>2, <1>3 DEF Sound
<1>5. results'[b] = IF Pipeline!Throws(n) THEN results[b] ELSE results[b] \cup {work[n].ticker}
  BY <1>1, <1>2 DEF BatchType
<1>6. Given(b)' = IF Pipeline!Throws(n) THEN Given(b) ELSE Given(b) \cup {work[n].ticker}
  <2>1. 1 .. got[b] + 1 = (1 .. got[b]) \cup {got[b] + 1}
    BY <1>3
  <2>2. \A i \in 1 .. Len(futures[b]) :
           Pipeline!Throws(futures[b][i])' <=> Pipeline!Throws(futures[b][i])
    BY <1>1 DEF Pipeline!Throws
  <2>3. \A i \in 1 .. got[b] + 1 : i \in 1 .. Len(futures[b])
    BY <1>3
  <2>4. Given(b)' = {work[futures[b][i]].ticker :
                       i \in {j \in 1 .. got[b] + 1 : ~Pipeline!Throws(futures[b][j])}}
    BY <1>1, <1>3, <2>2, <2>3 DEF Given
  <2>. QED BY <2>1, <2>4 DEF Given
<1>7. Sound(b)'
  <2>1. \A i \in 1 .. got'[b] : futures'[b][i] \in completed'
    BY <1>1, <1>2, <1>3 DEF Sound
  <2>2. Asked(b)' = Asked(b)
    BY <1>1 DEF Asked
  <2>3. results[b] = Given(b)
    BY <1>2 DEF Sound
  <2>4. results'[b] = Given(b)'
    BY <1>5, <1>6, <2>3
  <2>5. got'[b] =< Len(futures'[b])
    BY <1>1, <1>3
  <2>. QED BY <1>1, <1>2, <2>1, <2>2, <2>4, <2>5, Zenon DEF Sound
<1>8. QueueInv' /\ WholeInv'
  BY <1>1, <1>2 DEF QueueInv, WholeInv
<1>9. BatchType'
  BY <1>1, <1>2, <1>3, <1>4 DEF BatchType
<1>10. \A d \in Pipeline!Batch : Sound(d)'
  BY <1>1, <1>3, <1>7, Frame
<1>11. CountInv'
  BY <1>1, <1>2, CountFrame
<1>. QED BY <1>8, <1>9, <1>10, <1>11 DEF BatchInv

LEMMA EndStep ==
  ASSUME ContentFits, BatchInv, NEW b \in Pipeline!Batch,
         Pipeline!Return(b) \/ Pipeline!SubmitThrows(b)
  PROVE  BatchInv'
<1>1. /\ \/ stage[b] = "collecting" /\ got[b] = Len(futures[b]) /\ stage' = [stage EXCEPT ![b] = "done"]
         \/ stage[b] = "submitting" /\ stage' = [stage EXCEPT ![b] = "abandoned"]
            /\ UNCHANGED <<batches_processed_, ticks_processed_>>
      /\ UNCHANGED <<submitted, pending, completed, stopping, work, ticks, todo,
                     futures, got, results, called>>
  BY DEF Pipeline!Return, Pipeline!SubmitThrows, Pipeline!pool, Pipeline!counters
<1>2. /\ QueueInv /\ WholeInv /\ BatchType /\ CountInv /\ Sound(b)
  BY DEF BatchInv
<1>3. /\ stage'[b] \in {"done", "abandoned"} /\ stage[b] \in {"collecting", "submitting"}
      /\ \A d \in Pipeline!Batch : d # b => stage'[d] = stage[d]
      /\ stage[b] = "collecting" => got[b] = Len(futures[b])
      /\ stage[b] = "submitting" => stage'[b] = "abandoned"
  BY <1>1, <1>2 DEF BatchType
<1>4. QueueInv'
  BY <1>1, <1>2 DEF QueueInv
<1>5. WholeInv'
  <2>1. \A n \in 1 .. submitted : work[n].batch \in Pipeline!Batch
    <3> TAKE n \in 1 .. submitted
    <3>1. work[n] \in [batch : Pipeline!Batch, ticker : Ticker \cup {Whole}]
      BY <1>2, ElementOfSeq DEF QueueInv
    <3>. QED BY <3>1
  <2>2. \A i \in 1 .. Len(pending) : pending[i] \in 1 .. submitted
    BY <1>2, ElementOfSeq DEF QueueInv
  <2>. QED BY <1>1, <1>2, <1>3, <2>1, <2>2 DEF WholeInv
<1>6. BatchType'
  BY <1>1, <1>2 DEF BatchType, Stages
<1>7. Sound(b)'
  <2>1. Asked(b)' = Asked(b)
    BY <1>1 DEF Asked
  <2>2. Given(b)' = Given(b)
    <3>1. \A i \in 1 .. got[b] : Pipeline!Throws(futures[b][i])' <=> Pipeline!Throws(futures[b][i])
      BY <1>1 DEF Pipeline!Throws
    <3>. QED BY <1>1, <3>1 DEF Given
  <2>. QED BY <1>1, <1>2, <1>3, <2>1, <2>2 DEF Sound
<1>8. \A d \in Pipeline!Batch : Sound(d)'
  BY <1>1, <1>3, <1>7, Frame
<1>9. CountInv'
  <2>1. CASE Pipeline!Return(b)
    BY <2>1, Counted
  <2>2. CASE stage'[b] = "abandoned" /\ UNCHANGED <<batches_processed_, ticks_processed_>>
    BY <1>1, <1>2, <1>3, <2>2, CountFrame
  <2>3. CASE Pipeline!SubmitThrows(b)
    <3>1. stage[b] = "submitting" /\ UNCHANGED <<batches_processed_, ticks_processed_>>
      BY <2>3 DEF Pipeline!SubmitThrows, Pipeline!counters
    <3>. QED BY <1>3, <2>2, <3>1
  <2>. QED BY <2>1, <2>3
<1>. QED BY <1>4, <1>5, <1>6, <1>8, <1>9 DEF BatchInv

\* A worker takes the task at the head of the queue: of one symbol, or of a
\* whole batch, which then begins.
LEMMA TakeStep ==
  ASSUME ContentFits, BatchInv, NEW w \in Worker, Pipeline!TakeTask(w)
  PROVE  BatchInv'
<1> DEFINE h == Head(pending)
<1>1. /\ pending # <<>> /\ pending' = Tail(pending)
      /\ IF work[h].ticker = Whole
         THEN LET b == work[h].batch IN
              /\ stage' = [stage EXCEPT ![b] = Pipeline!AfterSplit(ticks[b])]
              /\ todo' = [todo EXCEPT ![b] = Pipeline!Symbols(ticks[b])]
         ELSE UNCHANGED <<stage, todo>>
      /\ UNCHANGED <<submitted, completed, stopping, work, ticks, futures, got, results,
                     called, batches_processed_, ticks_processed_>>
  BY DEF Pipeline!TakeTask, Pipeline!Service!Start, Pipeline!counters
<1>2. /\ QueueInv /\ WholeInv /\ BatchType /\ CountInv
  BY DEF BatchInv
<1>3. /\ Len(pending) \in Nat \ {0} /\ h = pending[1] /\ h \in 1 .. submitted
      /\ Len(pending') = Len(pending) - 1 /\ pending' \in Seq(1 .. submitted)
      /\ \A i \in 1 .. Len(pending') :
           /\ pending'[i] = pending[i + 1] /\ i + 1 \in 1 .. Len(pending)
           /\ pending'[i] \in 1 .. submitted /\ pending'[i] # h
      /\ \A i, j \in 1 .. Len(pending') : i < j => pending'[i] < pending'[j]
  <2>1. /\ pending \in Seq(1 .. submitted) /\ submitted \in Nat
        /\ \A i, j \in 1 .. Len(pending) : i < j => pending[i] < pending[j]
    BY <1>2 DEF QueueInv
  <2>2. /\ Len(pending) \in Nat \ {0} /\ h = pending[1] /\ h \in 1 .. submitted
        /\ pending' \in Seq(1 .. submitted) /\ Len(pending') = Len(pending) - 1
        /\ \A i \in 1 .. Len(pending) - 1 : pending'[i] = pending[i + 1]
    BY <1>1, <2>1, HeadTailProperties
  <2>3. \A i \in 1 .. Len(pending) : pending[i] \in 1 .. submitted
    BY <2>1, ElementOfSeq
  <2> HIDE DEF h
  <2>4. ASSUME NEW i \in 1 .. Len(pending')
        PROVE  /\ pending'[i] = pending[i + 1] /\ i + 1 \in 1 .. Len(pending)
               /\ pending'[i] \in 1 .. submitted /\ pending'[i] # h
    <3>1. pending'[i] = pending[i + 1] /\ i + 1 \in 1 .. Len(pending)
          /\ 1 \in 1 .. Len(pending) /\ 1 < i + 1
      BY <2>2
    <3>2. pending[1] < pending[i + 1]
      BY <2>1, <3>1
    <3>. QED BY <2>2, <2>3, <3>1, <3>2
  <2>5. ASSUME NEW i \in 1 .. Len(pending'), NEW j \in 1 .. Len(pending'), i < j
        PROVE  pending'[i] < pending'[j]
    BY <2>1, <2>4, <2>5
  <2>. QED BY <2>2, <2>4, <2>5
<1> HIDE DEF h
<1>4. \A n \in 1 .. submitted : work[n] \in [batch : Pipeline!Batch, ticker : Ticker \cup {Whole}]
  BY <1>2, ElementOfSeq DEF QueueInv
<1>5. QueueInv'
  BY <1>1, <1>2, <1>3 DEF QueueInv
<1>6. CASE work[h].ticker # Whole
  <2>1. WholeInv'
    BY <1>1, <1>2, <1>3, <1>6 DEF WholeInv
  <2>2. BatchType'
    BY <1>1, <1>2, <1>6 DEF BatchType
  <2>3. \A d \in Pipeline!Batch : Sound(d)'
    BY <1>1, <1>6, Frame
  <2>4. CountInv'
    BY <1>1, <1>2, <1>6, CountFrame
  <2>. QED BY <1>5, <2>1, <2>2, <2>3, <2>4 DEF BatchInv
<1>7. CASE work[h].ticker = Whole
  <2>0. PICK b \in Pipeline!Batch : b = work[h].batch
    BY <1>3, <1>4
  <2>1. stage[b] = "queued"
    <3>1. 1 \in 1 .. Len(pending)
      BY <1>3
    <3>. QED BY <1>2, <1>3, <1>7, <2>0, <3>1 DEF WholeInv
  <2>2. Sound(b)
    BY DEF BatchInv
  <2>3. futures[b] = <<>> /\ got[b] = 0 /\ results[b] = {}
    BY <1>2, <2>1, <2>2 DEF Sound, BatchType
  <2>4. /\ stage'[b] = Pipeline!AfterSplit(ticks[b]) /\ todo'[b] = Pipeline!Symbols(ticks[b])
        /\ \A d \in Pipeline!Batch : d # b => stage'[d] = stage[d] /\ todo'[d] = todo[d]
    BY <1>1, <1>2, <1>7, <2>0 DEF BatchType
  <2>5. /\ Sound(b)'
        /\ stage'[b] \in Stages \ {"uncalled", "queued"} /\ todo'[b] \in SUBSET Ticker
        /\ stage'[b] = "done" => ticks'[b] = <<>>
    <3>1. ticks[b] = <<>> \/ ticks[b] \in Content[b]
      BY <1>2, <2>1 DEF BatchType
    <3>. QED BY <1>1, <2>1, <2>3, <2>4, <3>1, Entered
  <2>6. WholeInv'
    <3>1. ASSUME NEW n \in 1 .. submitted, work[n].ticker = Whole
          PROVE  stage'[work[n].batch] # "uncalled"
      BY <1>2, <1>4, <2>4, <2>5, <3>1 DEF WholeInv
    <3>2. ASSUME NEW n \in 1 .. submitted, work[n].ticker = Whole, n # h
          PROVE  work[n].batch # b
      <4>1. work[n].batch = b => work[n] = work[h]
        <5>1. \A r \in [batch : Pipeline!Batch, ticker : Ticker \cup {Whole}] :
                 r = [batch |-> r.batch, ticker |-> r.ticker]
          OBVIOUS
        <5>. QED BY <1>3, <1>4, <1>7, <2>0, <3>2, <5>1
      <4>. QED BY <1>2, <1>3, <1>7, <3>2, <4>1 DEF WholeInv
    <3>3. ASSUME NEW i \in 1 .. Len(pending'), work[pending'[i]].ticker = Whole
          PROVE  stage'[work[pending'[i]].batch] = "queued"
      <4>1. stage[work[pending'[i]].batch] = "queued"
        <5>1. i + 1 \in 1 .. Len(pending) /\ work[pending[i + 1]].ticker = Whole
          BY <1>3, <3>3
        <5>2. stage[work[pending[i + 1]].batch] = "queued"
          BY <1>2, <5>1 DEF WholeInv
        <5>. QED BY <1>3, <5>2
      <4>2. work[pending'[i]].batch # b
        BY <1>3, <3>2, <3>3
      <4>. QED BY <1>3, <1>4, <2>4, <4>1, <4>2
    <3>. QED BY <1>1, <1>2, <3>1, <3>3 DEF WholeInv
  <2>7. BatchType'
    <3>1. /\ stage' \in [Pipeline!Batch -> Stages] /\ todo' \in [Pipeline!Batch -> SUBSET Ticker]
      BY <1>1, <1>2, <1>7, <2>0, <2>4, <2>5 DEF BatchType
    <3>. QED BY <1>1, <1>2, <3>1 DEF BatchType
  <2>8. \A d \in Pipeline!Batch : Sound(d)'
    BY <1>1, <2>4, <2>5, Frame
  <2>9. CountInv'
    BY <1>1, <1>2, <2>1, <2>4, <2>5, CountFrame
  <2>. QED BY <1>5, <2>6, <2>7, <2>8, <2>9 DEF BatchInv
<1>. QED BY <1>6, <1>7

\* What the workers and the destructor do besides.
LEMMA OtherStep ==
  ASSUME ContentFits, BatchInv, completed \subseteq completed', called' \subseteq AsyncBatch,
         stopping' \in BOOLEAN,
         UNCHANGED <<submitted, pending, work, ticks, stage, todo, futures, got, results,
                     batches_processed_, ticks_processed_>>
  PROVE  BatchInv'
<1>1. /\ QueueInv /\ WholeInv /\ BatchType /\ CountInv
  BY DEF BatchInv
<1>2. QueueInv' /\ WholeInv' /\ BatchType'
  BY <1>1 DEF QueueInv, WholeInv, BatchType
<1>3. \A d \in Pipeline!Batch : Sound(d)'
  BY Frame
<1>4. CountInv'
  BY <1>1, CountFrame
<1>. QED BY <1>2, <1>3, <1>4 DEF BatchInv

LEMMA PipelineStep ==
  ASSUME ContentFits, BatchInv, [Pipeline!Next]_(Pipeline!vars)
  PROVE  BatchInv'
<1> USE DEF Pipeline!pool, Pipeline!batch, Pipeline!counters
<1>1. called \subseteq AsyncBatch /\ stopping \in BOOLEAN
  BY DEF BatchInv, BatchType
<1>2. ASSUME NEW w \in Worker, Pipeline!FinishSymbol(w) PROVE BatchInv'
  BY <1>1, <1>2, OtherStep DEF Pipeline!FinishSymbol, Pipeline!Service!Finish
<1>3. ASSUME NEW w \in Worker, NEW b \in AsyncBatch, Pipeline!FinishBatch(w, b) PROVE BatchInv'
  BY <1>1, <1>3, OtherStep DEF Pipeline!FinishBatch, Pipeline!Service!Finish
<1>4. CASE Pipeline!StopPool
  BY <1>1, <1>4, OtherStep DEF Pipeline!StopPool
<1>5. CASE Pipeline!JoinPool
  BY <1>1, <1>5, OtherStep DEF Pipeline!JoinPool, Pipeline!Service!Join
<1>6. CASE UNCHANGED Pipeline!vars
  BY <1>1, <1>6, OtherStep DEF Pipeline!vars
<1>7. SyncBatch \subseteq Pipeline!Batch /\ AsyncBatch \subseteq Pipeline!Batch
  BY DEF Pipeline!Batch
<1>. QED BY <1>2, <1>3, <1>4, <1>5, <1>6, <1>7, CallStep, AsyncCallStep, SymbolStep,
            CollectStep, EndStep, TakeStep
         DEF Pipeline!Next, Pipeline!BatchStep, Pipeline!WorkerStep

LEMMA PipelineInit == Pipeline!Init => BatchInv
<1> SUFFICES ASSUME Pipeline!Init PROVE BatchInv
  OBVIOUS
<1> USE DEF Pipeline!Init, Pipeline!Service!Init
<1>1. Len(pending) = 0 /\ Len(work) = 0 /\ 1 .. submitted = {}
  OBVIOUS
<1>2. QueueInv /\ WholeInv
  BY <1>1 DEF QueueInv, WholeInv
<1>3. BatchType
  <2>1. futures \in [Pipeline!Batch -> Seq(1 .. submitted)]
    BY EmptySeq
  <2>2. /\ stage \in [Pipeline!Batch -> Stages] /\ got \in [Pipeline!Batch -> Nat]
        /\ todo \in [Pipeline!Batch -> SUBSET Ticker]
        /\ results \in [Pipeline!Batch -> SUBSET Ticker]
    BY DEF Stages
  <2>3. /\ DOMAIN ticks = Pipeline!Batch /\ \A b \in Pipeline!Batch : ticks[b] = <<>>
        /\ stopping \in BOOLEAN /\ called \subseteq AsyncBatch
    OBVIOUS
  <2>. QED BY ONLY <2>1, <2>2, <2>3 DEF BatchType
<1>4. ASSUME NEW b \in Pipeline!Batch PROVE Sound(b)
  <2>1. futures[b] = <<>> /\ Len(futures[b]) = 0 /\ got[b] = 0 /\ results[b] = {}
        /\ stage[b] = "uncalled"
    OBVIOUS
  <2>2. Given(b) = {}
    BY <2>1 DEF Given
  <2>. QED BY <2>1, <2>2 DEF Sound
<1>5. CountInv
  <2>1. Done = {} /\ TicksOf(Done) = {}
    BY DEF Done, TicksOf
  <2>. QED BY <2>1, FS_EmptySet DEF CountInv
<1>. QED BY <1>2, <1>3, <1>4, <1>5 DEF BatchInv

\* A batch that is done, on any number of workers and among any others, has a
\* result for exactly the symbols whose ticks are well formed, and its tasks
\* have ended; and the counters, which several threads add to, count the
\* batches done and their ticks.
THEOREM EachSymbolOnce ==
  ContentFits => (Pipeline!Spec => []Pipeline!OneResultPerSymbol)
<1> SUFFICES ASSUME ContentFits PROVE Pipeline!Spec => []Pipeline!OneResultPerSymbol
  OBVIOUS
<1>1. BatchInv /\ [Pipeline!Next]_(Pipeline!vars) => BatchInv'
  BY PipelineStep
<1>2. BatchInv => Pipeline!OneResultPerSymbol
  <2> SUFFICES ASSUME BatchInv PROVE Pipeline!OneResultPerSymbol
    OBVIOUS
  <2>1. Pipeline!TypeOK
    <3>1. CountInv => batches_processed_ \in Nat /\ ticks_processed_ \in Nat
      BY FS_CardinalityType DEF CountInv
    <3>. QED BY <3>1 DEF BatchInv, QueueInv, BatchType, Sound, Stages, Pipeline!TypeOK
  <2>2. ASSUME NEW b \in Pipeline!Batch, stage[b] = "done"
        PROVE  /\ results[b] = {t \in Pipeline!Symbols(ticks[b]) :
                                  \A i \in 1 .. Len(ticks[b]) :
                                    ticks[b][i].ticker = t => ticks[b][i].kind = "valued"}
               /\ \A i \in 1 .. Len(futures[b]) : futures[b][i] \in completed
    <3>1. Sound(b) /\ (ticks[b] = <<>> \/ ticks[b] \in Content[b])
      BY DEF BatchInv, BatchType
    <3>2. /\ got[b] = Len(futures[b]) /\ Asked(b) = Pipeline!Symbols(ticks[b])
          /\ results[b] = Given(b)
      BY <2>2, <3>1 DEF Sound
    <3>3. \A i \in 1 .. Len(ticks[b]) : ticks[b][i].kind \in {"valued", "malformed"}
      <4>1. ticks[b] \in Seq(Tick)
        BY <3>1, EmptySeq DEF ContentFits
      <4>2. \A i \in 1 .. Len(ticks[b]) : ticks[b][i] \in Tick
        BY <4>1, ElementOfSeq
      <4>. QED BY <4>2 DEF Tick
    <3>4. \A i \in 1 .. Len(futures[b]) :
            ~Pipeline!Throws(futures[b][i]) <=>
               \A k \in 1 .. Len(ticks[b]) :
                 ticks[b][k].ticker = work[futures[b][i]].ticker => ticks[b][k].kind = "valued"
      BY <3>1, <3>3 DEF Pipeline!Throws, Sound
    <3>5. \A t : t \in Given(b) <=>
             \E i \in 1 .. Len(futures[b]) :
               t = work[futures[b][i]].ticker /\ ~Pipeline!Throws(futures[b][i])
      BY <3>2 DEF Given
    <3>6. \A t : t \in Pipeline!Symbols(ticks[b]) <=>
             \E i \in 1 .. Len(futures[b]) : t = work[futures[b][i]].ticker
      BY <3>2 DEF Asked
    <3>. QED BY <3>1, <3>2, <3>4, <3>5, <3>6 DEF Sound
  <2>3. /\ batches_processed_ = Cardinality(Done)
        /\ ticks_processed_ = Cardinality(TicksOf(Done))
    BY DEF BatchInv, CountInv
  <2>4. \A S : Pipeline!Cardinality(S) = Cardinality(S)
    BY DEF Pipeline!Cardinality, Cardinality
  <2>. QED BY <2>1, <2>2, <2>3, <2>4 DEF Pipeline!OneResultPerSymbol, Done, TicksOf
<1>. QED BY <1>1, <1>2, PipelineInit, PTL DEF Pipeline!Spec
=============================================================================
