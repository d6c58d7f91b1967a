----------------------------- MODULE TaskService -----------------------------
(***************************************************************************)
(* What ThreadPool promises whoever submits to it: every task accepted is  *)
(* run exactly once, tasks are started in the order they were accepted, a  *)
(* worker runs one task at a time, and the destructor returns only when    *)
(* nothing accepted is left to run ("No tasks are dropped").  Task n is    *)
(* the n-th one accepted.                                                  *)
(***************************************************************************)
EXTENDS Integers, Sequences

CONSTANT Worker

VARIABLES accepted,  \* how many tasks were accepted
          pending,   \* the tasks no worker has started, oldest first
          running,   \* the task each worker runs, 0 when it has none
          finished,  \* the tasks that ran to their end
          joined     \* the destructor has returned

vars == <<accepted, pending, running, finished, joined>>

Init ==
  /\ accepted = 0 /\ pending = <<>> /\ finished = {} /\ joined = FALSE
  /\ running = [w \in Worker |-> 0]

\* Mutation: a new task goes before the ones that wait.
Enqueued_InFront(task) == <<task>> \o pending
Enqueued(task) == Append(pending, task)

Accept ==
  /\ ~joined
  /\ accepted' = accepted + 1
  /\ pending' = Enqueued(accepted + 1)
  /\ UNCHANGED <<running, finished, joined>>

Start(w) ==
  /\ pending # <<>> /\ running[w] = 0
  /\ running' = [running EXCEPT ![w] = Head(pending)]
  /\ pending' = Tail(pending)
  /\ UNCHANGED <<accepted, finished, joined>>

Finish(w) ==
  /\ running[w] # 0
  /\ finished' = finished \cup {running[w]}
  /\ running' = [running EXCEPT ![w] = 0]
  /\ UNCHANGED <<accepted, pending, joined>>

Join ==
  /\ pending = <<>> /\ \A w \in Worker : running[w] = 0
  /\ joined' = TRUE
  /\ UNCHANGED <<accepted, pending, running, finished>>

Next == Accept \/ Join \/ \E w \in Worker : Start(w) \/ Finish(w)

Spec == Init /\ [][Next]_vars
=============================================================================
