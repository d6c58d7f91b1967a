---------------------------- MODULE KafkaConsumer ----------------------------
(***************************************************************************)
(* The consumer (src/ingestion/kafka_consumer.{hpp,cpp}) in the processes  *)
(* of one group: the poll loop with its dispatch to the callback, the      *)
(* rebalance callback, the automatic commits, the destructor, and the end  *)
(* of a process by a signal, by an exception of the callback or by a       *)
(* crash.  The coordinator and the commits are the library's (external).   *)
(* A position or an offset is the number of messages before it; a message  *)
(* is a tick, malformed, or one on which the callback throws.              *)
(***************************************************************************)
EXTENDS Integers, Sequences, FiniteSets

CONSTANTS Instance,     \* the processes of the group
          Nobody,
          Partition,
          MaxEvents     \* bound on the shutdowns, the crashes, the expulsions
                        \* and the rebalances in favour of an idle member

ASSUME NobodyAssumption == Nobody \notin Instance

VARIABLES
  log,       \* the messages in each partition, in offset order
  committed, \* the group's offset of each partition, 0 when there is none
  owner,     \* who has the partition in the eyes of the coordinator
  place,     \* where each process is
  assigned,  \* the partitions its client fetches
  position,  \* its position in each of them
  hand,      \* the message in handle_message(), as a set
  memory,    \* the ticks its callback has queued and nobody has finished
  received,  \* history: the messages consume() has returned
  exposed,   \* history: those a member had not committed when it was lost
  settled,   \* history: those processed, or in a process when it died
  events     \* how many of the events MaxEvents bounds have happened

process == <<place, assigned, position, hand, memory>>
history == <<received, exposed, settled>>
consumerVars == <<committed, owner, process, history, events>>
vars == <<log, consumerVars>>

InitConsumer ==
  /\ committed = [p \in Partition |-> 0]
  /\ owner = [p \in Partition |-> Nobody]
  /\ place = [i \in Instance |-> "poll"]
  /\ assigned = [i \in Instance |-> {}]
  /\ position = [i \in Instance |-> [p \in Partition |-> 0]]
  /\ hand = [i \in Instance |-> {}] /\ memory = [i \in Instance |-> {}]
  /\ received = {} /\ exposed = {} /\ settled = {}
  /\ events = 0

Goto(i, where) == place' = [place EXCEPT ![i] = where]

\* Message m = <<p, o>> is the o-th of partition p.
ContentOf(m) == log[m[1]][m[2]].content

\* One more of the bounded events.
Event == events < MaxEvents /\ events' = events + 1
NoEvent == UNCHANGED events

\* The coordinator accepts commits from the member that owns the partition.
Owned(i) == {p \in assigned[i] : owner[p] = i}
CommittedBy(i) ==
  [p \in Partition |-> IF p \in Owned(i) THEN position[i][p] ELSE committed[p]]
Uncommitted(i) ==
  UNION {{<<p, o>> : o \in committed[p] + 1 .. position[i][p]} : p \in Owned(i)}

-----------------------------------------------------------------------------
(* The group: joining, rebalance_cb() inside consume(), expulsion.         *)

Unowned == {p \in Partition : owner[p] = Nobody}
Idle == {i \in Instance : place[i] = "poll" /\ assigned[i] = {}}

\* The process is started again: the constructor, subscribe() and start().
Start(i) ==
  /\ place[i] = "down"
  /\ Goto(i, "poll")
  /\ UNCHANGED <<log, committed, owner, assigned, position, hand, memory,
                 history, events>>

\* Mutation: without a committed offset consumption starts at the end.
Earliest_Latest(p) == Len(log[p])
\* auto.offset.reset = earliest
Earliest(p) == 0
StartOf(p) == IF committed[p] = 0 THEN Earliest(p) ELSE committed[p]

\* ERR__ASSIGN_PARTITIONS: the unowned partitions go to one member, or are
\* shared when others are idle too.
Assign(i, parts) ==
  /\ i \in Idle
  /\ IF Idle = {i} THEN parts = Unowned ELSE parts \subseteq Unowned
  /\ parts # {}
  /\ owner' = [p \in Partition |-> IF p \in parts THEN i ELSE owner[p]]
  /\ assigned' = [assigned EXCEPT ![i] = parts]
  /\ position' = [position EXCEPT ![i] =
                    [p \in Partition |-> IF p \in parts THEN StartOf(p) ELSE 0]]
  /\ UNCHANGED <<log, committed, place, hand, memory, history, events>>

Unassign(i) ==
  /\ assigned' = [assigned EXCEPT ![i] = {}]
  /\ position' = [position EXCEPT ![i] = [p \in Partition |-> 0]]

\* The member was expelled, or has to share what it has.
Expelled(i) == Owned(i) # assigned[i]
ToShare(i) == /\ assigned[i] # {} /\ ~Expelled(i)
              /\ \/ Unowned # {} /\ Idle = {} /\ NoEvent
                 \/ Idle # {} /\ Event

\* unassign() commits the offsets of what is given up.
CommittedOnRevoke(i) == CommittedBy(i)

\* ERR__REVOKE_PARTITIONS, or an error: everything is unassigned.
Revoke(i) ==
  /\ place[i] = "poll"
  /\ \/ Expelled(i) /\ NoEvent
     \/ ToShare(i)
  /\ committed' = CommittedOnRevoke(i)
  /\ owner' = [p \in Partition |-> IF owner[p] = i THEN Nobody ELSE owner[p]]
  /\ Unassign(i)
  /\ UNCHANGED <<log, place, hand, memory, history>>

\* The coordinator expels a member it has not heard of, which goes on with
\* what it has until it hears of it.
Evict(i) ==
  /\ place[i] # "down" /\ Owned(i) # {} /\ Event
  /\ exposed' = exposed \cup Uncommitted(i)
  /\ owner' = [p \in Partition |-> IF owner[p] = i THEN Nobody ELSE owner[p]]
  /\ UNCHANGED <<log, committed, process, received, settled>>

\* The member that had the partition is gone.
SessionTimesOut(p) ==
  /\ owner[p] # Nobody /\ p \notin assigned[owner[p]]
  /\ owner' = [owner EXCEPT ![p] = Nobody]
  /\ UNCHANGED <<log, committed, process, history, events>>

AutoCommit(i) ==
  /\ place[i] # "down" /\ CommittedBy(i) # committed
  /\ committed' = CommittedBy(i)
  /\ UNCHANGED <<log, owner, process, history, events>>

-----------------------------------------------------------------------------
(* The poll loop and what comes after it.                                  *)

\* consume() moves the position, and with it the offset of the next commit.
Consume(i, p) ==
  /\ place[i] = "poll" /\ p \in assigned[i] /\ position[i][p] < Len(log[p])
  /\ LET m == <<p, position[i][p] + 1>> IN
       /\ hand' = [hand EXCEPT ![i] = {m}]
       /\ position' = [position EXCEPT ![i][p] = @ + 1]
       /\ received' = received \cup {m}
       /\ exposed' = exposed \cup {x \in {m} : owner[p] # i}
  /\ Goto(i, "handle")
  /\ UNCHANGED <<log, committed, owner, assigned, memory, settled, events>>

\* handle_message(): a payload that does not parse is skipped, another goes
\* to the callback, which queues a task or a tick and returns.
HandleMessage(i) ==
  /\ \E m \in hand[i] :
       \/ ContentOf(m) = "malformed" /\ UNCHANGED memory
       \/ ContentOf(m) = "tick" /\ memory' = [memory EXCEPT ![i] = @ \cup {m}]
  /\ hand' = [hand EXCEPT ![i] = {}]
  /\ Goto(i, "poll")
  /\ UNCHANGED <<log, committed, owner, assigned, position, history, events>>

\* A pool thread, or the drain loop, is done with a tick.
Finish(i) ==
  /\ \E m \in memory[i] :
       settled' = settled \cup {m} /\ memory' = [memory EXCEPT ![i] = @ \ {m}]
  /\ UNCHANGED <<log, committed, owner, place, assigned, position, hand,
                 received, exposed, events>>

\* stop() ends the loop.
Stop(i) ==
  /\ place[i] = "poll" /\ Event
  /\ Goto(i, "stopped")
  /\ UNCHANGED <<log, committed, owner, assigned, position, hand, memory, history>>

\* Mutation: the pool is not joined, the buffer not drained, before.
Drained_Never(i) == TRUE
Drained(i) == memory[i] = {}
\* Mutation: close() is left out, and with it the last commit.
CommittedOnClose_Nothing(i) == committed
CommittedOnClose(i) == CommittedBy(i)

\* The destructor, after the owner has joined the pool or drained the
\* buffer: close() commits and leaves the group, and the process ends.
Close(i) ==
  /\ place[i] = "stopped" /\ Drained(i)
  /\ committed' = CommittedOnClose(i)
  /\ owner' = [p \in Partition |-> IF p \in Owned(i) THEN Nobody ELSE owner[p]]
  /\ Unassign(i)
  /\ memory' = [memory EXCEPT ![i] = {}]
  /\ Goto(i, "down")
  /\ UNCHANGED <<log, hand, history, events>>

Die(i) ==
  /\ Goto(i, "down")
  /\ Unassign(i)
  /\ memory' = [memory EXCEPT ![i] = {}] /\ hand' = [hand EXCEPT ![i] = {}]
  /\ settled' = settled \cup memory[i] \cup hand[i]
  /\ exposed' = exposed \cup Uncommitted(i)
  /\ UNCHANGED <<log, committed, owner, received>>

\* Only parse errors are caught: an exception of the callback leaves
\* start() and the thread, which terminates the process.
CallbackThrows(i) ==
  /\ \E m \in hand[i] : ContentOf(m) = "poison"
  /\ Die(i) /\ NoEvent

Crash(i) ==
  /\ place[i] # "down" /\ Event
  /\ Die(i)

-----------------------------------------------------------------------------
GroupStep(i) == \/ Start(i) \/ Revoke(i)
                \/ \E parts \in SUBSET Unowned : Assign(i, parts)

LoopStep(i) == \/ \E p \in Partition : Consume(i, p)
               \/ HandleMessage(i) \/ CallbackThrows(i) \/ Close(i)

ConsumerNext ==
  \/ \E i \in Instance : \/ GroupStep(i) \/ LoopStep(i) \/ Finish(i)
                         \/ Evict(i) \/ AutoCommit(i) \/ Stop(i) \/ Crash(i)
  \/ \E p \in Partition : SessionTimesOut(p)

\* A process that is down is started again, its threads go on when they can,
\* and the coordinator makes up its mind; commits are not awaited.
ConsumerFairness ==
  /\ \A i \in Instance : /\ WF_vars(GroupStep(i)) /\ WF_vars(LoopStep(i))
                         /\ WF_vars(Finish(i))
  /\ \A p \in Partition : WF_vars(SessionTimesOut(p))
=============================================================================
