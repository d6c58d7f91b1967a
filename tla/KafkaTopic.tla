----------------------------- MODULE KafkaTopic -----------------------------
(***************************************************************************)
(* A topic of the pipeline, raw or processed: a KafkaProducer at one end,  *)
(* a group of KafkaConsumers at the other, the partitions in between.      *)
(***************************************************************************)
EXTENDS KafkaConsumer

CONSTANTS Publisher, Key, Content, Traffic, PartitionOf, QueueLimit,
          MaxFailures,
          MaxFaults  \* bound on the events of KafkaConsumer and the failures
                     \* of KafkaProducer together

ASSUME TrafficAssumption == Traffic \subseteq Seq([key : Key, content : Content])
ASSUME PartitionAssumption == PartitionOf \in [Key -> Partition]
ASSUME LimitAssumption == QueueLimit \in Nat \ {0}

VARIABLES accepted, polling, sending, reports, retried, failed, producer

Producer == INSTANCE KafkaProducer

producerVars == <<accepted, polling, sending, reports, retried, failed,
                  producer>>
topic == <<vars, producerVars>>

Init == Producer!Init /\ InitConsumer

Faults == events + Cardinality(retried \cup failed)

Next == /\ \/ Producer!Next /\ UNCHANGED consumerVars
           \/ ConsumerNext /\ UNCHANGED producerVars
        /\ Faults' =< MaxFaults

Spec == Init /\ [][Next]_topic
FairSpec == Spec /\ Producer!Fairness /\ ConsumerFairness

-----------------------------------------------------------------------------
TypeOK ==
  /\ Producer!TypeOK
  /\ committed \in [Partition -> Nat]
  /\ owner \in [Partition -> Instance \cup {Nobody}]
  /\ place \in [Instance -> {"down", "poll", "handle", "stopped"}]
  /\ assigned \in [Instance -> SUBSET Partition]
  /\ position \in [Instance -> [Partition -> Nat]]
  /\ \A i \in Instance : memory[i] \cup hand[i] \subseteq received
  /\ exposed \cup settled \subseteq received
  /\ received \subseteq Partition \X Nat

UpTo(p, o) == {<<p, n>> : n \in 1 .. o}
IdOf(m) == log[m[1]][m[2]].id
ReceivedIds == {IdOf(m) : m \in received}

(***************************************************************************)
(* "resumes from where it left off", "ensures no ticks are missed on first *)
(* run" (kafka_consumer.cpp): whatever crashes, moves or is committed, no  *)
(* message is before an offset of the group, or before the position of a   *)
(* member, that has not been returned to a poll loop.                      *)
(***************************************************************************)
NothingSkipped ==
  /\ TypeOK
  /\ \A p \in Partition :
       /\ UpTo(p, committed[p]) \subseteq received
       /\ \A i \in Instance :
            p \in assigned[i] => UpTo(p, position[i][p]) \subseteq received

(***************************************************************************)
(* "resumes ... rather than replaying everything": a message is returned   *)
(* twice only if a member consumed it that died, or was expelled from the  *)
(* group, before it was committed.  Shutdowns and rebalances replay none.  *)
(***************************************************************************)
ReplaysNeedAFault ==
  [][\A i \in Instance :
       hand'[i] # hand[i] => hand'[i] \cap received \subseteq exposed']_topic

(***************************************************************************)
(* Offsets are committed for ticks that a pool or a buffer still holds.    *)
(* What that can cost: a tick before the group's offset is finished, or    *)
(* still in a live process, or was in one that died.  No shutdown loses    *)
(* any.                                                                    *)
(***************************************************************************)
LossNeedsACrash ==
  \A p \in Partition : \A m \in UpTo(p, committed[p]) :
    ContentOf(m) = "tick" =>
      \/ m \in settled
      \/ \E i \in Instance : m \in memory[i] \cup hand[i]

(***************************************************************************)
(* "the same ticker symbol always maps to the same partition -- this       *)
(* preserves message order per stock symbol" (kafka_producer.cpp): when a  *)
(* message reaches a poll loop, those of its symbol published before have  *)
(* been there, unless an attempt to send one failed.                       *)
(***************************************************************************)
ReceivedInOrder ==
  \A n \in ReceivedIds : \A k \in 1 .. n - 1 :
    accepted[k].key = accepted[n].key =>
      k \in ReceivedIds \cup retried \cup failed

\* A message on which the callback throws stands before its partition.
Poisoned ==
  \E p \in Partition : \E o \in committed[p] + 1 .. Len(log[p]) :
    log[p][o].content = "poison"

(***************************************************************************)
(* Every message that publish() accepted reaches a poll loop, or its       *)
(* delivery failed, or the final flush timed out: unless a message on      *)
(* which the callback throws brings the processes down again and again.    *)
(***************************************************************************)
EveryTickArrives ==
  \/ <>[]Poisoned
  \/ \A n \in UNION {DOMAIN s : s \in Traffic} :
       n \in DOMAIN accepted ~> n \in ReceivedIds \cup failed
=============================================================================
