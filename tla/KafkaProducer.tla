---------------------------- MODULE KafkaProducer ----------------------------
(***************************************************************************)
(* The producer (src/ingestion/kafka_producer.{hpp,cpp}): publish() puts a *)
(* message into the queue of librdkafka, whose own thread sends it to the  *)
(* partition of its key and reports the outcome; a report keeps its place  *)
(* in the queue until poll() has served it.  Sending, retrying and giving  *)
(* up are the library's (external).  Message n is the n-th one accepted.   *)
(***************************************************************************)
EXTENDS Integers, Sequences, FiniteSets, SequencesExt

CONSTANTS Publisher,    \* threads that call publish()
          Key,          \* the ticker symbols
          Content,      \* what a consumer will make of a payload
          Traffic,      \* bound: the sequences of messages published
          Partition,
          PartitionOf,  \* the consistent hash of the keys
          QueueLimit,   \* places in the library's queue; 100000
          MaxFailures   \* bound on the messages that are retried or given up

VARIABLES
  accepted,   \* the messages publish() has accepted
  polling,    \* the publishers between produce() and poll(0)
  sending,    \* the messages not yet acknowledged or given up, in order
  reports,    \* how many delivery reports poll() has not served
  retried,    \* the messages of which an attempt failed
  failed,     \* the messages the library gave up, of which dr_cb() hears,
              \* or that were in the queue when the final flush timed out
  producer,   \* "open", "flushing" or "gone"
  log         \* the messages in each partition, in offset order

producerVars == <<accepted, polling, sending, reports, retried, failed,
                  producer>>
vars == <<producerVars, log>>

Init ==
  /\ accepted = <<>> /\ polling = {} /\ sending = <<>> /\ reports = 0
  /\ retried = {} /\ failed = {} /\ producer = "open"
  /\ log = [p \in Partition |-> <<>>]

\* Mutation: a message without a key goes to any partition.
PartitionFor_Unkeyed(n) == Partition
\* The partitions message n may be sent to.
PartitionFor(n) == {PartitionOf[accepted[n].key]}

-----------------------------------------------------------------------------
(* publish(), the destructor.                                              *)

QueueFull == Len(sending) + reports >= QueueLimit

\* produce() takes the message.  When the queue is full publish() returns
\* false at once: nothing changes, and poll() is not called.
Produce(t, message) ==
  /\ producer = "open" /\ t \notin polling
  /\ ~QueueFull /\ \E s \in Traffic : IsPrefix(Append(accepted, message), s)
  /\ accepted' = Append(accepted, message)
  /\ sending' = Append(sending, Len(accepted) + 1)
  /\ polling' = polling \cup {t}
  /\ UNCHANGED <<reports, retried, failed, producer, log>>

\* poll(0) serves the reports that are there.
Poll(t) ==
  /\ t \in polling
  /\ polling' = polling \ {t} /\ reports' = 0
  /\ UNCHANGED <<accepted, sending, retried, failed, producer, log>>

\* The destructor starts its flush(10000) when nobody publishes any more.
Destroy ==
  /\ producer = "open" /\ polling = {}
  /\ producer' = "flushing"
  /\ UNCHANGED <<accepted, polling, sending, reports, retried, failed, log>>

\* Mutation: the destructor does not wait for the queue to empty.
FlushEnds_AtOnce == sending' = <<>> /\ UNCHANGED failed
\* The flush ends when the queue is empty, or after ten seconds.
FlushEnds ==
  \/ sending = <<>> /\ UNCHANGED <<sending, failed>>
  \/ sending' = <<>> /\ failed' = failed \cup ToSet(sending)

Flush ==
  /\ producer = "flushing"
  /\ FlushEnds
  /\ producer' = "gone" /\ reports' = 0
  /\ UNCHANGED <<accepted, polling, retried, log>>

-----------------------------------------------------------------------------
(* The library's thread.                                                   *)

\* Places in the queue from which a message may be sent: those before it,
\* if any, have failed an attempt and wait to be sent again.
Sendable == {i \in 1 .. Len(sending) : \A j \in 1 .. i - 1 : sending[j] \in retried}

Store(n) ==
  \E p \in PartitionFor(n) :
    log' = [log EXCEPT ![p] = Append(@, [id |-> n, content |-> accepted[n].content])]

\* The bound on what goes wrong with message n.
MayFail(n) == Cardinality((retried \cup failed) \ {n}) < MaxFailures

Deliver ==
  /\ \E i \in Sendable : Store(sending[i]) /\ sending' = RemoveAt(sending, i)
  /\ reports' = reports + 1
  /\ UNCHANGED <<accepted, polling, retried, failed, producer>>

\* An attempt fails, before or after the broker stored the message.
AttemptFails ==
  /\ \E i \in Sendable :
       /\ MayFail(sending[i]) /\ sending[i] \notin retried
       /\ Store(sending[i]) \/ UNCHANGED log
       /\ retried' = retried \cup {sending[i]}
  /\ UNCHANGED <<accepted, polling, sending, reports, failed, producer>>

\* The library gives up a message it could not send in time.
GiveUp ==
  /\ \E i \in 1 .. Len(sending) :
       /\ MayFail(sending[i])
       /\ failed' = failed \cup {sending[i]} /\ sending' = RemoveAt(sending, i)
  /\ reports' = reports + 1
  /\ UNCHANGED <<accepted, polling, retried, producer, log>>

-----------------------------------------------------------------------------
PublisherStep == \E t \in Publisher : Poll(t)

Next == \/ \E t \in Publisher, message \in [key : Key, content : Content] :
             Produce(t, message)
        \/ PublisherStep \/ Destroy \/ Flush
        \/ Deliver \/ AttemptFails \/ GiveUp

Spec == Init /\ [][Next]_vars

\* A publisher that has to poll does, and the broker takes what it is sent;
\* nobody is obliged to publish or to destroy the producer.
Fairness == WF_vars(PublisherStep) /\ WF_vars(Deliver) /\ WF_vars(Flush)
FairSpec == Spec /\ Fairness

-----------------------------------------------------------------------------
TypeOK ==
  /\ accepted \in Seq([key : Key, content : Content])
  /\ polling \subseteq Publisher /\ reports \in 0 .. QueueLimit
  /\ Len(sending) + reports =< QueueLimit
  /\ sending \in Seq(1 .. Len(accepted))
  /\ retried \cup failed \subseteq 1 .. Len(accepted)
  /\ producer \in {"open", "flushing", "gone"}
  /\ log \in [Partition -> Seq([id : 1 .. Len(accepted), content : Content])]

(***************************************************************************)
(* "Poll to trigger delivery callbacks and keep the internal queue         *)
(* healthy" (kafka_producer.cpp; the header says of poll(), which nothing  *)
(* calls, "keep the internal queue from filling"): while the broker takes  *)
(* messages, a full queue has room again.                                  *)
(***************************************************************************)
QueueMakesRoom == QueueFull ~> ~QueueFull
=============================================================================
