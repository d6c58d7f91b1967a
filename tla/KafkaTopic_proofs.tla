-------------------------- MODULE KafkaTopic_proofs --------------------------
(***************************************************************************)
(* For any number of processes, partitions, keys and messages, and for any *)
(* number of crashes, expulsions, rebalances and failed attempts: nothing  *)
(* is skipped, a committed tick is lost to a dead process only, a replay   *)
(* needs a fault, and a symbol's messages are received in order.           *)
(***************************************************************************)
EXTENDS KafkaTopic, SequenceTheorems, TLAPS

Message == [key : Key, content : Content]
Stored == [id : 1 .. Len(accepted), content : Content]

IdsIn(p) == {log[p][o].id : o \in 1 .. Len(log[p])}
PartitionOfId(n) == PartitionOf[accepted[n].key]

ProducerType ==
  /\ accepted \in Seq(Message) /\ polling \subseteq Publisher
  /\ reports \in Nat /\ Len(sending) + reports =< QueueLimit
  /\ sending \in Seq(1 .. Len(accepted))
  /\ retried \subseteq 1 .. Len(accepted) /\ failed \subseteq 1 .. Len(accepted)
  /\ producer \in {"open", "flushing", "gone"}
  /\ log \in [Partition -> Seq(Stored)]

\* The queue is in the order of publish(); a message that is not in it was
\* stored in the partition of its key or given up.
QueueInv ==
  /\ \A i, j \in 1 .. Len(sending) : i < j => sending[i] < sending[j]
  /\ \A n \in 1 .. Len(accepted) :
       \/ \E i \in 1 .. Len(sending) : sending[i] = n
       \/ n \in failed
       \/ n \in IdsIn(PartitionOfId(n))

\* A message stored in a partition has its key, and whatever was published
\* before it with that key stands before it, or an attempt to send that failed.
LogInv ==
  \A p \in Partition : \A o \in 1 .. Len(log[p]) :
    /\ PartitionOfId(log[p][o].id) = p
    /\ \A k \in 1 .. log[p][o].id - 1 :
         accepted[k].key = accepted[log[p][o].id].key =>
           \/ k \in retried \cup failed
           \/ \E q \in 1 .. o - 1 : log[p][q].id = k

ConsumerType ==
  /\ committed \in [Partition -> Nat]
  /\ owner \in [Partition -> Instance \cup {Nobody}]
  /\ place \in [Instance -> {"down", "poll", "handle", "stopped"}]
  /\ assigned \in [Instance -> SUBSET Partition]
  /\ position \in [Instance -> [Partition -> Nat]]
  /\ hand \in [Instance -> SUBSET received]
  /\ memory \in [Instance -> SUBSET received]
  /\ exposed \subseteq received /\ settled \subseteq received
  /\ received \subseteq Partition \X Nat

\* What was received of a partition is a prefix of it, which covers every
\* offset that is committed and every position of a member.
SeenInv ==
  /\ \A p \in Partition, o \in Nat : <<p, o>> \in received =>
       o \in 1 .. Len(log[p]) /\ \A n \in 1 .. o : <<p, n>> \in received
  /\ \A p \in Partition : \A n \in 1 .. committed[p] : <<p, n>> \in received
  /\ \A i \in Instance : \A p \in assigned[i] :
       \A n \in 1 .. position[i][p] : <<p, n>> \in received

HandInv ==
  \A i \in Instance : /\ hand[i] # {} => place[i] = "handle"
                      /\ \A m, n \in hand[i] : m = n

\* A tick that was received is settled or in a process.
KeptInv ==
  \A m \in received : ContentOf(m) = "tick" =>
    m \in settled \/ \E i \in Instance : m \in memory[i] \cup hand[i]

\* Received messages that may be returned again are exposed: those after the
\* position of the owner, those after the offset when no member fetches.
ReplayInv ==
  \A p \in Partition, o \in Nat : <<p, o>> \in received =>
    /\ \A i \in Instance : p \in Owned(i) /\ o > position[i][p] => <<p, o>> \in exposed
    /\ (\A i \in Instance : p \notin Owned(i)) /\ o > committed[p] => <<p, o>> \in exposed

Inv == /\ ProducerType /\ QueueInv /\ LogInv
       /\ ConsumerType /\ SeenInv /\ HandInv /\ KeptInv /\ ReplayInv

-----------------------------------------------------------------------------
\* Sequences.

LEMMA Appended ==
  ASSUME NEW S, NEW s \in Seq(S), NEW e \in S
  PROVE  /\ Append(s, e) \in Seq(S)
         /\ Len(s) \in Nat /\ Len(Append(s, e)) = Len(s) + 1
         /\ Append(s, e)[Len(s) + 1] = e
         /\ \A i \in 1 .. Len(s) : Append(s, e)[i] = s[i]
OBVIOUS

LEMMA Widened ==
  ASSUME NEW S, NEW T, S \subseteq T, NEW s \in Seq(S)
  PROVE  s \in Seq(T)
OBVIOUS

LEMMA Removed ==
  ASSUME NEW S, NEW s \in Seq(S), NEW i \in 1 .. Len(s)
  PROVE  /\ Producer!RemoveAt(s, i) \in Seq(S)
         /\ Len(s) \in Nat /\ Len(Producer!RemoveAt(s, i)) = Len(s) - 1
         /\ \A j \in 1 .. Len(s) - 1 :
              Producer!RemoveAt(s, i)[j] = IF j < i THEN s[j] ELSE s[j + 1]
<1> DEFINE before == SubSeq(s, 1, i - 1)
           after == SubSeq(s, i + 1, Len(s))
<1>1. Len(s) \in Nat /\ i \in Nat /\ 1 =< i /\ i =< Len(s)
  OBVIOUS
<1>2. /\ before \in Seq(S) /\ Len(before) = i - 1
      /\ \A j \in 1 .. i - 1 : before[j] = s[j]
  BY <1>1
<1>3. /\ after \in Seq(S) /\ Len(after) = Len(s) - i
      /\ \A j \in 1 .. Len(s) - i : after[j] = s[j + i]
  BY <1>1
<1>4. Producer!RemoveAt(s, i) = before \o after
  BY DEF Producer!RemoveAt
<1> HIDE DEF before, after
<1>5. /\ before \o after \in Seq(S) /\ Len(before \o after) = Len(s) - 1
      /\ \A j \in 1 .. Len(s) - 1 :
           (before \o after)[j] = IF j < i THEN before[j] ELSE after[j - (i - 1)]
  <2>1. /\ before \o after \in Seq(S) /\ Len(before \o after) = Len(before) + Len(after)
        /\ \A j \in 1 .. Len(before) + Len(after) :
             (before \o after)[j] = IF j =< Len(before) THEN before[j]
                                     ELSE after[j - Len(before)]
    BY <1>2, <1>3, ConcatProperties
  <2>. QED BY <1>1, <1>2, <1>3, <2>1, SMTT(30)
<1>6. \A j \in 1 .. Len(s) - 1 : j >= i => after[j - (i - 1)] = s[j + 1]
  <2> TAKE j \in 1 .. Len(s) - 1
  <2> HAVE j >= i
  <2>1. j - (i - 1) \in 1 .. Len(s) - i /\ (j - (i - 1)) + i = j + 1
    BY <1>1
  <2>. QED BY <2>1, <1>3
<1>7. \A j \in 1 .. Len(s) - 1 : j < i => before[j] = s[j]
  BY <1>1, <1>2
<1>8. \A j \in 1 .. Len(s) - 1 :
        (before \o after)[j] = IF j < i THEN s[j] ELSE s[j + 1]
  BY <1>1, <1>5, <1>6, <1>7
<1>. QED BY <1>1, <1>4, <1>5, <1>8

\* Whatever is in s but its i-th element is still there when that is removed.
LEMMA RemovedElements ==
  ASSUME NEW S, NEW s \in Seq(S), NEW i \in 1 .. Len(s), NEW j \in 1 .. Len(s), j # i
  PROVE  \E k \in 1 .. Len(Producer!RemoveAt(s, i)) : Producer!RemoveAt(s, i)[k] = s[j]
<1>1. CASE j < i
  <2>0. j \in 1 .. Len(s) - 1
    BY <1>1
  <2>1. j \in 1 .. Len(Producer!RemoveAt(s, i)) /\ Producer!RemoveAt(s, i)[j] = s[j]
    BY <1>1, <2>0, Removed
  <2>. QED BY <2>1
<1>2. CASE j > i
  <2>0. /\ j - 1 \in 1 .. Len(s) - 1 /\ ~(j - 1 < i) /\ (j - 1) + 1 = j
    BY <1>2
  <2> DEFINE k == j - 1
  <2>1. k \in 1 .. Len(s) - 1 /\ ~(k < i) /\ k + 1 = j
    BY <2>0
  <2> HIDE DEF k
  <2>2. k \in 1 .. Len(Producer!RemoveAt(s, i)) /\ Producer!RemoveAt(s, i)[k] = s[j]
    BY <2>1, Removed
  <2>. QED BY <2>2
<1>3. j < i \/ j > i
  BY ONLY j # i, i \in 1 .. Len(s), j \in 1 .. Len(s)
<1>. QED BY <1>1, <1>2, <1>3

-----------------------------------------------------------------------------
\* The producer and its library.

LEMMA ProducerFacts ==
  ASSUME Inv
  PROVE  /\ Len(accepted) \in Nat /\ Len(sending) \in Nat
         /\ \A n \in 1 .. Len(accepted) :
              /\ accepted[n].key \in Key /\ accepted[n].content \in Content
              /\ PartitionOfId(n) \in Partition
         /\ \A i \in 1 .. Len(sending) : sending[i] \in 1 .. Len(accepted)
         /\ \A p \in Partition : \A o \in 1 .. Len(log[p]) : log[p][o].id \in 1 .. Len(accepted)
         /\ \A p \in Partition : log[p] \in Seq(Stored) /\ Len(log[p]) \in Nat
<1>1. ProducerType
  BY DEF Inv
<1>2. Len(accepted) \in Nat /\ Len(sending) \in Nat
  BY <1>1 DEF ProducerType
<1>3. ASSUME NEW n \in 1 .. Len(accepted)
      PROVE  /\ accepted[n].key \in Key /\ accepted[n].content \in Content
             /\ PartitionOfId(n) \in Partition
  <2>1. accepted[n] \in Message
    BY <1>1, ElementOfSeq DEF ProducerType
  <2>2. accepted[n].key \in Key /\ accepted[n].content \in Content
    BY <2>1 DEF Message
  <2>. QED BY <2>2, PartitionAssumption DEF PartitionOfId
<1>4. \A i \in 1 .. Len(sending) : sending[i] \in 1 .. Len(accepted)
  BY <1>1, ElementOfSeq DEF ProducerType
<1>5. ASSUME NEW p \in Partition PROVE log[p] \in Seq(Stored) /\ Len(log[p]) \in Nat
  BY <1>1 DEF ProducerType
<1>6. ASSUME NEW p \in Partition, NEW o \in 1 .. Len(log[p])
      PROVE  log[p][o].id \in 1 .. Len(accepted)
  <2>1. log[p][o] \in Stored
    BY <1>5, ElementOfSeq
  <2>. QED BY <2>1 DEF Stored
<1>. QED BY <1>2, <1>3, <1>4, <1>5, <1>6

\* What the broker stores goes behind what is there.
LEMMA StoreEffect ==
  ASSUME Inv, NEW n \in 1 .. Len(accepted), Producer!Store(n)
  PROVE  LET p == PartitionOfId(n) IN
         /\ p \in Partition /\ log' \in [Partition -> Seq(Stored)]
         /\ Len(log'[p]) = Len(log[p]) + 1 /\ log'[p][Len(log[p]) + 1].id = n
         /\ \A q \in Partition : q # p => log'[q] = log[q]
         /\ \A q \in Partition : \A o \in 1 .. Len(log[q]) :
              o \in 1 .. Len(log'[q]) /\ log'[q][o] = log[q][o]
<1> DEFINE p == PartitionOfId(n)
           e == [id |-> n, content |-> accepted[n].content]
<1>1. log \in [Partition -> Seq(Stored)] /\ p \in Partition /\ accepted[n].content \in Content
  BY ProducerFacts DEF Inv, ProducerType
<1>2. log' = [log EXCEPT ![p] = Append(log[p], e)]
  BY DEF Producer!Store, Producer!PartitionFor, PartitionOfId
<1>3. e \in Stored /\ e.id = n
  BY <1>1 DEF Stored
<1>4. log[p] \in Seq(Stored) /\ \A q \in Partition : Len(log[q]) \in Nat
  BY <1>1
<1> HIDE DEF e
<1>5. /\ Append(log[p], e) \in Seq(Stored)
      /\ Len(Append(log[p], e)) = Len(log[p]) + 1
      /\ Append(log[p], e)[Len(log[p]) + 1] = e
      /\ \A o \in 1 .. Len(log[p]) : Append(log[p], e)[o] = log[p][o]
  <2> DEFINE s == log[p]
  <2>1. s \in Seq(Stored)
    BY <1>4
  <2> HIDE DEF s
  <2>2. /\ Append(s, e) \in Seq(Stored) /\ Len(Append(s, e)) = Len(s) + 1
        /\ Append(s, e)[Len(s) + 1] = e
        /\ \A o \in 1 .. Len(s) : Append(s, e)[o] = s[o]
    BY <2>1, <1>3, Appended
  <2>. QED BY <2>2 DEF s
<1> HIDE DEF p
<1>6. log'[p] = Append(log[p], e) /\ \A q \in Partition : q # p => log'[q] = log[q]
  BY <1>1, <1>2
<1>7. log' \in [Partition -> Seq(Stored)]
  BY <1>1, <1>2, <1>5
<1>8. ASSUME NEW q \in Partition, NEW o \in 1 .. Len(log[q])
      PROVE  o \in 1 .. Len(log'[q]) /\ log'[q][o] = log[q][o]
  <2>1. CASE q = p
    BY <2>1, <1>4, <1>5, <1>6
  <2>2. CASE q # p
    BY <2>2, <1>6
  <2>. QED BY <2>1, <2>2
<1>9. Len(log'[p]) = Len(log[p]) + 1 /\ log'[p][Len(log[p]) + 1].id = n
  BY <1>3, <1>5, <1>6
<1>. QED BY <1>1, <1>6, <1>7, <1>8, <1>9 DEF p

LEMMA ProduceEffect ==
  ASSUME Inv, NEW t \in Publisher, NEW message \in Message, Producer!Produce(t, message)
  PROVE  /\ accepted' \in Seq(Message) /\ Len(accepted') = Len(accepted) + 1
         /\ \A n \in 1 .. Len(accepted) : accepted'[n] = accepted[n]
         /\ sending' \in Seq(1 .. Len(accepted')) /\ Len(sending') = Len(sending) + 1
         /\ sending'[Len(sending) + 1] = Len(accepted) + 1
         /\ \A i \in 1 .. Len(sending) : sending'[i] = sending[i]
         /\ polling' = polling \cup {t} /\ Len(sending) + reports < QueueLimit
         /\ UNCHANGED <<reports, retried, failed, producer, log>>
<1>1. /\ accepted' = Append(accepted, message) /\ sending' = Append(sending, Len(accepted) + 1)
      /\ polling' = polling \cup {t} /\ ~Producer!QueueFull
      /\ UNCHANGED <<reports, retried, failed, producer, log>>
  BY DEF Producer!Produce
<1>2. /\ accepted \in Seq(Message) /\ sending \in Seq(1 .. Len(accepted)) /\ Len(accepted) \in Nat
      /\ Len(sending) \in Nat /\ reports \in Nat
  BY DEF Inv, ProducerType
<1>3. /\ accepted' \in Seq(Message) /\ Len(accepted') = Len(accepted) + 1
      /\ \A n \in 1 .. Len(accepted) : accepted'[n] = accepted[n]
  BY <1>1, <1>2, Appended
<1>4. /\ sending \in Seq(1 .. Len(accepted) + 1) /\ Len(accepted) + 1 \in 1 .. Len(accepted) + 1
  BY <1>2, Widened
<1>5. /\ sending' \in Seq(1 .. Len(accepted) + 1) /\ Len(sending') = Len(sending) + 1
      /\ sending'[Len(sending) + 1] = Len(accepted) + 1
      /\ \A i \in 1 .. Len(sending) : sending'[i] = sending[i]
  BY <1>1, <1>4, Appended
<1>6. Len(sending) + reports < QueueLimit
  BY <1>1, <1>2, LimitAssumption DEF Producer!QueueFull
<1>. QED BY <1>1, <1>3, <1>5, <1>6

LEMMA RemovalEffect ==
  ASSUME Inv, NEW i \in 1 .. Len(sending), sending' = Producer!RemoveAt(sending, i)
  PROVE  /\ sending' \in Seq(1 .. Len(accepted)) /\ Len(sending') = Len(sending) - 1
         /\ \A a, b \in 1 .. Len(sending') : a < b => sending'[a] < sending'[b]
         /\ \A b \in 1 .. Len(sending) :
              b # i => \E a \in 1 .. Len(sending') : sending'[a] = sending[b]
<1>1. /\ sending \in Seq(1 .. Len(accepted)) /\ Len(sending) \in Nat
      /\ \A a, b \in 1 .. Len(sending) : a < b => sending[a] < sending[b]
  BY DEF Inv, ProducerType, QueueInv
<1>2. /\ sending' \in Seq(1 .. Len(accepted)) /\ Len(sending') = Len(sending) - 1
      /\ \A j \in 1 .. Len(sending) - 1 :
           sending'[j] = IF j < i THEN sending[j] ELSE sending[j + 1]
  <2> DEFINE r == Producer!RemoveAt(sending, i)
             S == 1 .. Len(accepted)
  <2>1. sending \in Seq(S)
    BY <1>1
  <2> HIDE DEF S
  <2>2. /\ r \in Seq(S) /\ Len(r) = Len(sending) - 1
        /\ \A j \in 1 .. Len(sending) - 1 : r[j] = IF j < i THEN sending[j] ELSE sending[j + 1]
    BY <2>1, Removed
  <2>. QED BY <2>2 DEF S
<1>3. ASSUME NEW a \in 1 .. Len(sending'), NEW b \in 1 .. Len(sending'), a < b
      PROVE  sending'[a] < sending'[b]
  <2>1. /\ a \in 1 .. Len(sending) /\ a + 1 \in 1 .. Len(sending)
        /\ b \in 1 .. Len(sending) /\ b + 1 \in 1 .. Len(sending)
        /\ a \in 1 .. Len(sending) - 1 /\ b \in 1 .. Len(sending) - 1
    BY <1>1, <1>2, SMTT(30)
  <2>2. CASE b < i
    BY <1>1, <1>2, <1>3, <2>1, <2>2
  <2>3. CASE a < i /\ ~(b < i)
    <3>1. sending'[a] = sending[a] /\ sending'[b] = sending[b + 1] /\ a < b + 1
      BY <1>2, <1>3, <2>1, <2>3, SMTT(30)
    <3>. QED BY <1>1, <2>1, <3>1
  <2>4. CASE ~(a < i)
    <3>1. sending'[a] = sending[a + 1] /\ sending'[b] = sending[b + 1] /\ a + 1 < b + 1
      BY <1>2, <1>3, <2>1, <2>4, SMTT(30)
    <3>. QED BY <1>1, <2>1, <3>1
  <2>. QED BY <2>2, <2>3, <2>4, <1>3
<1>4. \A b \in 1 .. Len(sending) :
        b # i => \E a \in 1 .. Len(sending') : sending'[a] = sending[b]
  BY <1>1, RemovedElements
<1>. QED BY <1>2, <1>3, <1>4

\* The messages of the library's thread, by what becomes of them.
LEMMA ProducerCases ==
  ASSUME Inv, Producer!Next
  PROVE  \/ \E t \in Publisher, message \in Message : Producer!Produce(t, message)
         \/ Producer!PublisherStep \/ Producer!Destroy \/ Producer!Flush
         \/ Producer!Deliver \/ Producer!AttemptFails \/ Producer!GiveUp
BY DEF Producer!Next, Message

LEMMA SendableFacts ==
  ASSUME Inv, NEW i \in Producer!Sendable
  PROVE  /\ i \in 1 .. Len(sending) /\ sending[i] \in 1 .. Len(accepted)
         /\ \A j \in 1 .. Len(sending) : sending[j] < sending[i] => sending[j] \in retried
<1>1. i \in 1 .. Len(sending) /\ \A j \in 1 .. i - 1 : sending[j] \in retried
  BY DEF Producer!Sendable
<1>2. \A j, k \in 1 .. Len(sending) : j < k => sending[j] < sending[k]
  BY DEF Inv, QueueInv
<1>3. /\ Len(sending) \in Nat
      /\ \A j \in 1 .. Len(sending) : sending[j] \in 1 .. Len(accepted)
  BY ProducerFacts
<1>4. \A j \in 1 .. Len(sending) : sending[j] < sending[i] => j \in 1 .. i - 1
  <2> TAKE j \in 1 .. Len(sending)
  <2> HAVE sending[j] < sending[i]
  <2>1. ~(i < j) /\ i # j
    BY <1>1, <1>2, <1>3
  <2>. QED BY <1>1, <1>3, <2>1
<1>. QED BY <1>1, <1>3, <1>4

LEMMA ProducerTypeStep == ASSUME Inv, Producer!Next PROVE ProducerType'
<1>0. ProducerType /\ QueueLimit \in Nat /\ Len(accepted) \in Nat /\ Len(sending) \in Nat
  BY LimitAssumption, ProducerFacts DEF Inv
<1>1. ASSUME NEW t \in Publisher, NEW message \in Message, Producer!Produce(t, message)
      PROVE  ProducerType'
  <2>1. 1 .. Len(accepted) \subseteq 1 .. Len(accepted')
    BY <1>0, <1>1, ProduceEffect
  <2>2. Stored \subseteq Stored'
    BY <2>1 DEF Stored
  <2>3. \A p \in Partition : log[p] \in Seq(Stored')
    BY <1>0, <2>2, Widened DEF ProducerType
  <2>4. log' \in [Partition -> Seq(Stored')]
    BY <1>0, <1>1, <2>3, ProduceEffect DEF ProducerType
  <2>5. /\ accepted' \in Seq(Message) /\ polling' \subseteq Publisher
        /\ sending' \in Seq(1 .. Len(accepted'))
        /\ UNCHANGED <<reports, retried, failed, producer>>
        /\ Len(sending') + reports' =< QueueLimit
    BY <1>0, <1>1, ProduceEffect DEF ProducerType
  <2>. QED BY <1>0, <2>1, <2>4, <2>5 DEF ProducerType
<1>2. CASE Producer!PublisherStep
  <2>1. /\ UNCHANGED <<accepted, sending, retried, failed, producer, log>> /\ reports' = 0
        /\ polling' \subseteq polling
    BY <1>2 DEF Producer!PublisherStep, Producer!Poll
  <2>2. reports' \in Nat /\ Len(sending') + reports' =< QueueLimit
    BY <1>0, <2>1 DEF ProducerType
  <2>3. Stored' = Stored
    BY <2>1 DEF Stored
  <2>. QED BY <1>0, <2>1, <2>2, <2>3 DEF ProducerType
<1>3. CASE Producer!Destroy
  BY <1>0, <1>3 DEF Producer!Destroy, ProducerType, Stored
<1>4. CASE Producer!Flush
  <2>1. /\ UNCHANGED <<accepted, polling, retried, log>> /\ reports' = 0 /\ producer' = "gone"
        /\ sending' = <<>>
        /\ failed' = failed \/ failed' = failed \cup Producer!ToSet(sending)
    BY <1>4 DEF Producer!Flush, Producer!FlushEnds
  <2>2. Producer!ToSet(sending) \subseteq 1 .. Len(accepted)
    BY <1>0 DEF Producer!ToSet, ProducerType
  <2>3. /\ Len(sending') = 0 /\ sending' \in Seq(1 .. Len(accepted'))
        /\ Len(sending') + reports' =< QueueLimit /\ reports' \in Nat
    BY <1>0, <2>1
  <2>4. Stored' = Stored
    BY <2>1 DEF Stored
  <2>5. failed' \subseteq 1 .. Len(accepted')
    BY <1>0, <2>1, <2>2 DEF ProducerType
  <2>. QED BY <1>0, <2>1, <2>3, <2>4, <2>5 DEF ProducerType
<1>5. CASE Producer!Deliver
  <2>1. /\ UNCHANGED <<accepted, polling, retried, failed, producer>> /\ reports' = reports + 1
    BY <1>5 DEF Producer!Deliver
  <2>2. PICK i \in Producer!Sendable :
          Producer!Store(sending[i]) /\ sending' = Producer!RemoveAt(sending, i)
    BY <1>5 DEF Producer!Deliver
  <2>3. /\ sending' \in Seq(1 .. Len(accepted)) /\ Len(sending') = Len(sending) - 1
        /\ log' \in [Partition -> Seq(Stored)]
    BY <2>2, SendableFacts, RemovalEffect, StoreEffect
  <2>4. reports' \in Nat /\ Len(sending') + reports' =< QueueLimit
    BY <1>0, <2>1, <2>3 DEF ProducerType
  <2>5. Stored' = Stored
    BY <2>1 DEF Stored
  <2>. QED BY <1>0, <2>1, <2>3, <2>4, <2>5 DEF ProducerType
<1>6. CASE Producer!AttemptFails
  <2>1. UNCHANGED <<accepted, polling, sending, reports, failed, producer>>
    BY <1>6 DEF Producer!AttemptFails
  <2>2. PICK i \in Producer!Sendable :
          /\ Producer!Store(sending[i]) \/ UNCHANGED log
          /\ retried' = retried \cup {sending[i]}
    BY <1>6 DEF Producer!AttemptFails
  <2>3. log' \in [Partition -> Seq(Stored)] /\ sending[i] \in 1 .. Len(accepted)
    BY <1>0, <2>2, SendableFacts, StoreEffect DEF ProducerType
  <2>. QED BY <1>0, <2>1, <2>2, <2>3 DEF ProducerType, Stored
<1>7. CASE Producer!GiveUp
  <2>1. /\ UNCHANGED <<accepted, polling, retried, producer, log>> /\ reports' = reports + 1
    BY <1>7 DEF Producer!GiveUp
  <2>2. PICK i \in 1 .. Len(sending) :
          failed' = failed \cup {sending[i]} /\ sending' = Producer!RemoveAt(sending, i)
    BY <1>7 DEF Producer!GiveUp
  <2>3. /\ sending' \in Seq(1 .. Len(accepted)) /\ Len(sending') = Len(sending) - 1
        /\ sending[i] \in 1 .. Len(accepted)
    BY <2>2, RemovalEffect, ProducerFacts
  <2>4. reports' \in Nat /\ Len(sending') + reports' =< QueueLimit
    BY <1>0, <2>1, <2>3 DEF ProducerType
  <2>5. Stored' = Stored
    BY <2>1 DEF Stored
  <2>. QED BY <1>0, <2>1, <2>2, <2>3, <2>4, <2>5 DEF ProducerType
<1>. QED BY ProducerCases, <1>1, <1>2, <1>3, <1>4, <1>5, <1>6, <1>7

\* Nothing that was accepted or stored changes.
LEMMA ProducerGrows ==
  ASSUME Inv, Producer!Next
  PROVE  /\ Len(accepted') \in Nat /\ Len(accepted') >= Len(accepted)
         /\ \A n \in 1 .. Len(accepted) : accepted'[n] = accepted[n]
         /\ retried \subseteq retried' /\ failed \subseteq failed'
         /\ \A p \in Partition : \A o \in 1 .. Len(log[p]) :
              o \in 1 .. Len(log'[p]) /\ log'[p][o] = log[p][o]
<1>0. Len(accepted) \in Nat
  BY ProducerFacts
<1>1. ASSUME NEW t \in Publisher, NEW message \in Message, Producer!Produce(t, message)
      PROVE  /\ Len(accepted') = Len(accepted) + 1
             /\ \A n \in 1 .. Len(accepted) : accepted'[n] = accepted[n]
             /\ UNCHANGED <<retried, failed, log>>
  BY <1>1, ProduceEffect
<1>2. ASSUME Producer!PublisherStep \/ Producer!Destroy
      PROVE  UNCHANGED <<accepted, retried, failed, log>>
  BY <1>2 DEF Producer!PublisherStep, Producer!Poll, Producer!Destroy
<1>3. ASSUME Producer!Flush \/ Producer!GiveUp
      PROVE  UNCHANGED <<accepted, retried, log>> /\ failed \subseteq failed'
  BY <1>3 DEF Producer!Flush, Producer!FlushEnds, Producer!GiveUp
<1>4. ASSUME Producer!Deliver \/ Producer!AttemptFails
      PROVE  /\ UNCHANGED <<accepted, failed>> /\ retried \subseteq retried'
             /\ UNCHANGED log \/ \E i \in Producer!Sendable : Producer!Store(sending[i])
  BY <1>4 DEF Producer!Deliver, Producer!AttemptFails
<1>5. ASSUME NEW i \in Producer!Sendable, Producer!Store(sending[i])
      PROVE  \A p \in Partition : \A o \in 1 .. Len(log[p]) :
               o \in 1 .. Len(log'[p]) /\ log'[p][o] = log[p][o]
  BY <1>5, SendableFacts, StoreEffect
<1>6. CASE \E t \in Publisher, message \in Message : Producer!Produce(t, message)
  BY <1>0, <1>1, <1>6
<1>7. CASE Producer!PublisherStep \/ Producer!Destroy
  BY <1>0, <1>2, <1>7
<1>8. CASE Producer!Flush \/ Producer!GiveUp
  BY <1>0, <1>3, <1>8
<1>9. CASE Producer!Deliver \/ Producer!AttemptFails
  BY <1>0, <1>4, <1>5, <1>9
<1>. QED BY ProducerCases, <1>6, <1>7, <1>8, <1>9

\* Message n has left the queue.
Left(n) == n \in failed \/ n \in IdsIn(PartitionOfId(n))

LEMMA LeftStays ==
  ASSUME Inv, Producer!Next, NEW n \in 1 .. Len(accepted), Left(n)
  PROVE  Left(n)'
<1>1. PartitionOfId(n)' = PartitionOfId(n) /\ PartitionOfId(n) \in Partition
  BY ProducerGrows, ProducerFacts DEF PartitionOfId
<1>2. ASSUME NEW p \in Partition, n \in IdsIn(p) PROVE n \in IdsIn(p)'
  <2>1. PICK o \in 1 .. Len(log[p]) : log[p][o].id = n
    BY <1>2 DEF IdsIn
  <2>2. o \in 1 .. Len(log'[p]) /\ log'[p][o].id = n
    BY <2>1, ProducerGrows
  <2>. QED BY <2>2 DEF IdsIn
<1>3. failed \subseteq failed'
  BY ProducerGrows
<1>. QED BY <1>1, <1>2, <1>3 DEF Left

LEMMA QueueStep == ASSUME Inv, Producer!Next PROVE QueueInv'
<1>0. /\ \A i, j \in 1 .. Len(sending) : i < j => sending[i] < sending[j]
      /\ \A n \in 1 .. Len(accepted) :
           Left(n) \/ \E i \in 1 .. Len(sending) : sending[i] = n
      /\ Len(accepted) \in Nat /\ Len(sending) \in Nat
      /\ \A i \in 1 .. Len(sending) : sending[i] \in 1 .. Len(accepted)
  BY ProducerFacts DEF Inv, QueueInv, Left
<1> DEFINE Sorted == \A i, j \in 1 .. Len(sending) : i < j => sending[i] < sending[j]
           Known == \A n \in 1 .. Len(accepted) :
                      Left(n) \/ \E i \in 1 .. Len(sending) : sending[i] = n
<1>1. ASSUME NEW t \in Publisher, NEW message \in Message, Producer!Produce(t, message)
      PROVE  Sorted' /\ Known'
  <2>1. /\ Len(accepted') = Len(accepted) + 1 /\ Len(sending') = Len(sending) + 1
        /\ sending'[Len(sending) + 1] = Len(accepted) + 1
        /\ \A i \in 1 .. Len(sending) : sending'[i] = sending[i]
    BY <1>1, ProduceEffect
  <2>2. /\ 1 .. Len(sending) \subseteq 1 .. Len(sending')
        /\ Len(sending) + 1 \in 1 .. Len(sending')
        /\ \A i \in 1 .. Len(sending') : i \in 1 .. Len(sending) \/ i = Len(sending) + 1
        /\ \A n \in 1 .. Len(accepted') : n \in 1 .. Len(accepted) \/ n = Len(accepted) + 1
    BY <1>0, <2>1
  <2>3. Sorted'
    BY <1>0, <2>1, <2>2
  <2>4. Known'
    <3> SUFFICES ASSUME NEW n \in 1 .. Len(accepted')
                 PROVE  Left(n)' \/ \E i \in 1 .. Len(sending') : sending'[i] = n
      OBVIOUS
    <3>1. CASE n = Len(accepted) + 1
      BY <3>1, <2>1, <2>2
    <3>2. CASE n \in 1 .. Len(accepted)
      BY <3>2, <1>0, <2>1, <2>2, LeftStays
    <3>. QED BY <2>2, <3>1, <3>2
  <2>. QED BY <2>3, <2>4
<1>2. ASSUME Producer!PublisherStep \/ Producer!Destroy \/ Producer!AttemptFails
      PROVE  Sorted' /\ Known'
  <2>1. UNCHANGED <<accepted, sending>>
    BY <1>2 DEF Producer!PublisherStep, Producer!Poll, Producer!Destroy, Producer!AttemptFails
  <2>. QED BY <1>0, <2>1, LeftStays
<1>3. ASSUME Producer!Flush PROVE Sorted' /\ Known'
  <2>1. /\ accepted' = accepted /\ sending' = <<>>
        /\ sending = <<>> \/ failed' = failed \cup Producer!ToSet(sending)
    BY <1>3 DEF Producer!Flush, Producer!FlushEnds
  <2>2. \A i \in 1 .. Len(sending) : sending[i] \in failed'
    <3>1. CASE sending = <<>>
      BY <3>1
    <3>2. CASE failed' = failed \cup Producer!ToSet(sending)
      <4>1. \A i \in 1 .. Len(sending) : sending[i] \in Producer!ToSet(sending)
        BY DEF Producer!ToSet, Inv, ProducerType
      <4>. QED BY <3>2, <4>1
    <3>. QED BY <2>1, <3>1, <3>2
  <2>3. \A n \in 1 .. Len(accepted) : Left(n)'
    BY <1>0, <2>2, LeftStays DEF Left
  <2>4. Len(sending') = 0
    BY <2>1
  <2>. QED BY <2>1, <2>3, <2>4
<1>4. ASSUME NEW i \in 1 .. Len(sending), sending' = Producer!RemoveAt(sending, i),
             accepted' = accepted, NEW n \in 1 .. Len(accepted), n = sending[i], Left(n)'
      PROVE  Sorted' /\ Known'
  <2>1. Sorted'
    BY <1>4, RemovalEffect
  <2>2. \A b \in 1 .. Len(sending) :
          b # i => \E a \in 1 .. Len(sending') : sending'[a] = sending[b]
    BY <1>4, RemovalEffect
  <2>3. Known'
    BY <1>0, <1>4, <2>2, LeftStays
  <2>. QED BY <2>1, <2>3
<1>5. ASSUME Producer!Deliver PROVE Sorted' /\ Known'
  <2>1. PICK i \in Producer!Sendable :
          Producer!Store(sending[i]) /\ sending' = Producer!RemoveAt(sending, i)
    BY <1>5 DEF Producer!Deliver
  <2>2. accepted' = accepted /\ i \in 1 .. Len(sending) /\ sending[i] \in 1 .. Len(accepted)
    BY <1>5, <2>1, SendableFacts DEF Producer!Deliver
  <2>3. PICK n \in 1 .. Len(accepted) : n = sending[i]
    BY <2>2
  <2>4. PICK p \in Partition : p = PartitionOfId(n) /\ PartitionOfId(n)' = p
    BY <2>2, ProducerFacts DEF PartitionOfId
  <2>5. /\ Len(log'[p]) = Len(log[p]) + 1 /\ log'[p][Len(log[p]) + 1].id = n
        /\ Len(log[p]) \in Nat
    BY <2>1, <2>3, <2>4, StoreEffect, ProducerFacts
  <2>6. n \in IdsIn(p)'
    BY <2>5 DEF IdsIn
  <2>7. Left(n)'
    BY <2>4, <2>6 DEF Left
  <2>. QED BY <1>4, <2>1, <2>2, <2>3, <2>7
<1>6. ASSUME Producer!GiveUp PROVE Sorted' /\ Known'
  <2>1. PICK i \in 1 .. Len(sending) :
          failed' = failed \cup {sending[i]} /\ sending' = Producer!RemoveAt(sending, i)
    BY <1>6 DEF Producer!GiveUp
  <2>2. accepted' = accepted
    BY <1>6 DEF Producer!GiveUp
  <2>3. PICK n \in 1 .. Len(accepted) : n = sending[i]
    BY <1>0
  <2>4. Left(n)'
    BY <2>1, <2>3 DEF Left
  <2>. QED BY <1>4, <2>1, <2>2, <2>3, <2>4
<1> HIDE DEF Sorted, Known
<1>7. Sorted' /\ Known'
  BY ProducerCases, <1>1, <1>2, <1>3, <1>5, <1>6
<1>. QED BY <1>7 DEF QueueInv, Left, Sorted, Known

\* LogInv, message by message.
Row(p, o) ==
  /\ PartitionOfId(log[p][o].id) = p
  /\ \A k \in 1 .. log[p][o].id - 1 :
       accepted[k].key = accepted[log[p][o].id].key =>
         \/ k \in retried \cup failed
         \/ \E q \in 1 .. o - 1 : log[p][q].id = k

LEMMA RowStays ==
  ASSUME Inv, Producer!Next, NEW p \in Partition, NEW o \in 1 .. Len(log[p])
  PROVE  Row(p, o)'
<1> DEFINE n == log[p][o].id
<1>1. /\ n \in 1 .. Len(accepted) /\ Len(accepted) \in Nat /\ Len(log[p]) \in Nat
      /\ log'[p][o] = log[p][o]
  BY ProducerFacts, ProducerGrows
<1>2. PartitionOfId(n) = p /\ \A k \in 1 .. n - 1 : accepted[k].key = accepted[n].key =>
        k \in retried \cup failed \/ \E q \in 1 .. o - 1 : log[p][q].id = k
  BY DEF Inv, LogInv
<1> HIDE DEF n
<1>3. accepted'[n] = accepted[n] /\ \A k \in 1 .. n - 1 : accepted'[k] = accepted[k]
  <2>1. 1 .. n - 1 \subseteq 1 .. Len(accepted)
    BY <1>1
  <2>. QED BY <1>1, <2>1, ProducerGrows
<1>4. \A q \in 1 .. o - 1 : log'[p][q] = log[p][q]
  <2>1. 1 .. o - 1 \subseteq 1 .. Len(log[p])
    BY <1>1
  <2>. QED BY <2>1, ProducerGrows
<1>5. retried \subseteq retried' /\ failed \subseteq failed'
  BY ProducerGrows
<1>6. log'[p][o].id = n
  BY <1>1 DEF n
<1>7. PartitionOf[accepted'[n].key] = p
  BY <1>2, <1>3 DEF PartitionOfId
<1>8. ASSUME NEW k \in 1 .. n - 1, accepted'[k].key = accepted'[n].key
      PROVE  k \in retried' \cup failed' \/ \E q \in 1 .. o - 1 : log'[p][q].id = k
  BY <1>2, <1>3, <1>4, <1>5, <1>8
<1>. QED BY <1>6, <1>7, <1>8 DEF Row, PartitionOfId

LEMMA RowAdded ==
  ASSUME Inv, Producer!Next, NEW i \in Producer!Sendable, Producer!Store(sending[i]),
         NEW p \in Partition, NEW o \in 1 .. Len(log'[p]), o \notin 1 .. Len(log[p])
  PROVE  Row(p, o)'
<1> DEFINE n == sending[i]
<1>1. /\ n \in 1 .. Len(accepted) /\ Len(accepted) \in Nat /\ Len(log[p]) \in Nat
      /\ \A j \in 1 .. Len(sending) : sending[j] < n => sending[j] \in retried
  BY ProducerFacts, SendableFacts
<1> HIDE DEF n
<1>2. p = PartitionOfId(n) /\ o = Len(log[p]) + 1 /\ log'[p][o].id = n
  <2>1. /\ Len(log'[PartitionOfId(n)]) = Len(log[PartitionOfId(n)]) + 1
        /\ log'[PartitionOfId(n)][Len(log[PartitionOfId(n)]) + 1].id = n
        /\ \A q \in Partition : q # PartitionOfId(n) => log'[q] = log[q]
    BY <1>1, StoreEffect DEF n
  <2>2. p = PartitionOfId(n)
    BY <2>1
  <2>3. o = Len(log[p]) + 1
    BY <2>1, <2>2, <1>1
  <2>. QED BY <2>1, <2>2, <2>3
<1>3. accepted'[n] = accepted[n] /\ \A k \in 1 .. n - 1 : accepted'[k] = accepted[k]
  <2>1. 1 .. n - 1 \subseteq 1 .. Len(accepted)
    BY <1>1
  <2>. QED BY <1>1, <2>1, ProducerGrows
<1>4. ASSUME NEW k \in 1 .. n - 1, accepted[k].key = accepted[n].key
      PROVE  k \in retried' \cup failed' \/ \E q \in 1 .. o - 1 : log'[p][q].id = k
  <2>1. k \in 1 .. Len(accepted) /\ k < n
    BY <1>1
  <2>2. CASE k \in failed
    BY <2>2, ProducerGrows
  <2>3. ASSUME NEW j \in 1 .. Len(sending), sending[j] = k PROVE k \in retried'
    BY <1>1, <2>1, <2>3, ProducerGrows
  <2>4. CASE k \in IdsIn(PartitionOfId(k))
    <3>1. PartitionOfId(k) = p
      BY <1>2, <1>4 DEF PartitionOfId
    <3>2. PICK q \in 1 .. Len(log[p]) : log[p][q].id = k
      BY <2>4, <3>1 DEF IdsIn
    <3>3. q \in 1 .. o - 1 /\ log'[p][q].id = k
      BY <1>1, <1>2, <3>2, ProducerGrows, SMTT(30)
    <3>. QED BY <3>3
  <2>5. \/ \E j \in 1 .. Len(sending) : sending[j] = k
        \/ k \in failed \/ k \in IdsIn(PartitionOfId(k))
    BY <2>1 DEF Inv, QueueInv
  <2>. QED BY <2>2, <2>3, <2>4, <2>5
<1>5. PartitionOf[accepted'[n].key] = p
  BY <1>2, <1>3 DEF PartitionOfId
<1>6. ASSUME NEW k \in 1 .. n - 1, accepted'[k].key = accepted'[n].key
      PROVE  k \in retried' \cup failed' \/ \E q \in 1 .. o - 1 : log'[p][q].id = k
  BY <1>3, <1>4, <1>6
<1>. QED BY <1>2, <1>5, <1>6 DEF Row, PartitionOfId

LEMMA LogStep == ASSUME Inv, Producer!Next PROVE LogInv'
<1>1. log' = log \/ \E i \in Producer!Sendable : Producer!Store(sending[i])
  BY ProducerCases, ProduceEffect
     DEF Producer!PublisherStep, Producer!Poll, Producer!Destroy, Producer!Flush,
         Producer!Deliver, Producer!AttemptFails, Producer!GiveUp
<1>2. ASSUME NEW p \in Partition, NEW o \in 1 .. Len(log'[p]) PROVE Row(p, o)'
  <2>1. CASE o \in 1 .. Len(log[p])
    BY <2>1, RowStays
  <2>2. CASE o \notin 1 .. Len(log[p])
    BY <1>1, <2>2, RowAdded
  <2>. QED BY <2>1, <2>2
<1>. QED BY <1>2 DEF LogInv, Row

-----------------------------------------------------------------------------
\* The consumers.

LEMMA StepCases ==
  ASSUME [Next]_topic
  PROVE  \/ Producer!Next /\ UNCHANGED consumerVars
         \/ ConsumerNext /\ UNCHANGED producerVars
         \/ UNCHANGED <<consumerVars, producerVars, log>>
BY DEF Next, topic, vars

LEMMA ConsumerCases ==
  ASSUME ConsumerNext
  PROVE  \/ \E i \in Instance :
              \/ Start(i) \/ Revoke(i) \/ \E parts \in SUBSET Unowned : Assign(i, parts)
              \/ \E p \in Partition : Consume(i, p)
              \/ HandleMessage(i) \/ Close(i) \/ Finish(i)
              \/ Evict(i) \/ AutoCommit(i) \/ Stop(i) \/ Die(i)
         \/ \E p \in Partition : SessionTimesOut(p)
BY DEF ConsumerNext, GroupStep, LoopStep, CallbackThrows, Crash

LEMMA LogKept ==
  ASSUME ConsumerNext
  PROVE  UNCHANGED log
BY ConsumerCases DEF Start, Revoke, Assign, Consume, HandleMessage, Close, Finish, Evict,
                     AutoCommit, Stop, Die, SessionTimesOut

\* What is received was in the log, and stays what it is.
LEMMA ReceivedFacts ==
  ASSUME Inv, NEW m \in received
  PROVE  m = <<m[1], m[2]>> /\ m[1] \in Partition /\ m[2] \in 1 .. Len(log[m[1]])
<1>1. m \in Partition \X Nat
  BY DEF Inv, ConsumerType
<1>2. m = <<m[1], m[2]>> /\ m[1] \in Partition /\ m[2] \in Nat
  BY <1>1
<1>. QED BY <1>2 DEF Inv, SeenInv

LEMMA CommittedByFacts ==
  ASSUME Inv, NEW i \in Instance
  PROVE  /\ CommittedBy(i) \in [Partition -> Nat]
         /\ \A p \in Partition : \A n \in 1 .. CommittedBy(i)[p] : <<p, n>> \in received
         /\ \A p \in Partition : p \in Owned(i) => CommittedBy(i)[p] = position[i][p]
         /\ \A p \in Partition : p \notin Owned(i) => CommittedBy(i)[p] = committed[p]
<1>1. /\ committed \in [Partition -> Nat] /\ position[i] \in [Partition -> Nat]
      /\ assigned[i] \subseteq Partition /\ Owned(i) \subseteq assigned[i]
  BY DEF Inv, ConsumerType, Owned
<1>2. /\ CommittedBy(i) \in [Partition -> Nat]
      /\ \A p \in Partition : p \in Owned(i) => CommittedBy(i)[p] = position[i][p]
      /\ \A p \in Partition : p \notin Owned(i) => CommittedBy(i)[p] = committed[p]
  BY <1>1 DEF CommittedBy
<1>3. ASSUME NEW p \in Partition, NEW n \in 1 .. CommittedBy(i)[p] PROVE <<p, n>> \in received
  <2>1. CASE p \in Owned(i)
    BY <2>1, <1>1, <1>2, <1>3 DEF Inv, SeenInv
  <2>2. CASE p \notin Owned(i)
    BY <2>2, <1>2, <1>3 DEF Inv, SeenInv
  <2>. QED BY <2>1, <2>2
<1>. QED BY <1>2, <1>3

LEMMA UncommittedFacts ==
  ASSUME Inv, NEW i \in Instance
  PROVE  /\ Uncommitted(i) \subseteq received
         /\ \A p \in Partition, o \in Nat :
              p \in Owned(i) /\ o > committed[p] /\ o =< position[i][p]
                => <<p, o>> \in Uncommitted(i)
<1>1. /\ committed \in [Partition -> Nat] /\ position[i] \in [Partition -> Nat]
      /\ assigned[i] \subseteq Partition /\ Owned(i) \subseteq assigned[i]
  BY DEF Inv, ConsumerType, Owned
<1>2. ASSUME NEW p \in Owned(i), NEW o \in committed[p] + 1 .. position[i][p]
      PROVE  <<p, o>> \in received
  <2>1. o \in 1 .. position[i][p]
    BY <1>1
  <2>. QED BY <2>1, <1>1 DEF Inv, SeenInv
<1>3. ASSUME NEW m \in Uncommitted(i) PROVE m \in received
  <2>1. PICK p \in Owned(i) : m \in {<<p, o>> : o \in committed[p] + 1 .. position[i][p]}
    BY <1>3 DEF Uncommitted
  <2>2. PICK o \in committed[p] + 1 .. position[i][p] : m = <<p, o>>
    BY <2>1
  <2>. QED BY <2>2, <1>2
<1>4. ASSUME NEW p \in Partition, NEW o \in Nat, p \in Owned(i), o > committed[p],
             o =< position[i][p]
      PROVE  <<p, o>> \in Uncommitted(i)
  <2>1. o \in committed[p] + 1 .. position[i][p]
    BY <1>1, <1>4
  <2>2. <<p, o>> \in {<<p, x>> : x \in committed[p] + 1 .. position[i][p]}
    BY <2>1
  <2>. QED BY <2>2, <1>4 DEF Uncommitted
<1>. QED BY <1>3, <1>4

LEMMA UnassignFacts ==
  ASSUME Inv, NEW i \in Instance, Unassign(i)
  PROVE  /\ assigned' \in [Instance -> SUBSET Partition]
         /\ position' \in [Instance -> [Partition -> Nat]]
         /\ assigned'[i] = {}
         /\ \A j \in Instance : j # i => assigned'[j] = assigned[j] /\ position'[j] = position[j]
<1>1. [p \in Partition |-> 0] \in [Partition -> Nat]
  OBVIOUS
<1>2. /\ assigned' = [assigned EXCEPT ![i] = {}]
      /\ position' = [position EXCEPT ![i] = [p \in Partition |-> 0]]
  BY DEF Unassign
<1> DEFINE zero == [p \in Partition |-> 0]
<1> HIDE DEF zero
<1>3. position' = [position EXCEPT ![i] = zero] /\ zero \in [Partition -> Nat]
  BY <1>1, <1>2 DEF zero
<1>. QED BY <1>2, <1>3 DEF Inv, ConsumerType

LEMMA AssignFacts ==
  ASSUME Inv, NEW i \in Instance, NEW parts \in SUBSET Unowned, Assign(i, parts)
  PROVE  /\ assigned' \in [Instance -> SUBSET Partition]
         /\ position' \in [Instance -> [Partition -> Nat]]
         /\ owner' \in [Partition -> Instance \cup {Nobody}]
         /\ assigned'[i] = parts /\ assigned[i] = {} /\ parts \subseteq Partition
         /\ \A p \in parts : owner[p] = Nobody /\ position'[i][p] = committed[p]
         /\ \A p \in Partition : owner'[p] = IF p \in parts THEN i ELSE owner[p]
         /\ \A j \in Instance : j # i => assigned'[j] = assigned[j] /\ position'[j] = position[j]
<1> DEFINE start == [p \in Partition |-> IF p \in parts THEN StartOf(p) ELSE 0]
<1>1. /\ ConsumerType /\ parts \subseteq Partition /\ \A p \in parts : owner[p] = Nobody
  BY DEF Inv, Unowned
<1>2. \A p \in Partition : StartOf(p) = committed[p] /\ StartOf(p) \in Nat
  BY <1>1 DEF ConsumerType, StartOf, Earliest
<1>3. /\ start \in [Partition -> Nat] /\ \A p \in parts : start[p] = committed[p]
  BY <1>1, <1>2
<1>4. /\ assigned' = [assigned EXCEPT ![i] = parts] /\ assigned[i] = {}
      /\ position' = [position EXCEPT ![i] = start]
      /\ owner' = [p \in Partition |-> IF p \in parts THEN i ELSE owner[p]]
  BY DEF Assign, Idle
<1> HIDE DEF start
<1>5. position' \in [Instance -> [Partition -> Nat]] /\ position'[i] = start
  BY <1>1, <1>3, <1>4 DEF ConsumerType
<1>6. assigned' \in [Instance -> SUBSET Partition] /\ assigned'[i] = parts
  BY <1>1, <1>4 DEF ConsumerType
<1>7. /\ owner' \in [Partition -> Instance \cup {Nobody}]
      /\ \A p \in Partition : owner'[p] = IF p \in parts THEN i ELSE owner[p]
  BY <1>1, <1>4 DEF ConsumerType
<1>8. \A j \in Instance : j # i => assigned'[j] = assigned[j] /\ position'[j] = position[j]
  BY <1>1, <1>4 DEF ConsumerType
<1>. QED BY <1>1, <1>3, <1>4, <1>5, <1>6, <1>7, <1>8

LEMMA ConsumeFacts ==
  ASSUME Inv, NEW i \in Instance, NEW p \in Partition, Consume(i, p)
  PROVE  LET o == position[i][p] + 1 IN
         /\ position' \in [Instance -> [Partition -> Nat]]
         /\ p \in assigned[i] /\ o \in 1 .. Len(log[p]) /\ place[i] = "poll"
         /\ hand' = [hand EXCEPT ![i] = {<<p, o>>}] /\ received' = received \cup {<<p, o>>}
         /\ position'[i][p] = o
         /\ \A q \in Partition : q # p => position'[i][q] = position[i][q]
         /\ \A j \in Instance : j # i => position'[j] = position[j]
         /\ exposed' = exposed \cup {x \in {<<p, o>>} : owner[p] # i}
         /\ place' = [place EXCEPT ![i] = "handle"]
         /\ UNCHANGED <<committed, owner, assigned, memory, settled>>
<1> DEFINE o == position[i][p] + 1
<1>1. ConsumerType /\ position[i][p] \in Nat /\ Len(log[p]) \in Nat
  BY ProducerFacts DEF Inv, ConsumerType
<1>2. /\ p \in assigned[i] /\ position[i][p] < Len(log[p]) /\ place[i] = "poll"
      /\ hand' = [hand EXCEPT ![i] = {<<p, o>>}] /\ received' = received \cup {<<p, o>>}
      /\ position' = [position EXCEPT ![i] = [position[i] EXCEPT ![p] = o]]
      /\ exposed' = exposed \cup {x \in {<<p, o>>} : owner[p] # i}
      /\ place' = [place EXCEPT ![i] = "handle"]
      /\ UNCHANGED <<committed, owner, assigned, memory, settled>>
  BY DEF Consume, Goto
<1>3. o \in 1 .. Len(log[p]) /\ o \in Nat
  BY <1>1, <1>2
<1> DEFINE moved == [position[i] EXCEPT ![p] = o]
<1> HIDE DEF o
<1>4. /\ moved \in [Partition -> Nat] /\ moved[p] = o
      /\ \A q \in Partition : q # p => moved[q] = position[i][q]
  BY <1>1, <1>3 DEF ConsumerType
<1>5. position' = [position EXCEPT ![i] = moved]
  BY <1>2
<1> HIDE DEF moved
<1>6. /\ position' \in [Instance -> [Partition -> Nat]] /\ position'[i] = moved
      /\ \A j \in Instance : j # i => position'[j] = position[j]
  BY <1>1, <1>4, <1>5 DEF ConsumerType
<1>. QED BY <1>2, <1>3, <1>4, <1>6 DEF o

LEMMA TypeStep == ASSUME Inv, ConsumerNext PROVE ConsumerType'
<1>0. ConsumerType
  BY DEF Inv
<1>1. ASSUME NEW i \in Instance, Start(i) \/ Stop(i) PROVE ConsumerType'
  <2>1. /\ UNCHANGED <<committed, owner, assigned, position, hand, memory, received, exposed,
                       settled>>
        /\ place' = [place EXCEPT ![i] = "poll"] \/ place' = [place EXCEPT ![i] = "stopped"]
    BY <1>1 DEF Start, Stop, Goto, history
  <2>. QED BY <1>0, <2>1 DEF ConsumerType
<1>2. ASSUME NEW i \in Instance, Revoke(i) PROVE ConsumerType'
  <2>1. /\ UNCHANGED <<place, hand, memory, received, exposed, settled>>
        /\ committed' = CommittedBy(i) /\ Unassign(i)
        /\ owner' = [p \in Partition |-> IF owner[p] = i THEN Nobody ELSE owner[p]]
    BY <1>2 DEF Revoke, CommittedOnRevoke, history
  <2>2. owner' \in [Partition -> Instance \cup {Nobody}]
    BY <1>0, <2>1 DEF ConsumerType
  <2>. QED BY <1>0, <2>1, <2>2, CommittedByFacts, UnassignFacts DEF ConsumerType
<1>3. ASSUME NEW i \in Instance, NEW parts \in SUBSET Unowned, Assign(i, parts)
      PROVE  ConsumerType'
  <2>1. UNCHANGED <<committed, place, hand, memory, received, exposed, settled>>
    BY <1>3 DEF Assign, history
  <2>. QED BY <1>0, <1>3, <2>1, AssignFacts DEF ConsumerType
<1>4. ASSUME NEW i \in Instance, NEW p \in Partition, Consume(i, p) PROVE ConsumerType'
  <2> DEFINE m == <<p, position[i][p] + 1>>
  <2>1. /\ position' \in [Instance -> [Partition -> Nat]] /\ position[i][p] + 1 \in Nat
        /\ hand' = [hand EXCEPT ![i] = {m}] /\ received' = received \cup {m}
        /\ exposed' \subseteq exposed \cup {m} /\ place' = [place EXCEPT ![i] = "handle"]
        /\ UNCHANGED <<committed, owner, assigned, memory, settled>>
    BY <1>4, ConsumeFacts
  <2>2. m \in Partition \X Nat
    BY <2>1
  <2> HIDE DEF m
  <2>3. hand' \in [Instance -> SUBSET received'] /\ memory' \in [Instance -> SUBSET received']
    BY <1>0, <2>1 DEF ConsumerType
  <2>4. exposed' \subseteq received' /\ settled' \subseteq received' /\ received' \subseteq Partition \X Nat
    BY <1>0, <2>1, <2>2 DEF ConsumerType
  <2>5. place' \in [Instance -> {"down", "poll", "handle", "stopped"}]
    BY <1>0, <2>1 DEF ConsumerType
  <2>. QED BY <1>0, <2>1, <2>3, <2>4, <2>5 DEF ConsumerType
<1>5. ASSUME NEW i \in Instance, HandleMessage(i) PROVE ConsumerType'
  <2>1. /\ UNCHANGED <<committed, owner, assigned, position, received, exposed, settled>>
        /\ place' = [place EXCEPT ![i] = "poll"] /\ hand' = [hand EXCEPT ![i] = {}]
        /\ \/ UNCHANGED memory
           \/ \E m \in hand[i] : memory' = [memory EXCEPT ![i] = memory[i] \cup {m}]
    BY <1>5 DEF HandleMessage, Goto, history
  <2>2. memory' \in [Instance -> SUBSET received]
    <3>1. ASSUME NEW m \in hand[i], memory' = [memory EXCEPT ![i] = memory[i] \cup {m}]
          PROVE  memory' \in [Instance -> SUBSET received]
      <4>1. m \in received /\ memory[i] \subseteq received
        BY <1>0 DEF ConsumerType
      <4>. QED BY <1>0, <3>1, <4>1 DEF ConsumerType
    <3>2. CASE UNCHANGED memory
      BY <1>0, <3>2 DEF ConsumerType
    <3>. QED BY <2>1, <3>1, <3>2
  <2>3. /\ hand' \in [Instance -> SUBSET received]
        /\ place' \in [Instance -> {"down", "poll", "handle", "stopped"}]
    BY <1>0, <2>1 DEF ConsumerType
  <2>. QED BY <1>0, <2>1, <2>2, <2>3 DEF ConsumerType
<1>6. ASSUME NEW i \in Instance, Close(i) PROVE ConsumerType'
  <2>1. /\ UNCHANGED <<hand, received, exposed, settled>> /\ Unassign(i)
        /\ committed' = CommittedBy(i) /\ memory' = [memory EXCEPT ![i] = {}]
        /\ owner' = [p \in Partition |-> IF p \in Owned(i) THEN Nobody ELSE owner[p]]
        /\ place' = [place EXCEPT ![i] = "down"]
    BY <1>6 DEF Close, CommittedOnClose, Goto, history
  <2>2. owner' \in [Partition -> Instance \cup {Nobody}]
    BY <1>0, <2>1 DEF ConsumerType
  <2>3. /\ memory' \in [Instance -> SUBSET received]
        /\ place' \in [Instance -> {"down", "poll", "handle", "stopped"}]
    BY <1>0, <2>1 DEF ConsumerType
  <2>. QED BY <1>0, <2>1, <2>2, <2>3, CommittedByFacts, UnassignFacts DEF ConsumerType
<1>7. ASSUME NEW i \in Instance, Finish(i) PROVE ConsumerType'
  <2>1. /\ UNCHANGED <<committed, owner, place, assigned, position, hand, received, exposed>>
        /\ \E m \in memory[i] :
             settled' = settled \cup {m} /\ memory' = [memory EXCEPT ![i] = memory[i] \ {m}]
    BY <1>7 DEF Finish
  <2>. QED BY <1>0, <2>1 DEF ConsumerType
<1>8. ASSUME NEW i \in Instance, Evict(i) PROVE ConsumerType'
  <2>1. /\ UNCHANGED <<committed, place, assigned, position, hand, memory, received, settled>>
        /\ exposed' = exposed \cup Uncommitted(i)
        /\ owner' = [p \in Partition |-> IF owner[p] = i THEN Nobody ELSE owner[p]]
    BY <1>8 DEF Evict, process
  <2>2. owner' \in [Partition -> Instance \cup {Nobody}]
    BY <1>0, <2>1 DEF ConsumerType
  <2>. QED BY <1>0, <2>1, <2>2, UncommittedFacts DEF ConsumerType
<1>9. ASSUME NEW i \in Instance, AutoCommit(i) PROVE ConsumerType'
  <2>1. /\ UNCHANGED <<owner, place, assigned, position, hand, memory, received, exposed, settled>>
        /\ committed' = CommittedBy(i)
    BY <1>9 DEF AutoCommit, process, history
  <2>. QED BY <1>0, <2>1, CommittedByFacts DEF ConsumerType
<1>10. ASSUME NEW i \in Instance, Die(i) PROVE ConsumerType'
  <2>1. /\ UNCHANGED <<committed, owner, received>> /\ Unassign(i)
        /\ place' = [place EXCEPT ![i] = "down"]
        /\ memory' = [memory EXCEPT ![i] = {}] /\ hand' = [hand EXCEPT ![i] = {}]
        /\ settled' = settled \cup memory[i] \cup hand[i]
        /\ exposed' = exposed \cup Uncommitted(i)
    BY <1>10 DEF Die, Goto
  <2>2. /\ memory' \in [Instance -> SUBSET received] /\ hand' \in [Instance -> SUBSET received]
        /\ place' \in [Instance -> {"down", "poll", "handle", "stopped"}]
        /\ settled' \subseteq received
    BY <1>0, <2>1 DEF ConsumerType
  <2>. QED BY <1>0, <2>1, <2>2, UncommittedFacts, UnassignFacts DEF ConsumerType
<1>11. ASSUME NEW p \in Partition, SessionTimesOut(p) PROVE ConsumerType'
  <2>1. /\ UNCHANGED <<committed, place, assigned, position, hand, memory, received, exposed,
                       settled>>
        /\ owner' = [owner EXCEPT ![p] = Nobody]
    BY <1>11 DEF SessionTimesOut, process, history
  <2>. QED BY <1>0, <2>1 DEF ConsumerType
<1>. QED BY ConsumerCases, <1>1, <1>2, <1>3, <1>4, <1>5, <1>6, <1>7, <1>8, <1>9, <1>10, <1>11

LEMMA SeenStep == ASSUME Inv, ConsumerNext PROVE SeenInv'
<1> DEFINE Prefix == \A p \in Partition, o \in Nat : <<p, o>> \in received =>
                       o \in 1 .. Len(log[p]) /\ \A n \in 1 .. o : <<p, n>> \in received
           Offsets == \A p \in Partition : \A n \in 1 .. committed[p] : <<p, n>> \in received
           Positions(i) == \A p \in assigned[i] : \A n \in 1 .. position[i][p] : <<p, n>> \in received
<1>0. Prefix /\ Offsets /\ (\A i \in Instance : Positions(i)) /\ log' = log /\ ConsumerType
  BY LogKept DEF Inv, SeenInv
<1> HIDE DEF Prefix, Offsets, Positions
<1>1. UNCHANGED received => Prefix'
  BY <1>0 DEF Prefix
<1>2. UNCHANGED <<received, committed>> => Offsets'
  BY <1>0 DEF Offsets
<1>3. ASSUME NEW i \in Instance, UNCHANGED received, committed' = CommittedBy(i) PROVE Offsets'
  BY <1>3, CommittedByFacts DEF Offsets
<1>4. ASSUME NEW i \in Instance, UNCHANGED received,
             assigned'[i] = assigned[i], position'[i] = position[i]
      PROVE  Positions(i)'
  BY <1>0, <1>4 DEF Positions
<1>5. UNCHANGED <<received, assigned, position>> => \A i \in Instance : Positions(i)'
  BY <1>4
<1>6. ASSUME NEW i \in Instance, Unassign(i), UNCHANGED received
      PROVE  \A j \in Instance : Positions(j)'
  BY <1>4, <1>6, UnassignFacts DEF Positions
<1>7. ASSUME NEW i \in Instance, Start(i) \/ Stop(i)
      PROVE  Prefix' /\ Offsets' /\ \A j \in Instance : Positions(j)'
  BY <1>1, <1>2, <1>5, <1>7 DEF Start, Stop, history
<1>8. ASSUME NEW i \in Instance, Revoke(i)
      PROVE  Prefix' /\ Offsets' /\ \A j \in Instance : Positions(j)'
  BY <1>1, <1>3, <1>6, <1>8 DEF Revoke, CommittedOnRevoke, history
<1>9. ASSUME NEW i \in Instance, NEW parts \in SUBSET Unowned, Assign(i, parts)
      PROVE  Prefix' /\ Offsets' /\ \A j \in Instance : Positions(j)'
  <2>1. UNCHANGED <<received, committed>>
    BY <1>9 DEF Assign, history
  <2>2. ASSUME NEW j \in Instance PROVE Positions(j)'
    <3>1. CASE j = i
      <4>1. /\ assigned'[i] = parts /\ parts \subseteq Partition
            /\ \A p \in parts : position'[i][p] = committed[p]
        BY <1>9, AssignFacts
      <4>2. \A p \in parts : \A n \in 1 .. committed[p] : <<p, n>> \in received'
        BY <4>1, <1>0, <2>1 DEF Offsets
      <4>. QED BY <3>1, <4>1, <4>2 DEF Positions
    <3>2. CASE j # i
      BY <3>2, <1>4, <1>9, <2>1, AssignFacts
    <3>. QED BY <3>1, <3>2
  <2>. QED BY <1>1, <1>2, <2>1, <2>2
<1>10. ASSUME NEW i \in Instance, NEW p \in Partition, Consume(i, p)
      PROVE  Prefix' /\ Offsets' /\ \A j \in Instance : Positions(j)'
  <2> DEFINE o == position[i][p] + 1
  <2>1. /\ p \in assigned[i] /\ o \in 1 .. Len(log[p]) /\ position[i][p] = o - 1
        /\ received' = received \cup {<<p, o>>} /\ position'[i][p] = o
        /\ \A q \in Partition : q # p => position'[i][q] = position[i][q]
        /\ \A j \in Instance : j # i => position'[j] = position[j]
        /\ UNCHANGED <<committed, assigned>> /\ o \in Nat
    <3>1. position[i][p] \in Nat
      BY <1>0 DEF ConsumerType
    <3>2. position[i][p] = o - 1 /\ o \in Nat
      BY <3>1
    <3>3. /\ p \in assigned[i] /\ o \in 1 .. Len(log[p])
          /\ received' = received \cup {<<p, o>>} /\ position'[i][p] = o
          /\ \A q \in Partition : q # p => position'[i][q] = position[i][q]
          /\ \A j \in Instance : j # i => position'[j] = position[j]
          /\ UNCHANGED <<committed, assigned>>
      BY <1>10, ConsumeFacts
    <3>. QED BY <3>2, <3>3
  <2>2. \A n \in 1 .. o - 1 : <<p, n>> \in received
    BY <1>0, <2>1 DEF Positions
  <2> HIDE DEF o
  <2>3. \A n \in 1 .. o : <<p, n>> \in received'
    <3> TAKE n \in 1 .. o
    <3>1. CASE n = o
      BY <3>1, <2>1
    <3>2. CASE n # o
      <4>1. n \in 1 .. o - 1
        BY <3>2, <2>1
      <4>. QED BY <4>1, <2>1, <2>2
    <3>. QED BY <3>1, <3>2
  <2>4. Prefix'
    <3> SUFFICES ASSUME NEW q \in Partition, NEW k \in Nat, <<q, k>> \in received'
                 PROVE  k \in 1 .. Len(log[q]) /\ \A n \in 1 .. k : <<q, n>> \in received'
      BY <1>0 DEF Prefix
    <3>1. CASE q = p /\ k = o
      BY <3>1, <2>1, <2>3
    <3>2. CASE ~(q = p /\ k = o)
      <4>1. <<q, k>> \in received
        BY <3>2, <2>1
      <4>. QED BY <4>1, <1>0, <2>1 DEF Prefix
    <3>. QED BY <3>1, <3>2
  <2>5. Offsets'
    BY <1>0, <2>1 DEF Offsets
  <2>6. ASSUME NEW j \in Instance PROVE Positions(j)'
    <3> SUFFICES ASSUME NEW q \in assigned[j], NEW n \in 1 .. position'[j][q]
                 PROVE  <<q, n>> \in received'
      BY <2>1 DEF Positions
    <3>0. q \in Partition
      BY <1>0 DEF ConsumerType
    <3>1. CASE j = i /\ q = p
      BY <3>1, <2>1, <2>3
    <3>2. CASE ~(j = i /\ q = p)
      <4>1. position'[j][q] = position[j][q]
        BY <3>0, <3>2, <2>1
      <4>. QED BY <4>1, <1>0, <2>1 DEF Positions
    <3>. QED BY <3>1, <3>2
  <2>. QED BY <2>4, <2>5, <2>6
<1>11. ASSUME NEW i \in Instance, HandleMessage(i)
      PROVE  Prefix' /\ Offsets' /\ \A j \in Instance : Positions(j)'
  BY <1>1, <1>2, <1>5, <1>11 DEF HandleMessage, history
<1>12. ASSUME NEW i \in Instance, Close(i)
      PROVE  Prefix' /\ Offsets' /\ \A j \in Instance : Positions(j)'
  BY <1>1, <1>3, <1>6, <1>12 DEF Close, CommittedOnClose, history
<1>13. ASSUME NEW i \in Instance, Finish(i)
      PROVE  Prefix' /\ Offsets' /\ \A j \in Instance : Positions(j)'
  BY <1>1, <1>2, <1>5, <1>13 DEF Finish
<1>14. ASSUME NEW i \in Instance, Evict(i)
      PROVE  Prefix' /\ Offsets' /\ \A j \in Instance : Positions(j)'
  BY <1>1, <1>2, <1>5, <1>14 DEF Evict, process
<1>15. ASSUME NEW i \in Instance, AutoCommit(i)
      PROVE  Prefix' /\ Offsets' /\ \A j \in Instance : Positions(j)'
  BY <1>1, <1>3, <1>5, <1>15 DEF AutoCommit, process, history
<1>16. ASSUME NEW i \in Instance, Die(i)
      PROVE  Prefix' /\ Offsets' /\ \A j \in Instance : Positions(j)'
  BY <1>1, <1>2, <1>6, <1>16 DEF Die
<1>17. ASSUME NEW p \in Partition, SessionTimesOut(p)
      PROVE  Prefix' /\ Offsets' /\ \A j \in Instance : Positions(j)'
  BY <1>1, <1>2, <1>5, <1>17 DEF SessionTimesOut, process, history
<1>18. Prefix' /\ Offsets' /\ \A j \in Instance : Positions(j)'
  BY ConsumerCases, <1>7, <1>8, <1>9, <1>10, <1>11, <1>12, <1>13, <1>14, <1>15, <1>16, <1>17
<1>. QED BY <1>18 DEF SeenInv, Prefix, Offsets, Positions

LEMMA HandStep == ASSUME Inv, ConsumerNext PROVE HandInv'
<1>0. HandInv /\ ConsumerType
  BY DEF Inv
<1>1. ASSUME NEW i \in Instance, NEW h \in SUBSET received', NEW where,
             hand' = [hand EXCEPT ![i] = h], place' = [place EXCEPT ![i] = where],
             h # {} => where = "handle", \A m, n \in h : m = n
      PROVE  HandInv'
  BY <1>0, <1>1 DEF HandInv, ConsumerType
<1>2. UNCHANGED <<hand, place>> => HandInv'
  BY <1>0 DEF HandInv
<1>3. ASSUME NEW i \in Instance, NEW where, UNCHANGED hand, place' = [place EXCEPT ![i] = where],
             place[i] # "handle"
      PROVE  HandInv'
  BY <1>0, <1>3 DEF HandInv, ConsumerType
<1>4. ASSUME NEW i \in Instance, Start(i) \/ Stop(i) \/ Close(i) PROVE HandInv'
  BY <1>3, <1>4 DEF Start, Stop, Close, Goto
<1>5. ASSUME NEW i \in Instance, Revoke(i) \/ Evict(i) \/ AutoCommit(i) \/ Finish(i) PROVE HandInv'
  BY <1>2, <1>5 DEF Revoke, Evict, AutoCommit, Finish, process
<1>6. ASSUME NEW i \in Instance, NEW parts \in SUBSET Unowned, Assign(i, parts) PROVE HandInv'
  BY <1>2, <1>6 DEF Assign
<1>7. ASSUME NEW i \in Instance, NEW p \in Partition, Consume(i, p) PROVE HandInv'
  <2> DEFINE x == <<p, position[i][p] + 1>>
  <2>1. /\ hand' = [hand EXCEPT ![i] = {x}] /\ place' = [place EXCEPT ![i] = "handle"]
        /\ received' = received \cup {x}
    BY <1>7, ConsumeFacts
  <2> HIDE DEF x
  <2>2. {x} \in SUBSET received'
    BY <2>1
  <2>. QED BY <1>1, <2>1, <2>2
<1>8. ASSUME NEW i \in Instance, HandleMessage(i) \/ Die(i) PROVE HandInv'
  <2>1. /\ hand' = [hand EXCEPT ![i] = {}]
        /\ \E where \in {"poll", "down"} : place' = [place EXCEPT ![i] = where]
    BY <1>8 DEF HandleMessage, Die, Goto
  <2>2. /\ \A j \in Instance : j # i => hand'[j] = hand[j] /\ place'[j] = place[j]
        /\ hand'[i] = {}
    BY <1>0, <2>1 DEF ConsumerType
  <2>. QED BY <1>0, <2>2 DEF HandInv
<1>9. ASSUME NEW p \in Partition, SessionTimesOut(p) PROVE HandInv'
  BY <1>2, <1>9 DEF SessionTimesOut, process
<1>. QED BY ConsumerCases, <1>4, <1>5, <1>6, <1>7, <1>8, <1>9

\* KeptInv for one message.
Kept(m) == ContentOf(m) = "tick" => m \in settled \/ \E i \in Instance : m \in memory[i] \cup hand[i]

LEMMA KeptStep == ASSUME Inv, ConsumerNext PROVE KeptInv'
<1>0. /\ \A m \in received : Kept(m)
      /\ HandInv /\ ConsumerType /\ \A m : ContentOf(m)' = ContentOf(m)
  BY LogKept DEF Inv, KeptInv, Kept, ContentOf
<1>1. ASSUME UNCHANGED <<settled, hand, memory, received>> PROVE \A m \in received' : Kept(m)'
  BY <1>0, <1>1 DEF Kept
<1>2. ASSUME NEW i \in Instance,
             \/ Start(i) \/ Stop(i) \/ Revoke(i) \/ Evict(i) \/ AutoCommit(i)
             \/ \E parts \in SUBSET Unowned : Assign(i, parts)
      PROVE  \A m \in received' : Kept(m)'
  BY <1>1, <1>2 DEF Start, Stop, Revoke, Evict, AutoCommit, Assign, process, history
<1>3. ASSUME NEW p \in Partition, SessionTimesOut(p) PROVE \A m \in received' : Kept(m)'
  BY <1>1, <1>3 DEF SessionTimesOut, process, history
<1>4. ASSUME NEW i \in Instance, NEW p \in Partition, Consume(i, p)
      PROVE  \A m \in received' : Kept(m)'
  <2> DEFINE x == <<p, position[i][p] + 1>>
  <2>1. /\ hand' = [hand EXCEPT ![i] = {x}] /\ received' = received \cup {x}
        /\ UNCHANGED <<memory, settled>> /\ hand[i] = {}
    BY <1>0, <1>4, ConsumeFacts DEF HandInv
  <2> HIDE DEF x
  <2>2. x \in hand'[i] /\ \A j \in Instance : hand[j] \subseteq hand'[j]
    BY <1>0, <2>1 DEF ConsumerType
  <2>. QED BY <1>0, <2>1, <2>2 DEF Kept
<1>5. ASSUME NEW i \in Instance, HandleMessage(i) PROVE \A m \in received' : Kept(m)'
  <2>1. PICK x \in hand[i] : \/ ContentOf(x) = "malformed" /\ UNCHANGED memory
                             \/ memory' = [memory EXCEPT ![i] = memory[i] \cup {x}]
    BY <1>5 DEF HandleMessage
  <2>2. hand' = [hand EXCEPT ![i] = {}] /\ UNCHANGED <<settled, received>>
    BY <1>5 DEF HandleMessage, history
  <2>3. hand[i] = {x}
    BY <1>0 DEF HandInv
  <2>4. /\ \A j \in Instance : memory[j] \subseteq memory'[j]
        /\ \A j \in Instance : j # i => hand'[j] = hand[j]
        /\ ContentOf(x) = "tick" => x \in memory'[i]
    BY <1>0, <2>1, <2>2 DEF ConsumerType
  <2>. QED BY <1>0, <2>2, <2>3, <2>4 DEF Kept
<1>6. ASSUME NEW i \in Instance, Close(i) PROVE \A m \in received' : Kept(m)'
  <2>1. memory' = [memory EXCEPT ![i] = {}] /\ memory[i] = {} /\ UNCHANGED <<settled, hand, received>>
    BY <1>6 DEF Close, Drained, history
  <2>2. memory' = memory
    BY <1>0, <2>1 DEF ConsumerType
  <2>. QED BY <1>1, <2>1, <2>2
<1>7. ASSUME NEW i \in Instance, Finish(i) PROVE \A m \in received' : Kept(m)'
  <2>1. PICK x \in memory[i] :
          settled' = settled \cup {x} /\ memory' = [memory EXCEPT ![i] = memory[i] \ {x}]
    BY <1>7 DEF Finish
  <2>2. UNCHANGED <<hand, received>>
    BY <1>7 DEF Finish
  <2>3. \A j \in Instance : memory[j] \subseteq memory'[j] \cup {x}
    BY <1>0, <2>1 DEF ConsumerType
  <2>. QED BY <1>0, <2>1, <2>2, <2>3 DEF Kept
<1>8. ASSUME NEW i \in Instance, Die(i) PROVE \A m \in received' : Kept(m)'
  <2>1. /\ memory' = [memory EXCEPT ![i] = {}] /\ hand' = [hand EXCEPT ![i] = {}]
        /\ settled' = settled \cup memory[i] \cup hand[i] /\ UNCHANGED received
    BY <1>8 DEF Die
  <2>2. \A j \in Instance : j # i => memory'[j] = memory[j] /\ hand'[j] = hand[j]
    BY <1>0, <2>1 DEF ConsumerType
  <2>. QED BY <1>0, <2>1, <2>2 DEF Kept
<1>9. \A m \in received' : Kept(m)'
  BY ConsumerCases, <1>2, <1>3, <1>4, <1>5, <1>6, <1>7, <1>8
<1>. QED BY <1>9 DEF KeptInv, Kept

\* ReplayInv for the o-th message of partition p.
Guarded(p, o) ==
  /\ \A i \in Instance : p \in assigned[i] /\ owner[p] = i /\ o > position[i][p]
       => <<p, o>> \in exposed
  /\ (\A i \in Instance : ~(p \in assigned[i] /\ owner[p] = i)) /\ o > committed[p]
       => <<p, o>> \in exposed

LEMMA GuardedIsReplayInv ==
  ReplayInv <=> \A p \in Partition, o \in Nat : <<p, o>> \in received => Guarded(p, o)
BY DEF ReplayInv, Guarded, Owned

LEMMA GuardedStep ==
  ASSUME Inv, ConsumerNext, NEW p \in Partition, NEW o \in Nat, <<p, o>> \in received'
  PROVE  Guarded(p, o)'
<1>0. /\ ConsumerType /\ Nobody \notin Instance
      /\ <<p, o>> \in received => Guarded(p, o)
  BY NobodyAssumption, GuardedIsReplayInv DEF Inv
<1>1. UNCHANGED <<received, assigned, owner, position, committed, exposed>> => Guarded(p, o)'
  BY <1>0 DEF Guarded
<1>2. ASSUME NEW i \in Instance, Start(i) \/ HandleMessage(i) \/ Finish(i) \/ Stop(i)
      PROVE  Guarded(p, o)'
  BY <1>1, <1>2 DEF Start, HandleMessage, Finish, Stop, history
<1>3. ASSUME NEW i \in Instance, Revoke(i) PROVE Guarded(p, o)'
  <2>1. /\ UNCHANGED <<received, exposed>> /\ committed' = CommittedBy(i) /\ Unassign(i)
        /\ owner' = [q \in Partition |-> IF owner[q] = i THEN Nobody ELSE owner[q]]
    BY <1>3 DEF Revoke, CommittedOnRevoke, history
  <2>2. /\ assigned'[i] = {}
        /\ \A j \in Instance : j # i => assigned'[j] = assigned[j] /\ position'[j] = position[j]
        /\ committed'[p] = IF p \in assigned[i] /\ owner[p] = i THEN position[i][p] ELSE committed[p]
    BY <2>1, UnassignFacts, CommittedByFacts DEF Owned
  <2>3. owner'[p] = IF owner[p] = i THEN Nobody ELSE owner[p]
    BY <2>1
  <2>4. Guarded(p, o)
    BY <1>0, <2>1
  <2>. QED BY <1>0, <2>1, <2>2, <2>3, <2>4 DEF Guarded
<1>4. ASSUME NEW i \in Instance, NEW parts \in SUBSET Unowned, Assign(i, parts)
      PROVE  Guarded(p, o)'
  <2>1. UNCHANGED <<received, exposed, committed>>
    BY <1>4 DEF Assign, history
  <2>2. /\ assigned'[i] = parts /\ assigned[i] = {}
        /\ \A q \in parts : owner[q] = Nobody /\ position'[i][q] = committed[q]
        /\ owner'[p] = IF p \in parts THEN i ELSE owner[p]
        /\ \A j \in Instance : j # i => assigned'[j] = assigned[j] /\ position'[j] = position[j]
    BY <1>4, AssignFacts
  <2>3. Guarded(p, o)
    BY <1>0, <2>1
  <2>. QED BY <1>0, <2>1, <2>2, <2>3 DEF Guarded
<1>5. ASSUME NEW i \in Instance, NEW q \in Partition, Consume(i, q) PROVE Guarded(p, o)'
  <2> DEFINE n == position[i][q] + 1
  <2>1. /\ received' = received \cup {<<q, n>>} /\ position'[i][q] = n
        /\ \A r \in Partition : r # q => position'[i][r] = position[i][r]
        /\ \A j \in Instance : j # i => position'[j] = position[j]
        /\ exposed' = exposed \cup {x \in {<<q, n>>} : owner[q] # i}
        /\ UNCHANGED <<committed, owner, assigned>> /\ q \in assigned[i]
    BY <1>5, ConsumeFacts
  <2>2. n \in Nat /\ position[i][q] = n - 1
    BY <1>0 DEF ConsumerType
  <2> HIDE DEF n
  <2>3. CASE p = q /\ o = n
    <3>1. owner[q] # i => <<p, o>> \in exposed'
      BY <2>1, <2>3
    <3>2. owner[q] = i => (\E j \in Instance : p \in assigned'[j] /\ owner'[p] = j)
      BY <2>1, <2>3
    <3>3. owner[q] = i => \A j \in Instance : p \in assigned'[j] /\ owner'[p] = j => ~(o > position'[j][p])
      BY <2>1, <2>2, <2>3
    <3>. QED BY <3>1, <3>2, <3>3 DEF Guarded
  <2>4. CASE ~(p = q /\ o = n)
    <3>1. <<p, o>> \in received
      BY <2>1, <2>4
    <3>2. /\ exposed \subseteq exposed'
          /\ \A j \in Instance : o > position'[j][p] => o > position[j][p]
      BY <1>0, <2>1, <2>2 DEF ConsumerType
    <3>. QED BY <1>0, <2>1, <3>1, <3>2 DEF Guarded
  <2>. QED BY <2>3, <2>4
<1>6. ASSUME NEW i \in Instance, Close(i) PROVE Guarded(p, o)'
  <2>1. /\ UNCHANGED <<received, exposed>> /\ committed' = CommittedBy(i) /\ Unassign(i)
        /\ owner' = [q \in Partition |-> IF q \in Owned(i) THEN Nobody ELSE owner[q]]
    BY <1>6 DEF Close, CommittedOnClose, history
  <2>2. /\ assigned'[i] = {}
        /\ \A j \in Instance : j # i => assigned'[j] = assigned[j] /\ position'[j] = position[j]
        /\ committed'[p] = IF p \in assigned[i] /\ owner[p] = i THEN position[i][p] ELSE committed[p]
    BY <2>1, UnassignFacts, CommittedByFacts DEF Owned
  <2>3. owner'[p] = IF p \in assigned[i] /\ owner[p] = i THEN Nobody ELSE owner[p]
    BY <2>1 DEF Owned
  <2>4. Guarded(p, o)
    BY <1>0, <2>1
  <2>. QED BY <1>0, <2>1, <2>2, <2>3, <2>4 DEF Guarded
<1>7. ASSUME NEW i \in Instance, Evict(i) PROVE Guarded(p, o)'
  <2>1. /\ UNCHANGED <<received, committed, assigned, position>>
        /\ exposed' = exposed \cup Uncommitted(i)
        /\ owner' = [q \in Partition |-> IF owner[q] = i THEN Nobody ELSE owner[q]]
    BY <1>7 DEF Evict, process
  <2>2. /\ owner'[p] = IF owner[p] = i THEN Nobody ELSE owner[p]
        /\ position[i][p] \in Nat /\ committed[p] \in Nat
    BY <1>0, <2>1 DEF ConsumerType
  <2>3. p \in assigned[i] /\ owner[p] = i /\ o > committed[p] /\ o =< position[i][p]
          => <<p, o>> \in exposed'
    BY <2>1, UncommittedFacts DEF Owned
  <2>4. Guarded(p, o)
    BY <1>0, <2>1
  <2>. QED BY <1>0, <2>1, <2>2, <2>3, <2>4 DEF Guarded
<1>8. ASSUME NEW i \in Instance, AutoCommit(i) PROVE Guarded(p, o)'
  <2>1. /\ UNCHANGED <<received, exposed, owner, assigned, position>>
        /\ committed' = CommittedBy(i)
    BY <1>8 DEF AutoCommit, process, history
  <2>2. ~(p \in assigned[i] /\ owner[p] = i) => committed'[p] = committed[p]
    BY <2>1, CommittedByFacts DEF Owned
  <2>3. Guarded(p, o)
    BY <1>0, <2>1
  <2>. QED BY <2>1, <2>2, <2>3 DEF Guarded
<1>9. ASSUME NEW i \in Instance, Die(i) PROVE Guarded(p, o)'
  <2>1. /\ UNCHANGED <<committed, owner, received>> /\ Unassign(i)
        /\ exposed' = exposed \cup Uncommitted(i)
    BY <1>9 DEF Die
  <2>2. /\ assigned'[i] = {} /\ position[i][p] \in Nat /\ committed[p] \in Nat
        /\ \A j \in Instance : j # i => assigned'[j] = assigned[j] /\ position'[j] = position[j]
    BY <1>0, <2>1, UnassignFacts DEF ConsumerType
  <2>3. p \in assigned[i] /\ owner[p] = i /\ o > committed[p] /\ o =< position[i][p]
          => <<p, o>> \in exposed'
    BY <2>1, UncommittedFacts DEF Owned
  <2>4. Guarded(p, o)
    BY <1>0, <2>1
  <2>. QED BY <1>0, <2>1, <2>2, <2>3, <2>4 DEF Guarded
<1>10. ASSUME NEW q \in Partition, SessionTimesOut(q) PROVE Guarded(p, o)'
  <2>1. /\ UNCHANGED <<received, exposed, committed, assigned, position>>
        /\ owner' = [owner EXCEPT ![q] = Nobody] /\ q \notin assigned[owner[q]]
    BY <1>10 DEF SessionTimesOut, process, history
  <2>2. owner'[p] = IF p = q THEN Nobody ELSE owner[p]
    BY <1>0, <2>1 DEF ConsumerType
  <2>3. Guarded(p, o)
    BY <1>0, <2>1
  <2>. QED BY <1>0, <2>1, <2>2, <2>3 DEF Guarded
<1>. QED BY ConsumerCases, <1>2, <1>3, <1>4, <1>5, <1>6, <1>7, <1>8, <1>9, <1>10

AllGuarded == \A p \in Partition, o \in Nat : <<p, o>> \in received => Guarded(p, o)

LEMMA AllGuardedStep == ASSUME Inv, ConsumerNext PROVE AllGuarded'
BY GuardedStep DEF AllGuarded

LEMMA AllGuardedIsReplayInv == ReplayInv <=> AllGuarded
BY GuardedIsReplayInv DEF AllGuarded

LEMMA ReplayStep == ASSUME Inv, ConsumerNext PROVE ReplayInv'
BY AllGuardedStep, AllGuardedIsReplayInv, PTL

-----------------------------------------------------------------------------
\* Both together.

\* The producer's steps only add to what the consumers read.
LEMMA ConsumersUndisturbed ==
  ASSUME Inv, Producer!Next, UNCHANGED consumerVars
  PROVE  ConsumerType' /\ SeenInv' /\ HandInv' /\ KeptInv' /\ ReplayInv'
<1>1. UNCHANGED <<committed, owner, place, assigned, position, hand, memory, received, exposed,
                  settled>>
  BY DEF consumerVars, process, history
<1>2. ConsumerType'
  BY <1>1 DEF Inv, ConsumerType
<1>3. SeenInv'
  <2>1. \A p \in Partition : \A o \in 1 .. Len(log[p]) : o \in 1 .. Len(log'[p])
    BY ProducerGrows
  <2>. QED BY <1>1, <2>1 DEF Inv, SeenInv
<1>4. HandInv'
  BY <1>1 DEF Inv, HandInv
<1>5. \A m \in received : ContentOf(m)' = ContentOf(m)
  BY ReceivedFacts, ProducerGrows DEF ContentOf
<1>6. KeptInv'
  BY <1>1, <1>5 DEF Inv, KeptInv
<1>7. ReplayInv'
  BY <1>1 DEF Inv, ReplayInv, Owned
<1>. QED BY <1>2, <1>3, <1>4, <1>6, <1>7

LEMMA ProducerUndisturbed ==
  ASSUME Inv, UNCHANGED <<producerVars, log>>
  PROVE  ProducerType' /\ QueueInv' /\ LogInv'
<1>1. UNCHANGED <<accepted, polling, sending, reports, retried, failed, producer, log>>
  BY DEF producerVars
<1>2. Stored' = Stored
  BY <1>1 DEF Stored
<1>3. ProducerType'
  BY <1>1, <1>2 DEF Inv, ProducerType
<1>4. /\ \A p \in Partition : IdsIn(p)' = IdsIn(p)
      /\ \A n : PartitionOfId(n)' = PartitionOfId(n)
  BY <1>1 DEF IdsIn, PartitionOfId
<1>5. QueueInv'
  <2>1. QueueInv
    BY DEF Inv
  <2>2. \A i, j \in 1 .. Len(sending') : i < j => sending'[i] < sending'[j]
    BY <1>1, <2>1 DEF QueueInv
  <2>3. ASSUME NEW n \in 1 .. Len(accepted')
        PROVE  \/ \E i \in 1 .. Len(sending') : sending'[i] = n
               \/ n \in failed'
               \/ n \in IdsIn(PartitionOfId(n))'
    BY <1>1, <2>1 DEF QueueInv, IdsIn, PartitionOfId
  <2>. QED BY <2>2, <2>3 DEF QueueInv
<1>6. LogInv'
  <2>1. LogInv
    BY DEF Inv
  <2>. QED BY <1>1, <2>1 DEF LogInv, PartitionOfId
<1>. QED BY <1>3, <1>5, <1>6

LEMMA Resting ==
  ASSUME Inv, UNCHANGED <<consumerVars, producerVars, log>>
  PROVE  Inv'
<1>1. ProducerType' /\ QueueInv' /\ LogInv'
  BY ProducerUndisturbed
<1>2. UNCHANGED <<committed, owner, place, assigned, position, hand, memory, received, exposed,
                  settled, log>>
  BY DEF consumerVars, process, history
<1>3. ConsumerType' /\ SeenInv'
  BY <1>2 DEF Inv, ConsumerType, SeenInv
<1>4. HandInv' /\ KeptInv'
  BY <1>2 DEF Inv, HandInv, KeptInv, ContentOf
<1>5. ReplayInv'
  BY <1>2 DEF Inv, ReplayInv, Owned
<1>. QED BY <1>1, <1>3, <1>4, <1>5 DEF Inv

LEMMA InitInv == Init => Inv
<1> SUFFICES ASSUME Init PROVE Inv
  OBVIOUS
<1>1. /\ accepted = <<>> /\ polling = {} /\ sending = <<>> /\ reports = 0 /\ retried = {}
      /\ failed = {} /\ producer = "open" /\ log = [p \in Partition |-> <<>>]
  BY DEF Init, Producer!Init
<1>2. /\ committed = [p \in Partition |-> 0] /\ owner = [p \in Partition |-> Nobody]
      /\ place = [i \in Instance |-> "poll"] /\ assigned = [i \in Instance |-> {}]
      /\ position = [i \in Instance |-> [p \in Partition |-> 0]]
      /\ hand = [i \in Instance |-> {}] /\ memory = [i \in Instance |-> {}]
      /\ received = {} /\ exposed = {} /\ settled = {}
  BY DEF Init, InitConsumer
<1>3. ProducerType
  BY <1>1, LimitAssumption DEF ProducerType
<1>4. QueueInv /\ LogInv
  BY <1>1 DEF QueueInv, LogInv
<1>5. ConsumerType
  BY <1>2 DEF ConsumerType
<1>6. SeenInv
  BY <1>2 DEF SeenInv
<1>7. HandInv /\ KeptInv /\ ReplayInv
  BY <1>2 DEF HandInv, KeptInv, ReplayInv
<1>. QED BY <1>3, <1>4, <1>5, <1>6, <1>7 DEF Inv

LEMMA StepInv == Inv /\ [Next]_topic => Inv'
<1> SUFFICES ASSUME Inv, [Next]_topic PROVE Inv'
  OBVIOUS
<1>1. CASE Producer!Next /\ UNCHANGED consumerVars
  BY <1>1, ProducerTypeStep, QueueStep, LogStep, ConsumersUndisturbed DEF Inv
<1>2. CASE ConsumerNext /\ UNCHANGED producerVars
  <2>1. ProducerType' /\ QueueInv' /\ LogInv'
    BY <1>2, LogKept, ProducerUndisturbed
  <2>. QED BY <1>2, <2>1, TypeStep, SeenStep, HandStep, KeptStep, ReplayStep DEF Inv
<1>3. CASE UNCHANGED <<consumerVars, producerVars, log>>
  BY <1>3, Resting
<1>. QED BY StepCases, <1>1, <1>2, <1>3

LEMMA SpecInv == Spec => []Inv
BY InitInv, StepInv, PTL DEF Spec

-----------------------------------------------------------------------------
LEMMA TypesHold == Inv => TypeOK
<1> SUFFICES ASSUME Inv PROVE TypeOK
  OBVIOUS
<1>1. ProducerType /\ ConsumerType /\ QueueLimit \in Nat /\ Len(sending) \in Nat
  BY LimitAssumption, ProducerFacts DEF Inv
<1>2. reports \in 0 .. QueueLimit
  BY <1>1 DEF ProducerType
<1>3. Producer!TypeOK
  BY <1>1, <1>2 DEF Producer!TypeOK, ProducerType, Message, Stored
<1>. QED BY <1>1, <1>3 DEF TypeOK, ConsumerType

(***************************************************************************)
(* Whatever crashes, moves or is committed, no message is before an offset *)
(* or a position that has not been returned to a poll loop.                *)
(***************************************************************************)
THEOREM NothingIsSkipped == Spec => []NothingSkipped
<1>1. Inv => NothingSkipped
  <2> SUFFICES ASSUME Inv PROVE NothingSkipped
    OBVIOUS
  <2>1. TypeOK /\ SeenInv
    BY TypesHold DEF Inv
  <2>. QED BY <2>1 DEF NothingSkipped, SeenInv, UpTo
<1>. QED BY <1>1, SpecInv, PTL

(***************************************************************************)
(* A tick before the group's offset is finished, in a live process, or was *)
(* in one that died: neither a rebalance nor a shutdown loses one.         *)
(***************************************************************************)
THEOREM LossIsACrash == Spec => []LossNeedsACrash
<1>1. Inv => LossNeedsACrash
  <2> SUFFICES ASSUME Inv, NEW p \in Partition, NEW m \in UpTo(p, committed[p]),
                      ContentOf(m) = "tick"
               PROVE  m \in settled \/ \E i \in Instance : m \in memory[i] \cup hand[i]
    BY DEF LossNeedsACrash
  <2>1. m \in received
    BY DEF Inv, SeenInv, UpTo
  <2>. QED BY <2>1 DEF Inv, KeptInv
<1>. QED BY <1>1, SpecInv, PTL

(***************************************************************************)
(* When a message reaches a poll loop, those of its symbol published       *)
(* before have been there, unless an attempt to send one failed.           *)
(***************************************************************************)
THEOREM SymbolsStayInOrder == Spec => []ReceivedInOrder
<1>1. Inv => ReceivedInOrder
  <2> SUFFICES ASSUME Inv, NEW m \in received, NEW k \in 1 .. IdOf(m) - 1,
                      accepted[k].key = accepted[IdOf(m)].key
               PROVE  k \in ReceivedIds \cup retried \cup failed
    BY DEF ReceivedInOrder, ReceivedIds
  <2> DEFINE p == m[1]
             o == m[2]
  <2>1. m = <<p, o>> /\ p \in Partition /\ o \in 1 .. Len(log[p]) /\ o \in Nat
    BY ReceivedFacts
  <2>2. IdOf(m) = log[p][o].id
    BY DEF IdOf
  <2>3. \A n \in 1 .. o : <<p, n>> \in received
    BY <2>1 DEF Inv, SeenInv
  <2> HIDE DEF p, o
  <2>4. k \in retried \cup failed \/ \E q \in 1 .. o - 1 : log[p][q].id = k
    BY <2>1, <2>2 DEF Inv, LogInv
  <2>5. ASSUME NEW q \in 1 .. o - 1, log[p][q].id = k PROVE k \in ReceivedIds
    <3>1. <<p, q>> \in received
      BY <2>1, <2>3
    <3>2. IdOf(<<p, q>>) = k
      BY <2>5 DEF IdOf
    <3>. QED BY <3>1, <3>2 DEF ReceivedIds
  <2>. QED BY <2>4, <2>5
<1>. QED BY <1>1, SpecInv, PTL

(***************************************************************************)
(* A message is returned twice only if a member consumed it that died or   *)
(* was expelled before it was committed.                                   *)
(***************************************************************************)
THEOREM ReplaysAreFaults == Spec => ReplaysNeedAFault
<1> DEFINE A == \A i \in Instance :
                  hand'[i] # hand[i] => hand'[i] \cap received \subseteq exposed'
<1>1. ASSUME Inv, ConsumerNext PROVE A
  <2>0. ConsumerType
    BY <1>1 DEF Inv
  <2>1. CASE hand' = hand
    BY <2>1
  <2>2. ASSUME NEW i \in Instance, hand' = [hand EXCEPT ![i] = {}] PROVE A
    BY <2>0, <2>2 DEF ConsumerType
  <2>3. ASSUME NEW i \in Instance, NEW p \in Partition, Consume(i, p) PROVE A
    <3> DEFINE o == position[i][p] + 1
    <3>1. /\ hand' = [hand EXCEPT ![i] = {<<p, o>>}] /\ p \in assigned[i]
          /\ exposed' = exposed \cup {x \in {<<p, o>>} : owner[p] # i}
      BY <1>1, <2>3, ConsumeFacts
    <3>2. o \in Nat /\ o > position[i][p]
      BY <2>0 DEF ConsumerType
    <3>3. ASSUME <<p, o>> \in received, owner[p] = i PROVE <<p, o>> \in exposed
      BY <1>1, <3>1, <3>2, <3>3, GuardedIsReplayInv DEF Inv, Guarded
    <3> HIDE DEF o
    <3>4. \A j \in Instance : j # i => hand'[j] = hand[j]
      BY <2>0, <3>1 DEF ConsumerType
    <3>5. hand'[i] = {<<p, o>>}
      BY <2>0, <3>1 DEF ConsumerType
    <3>. QED BY <3>1, <3>3, <3>4, <3>5
  <2>4. ASSUME NEW i \in Instance,
               \/ Start(i) \/ Revoke(i) \/ \E parts \in SUBSET Unowned : Assign(i, parts)
               \/ Close(i) \/ Finish(i) \/ Evict(i) \/ AutoCommit(i) \/ Stop(i)
        PROVE  hand' = hand
    BY <2>4 DEF Start, Revoke, Assign, Close, Finish, Evict, AutoCommit, Stop, process
  <2>5. ASSUME NEW p \in Partition, SessionTimesOut(p) PROVE hand' = hand
    BY <2>5 DEF SessionTimesOut, process
  <2>6. ASSUME NEW i \in Instance, HandleMessage(i) \/ Die(i)
        PROVE  hand' = [hand EXCEPT ![i] = {}]
    BY <2>6 DEF HandleMessage, Die
  <2> HIDE DEF A
  <2>. QED BY <1>1, ConsumerCases, <2>1, <2>2, <2>3, <2>4, <2>5, <2>6
<1>2. Inv /\ [Next]_topic => [A]_topic
  <2> SUFFICES ASSUME Inv, [Next]_topic PROVE [A]_topic
    OBVIOUS
  <2>1. ASSUME UNCHANGED consumerVars PROVE A
    BY <2>1 DEF consumerVars, process
  <2> HIDE DEF A
  <2>. QED BY StepCases, <1>1, <2>1
<1>3. Spec => [][A]_topic
  <2> HIDE DEF A
  <2>. QED BY <1>2, SpecInv, PTL DEF Spec
<1>. QED BY <1>3 DEF ReplaysNeedAFault

=============================================================================
