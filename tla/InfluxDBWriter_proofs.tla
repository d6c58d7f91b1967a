------------------------ MODULE InfluxDBWriter_proofs ------------------------
(***************************************************************************)
(* For any number of callers, points and failed flushes: a flush that      *)
(* fails loses a point with one kind of client library only, and while no  *)
(* flush fails the buffer is bounded and every finished batch is stored.   *)
(***************************************************************************)
EXTENDS InfluxDBWriter, FiniteSetTheorems, SequenceTheorems, TLAPS

Point == 1 .. accepted \cup {Husk}

Place == {"idle", "write", "size", "flush", "count", "final", "returned"}
At(places) == {c \in Caller : place[c] \in places}

\* The callers that have yet to compare the size after their push, or to flush:
\* each accounts for one point over the batch size.
Overshooting == At({"size", "flush"})

\* The callers that pushed a point they have not counted.
Counting == At({"size", "flush", "count"})

DataType ==
  /\ client \in [moves : BOOLEAN, keeps : BOOLEAN]
  /\ accepted \in 0 .. MaxPoints
  /\ client_batch \in Seq(Point) /\ write_buffer_ \in Seq(Point)
  /\ stored \subseteq Point
  /\ failures \in 0 .. MaxFailures

CallType ==
  /\ place \in [Caller -> Place]
  /\ left \in [Caller -> Nat] /\ mine \in [Caller -> SUBSET (1 .. accepted)]
  /\ open \in BOOLEAN

\* Each point is counted once.
CountInv ==
  points_written_ \in Nat /\ points_written_ + Cardinality(Counting) = accepted

\* Nothing waits in a client that keeps nothing, nor before a failure.
BatchInv == ~client.keeps \/ failures = 0 => client_batch = <<>>

\* Before a failure, a point is in the database or in the buffer.
CleanInv ==
  failures = 0 => 1 .. accepted \subseteq stored \cup Elements(write_buffer_)

OvershootInv ==
  failures = 0 => Len(write_buffer_) =< BATCH_SIZE - 1 + Cardinality(Overshooting)

ReturnInv == failures = 0 =>
               \A c \in Caller : place[c] = "returned" => mine[c] \subseteq stored

ClosedInv == ~open => /\ \A c \in Caller : place[c] = "idle"
                      /\ failures = 0 => 1 .. accepted \subseteq stored

Inv == /\ DataType /\ CallType /\ CountInv /\ BatchInv
       /\ LossNeedsABadClient /\ CleanInv /\ OvershootInv /\ ReturnInv /\ ClosedInv

-----------------------------------------------------------------------------
\* Sequences and what they hold.

LEMMA Held ==
  ASSUME NEW S, NEW s \in Seq(S)
  PROVE  Elements(s) \subseteq S
BY DEF Elements

LEMMA HeldByNothing == Elements(<<>>) = {}
BY DEF Elements

LEMMA Appended ==
  ASSUME NEW S, NEW s \in Seq(S), NEW e \in S
  PROVE  /\ Append(s, e) \in Seq(S) /\ Len(Append(s, e)) = Len(s) + 1 /\ Len(s) \in Nat
         /\ Elements(Append(s, e)) = Elements(s) \cup {e}
<1>1. /\ Append(s, e) \in Seq(S) /\ Len(Append(s, e)) = Len(s) + 1 /\ Len(s) \in Nat
      /\ Append(s, e)[Len(s) + 1] = e
      /\ \A i \in 1 .. Len(s) : Append(s, e)[i] = s[i]
  OBVIOUS
<1>2. \A i \in 1 .. Len(s) + 1 : i \in 1 .. Len(s) \/ i = Len(s) + 1
  BY <1>1
<1>3. \A i \in 1 .. Len(s) : i \in 1 .. Len(s) + 1
  BY <1>1
<1>4. Len(s) + 1 \in 1 .. Len(s) + 1
  BY <1>1
<1>5. Elements(Append(s, e)) \subseteq Elements(s) \cup {e}
  BY <1>1, <1>2 DEF Elements
<1>6. Elements(s) \cup {e} \subseteq Elements(Append(s, e))
  BY <1>1, <1>3, <1>4 DEF Elements
<1>. QED BY <1>1, <1>5, <1>6

LEMMA Widened ==
  ASSUME NEW S, NEW T, S \subseteq T, NEW s \in Seq(S)
  PROVE  s \in Seq(T)
OBVIOUS

LEMMA Concatenated ==
  ASSUME NEW S, NEW s \in Seq(S), NEW t \in Seq(S)
  PROVE  /\ s \o t \in Seq(S)
         /\ Elements(s \o t) = Elements(s) \cup Elements(t)
<1>1. /\ s \o t \in Seq(S) /\ Len(s \o t) = Len(s) + Len(t)
      /\ \A i \in 1 .. Len(s) + Len(t) :
           (s \o t)[i] = IF i =< Len(s) THEN s[i] ELSE t[i - Len(s)]
  BY ConcatProperties
<1>2. Len(s) \in Nat /\ Len(t) \in Nat
  OBVIOUS
<1> DEFINE u == s \o t
<1>3. /\ Len(u) = Len(s) + Len(t)
      /\ \A i \in 1 .. Len(s) : u[i] = s[i]
      /\ \A i \in 1 .. Len(t) : u[Len(s) + i] = t[i]
      /\ \A i \in 1 .. Len(u) : i \in 1 .. Len(s) \/ (i - Len(s)) \in 1 .. Len(t)
      /\ \A i \in 1 .. Len(u) : i > Len(s) => u[i] = t[i - Len(s)]
      /\ \A i \in 1 .. Len(u) : i =< Len(s) => u[i] = s[i]
      /\ \A i \in 1 .. Len(u) : i =< Len(s) => i \in 1 .. Len(s)
      /\ \A i \in 1 .. Len(u) : i > Len(s) => i - Len(s) \in 1 .. Len(t)
      /\ \A i \in 1 .. Len(s) : i \in 1 .. Len(u)
      /\ \A i \in 1 .. Len(t) : Len(s) + i \in 1 .. Len(u)
      /\ \A i \in 1 .. Len(u) : i > Len(s) \/ i =< Len(s)
  BY <1>1, <1>2
<1> HIDE DEF u
<1>4. Elements(u) \subseteq Elements(s) \cup Elements(t)
  BY <1>3 DEF Elements
<1>5. Elements(s) \subseteq Elements(u)
  BY <1>3 DEF Elements
<1>6. Elements(t) \subseteq Elements(u)
  BY <1>3 DEF Elements
<1>. QED BY <1>1, <1>4, <1>5, <1>6 DEF u

LEMMA Split ==
  ASSUME NEW S, NEW s \in Seq(S), NEW k \in 0 .. Len(s)
  PROVE  /\ SubSeq(s, 1, k) \in Seq(S) /\ SubSeq(s, k + 1, Len(s)) \in Seq(S)
         /\ Elements(s) =
              Elements(SubSeq(s, 1, k)) \cup Elements(SubSeq(s, k + 1, Len(s)))
<1>1. Len(s) \in Nat /\ k \in Nat /\ k =< Len(s)
  OBVIOUS
<1>2. SubSeq(s, 1, k) \in Seq(S) /\ SubSeq(s, k + 1, Len(s)) \in Seq(S)
  BY <1>1
<1>3. SubSeq(s, 1, k) \o SubSeq(s, k + 1, Len(s)) = SubSeq(s, 1, Len(s))
  <2>1. 1 \in 1 .. Len(s) + 1 /\ k \in 1 - 1 .. Len(s) /\ Len(s) \in k .. Len(s)
    BY <1>1
  <2>. QED BY <2>1, ConcatAdjacentSubSeq
<1>4. SubSeq(s, 1, Len(s)) = s
  BY SubSeqFull
<1> DEFINE before == SubSeq(s, 1, k)
           after == SubSeq(s, k + 1, Len(s))
<1>5. before \in Seq(S) /\ after \in Seq(S) /\ before \o after = s
  BY <1>2, <1>3, <1>4
<1> HIDE DEF before, after
<1>6. Elements(before \o after) = Elements(before) \cup Elements(after)
  BY <1>5, Concatenated, ZenonT(60)
<1>. QED BY <1>5, <1>6 DEF before, after

-----------------------------------------------------------------------------
\* flush().

\* The points of the buffer are where they were, unless the client emptied them.
LEMMA BufferAfterFailure ==
  ASSUME DataType, NEW taken \in 1 .. Len(write_buffer_)
  PROVE  /\ AfterFailure(taken) \in Seq(Point)
         /\ ~client.moves => Elements(AfterFailure(taken)) = Elements(write_buffer_)
         /\ Elements(write_buffer_) \subseteq
              Elements(AfterFailure(taken)) \cup Elements(SubSeq(write_buffer_, 1, taken))
<1> DEFINE n == Len(write_buffer_)
           after == AfterFailure(taken)
           sent == SubSeq(write_buffer_, 1, taken)
           gone(i) == i =< taken /\ client.moves
<1>1. /\ write_buffer_ \in Seq(Point) /\ Husk \in Point /\ n \in Nat
      /\ taken \in Nat /\ 1 =< taken /\ taken =< n
  BY DEF DataType, Point
<1>2. \A i \in 1 .. n : write_buffer_[i] \in Point
  BY <1>1
<1>3. after = [i \in 1 .. n |-> IF gone(i) THEN Husk ELSE write_buffer_[i]]
  BY DEF AfterFailure
<1> HIDE DEF gone
<1>4. after \in [1 .. n -> Point]
  BY <1>1, <1>2, <1>3
<1>5. after \in Seq(Point) /\ Len(after) = n
  BY <1>1, <1>4
<1>6. \A i \in 1 .. n : ~gone(i) => after[i] = write_buffer_[i]
  BY <1>3
<1>7. /\ Len(sent) = taken
      /\ \A i \in 1 .. taken : sent[i] = write_buffer_[i]
  BY <1>1
<1>8. ASSUME ~client.moves PROVE Elements(after) = Elements(write_buffer_)
  <2>1. \A i \in 1 .. n : after[i] = write_buffer_[i]
    BY <1>6, <1>8 DEF gone
  <2>. QED BY <1>5, <2>1 DEF Elements
<1>9. ASSUME NEW i \in 1 .. n PROVE write_buffer_[i] \in Elements(after) \cup Elements(sent)
  <2>1. CASE i =< taken
    <3>1. i \in 1 .. taken
      BY <1>1, <2>1
    <3>. QED BY <1>7, <3>1 DEF Elements
  <2>2. CASE ~(i =< taken)
    <3>1. after[i] = write_buffer_[i]
      BY <1>6, <2>2 DEF gone
    <3>. QED BY <1>5, <3>1 DEF Elements
  <2>. QED BY <2>1, <2>2
<1>10. Elements(write_buffer_) \subseteq Elements(after) \cup Elements(sent)
  BY <1>9 DEF Elements
<1>. QED BY <1>5, <1>8, <1>10

\* What a failed flush does to the points.
LEMMA FailedFlush ==
  ASSUME DataType, BatchInv, FlushFails
  PROVE  /\ client_batch' \in Seq(Point) /\ write_buffer_' \in Seq(Point)
         /\ stored' \subseteq Point /\ stored \subseteq stored'
         /\ failures' \in 1 .. MaxFailures
         /\ ~client.keeps => client_batch' = <<>>
         /\ client.keeps \/ ~client.moves =>
              Elements(client_batch) \cup Elements(write_buffer_) \subseteq
                stored' \cup Elements(client_batch') \cup Elements(write_buffer_')
<1> PICK taken \in 1 .. Len(write_buffer_) :
      \E sent \in 0 .. Len(client_batch \o SubSeq(write_buffer_, 1, taken)) :
        LET held == client_batch \o SubSeq(write_buffer_, 1, taken) IN
        /\ stored' = stored \cup Elements(SubSeq(held, 1, sent))
        /\ client_batch' = IF client.keeps
                           THEN SubSeq(held, sent + 1, Len(held)) ELSE <<>>
        /\ write_buffer_' = AfterFailure(taken)
  BY DEF FlushFails
<1> DEFINE given == SubSeq(write_buffer_, 1, taken)
           held == client_batch \o given
<1> PICK sent \in 0 .. Len(held) :
      /\ stored' = stored \cup Elements(SubSeq(held, 1, sent))
      /\ client_batch' = IF client.keeps THEN SubSeq(held, sent + 1, Len(held)) ELSE <<>>
      /\ write_buffer_' = AfterFailure(taken)
  OBVIOUS
<1>1. /\ client_batch \in Seq(Point) /\ write_buffer_ \in Seq(Point) /\ stored \subseteq Point
      /\ taken \in 0 .. Len(write_buffer_)
  BY DEF DataType
<1>2. given \in Seq(Point)
  BY <1>1, Split
<1> HIDE DEF given
<1>3. held \in Seq(Point) /\ Elements(held) = Elements(client_batch) \cup Elements(given)
  BY <1>1, <1>2, Concatenated
<1> HIDE DEF held
<1> DEFINE written == SubSeq(held, 1, sent)
           rest == SubSeq(held, sent + 1, Len(held))
<1>4. /\ written \in Seq(Point) /\ rest \in Seq(Point)
      /\ Elements(held) = Elements(written) \cup Elements(rest)
  BY <1>3, Split
<1>5. /\ stored' = stored \cup Elements(written)
      /\ client.keeps => client_batch' = rest
      /\ ~client.keeps => client_batch' = <<>>
  OBVIOUS
<1> HIDE DEF written, rest
<1>6. Elements(written) \subseteq Point
  BY <1>4, Held
<1>7. client_batch' \in Seq(Point)
  <2>1. <<>> \in Seq(Point)
    BY EmptySeq
  <2>. QED BY <1>4, <1>5, <2>1
<1>8. /\ write_buffer_' \in Seq(Point)
      /\ ~client.moves => Elements(write_buffer_') = Elements(write_buffer_)
      /\ Elements(write_buffer_) \subseteq Elements(write_buffer_') \cup Elements(given)
  BY BufferAfterFailure DEF given
<1>9. failures' \in 1 .. MaxFailures
  <2>1. failures \in Nat /\ failures < MaxFailures /\ failures' = failures + 1
    BY DEF FlushFails, DataType
  <2>. QED BY <2>1, BoundAssumption
<1>10. ASSUME client.keeps
       PROVE  Elements(client_batch) \cup Elements(write_buffer_) \subseteq
                stored' \cup Elements(client_batch') \cup Elements(write_buffer_')
  BY <1>3, <1>4, <1>5, <1>8, <1>10
<1>11. ASSUME ~client.moves, ~client.keeps
       PROVE  Elements(client_batch) \cup Elements(write_buffer_) \subseteq
                stored' \cup Elements(client_batch') \cup Elements(write_buffer_')
  <2>1. Elements(client_batch) = {}
    BY <1>11, HeldByNothing DEF BatchInv
  <2>. QED BY <1>8, <1>11, <2>1
<1>12. stored' \subseteq Point /\ stored \subseteq stored'
  BY <1>1, <1>5, <1>6
<1>. QED BY <1>5, <1>7, <1>8, <1>9, <1>10, <1>11, <1>12

LEMMA SuccessfulFlush ==
  ASSUME DataType, BatchInv, FlushSucceeds
  PROVE  /\ client_batch' \in Seq(Point) /\ write_buffer_' = <<>>
         /\ stored' \subseteq Point /\ stored \subseteq stored'
         /\ failures' = failures
         /\ client_batch' = client_batch \/ client_batch' = <<>>
         /\ Elements(write_buffer_) \subseteq stored'
         /\ Elements(client_batch) \subseteq stored' \cup Elements(client_batch')
<1>1. /\ client_batch \in Seq(Point) /\ write_buffer_ \in Seq(Point) /\ stored \subseteq Point
      /\ <<>> \in Seq(Point)
  BY EmptySeq DEF DataType
<1>2. write_buffer_' = <<>> /\ failures' = failures
  BY DEF FlushSucceeds
<1>3. CASE write_buffer_ = <<>>
  BY <1>1, <1>2, <1>3, HeldByNothing DEF FlushSucceeds
<1>4. CASE write_buffer_ # <<>>
  <2>1. /\ stored' = stored \cup Elements(client_batch) \cup Elements(write_buffer_)
        /\ client_batch' = <<>>
    BY <1>4 DEF FlushSucceeds
  <2>2. Elements(client_batch) \subseteq Point /\ Elements(write_buffer_) \subseteq Point
    BY <1>1, Held
  <2>. QED BY <1>1, <1>2, <2>1, <2>2
<1>. QED BY <1>3, <1>4

-----------------------------------------------------------------------------
\* The points: where each is.

data == <<client, client_batch, stored, write_buffer_, accepted, failures>>
Flushing == flush /\ UNCHANGED <<client, accepted>>
DataInv == DataType /\ BatchInv /\ LossNeedsABadClient /\ CleanInv

LEMMA StepKinds ==
  ASSUME [Next]_vars
  PROVE  UNCHANGED data \/ (\E c \in Caller : PushPoint(c)) \/ Flushing
<1>1. ASSUME NEW c \in Caller, write_tick(c) PROVE UNCHANGED data
  BY <1>1 DEF write_tick, Begin, data
<1>2. ASSUME NEW c \in Caller, write_batch(c) PROVE UNCHANGED data
  BY <1>2 DEF write_batch, Begin, data
<1>3. ASSUME NEW c \in Caller, RejectTick(c) PROVE UNCHANGED data
  BY <1>3 DEF RejectTick, data
<1>4. ASSUME NEW c \in Caller, RejectThrows(c) PROVE UNCHANGED data
  BY <1>4 DEF RejectThrows, data
<1>5. ASSUME NEW c \in Caller, ReadSize(c) PROVE UNCHANGED data
  BY <1>5 DEF ReadSize, data
<1>6. ASSUME NEW c \in Caller, CountPoint(c) PROVE UNCHANGED data
  BY <1>6 DEF CountPoint, data
<1>7. ASSUME NEW c \in Caller, Return(c) PROVE UNCHANGED data
  BY <1>7 DEF Return, data
<1>8. ASSUME NEW c \in Caller, FlushIfNeeded(c) PROVE Flushing
  BY <1>8 DEF FlushIfNeeded, Flushing
<1>9. ASSUME NEW c \in Caller, FinalFlush(c) PROVE Flushing
  BY <1>9 DEF FinalFlush, Flushing
<1>10. ASSUME Destroy PROVE Flushing
  BY <1>10 DEF Destroy, Flushing
<1>11. ASSUME UNCHANGED vars PROVE UNCHANGED data
  BY <1>11 DEF vars, data
<1>. QED BY <1>1, <1>2, <1>3, <1>4, <1>5, <1>6, <1>7, <1>8, <1>9, <1>10, <1>11 DEF Next, InCall

LEMMA DataResting == ASSUME DataInv, UNCHANGED data PROVE DataInv'
<1>1. UNCHANGED <<client, client_batch, stored, write_buffer_, accepted, failures>>
  BY DEF data
<1>2. DataType' /\ BatchInv'
  BY <1>1 DEF DataInv, DataType, BatchInv, Point
<1>3. LossNeedsABadClient' /\ CleanInv'
  BY <1>1 DEF DataInv, LossNeedsABadClient, CleanInv, Elements
<1>. QED BY <1>2, <1>3 DEF DataInv

LEMMA DataPushed == ASSUME DataInv, NEW c \in Caller, PushPoint(c) PROVE DataInv'
<1> DEFINE next == accepted + 1
<1>1. /\ UNCHANGED <<client, client_batch, stored, failures>>
      /\ accepted < MaxPoints /\ accepted' = next /\ write_buffer_' = Append(write_buffer_, next)
  BY DEF PushPoint
<1>2. DataType /\ BatchInv /\ LossNeedsABadClient /\ CleanInv
  BY DEF DataInv
<1>3. /\ accepted \in Nat /\ accepted' \in 0 .. MaxPoints
      /\ Point \subseteq Point' /\ next \in Point'
      /\ \A n \in 1 .. accepted' : n \in 1 .. accepted \/ n = next
  BY <1>1, <1>2, BoundAssumption DEF DataType, Point
<1> HIDE DEF next
<1>4. client_batch' \in Seq(Point') /\ write_buffer_ \in Seq(Point')
  BY <1>1, <1>2, <1>3, Widened DEF DataType
<1>5. write_buffer_' \in Seq(Point')
      /\ Elements(write_buffer_') = Elements(write_buffer_) \cup {next}
  BY <1>1, <1>3, <1>4, Appended
<1>6. DataType'
  BY <1>1, <1>2, <1>3, <1>4, <1>5 DEF DataType
<1>7. BatchInv'
  BY <1>1, <1>2 DEF BatchInv
<1>8. LossNeedsABadClient'
  <2>1. Elements(client_batch') = Elements(client_batch)
    BY <1>1
  <2>2. client' = client /\ stored' = stored
    BY <1>1
  <2>3. \A s, t : s = t => Elements(s) = Elements(t)
    OBVIOUS
  <2> SUFFICES ASSUME client.keeps \/ ~client.moves, NEW n \in 1 .. accepted'
               PROVE  n \in stored \cup Elements(client_batch') \cup Elements(write_buffer_')
    BY <2>2 DEF LossNeedsABadClient, Elements
  <2>4. CASE n \in 1 .. accepted
    BY <1>2, <1>5, <2>1, <2>4 DEF LossNeedsABadClient
  <2>5. CASE n = next
    BY <1>5, <2>5
  <2>. QED BY <1>3, <2>4, <2>5
<1>9. CleanInv'
  <2> SUFFICES ASSUME failures = 0, NEW n \in 1 .. accepted'
               PROVE  n \in stored \cup Elements(write_buffer_')
    BY <1>1 DEF CleanInv, Elements
  <2>1. CASE n \in 1 .. accepted
    BY <1>2, <1>5, <2>1 DEF CleanInv
  <2>2. CASE n = next
    BY <1>5, <2>2
  <2>. QED BY <1>3, <2>1, <2>2
<1>. QED BY <1>6, <1>7, <1>8, <1>9 DEF DataInv

LEMMA DataFlushed == ASSUME DataInv, Flushing PROVE DataInv'
<1>1. UNCHANGED <<client, accepted>> /\ (FlushSucceeds \/ FlushFails)
  BY DEF Flushing, flush
<1>2. DataType /\ BatchInv /\ LossNeedsABadClient /\ CleanInv
  BY DEF DataInv
<1>3. Point' = Point /\ <<>> \in Seq(Point)
  BY <1>1, EmptySeq DEF Point
<1>4. ASSUME FlushSucceeds PROVE DataInv'
  <2>1. /\ client_batch' \in Seq(Point) /\ write_buffer_' = <<>>
        /\ stored' \subseteq Point /\ stored \subseteq stored'
        /\ failures' = failures
        /\ client_batch' = client_batch \/ client_batch' = <<>>
        /\ Elements(write_buffer_) \subseteq stored'
        /\ Elements(client_batch) \subseteq stored' \cup Elements(client_batch')
    BY <1>2, <1>4, SuccessfulFlush
  <2>2. DataType'
    BY <1>1, <1>2, <1>3, <2>1 DEF DataType
  <2>3. BatchInv'
    BY <1>1, <1>2, <2>1 DEF BatchInv
  <2>4. client.keeps \/ ~client.moves =>
          1 .. accepted \subseteq stored' \cup Elements(client_batch')
    BY <1>2, <2>1 DEF LossNeedsABadClient
  <2>5. LossNeedsABadClient'
    BY <1>1, <2>4 DEF LossNeedsABadClient, Elements
  <2>6. failures = 0 => 1 .. accepted \subseteq stored'
    BY <1>2, <2>1 DEF CleanInv
  <2>7. CleanInv'
    BY <1>1, <2>1, <2>6 DEF CleanInv
  <2>. QED BY <2>2, <2>3, <2>5, <2>7 DEF DataInv
<1>5. ASSUME FlushFails PROVE DataInv'
  <2>1. /\ client_batch' \in Seq(Point) /\ write_buffer_' \in Seq(Point)
        /\ stored' \subseteq Point /\ stored \subseteq stored'
        /\ failures' \in 1 .. MaxFailures
        /\ ~client.keeps => client_batch' = <<>>
        /\ client.keeps \/ ~client.moves =>
             Elements(client_batch) \cup Elements(write_buffer_) \subseteq
               stored' \cup Elements(client_batch') \cup Elements(write_buffer_')
    BY <1>2, <1>5, FailedFlush
  <2>2. failures' # 0 /\ failures' \in 0 .. MaxFailures
    BY <2>1
  <2>3. DataType'
    BY <1>1, <1>2, <1>3, <2>1, <2>2 DEF DataType
  <2>4. BatchInv'
    BY <1>1, <2>1, <2>2 DEF BatchInv
  <2>5. client.keeps \/ ~client.moves => 1 .. accepted \subseteq
          stored' \cup Elements(client_batch') \cup Elements(write_buffer_')
    BY <1>2, <2>1 DEF LossNeedsABadClient
  <2>6. LossNeedsABadClient'
    BY <1>1, <2>5 DEF LossNeedsABadClient, Elements
  <2>7. CleanInv'
    BY <2>2 DEF CleanInv
  <2>. QED BY <2>3, <2>4, <2>6, <2>7 DEF DataInv
<1>. QED BY <1>1, <1>4, <1>5

LEMMA DataStep == ASSUME DataInv, [Next]_vars PROVE DataInv'
BY StepKinds, DataResting, DataPushed, DataFlushed

-----------------------------------------------------------------------------
\* The callers.

CallInv == CallType /\ CountInv /\ OvershootInv /\ ReturnInv /\ ClosedInv

LEMMA Moved ==
  ASSUME CallType, NEW c \in Caller, NEW where \in Place, Goto(c, where)
  PROVE  /\ place' \in [Caller -> Place] /\ place'[c] = where
         /\ \A d \in Caller : d # c => place'[d] = place[d]
BY DEF CallType, Goto

LEMMA Recounted ==
  ASSUME CallType, NEW c \in Caller, NEW where \in Place, Goto(c, where), NEW places
  PROVE  /\ Cardinality(At(places)) \in Nat
         /\ place[c] \notin places /\ where \in places =>
              Cardinality(At(places)') = Cardinality(At(places)) + 1
         /\ place[c] \in places /\ where \notin places =>
              Cardinality(At(places)') = Cardinality(At(places)) - 1
         /\ (place[c] \in places <=> where \in places) =>
              Cardinality(At(places)') = Cardinality(At(places))
<1>1. /\ place'[c] = where
      /\ \A d \in Caller : d # c => place'[d] = place[d]
  BY Moved
<1>2. IsFiniteSet(At(places))
  <2>1. At(places) \in SUBSET Caller
    BY DEF At
  <2>. QED BY <2>1, CallerAssumption, FS_Subset
<1>3. Cardinality(At(places)) \in Nat
  BY <1>2, FS_CardinalityType
<1>4. ASSUME place[c] \notin places, where \in places
      PROVE  Cardinality(At(places)') = Cardinality(At(places)) + 1
  <2>1. At(places)' = At(places) \cup {c} /\ c \notin At(places)
    BY <1>1, <1>4 DEF At
  <2>. QED BY <1>2, <2>1, FS_AddElement
<1>5. ASSUME place[c] \in places, where \notin places
      PROVE  Cardinality(At(places)') = Cardinality(At(places)) - 1
  <2>1. At(places)' = At(places) \ {c} /\ c \in At(places)
    BY <1>1, <1>5 DEF At
  <2>. QED BY <1>2, <2>1, FS_RemoveElement
<1>6. ASSUME place[c] \in places <=> where \in places
      PROVE  Cardinality(At(places)') = Cardinality(At(places))
  <2>1. At(places)' = At(places)
    BY <1>1, <1>6 DEF At
  <2>. QED BY <2>1
<1>. QED BY <1>3, <1>4, <1>5, <1>6

\* How many callers overshoot, and count, after a step of one of them.
LEMMA CountsAfter ==
  ASSUME CallType, NEW c \in Caller, NEW where \in Place, Goto(c, where)
  PROVE  /\ Cardinality(Counting) \in Nat /\ Cardinality(Overshooting) \in Nat
         /\ place[c] \in {"idle", "write", "final", "returned"} /\ where = "size" =>
              /\ Cardinality(Counting') = Cardinality(Counting) + 1
              /\ Cardinality(Overshooting') = Cardinality(Overshooting) + 1
         /\ place[c] \in {"size", "flush"} /\ where = "flush" =>
              /\ Cardinality(Counting') = Cardinality(Counting)
              /\ Cardinality(Overshooting') = Cardinality(Overshooting)
         /\ place[c] \in {"size", "flush"} /\ where = "count" =>
              /\ Cardinality(Counting') = Cardinality(Counting)
              /\ Cardinality(Overshooting') = Cardinality(Overshooting) - 1
         /\ place[c] = "count" /\ where \in {"idle", "write", "final", "returned"} =>
              /\ Cardinality(Counting') = Cardinality(Counting) - 1
              /\ Cardinality(Overshooting') = Cardinality(Overshooting)
         /\ {place[c], where} \subseteq {"idle", "write", "final", "returned"} =>
              /\ Cardinality(Counting') = Cardinality(Counting)
              /\ Cardinality(Overshooting') = Cardinality(Overshooting)
<1>1. LET over == {"size", "flush"} IN
      /\ Cardinality(Overshooting) \in Nat
      /\ place[c] \notin over /\ where \in over =>
           Cardinality(Overshooting') = Cardinality(Overshooting) + 1
      /\ place[c] \in over /\ where \notin over =>
           Cardinality(Overshooting') = Cardinality(Overshooting) - 1
      /\ (place[c] \in over <=> where \in over) =>
           Cardinality(Overshooting') = Cardinality(Overshooting)
  BY Recounted DEF Overshooting
<1>2. LET count == {"size", "flush", "count"} IN
      /\ Cardinality(Counting) \in Nat
      /\ place[c] \notin count /\ where \in count =>
           Cardinality(Counting') = Cardinality(Counting) + 1
      /\ place[c] \in count /\ where \notin count =>
           Cardinality(Counting') = Cardinality(Counting) - 1
      /\ (place[c] \in count <=> where \in count) =>
           Cardinality(Counting') = Cardinality(Counting)
  BY Recounted DEF Counting
<1>3. Cardinality(Counting) \in Nat /\ Cardinality(Overshooting) \in Nat
  BY <1>1, <1>2
<1>4. place[c] \in {"idle", "write", "final", "returned"} /\ where = "size" =>
        /\ Cardinality(Counting') = Cardinality(Counting) + 1
        /\ Cardinality(Overshooting') = Cardinality(Overshooting) + 1
  BY <1>1, <1>2
<1>5. place[c] \in {"size", "flush"} /\ where = "flush" =>
        /\ Cardinality(Counting') = Cardinality(Counting)
        /\ Cardinality(Overshooting') = Cardinality(Overshooting)
  BY <1>1, <1>2
<1>6. place[c] \in {"size", "flush"} /\ where = "count" =>
        /\ Cardinality(Counting') = Cardinality(Counting)
        /\ Cardinality(Overshooting') = Cardinality(Overshooting) - 1
  BY <1>1, <1>2
<1>7. place[c] = "count" /\ where \in {"idle", "write", "final", "returned"} =>
        /\ Cardinality(Counting') = Cardinality(Counting) - 1
        /\ Cardinality(Overshooting') = Cardinality(Overshooting)
  BY <1>1, <1>2
<1>8. {place[c], where} \subseteq {"idle", "write", "final", "returned"} =>
        /\ Cardinality(Counting') = Cardinality(Counting)
        /\ Cardinality(Overshooting') = Cardinality(Overshooting)
  BY <1>1, <1>2
<1>. QED BY <1>3, <1>4, <1>5, <1>6, <1>7, <1>8

\* A caller inside a call keeps the writer open.
LEMMA Opened ==
  ASSUME CallInv, NEW c \in Caller, open \/ place[c] # "idle"
  PROVE  open = TRUE
BY DEF CallInv, CallType, ClosedInv

\* A step that neither pushes, counts nor flushes, and does not return a batch.
LEMMA Quiet ==
  ASSUME CallInv, NEW c \in Caller, NEW where \in {"idle", "write", "final"}, Goto(c, where),
         open \/ place[c] # "idle",
         place[c] \in {"idle", "write", "final", "returned"},
         UNCHANGED <<stored, write_buffer_, points_written_, accepted, failures, open>>,
         left' \in [Caller -> Nat], mine' \in [Caller -> SUBSET (1 .. accepted)],
         \A d \in Caller : d # c => mine'[d] = mine[d]
  PROVE  CallInv'
<1>1. /\ CallType /\ CountInv /\ OvershootInv /\ ReturnInv /\ where \in Place
  BY DEF CallInv, Place
<1>2. /\ place' \in [Caller -> Place] /\ place'[c] = where
      /\ \A d \in Caller : d # c => place'[d] = place[d]
  BY <1>1, Moved
<1>3. /\ Cardinality(Counting') = Cardinality(Counting)
      /\ Cardinality(Overshooting') = Cardinality(Overshooting)
  BY <1>1, CountsAfter
<1>4. open' = TRUE
  BY Opened
<1>5. CallType'
  BY <1>2, <1>4 DEF CallType
<1>6. CountInv'
  BY <1>1, <1>3 DEF CountInv
<1>7. OvershootInv'
  BY <1>1, <1>3 DEF OvershootInv
<1>8. ReturnInv'
  BY <1>1, <1>2 DEF ReturnInv
<1>9. ClosedInv'
  BY <1>4 DEF ClosedInv
<1>. QED BY <1>5, <1>6, <1>7, <1>8, <1>9 DEF CallInv

LEMMA BeginCalls ==
  ASSUME CallInv, NEW c \in Caller, NEW n \in Nat, Begin(c, n)
  PROVE  CallInv'
<1>1. /\ open /\ place[c] = "idle" /\ Goto(c, "write")
      /\ left' = [left EXCEPT ![c] = n] /\ mine' = [mine EXCEPT ![c] = {}]
      /\ UNCHANGED <<stored, write_buffer_, points_written_, accepted, failures, open>>
  BY DEF Begin
<1>2. /\ left' \in [Caller -> Nat] /\ mine' \in [Caller -> SUBSET (1 .. accepted)]
      /\ \A d \in Caller : d # c => mine'[d] = mine[d]
  BY <1>1 DEF CallInv, CallType
<1>. QED BY <1>1, <1>2, Quiet

LEMMA NextTickCalls ==
  ASSUME CallInv, NEW c \in Caller, NextTick(c)
  PROVE  /\ left' \in [Caller -> Nat]
         /\ \E where \in {"idle", "write", "final"} : Goto(c, where)
<1>1. left' \in [Caller -> Nat]
  <2>1. left' = [left EXCEPT ![c] = IF @ = 0 THEN 0 ELSE @ - 1]
    BY DEF NextTick
  <2>. QED BY <2>1 DEF CallInv, CallType
<1>2. Goto(c, IF left[c] > 1 THEN "write" ELSE IF left[c] = 1 THEN "final" ELSE "idle")
  BY DEF NextTick, Ended
<1>. QED BY <1>1, <1>2

LEMMA RejectCalls ==
  ASSUME CallInv, NEW c \in Caller, RejectTick(c) \/ RejectThrows(c)
  PROVE  CallInv'
<1>1. /\ place[c] = "write"
      /\ UNCHANGED <<stored, write_buffer_, points_written_, accepted, mine, failures, open>>
  BY DEF RejectTick, RejectThrows
<1>2. mine' \in [Caller -> SUBSET (1 .. accepted)]
  BY <1>1 DEF CallInv, CallType
<1>3. ASSUME RejectTick(c) PROVE CallInv'
  <2>1. /\ left' \in [Caller -> Nat]
        /\ \E where \in {"idle", "write", "final"} : Goto(c, where)
    BY <1>3, NextTickCalls DEF RejectTick
  <2>. QED BY <1>1, <1>2, <2>1, Quiet
<1>4. ASSUME RejectThrows(c) PROVE CallInv'
  <2>1. left' \in [Caller -> Nat] /\ Goto(c, "idle")
    BY <1>4 DEF RejectThrows, CallInv, CallType
  <2>. QED BY <1>1, <1>2, <2>1, Quiet
<1>. QED BY <1>3, <1>4

LEMMA ReturnCalls == ASSUME CallInv, NEW c \in Caller, Return(c) PROVE CallInv'
<1>1. /\ place[c] = "returned" /\ Goto(c, "idle")
      /\ UNCHANGED <<stored, write_buffer_, points_written_, accepted, left, mine, failures, open>>
  BY DEF Return
<1>2. left' \in [Caller -> Nat] /\ mine' \in [Caller -> SUBSET (1 .. accepted)]
  BY <1>1 DEF CallInv, CallType
<1>. QED BY <1>1, <1>2, Quiet

LEMMA PushCalls ==
  ASSUME DataType, CallInv, NEW c \in Caller, PushPoint(c)
  PROVE  CallInv'
<1>1. /\ place[c] = "write" /\ Goto(c, "size") /\ "size" \in Place
      /\ UNCHANGED <<stored, points_written_, left, failures, open>>
      /\ accepted' = accepted + 1
      /\ mine' = [mine EXCEPT ![c] = @ \cup {accepted + 1}]
      /\ write_buffer_' = Append(write_buffer_, accepted + 1)
  BY DEF PushPoint, Place
<1>2. CallType /\ CountInv /\ OvershootInv /\ ReturnInv /\ accepted \in Nat
  BY DEF CallInv, DataType
<1>3. /\ place' \in [Caller -> Place] /\ place'[c] = "size"
      /\ \A d \in Caller : d # c => place'[d] = place[d]
  BY <1>1, <1>2, Moved
<1>4. /\ Cardinality(Counting) \in Nat /\ Cardinality(Overshooting) \in Nat
      /\ Cardinality(Counting') = Cardinality(Counting) + 1
      /\ Cardinality(Overshooting') = Cardinality(Overshooting) + 1
  BY <1>1, <1>2, CountsAfter
<1>5. open' = TRUE
  BY <1>1, Opened
<1>6. mine' \in [Caller -> SUBSET (1 .. accepted')]
  <2>1. 1 .. accepted \subseteq 1 .. accepted' /\ accepted + 1 \in 1 .. accepted'
    BY <1>1, <1>2
  <2>2. \A d \in Caller : mine[d] \subseteq 1 .. accepted'
    BY <1>2, <2>1 DEF CallType
  <2>3. \A d \in Caller : (IF d = c THEN mine[d] \cup {accepted + 1} ELSE mine[d])
                            \in SUBSET (1 .. accepted')
    BY <2>1, <2>2
  <2>4. mine' = [d \in Caller |-> IF d = c THEN mine[d] \cup {accepted + 1} ELSE mine[d]]
    BY <1>1, <1>2 DEF CallType
  <2>. QED BY <2>3, <2>4
<1>7. CallType'
  BY <1>1, <1>2, <1>3, <1>5, <1>6 DEF CallType
<1>8. CountInv'
  <2>1. points_written_' = points_written_ /\ accepted' = accepted + 1
    BY <1>1
  <2>. QED BY <1>2, <1>4, <2>1 DEF CountInv
<1>9. OvershootInv'
  <2>1. Len(write_buffer_') = Len(write_buffer_) + 1 /\ Len(write_buffer_) \in Nat
    BY <1>1 DEF DataType
  <2>. QED BY <1>1, <1>2, <1>4, <2>1, BatchAssumption DEF OvershootInv
<1>10. ReturnInv'
  BY <1>1, <1>2, <1>3 DEF ReturnInv, CallType
<1>11. ClosedInv'
  BY <1>5 DEF ClosedInv
<1>. QED BY <1>7, <1>8, <1>9, <1>10, <1>11 DEF CallInv

LEMMA ReadSizeCalls ==
  ASSUME DataType, CallInv, NEW c \in Caller, ReadSize(c)
  PROVE  CallInv'
<1> DEFINE where == IF FlushDue THEN "flush" ELSE "count"
<1>1. /\ place[c] = "size" /\ Goto(c, where) /\ where \in Place
      /\ UNCHANGED <<stored, write_buffer_, points_written_, accepted, left, mine, failures, open>>
  BY DEF ReadSize, Place
<1>2. CallType /\ CountInv /\ OvershootInv /\ ReturnInv
  BY DEF CallInv
<1>3. /\ place' \in [Caller -> Place] /\ place'[c] = where
      /\ \A d \in Caller : d # c => place'[d] = place[d]
  BY <1>1, <1>2, Moved
<1>4. /\ Cardinality(Counting) \in Nat /\ Cardinality(Overshooting) \in Nat
      /\ Cardinality(Counting') = Cardinality(Counting)
      /\ where = "flush" => Cardinality(Overshooting') = Cardinality(Overshooting)
      /\ where = "count" => Cardinality(Overshooting') = Cardinality(Overshooting) - 1
  BY <1>1, <1>2, CountsAfter
<1>5. open' = TRUE
  BY <1>1, Opened
<1>6. CallType'
  BY <1>1, <1>2, <1>3, <1>5 DEF CallType
<1>7. CountInv'
  BY <1>1, <1>2, <1>4 DEF CountInv
<1>8. OvershootInv'
  <2>1. Len(write_buffer_) \in Nat /\ BATCH_SIZE \in Nat
    BY BatchAssumption DEF DataType
  <2>2. Cardinality(Overshooting') \in Nat
    <3>1. Cardinality(At({"size", "flush"})) \in Nat
      BY <1>2, <1>1, Recounted
    <3>2. CASE FlushDue
      BY <1>4, <3>2
    <3>3. CASE ~FlushDue
      <4>1. Overshooting' = Overshooting \ {c} /\ c \in Overshooting
        BY <1>1, <1>3, <3>3 DEF Overshooting, At
      <4>2. IsFiniteSet(Overshooting)
        BY CallerAssumption, FS_Subset DEF Overshooting, At
      <4>3. IsFiniteSet(Overshooting')
        BY <4>1, <4>2, FS_RemoveElement
      <4>. QED BY <4>3, FS_CardinalityType
    <3>. QED BY <3>2, <3>3
  <2>3. CASE FlushDue
    BY <1>1, <1>2, <1>4, <2>3 DEF OvershootInv
  <2>4. CASE ~FlushDue
    <3>1. Len(write_buffer_) =< BATCH_SIZE - 1
      BY <2>1, <2>4 DEF FlushDue
    <3>. QED BY <1>1, <2>1, <2>2, <3>1 DEF OvershootInv
  <2>. QED BY <2>3, <2>4
<1>9. ReturnInv'
  BY <1>1, <1>2, <1>3 DEF ReturnInv
<1>10. ClosedInv'
  BY <1>5 DEF ClosedInv
<1>. QED BY <1>6, <1>7, <1>8, <1>9, <1>10 DEF CallInv

LEMMA CountCalls == ASSUME CallInv, NEW c \in Caller, CountPoint(c) PROVE CallInv'
<1>1. /\ place[c] = "count" /\ points_written_' = points_written_ + 1
      /\ UNCHANGED <<stored, write_buffer_, accepted, mine, failures, open>>
  BY DEF CountPoint, CountAfter
<1>2. CallType /\ CountInv /\ OvershootInv /\ ReturnInv
  BY DEF CallInv
<1>3. left' \in [Caller -> Nat]
  BY NextTickCalls DEF CountPoint
<1> PICK where \in {"idle", "write", "final"} : Goto(c, where)
  BY NextTickCalls DEF CountPoint
<1>4. where \in Place
  BY DEF Place
<1>5. /\ place' \in [Caller -> Place] /\ place'[c] = where
      /\ \A d \in Caller : d # c => place'[d] = place[d]
  BY <1>2, <1>4, Moved
<1>6. /\ Cardinality(Counting) \in Nat
      /\ Cardinality(Counting') = Cardinality(Counting) - 1
      /\ Cardinality(Overshooting') = Cardinality(Overshooting)
  BY <1>1, <1>2, <1>4, CountsAfter
<1>7. open' = TRUE
  BY <1>1, Opened
<1>8. CallType'
  BY <1>1, <1>2, <1>3, <1>5, <1>7 DEF CallType
<1>9. CountInv'
  BY <1>1, <1>2, <1>6 DEF CountInv
<1>10. OvershootInv'
  BY <1>1, <1>2, <1>6 DEF OvershootInv
<1>11. ReturnInv'
  BY <1>1, <1>2, <1>5 DEF ReturnInv
<1>12. ClosedInv'
  BY <1>7 DEF ClosedInv
<1>. QED BY <1>8, <1>9, <1>10, <1>11, <1>12 DEF CallInv

\* While nothing fails, a flush empties the buffer into the database.
LEMMA Flushed ==
  ASSUME DataType, BatchInv, flush, CallType
  PROVE  /\ failures' = 0 => /\ failures = 0 /\ write_buffer_' = <<>>
                             /\ stored \subseteq stored'
                             /\ Elements(write_buffer_) \subseteq stored'
         /\ OvershootInv'
         /\ failures' = 0 /\ CleanInv => 1 .. accepted \subseteq stored'
<1>1. failures' = 0 => FlushSucceeds
  <2>1. FlushFails => failures' # 0
    BY FailedFlush
  <2>. QED BY <2>1 DEF flush
<1>2. failures' = 0 => /\ failures = 0 /\ write_buffer_' = <<>>
                       /\ stored \subseteq stored'
                       /\ Elements(write_buffer_) \subseteq stored'
  BY <1>1, SuccessfulFlush
<1>3. failures' = 0 /\ CleanInv => 1 .. accepted \subseteq stored'
  BY <1>2 DEF CleanInv
<1>4. Cardinality(Overshooting') \in Nat
  <2>1. Overshooting' \in SUBSET Caller
    BY DEF Overshooting, At
  <2>. QED BY <2>1, CallerAssumption, FS_Subset, FS_CardinalityType
<1>5. OvershootInv'
  <2>1. Len(<<>>) = 0
    BY EmptySeq
  <2>. QED BY <1>2, <1>4, <2>1, BatchAssumption DEF OvershootInv
<1>. QED BY <1>2, <1>3, <1>5

LEMMA FlushIfNeededCalls ==
  ASSUME DataInv, CallInv, NEW c \in Caller, FlushIfNeeded(c)
  PROVE  CallInv'
<1>1. /\ place[c] = "flush" /\ Goto(c, "count") /\ "count" \in Place /\ flush
      /\ UNCHANGED <<points_written_, accepted, left, mine, open>>
  BY DEF FlushIfNeeded, Place
<1>2. CallType /\ CountInv /\ OvershootInv /\ ReturnInv /\ DataType /\ BatchInv
  BY DEF CallInv, DataInv
<1>3. /\ place' \in [Caller -> Place] /\ place'[c] = "count"
      /\ \A d \in Caller : d # c => place'[d] = place[d]
  BY <1>1, <1>2, Moved
<1>4. /\ Cardinality(Counting) \in Nat
      /\ Cardinality(Counting') = Cardinality(Counting)
  BY <1>1, <1>2, CountsAfter
<1>5. open' = TRUE
  BY <1>1, Opened
<1>6. CallType'
  BY <1>1, <1>2, <1>3, <1>5 DEF CallType
<1>7. CountInv'
  BY <1>1, <1>2, <1>4 DEF CountInv
<1>8. OvershootInv' /\ (failures' = 0 => failures = 0 /\ stored \subseteq stored')
  BY <1>1, <1>2, Flushed
<1>9. ReturnInv'
  BY <1>1, <1>2, <1>3, <1>8 DEF ReturnInv
<1>10. ClosedInv'
  BY <1>5 DEF ClosedInv
<1>. QED BY <1>6, <1>7, <1>8, <1>9, <1>10 DEF CallInv

LEMMA FinalFlushCalls ==
  ASSUME DataInv, CallInv, NEW c \in Caller, FinalFlush(c)
  PROVE  CallInv'
<1>1. /\ place[c] = "final" /\ Goto(c, "returned") /\ "returned" \in Place /\ flush
      /\ UNCHANGED <<points_written_, accepted, left, mine, open>>
  BY DEF FinalFlush, Place
<1>2. CallType /\ CountInv /\ OvershootInv /\ ReturnInv /\ DataType /\ BatchInv
  BY DEF CallInv, DataInv
<1>3. /\ place' \in [Caller -> Place] /\ place'[c] = "returned"
      /\ \A d \in Caller : d # c => place'[d] = place[d]
  BY <1>1, <1>2, Moved
<1>4. /\ Cardinality(Counting) \in Nat
      /\ Cardinality(Counting') = Cardinality(Counting)
  BY <1>1, <1>2, CountsAfter
<1>5. open' = TRUE
  BY <1>1, Opened
<1>6. CallType'
  BY <1>1, <1>2, <1>3, <1>5 DEF CallType
<1>7. CountInv'
  BY <1>1, <1>2, <1>4 DEF CountInv
<1>8. OvershootInv' /\ (failures' = 0 => failures = 0 /\ 1 .. accepted \subseteq stored')
  BY <1>1, <1>2, Flushed DEF DataInv
<1>9. ReturnInv'
  <2>1. \A d \in Caller : mine[d] \subseteq 1 .. accepted /\ mine'[d] = mine[d]
    BY <1>1, <1>2 DEF CallType
  <2>2. failures' = 0 => \A d \in Caller : mine'[d] \subseteq stored'
    BY <1>8, <2>1
  <2>. QED BY <2>2 DEF ReturnInv
<1>10. ClosedInv'
  BY <1>5 DEF ClosedInv
<1>. QED BY <1>6, <1>7, <1>8, <1>9, <1>10 DEF CallInv

LEMMA DestroyCalls == ASSUME DataInv, CallInv, Destroy PROVE CallInv'
<1>1. /\ \A c \in Caller : place[c] = "idle"
      /\ flush /\ open' = FALSE
      /\ UNCHANGED <<points_written_, accepted, place, left, mine>>
  BY DEF Destroy
<1>2. CallType /\ CountInv /\ OvershootInv /\ ReturnInv /\ DataType /\ BatchInv
  BY DEF CallInv, DataInv
<1>3. CallType'
  BY <1>1, <1>2 DEF CallType
<1>4. CountInv'
  <2>1. Counting' = Counting
    BY <1>1 DEF Counting, At
  <2>. QED BY <1>1, <1>2, <2>1 DEF CountInv
<1>5. OvershootInv' /\ (failures' = 0 => failures = 0 /\ 1 .. accepted \subseteq stored')
  BY <1>1, <1>2, Flushed DEF DataInv
<1>6. ReturnInv'
  BY <1>1 DEF ReturnInv
<1>7. ClosedInv'
  BY <1>1, <1>5 DEF ClosedInv
<1>. QED BY <1>3, <1>4, <1>5, <1>6, <1>7 DEF CallInv

LEMMA CallsResting == ASSUME CallInv, UNCHANGED vars PROVE CallInv'
<1>1. UNCHANGED <<stored, write_buffer_, points_written_, accepted, place, left, mine, failures,
                  open>>
  BY DEF vars
<1>2. Counting' = Counting /\ Overshooting' = Overshooting
  BY <1>1 DEF Counting, Overshooting, At
<1>3. CallType' /\ ReturnInv' /\ ClosedInv'
  BY <1>1 DEF CallInv, CallType, ReturnInv, ClosedInv
<1>4. CountInv' /\ OvershootInv'
  BY <1>1, <1>2 DEF CallInv, CountInv, OvershootInv
<1>. QED BY <1>3, <1>4 DEF CallInv

LEMMA CallStep == ASSUME DataInv, CallInv, [Next]_vars PROVE CallInv'
<1>1. DataType
  BY DEF DataInv
<1>2. ASSUME NEW c \in Caller, write_tick(c) \/ write_batch(c) PROVE CallInv'
  <2>1. \E n \in Nat : Begin(c, n)
    BY <1>2, BatchAssumption DEF write_tick, write_batch
  <2>. QED BY <2>1, BeginCalls
<1>3. ASSUME NEW c \in Caller, InCall(c) PROVE CallInv'
  BY <1>1, <1>3, PushCalls, RejectCalls, ReadSizeCalls, FlushIfNeededCalls, CountCalls,
     FinalFlushCalls, ReturnCalls DEF InCall
<1>. QED BY <1>2, <1>3, DestroyCalls, CallsResting DEF Next

-----------------------------------------------------------------------------
\* The theorems.

LEMMA InitInv == Init => DataInv /\ CallInv
<1> SUFFICES ASSUME Init PROVE DataInv /\ CallInv
  OBVIOUS
<1>1. /\ client \in [moves : BOOLEAN, keeps : BOOLEAN]
      /\ client_batch = <<>> /\ stored = {} /\ write_buffer_ = <<>>
      /\ points_written_ = 0 /\ accepted = 0 /\ failures = 0 /\ open = TRUE
      /\ place = [c \in Caller |-> "idle"] /\ left = [c \in Caller |-> 0]
      /\ mine = [c \in Caller |-> {}]
  BY DEF Init
<1>2. <<>> \in Seq(Point) /\ Len(<<>>) = 0 /\ 1 .. accepted = {}
  BY <1>1, EmptySeq
<1>3. DataType
  BY <1>1, <1>2, BoundAssumption DEF DataType
<1>4. BatchInv /\ LossNeedsABadClient /\ CleanInv
  BY <1>1, <1>2 DEF BatchInv, LossNeedsABadClient, CleanInv
<1>5. CallType
  BY <1>1 DEF CallType, Place
<1>6. Counting = {} /\ Overshooting = {}
  BY <1>1 DEF Counting, Overshooting, At
<1>7. CountInv /\ OvershootInv
  BY <1>1, <1>2, <1>6, FS_EmptySet, BatchAssumption DEF CountInv, OvershootInv
<1>8. ReturnInv /\ ClosedInv
  BY <1>1 DEF ReturnInv, ClosedInv
<1>. QED BY <1>3, <1>4, <1>5, <1>7, <1>8 DEF DataInv, CallInv

LEMMA Invariance == Spec => [](DataInv /\ CallInv)
<1>1. DataInv /\ CallInv /\ [Next]_vars => (DataInv /\ CallInv)'
  BY DataStep, CallStep
<1>. QED BY InitInv, <1>1, PTL DEF Spec

\* Whatever fails, however often and in whatever order the callers run, a
\* point is lost only by a client that both empties the points it is given
\* and drops the batch it could not send (the exception path of flush()).
THEOREM PointsAreKept == Spec => []LossNeedsABadClient
<1>1. DataInv /\ CallInv => LossNeedsABadClient
  BY DEF DataInv
<1>. QED BY Invariance, <1>1, PTL

\* While no flush fails, the buffer holds at most BATCH_SIZE - 1 points and
\* one for each caller, although the size is read and the flush made under
\* two separate locks (flush_if_needed()); and the counter of points written
\* never runs ahead of the points pushed.
THEOREM BufferIsBounded == Spec => []BufferStaysBounded
<1>1. DataInv /\ CallInv => BufferStaysBounded
  <2> SUFFICES ASSUME DataInv, CallInv PROVE BufferStaysBounded
    OBVIOUS
  <2>1. DataType /\ CallType /\ CountInv /\ OvershootInv
    BY DEF DataInv, CallInv
  <2>2. /\ Counting \in SUBSET Caller /\ Overshooting \in SUBSET Caller
    BY DEF Counting, Overshooting, At
  <2>3. /\ Cardinality(Counting) \in Nat /\ Cardinality(Overshooting) \in Nat
        /\ Cardinality(Caller) \in Nat /\ Cardinality(Overshooting) =< Cardinality(Caller)
    BY <2>2, CallerAssumption, FS_Subset, FS_CardinalityType
  <2>4. points_written_ \in 0 .. accepted
    BY <2>1, <2>3 DEF CountInv, DataType
  <2>5. TypeOK
    BY <2>1, <2>4 DEF TypeOK, DataType, CallType, Point, Place
  <2>6. Len(write_buffer_) \in Nat
    BY <2>1 DEF DataType
  <2>7. failures = 0 => Len(write_buffer_) =< BATCH_SIZE - 1 + Cardinality(Caller)
    BY <2>1, <2>3, <2>6, BatchAssumption DEF OvershootInv
  <2>. QED BY <2>5, <2>7 DEF BufferStaysBounded
<1>. QED BY Invariance, <1>1, PTL

\* While no flush fails, a write_batch() that returns has stored its points,
\* whatever the other callers push and flush meanwhile, and the destructor
\* leaves none behind.
THEOREM BatchesArePersisted == Spec => []BatchIsPersisted
<1>1. DataInv /\ CallInv => BatchIsPersisted
  BY DEF CallInv, ReturnInv, ClosedInv, BatchIsPersisted
<1>. QED BY Invariance, <1>1, PTL

=============================================================================
