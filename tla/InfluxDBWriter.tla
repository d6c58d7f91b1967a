--------------------------- MODULE InfluxDBWriter ---------------------------
(***************************************************************************)
(* The database writer (src/storage/influxdb_writer.{hpp,cpp}): callers    *)
(* append points to write_buffer_ under buffer_mutex_; flush() hands them  *)
(* to the client library and has it send them.  The library is external.   *)
(* Two things about it the writer cannot know are chosen at the start:     *)
(* whether its write(Point&&) empties the point it is given, and whether   *)
(* it keeps a batch it failed to send.  A point is stamped when it is      *)
(* built, so the server stores it once however often it is sent.           *)
(***************************************************************************)
EXTENDS Integers, Sequences, FiniteSets

CONSTANTS Caller,      \* threads that use the writer
          BATCH_SIZE,
          Husk,        \* what is left of a point the client has emptied
          BatchSizes,  \* how many ticks callers pass to write_batch()
          MaxPoints,   \* bound on the number of points accepted
          MaxFailures  \* bound on the number of failed flushes

ASSUME HuskAssumption == Husk \notin Nat
ASSUME BatchAssumption == BATCH_SIZE \in Nat \ {0} /\ BatchSizes \subseteq Nat
ASSUME CallerAssumption == IsFiniteSet(Caller)
ASSUME BoundAssumption == MaxPoints \in Nat /\ MaxFailures \in Nat

VARIABLES
  client,        \* [moves, keeps]: the behaviour of the library
  client_batch,  \* the points the library has taken and not sent
  stored,        \* the points in the database
  write_buffer_,
  points_written_,
  accepted,      \* how many points were built; point n is the n-th
  place,         \* where each caller is
  left,          \* ticks its write_batch() has still to write, 0 in write_tick()
  mine,          \* the points of its current or last call
  failures,      \* how many flushes failed
  open           \* FALSE once the destructor has run

vars == <<client, client_batch, stored, write_buffer_, points_written_,
          accepted, place, left, mine, failures, open>>

Init ==
  /\ client \in [moves : BOOLEAN, keeps : BOOLEAN]
  /\ client_batch = <<>> /\ stored = {} /\ write_buffer_ = <<>>
  /\ points_written_ = 0 /\ accepted = 0 /\ failures = 0 /\ open = TRUE
  /\ place = [c \in Caller |-> "idle"]
  /\ left = [c \in Caller |-> 0]
  /\ mine = [c \in Caller |-> {}]

Elements(s) == {s[i] : i \in 1 .. Len(s)}
Goto(c, where) == place' = [place EXCEPT ![c] = where]

-----------------------------------------------------------------------------
(* flush(), one critical section.                                          *)

FlushSucceeds ==
  /\ stored' = IF write_buffer_ = <<>> THEN stored
               ELSE stored \cup Elements(client_batch) \cup Elements(write_buffer_)
  /\ client_batch' = IF write_buffer_ = <<>> THEN client_batch ELSE <<>>
  /\ write_buffer_' = <<>>
  /\ UNCHANGED failures

\* Mutation: the buffer is cleared whether or not the points were sent.
AfterFailure_Cleared(taken) == <<>>
\* An exception skips the clear(): the points stay, emptied or not.
AfterFailure(taken) ==
  [i \in 1 .. Len(write_buffer_) |->
     IF i =< taken /\ client.moves THEN Husk ELSE write_buffer_[i]]

\* The client throws after taking some of the points and sending some of
\* those it then holds; flush() logs the exception and returns normally.
FlushFails ==
  /\ failures < MaxFailures /\ write_buffer_ # <<>>
  /\ failures' = failures + 1
  /\ \E taken \in 1 .. Len(write_buffer_) :
       LET held == client_batch \o SubSeq(write_buffer_, 1, taken) IN
       \E sent \in 0 .. Len(held) :
         /\ stored' = stored \cup Elements(SubSeq(held, 1, sent))
         /\ client_batch' = IF client.keeps
                            THEN SubSeq(held, sent + 1, Len(held)) ELSE <<>>
         /\ write_buffer_' = AfterFailure(taken)

flush == FlushSucceeds \/ FlushFails

-----------------------------------------------------------------------------
(* write_tick() and write_batch().                                         *)

Begin(c, n) ==
  /\ open /\ place[c] = "idle"
  /\ left' = [left EXCEPT ![c] = n]
  /\ mine' = [mine EXCEPT ![c] = {}]
  /\ Goto(c, "write")
  /\ UNCHANGED <<client, client_batch, stored, write_buffer_, points_written_,
                 accepted, failures, open>>

write_tick(c) == Begin(c, 0)
write_batch(c) == \E n \in BatchSizes \ {0} : Begin(c, n)

PushPoint(c) ==
  /\ place[c] = "write" /\ accepted < MaxPoints
  /\ accepted' = accepted + 1
  /\ write_buffer_' = Append(write_buffer_, accepted + 1)
  /\ mine' = [mine EXCEPT ![c] = @ \cup {accepted + 1}]
  /\ Goto(c, "size")
  /\ UNCHANGED <<client, client_batch, stored, points_written_, left, failures,
                 open>>

\* Mutation: write_batch() returns without the flush at its end.
Ended_Unflushed == "returned"
Ended == "final"

\* The next tick of the batch, or the end of the call.
NextTick(c) ==
  /\ left' = [left EXCEPT ![c] = IF @ = 0 THEN 0 ELSE @ - 1]
  /\ Goto(c, IF left[c] > 1 THEN "write"
             ELSE IF left[c] = 1 THEN Ended ELSE "idle")

\* A tick without ticker or price, or whose point cannot be built.
RejectTick(c) ==
  /\ place[c] = "write"
  /\ NextTick(c)
  /\ UNCHANGED <<client, client_batch, stored, write_buffer_, points_written_,
                 accepted, mine, failures, open>>

\* The ticker is not a string: build_point() throws, and so does the handler
\* that reads the ticker for its message.  The exception leaves write_tick()
\* and write_batch(), which then makes no final flush.
RejectThrows(c) ==
  /\ place[c] = "write"
  /\ left' = [left EXCEPT ![c] = 0]
  /\ Goto(c, "idle")
  /\ UNCHANGED <<client, client_batch, stored, write_buffer_, points_written_,
                 accepted, mine, failures, open>>

\* Mutation: one point more is let in before a flush is due.
FlushDue_Late == Len(write_buffer_) > BATCH_SIZE
FlushDue == Len(write_buffer_) >= BATCH_SIZE

\* flush_if_needed() reads the size and releases the lock.
ReadSize(c) ==
  /\ place[c] = "size"
  /\ Goto(c, IF FlushDue THEN "flush" ELSE "count")
  /\ UNCHANGED <<client, client_batch, stored, write_buffer_, points_written_,
                 accepted, left, mine, failures, open>>

FlushIfNeeded(c) ==
  /\ place[c] = "flush"
  /\ flush
  /\ Goto(c, "count")
  /\ UNCHANGED <<client, points_written_, accepted, left, mine, open>>

CountAfter == points_written_ + 1

CountPoint(c) ==
  /\ place[c] = "count"
  /\ points_written_' = CountAfter
  /\ NextTick(c)
  /\ UNCHANGED <<client, client_batch, stored, write_buffer_, accepted, mine,
                 failures, open>>

\* write_batch() forces a flush and returns the number of points it pushed.
FinalFlush(c) ==
  /\ place[c] = "final"
  /\ flush
  /\ Goto(c, "returned")
  /\ UNCHANGED <<client, points_written_, accepted, left, mine, open>>

Return(c) ==
  /\ place[c] = "returned"
  /\ Goto(c, "idle")
  /\ UNCHANGED <<client, client_batch, stored, write_buffer_, points_written_,
                 accepted, left, mine, failures, open>>

\* The destructor flushes once more; nobody may be inside a call.
Destroy ==
  /\ open /\ \A c \in Caller : place[c] = "idle"
  /\ flush
  /\ open' = FALSE
  /\ UNCHANGED <<client, points_written_, accepted, place, left, mine>>

Terminated == ~open

-----------------------------------------------------------------------------
InCall(c) == \/ PushPoint(c) \/ RejectTick(c) \/ RejectThrows(c) \/ ReadSize(c)
             \/ FlushIfNeeded(c) \/ CountPoint(c) \/ FinalFlush(c) \/ Return(c)

Next == \/ \E c \in Caller : write_tick(c) \/ write_batch(c) \/ InCall(c)
        \/ Destroy
        \/ Terminated /\ UNCHANGED vars

Spec == Init /\ [][Next]_vars

-----------------------------------------------------------------------------
TypeOK ==
  /\ client \in [moves : BOOLEAN, keeps : BOOLEAN]
  /\ accepted \in 0 .. MaxPoints /\ points_written_ \in 0 .. accepted
  /\ client_batch \in Seq(1 .. accepted \cup {Husk})
  /\ write_buffer_ \in Seq(1 .. accepted \cup {Husk})
  /\ stored \subseteq 1 .. accepted \cup {Husk}
  /\ place \in [Caller -> {"idle", "write", "size", "flush", "count", "final",
                           "returned"}]
  /\ left \in [Caller -> Nat] /\ mine \in [Caller -> SUBSET (1 .. accepted)]
  /\ failures \in 0 .. MaxFailures /\ open \in BOOLEAN

(***************************************************************************)
(* A failed flush loses a point only with a client that both empties the   *)
(* points it is given and drops the batch it could not send: in every      *)
(* other case each point accepted is in the database, with the client, or  *)
(* in the buffer for the next flush.                                       *)
(***************************************************************************)
LossNeedsABadClient ==
  (client.keeps \/ ~client.moves) =>
    1 .. accepted \subseteq
      stored \cup Elements(client_batch) \cup Elements(write_buffer_)

(***************************************************************************)
(* The size is read and the flush made under two separate locks; still,    *)
(* while no flush fails, the buffer never exceeds the batch size by more   *)
(* than one point for each other caller.                                   *)
(***************************************************************************)
BufferStaysBounded ==
  /\ TypeOK
  /\ failures = 0 =>
       Len(write_buffer_) =< BATCH_SIZE - 1 + Cardinality(Caller)

(***************************************************************************)
(* While no flush fails, a write_batch() that returns has stored every     *)
(* point it accepted, although other callers flush, and push, in between   *)
(* ("Force a flush after a batch write to ensure all points are            *)
(* persisted"), and a clean shutdown loses none, those of a batch that an  *)
(* exception cut short included.                                           *)
(***************************************************************************)
BatchIsPersisted ==
  failures = 0 =>
    /\ \A c \in Caller : place[c] = "returned" => mine[c] \subseteq stored
    /\ ~open => 1 .. accepted \subseteq stored
=============================================================================
