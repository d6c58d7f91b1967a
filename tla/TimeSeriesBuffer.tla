-------------------------- MODULE TimeSeriesBuffer --------------------------
(***************************************************************************)
(* The ring buffer between the processed-tick consumer, which pushes, and  *)
(* the main thread, which drains it into InfluxDB                          *)
(* (src/storage/timeseries_buffer.cpp).  Every operation holds mutex_ from *)
(* its first statement to its last, so each is one action.                 *)
(***************************************************************************)
EXTENDS Integers, Sequences

CONSTANTS Tick,       \* the ticks that may be pushed
          Null,       \* a JSON null: a slot never written, or moved from
          Capacity,   \* capacity_, the constructor's argument
          MaxItems,   \* the values callers pass as drain's max_items
          MaxPushes   \* bound on the number of pushes

ASSUME CapacityAssumption == Capacity \in Nat \ {0}
ASSUME TickAssumption == Null \notin Tick
ASSUME MaxItemsAssumption == MaxItems \subseteq Nat

VARIABLES buffer_,            \* the slots
          head_,              \* next slot to write
          tail_,              \* next slot to read
          count_,             \* ticks held
          total_pushed_,      \* diagnostic counters
          total_overwritten_,
          output,             \* the vector drain() appends to
          pushed,             \* history: every tick pushed, in order
          cleared             \* history: how many ticks clear() discarded

vars == <<buffer_, head_, tail_, count_, total_pushed_, total_overwritten_,
          output, pushed, cleared>>

Slots == 0 .. Capacity - 1

Init ==
  /\ buffer_ = [s \in Slots |-> Null]
  /\ head_ = 0 /\ tail_ = 0 /\ count_ = 0
  /\ total_pushed_ = 0 /\ total_overwritten_ = 0
  /\ output = <<>> /\ pushed = <<>> /\ cleared = 0

\* The slot n places after s.
Advance(s, n) == (s + n) % Capacity

Full == count_ = Capacity

-----------------------------------------------------------------------------
\* Mutation: an overflow counts the overwrite but leaves the tail in place.
TailAfterPush_Stuck == tail_
TailAfterPush == IF Full THEN Advance(tail_, 1) ELSE tail_

CountAfterPush == IF Full THEN count_ ELSE count_ + 1

\* Mutation: the overflow is not counted.
OverwrittenAfterPush_Silent == total_overwritten_
OverwrittenAfterPush ==
  IF Full THEN total_overwritten_ + 1 ELSE total_overwritten_

Push(tick) ==
  /\ total_pushed_ < MaxPushes
  /\ tail_' = TailAfterPush
  /\ count_' = CountAfterPush
  /\ total_overwritten_' = OverwrittenAfterPush
  /\ buffer_' = [buffer_ EXCEPT ![head_] = tick]
  /\ head_' = Advance(head_, 1)
  /\ total_pushed_' = total_pushed_ + 1
  /\ pushed' = Append(pushed, tick)
  /\ UNCHANGED <<output, cleared>>

\* The n oldest ticks, in the order the loop of drain() moves them out.
Oldest(n) == [i \in 1 .. n |-> buffer_[Advance(tail_, i - 1)]]

\* An empty buffer makes drain() return early and changes nothing.
Drain(max_items) ==
  LET to_drain == IF max_items < count_ THEN max_items ELSE count_ IN
  /\ count_ > 0
  /\ output' = output \o Oldest(to_drain)
  /\ buffer_' = [s \in Slots |->
                   IF \E i \in 0 .. to_drain - 1 : s = Advance(tail_, i)
                   THEN Null ELSE buffer_[s]]
  /\ tail_' = Advance(tail_, to_drain)
  /\ count_' = count_ - to_drain
  /\ UNCHANGED <<head_, total_pushed_, total_overwritten_, pushed, cleared>>

TailAfterClear == 0

\* The slots keep their contents; only the indices are reset.
Clear ==
  /\ head_' = 0
  /\ tail_' = TailAfterClear
  /\ count_' = 0
  /\ cleared' = cleared + count_
  /\ UNCHANGED <<buffer_, total_pushed_, total_overwritten_, output, pushed>>

Next == \/ \E tick \in Tick : Push(tick)
        \/ \E m \in MaxItems : Drain(m)
        \/ Clear

Spec == Init /\ [][Next]_vars

-----------------------------------------------------------------------------
TypeOK ==
  /\ buffer_ \in [Slots -> Tick \cup {Null}]
  /\ head_ \in Slots /\ tail_ \in Slots /\ count_ \in 0 .. Capacity
  /\ total_pushed_ \in Nat /\ total_overwritten_ \in Nat /\ cleared \in Nat
  /\ output \in Seq(Tick) /\ pushed \in Seq(Tick)

(***************************************************************************)
(* The write index is count_ places after the read index: push() and       *)
(* drain() move two indices independently and nothing in the code compares *)
(* them.                                                                   *)
(***************************************************************************)
IndicesAgree == head_ = Advance(tail_, count_)

(***************************************************************************)
(* Whatever was overwritten, drained or cleared before, the slots read     *)
(* from tail_ hold exactly the newest count_ ticks pushed, oldest first:   *)
(* an overflow costs the oldest tick and no other ("recent data is always  *)
(* more valuable than old").                                               *)
(***************************************************************************)
HoldsNewest ==
  /\ count_ =< Len(pushed)
  /\ \A k \in 0 .. count_ - 1 :
       buffer_[Advance(tail_, k)] = pushed[Len(pushed) - count_ + k + 1]

(***************************************************************************)
(* Every tick pushed is held, was handed to a drain, was discarded by      *)
(* clear(), or is counted by total_overwritten(): the health log's         *)
(* "buffer overwrites" is the exact loss.                                  *)
(***************************************************************************)
LossIsCounted ==
  total_pushed_ = count_ + Len(output) + cleared + total_overwritten_

\* The abstract queue the ring represents.
Held == Oldest(count_)

Abstract == INSTANCE DropOldestQueue WITH queue <- Held

(***************************************************************************)
(* The ring implements the drop-oldest queue: push, drain and clear do to  *)
(* the ticks held what their abstract counterparts do.                     *)
(***************************************************************************)
ImplementsQueue == Abstract!Spec
=============================================================================
