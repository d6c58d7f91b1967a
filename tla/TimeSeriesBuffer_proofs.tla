----------------------- MODULE TimeSeriesBuffer_proofs -----------------------
(***************************************************************************)
(* For every capacity, every set of ticks and every drain size: the ring   *)
(* keeps its type, holds the newest ticks, accounts for every tick, and    *)
(* implements the drop-oldest queue.                                       *)
(***************************************************************************)
EXTENDS TimeSeriesBuffer, TLAPS

\* Advancing by at most a whole turn wraps at most once.
LEMMA AdvanceWraps ==
  ASSUME NEW s \in Slots, NEW n \in 0 .. Capacity
  PROVE  Advance(s, n) = IF s + n < Capacity THEN s + n ELSE s + n - Capacity
<1> USE CapacityAssumption DEF Slots, Advance
<1>1. CASE s + n < Capacity
  BY <1>1
<1>2. CASE ~(s + n < Capacity)
  <2>1. (s + n) = Capacity * 1 + (s + n - Capacity)
    OBVIOUS
  <2>2. s + n - Capacity \in 0 .. Capacity - 1
    BY <1>2
  <2>. QED BY <2>1, <2>2, <1>2
<1>. QED BY <1>1, <1>2

LEMMA AdvanceInSlots ==
  ASSUME NEW s \in Slots, NEW n \in 0 .. Capacity
  PROVE  Advance(s, n) \in Slots
BY AdvanceWraps, CapacityAssumption DEF Slots

\* The indices of the ticks held, and of the slot after them, are distinct.
LEMMA AdvanceInjective ==
  ASSUME NEW s \in Slots, NEW m \in 0 .. Capacity - 1, NEW n \in 0 .. Capacity - 1,
         Advance(s, m) = Advance(s, n)
  PROVE  m = n
BY AdvanceWraps, CapacityAssumption DEF Slots

\* Advancing twice is advancing by the sum.
LEMMA AdvanceTwice ==
  ASSUME NEW s \in Slots, NEW m \in 0 .. Capacity, NEW n \in 0 .. Capacity,
         m + n =< Capacity
  PROVE  Advance(Advance(s, m), n) = Advance(s, m + n)
<1>1. Advance(s, m) \in Slots
  BY AdvanceInSlots
<1>2. m + n \in 0 .. Capacity
  BY CapacityAssumption
<1>. QED BY AdvanceWraps, <1>1, <1>2, CapacityAssumption DEF Slots

-----------------------------------------------------------------------------
\* A push leaves the indices in range and in agreement.
LEMMA PushIndices ==
  ASSUME TypeOK, IndicesAgree, NEW tick \in Tick, Push(tick)
  PROVE  /\ head_' \in Slots /\ tail_' \in Slots /\ count_' \in 0 .. Capacity
         /\ IndicesAgree'
<1> USE CapacityAssumption
<1>1. /\ head_ \in Slots /\ tail_ \in Slots /\ count_ \in 0 .. Capacity
      /\ 1 \in 0 .. Capacity /\ 0 \in Slots
      /\ head_' = Advance(head_, 1) /\ head_ = Advance(tail_, count_)
  BY DEF TypeOK, Push, IndicesAgree, Slots
<1>2. head_' \in Slots
  BY <1>1, AdvanceInSlots
<1>3. CASE count_ = Capacity
  <2>1. tail_' = Advance(tail_, 1) /\ count_' = Capacity
    BY <1>3 DEF Push, TailAfterPush, CountAfterPush, Full
  <2>2. tail_' \in Slots
    BY <1>1, <2>1, AdvanceInSlots
  <2>3. head_ = tail_
    BY <1>1, <1>3, AdvanceWraps DEF Slots
  <2>4. Advance(tail_', Capacity) = tail_'
    BY <2>2, AdvanceWraps DEF Slots
  <2>. QED BY <1>1, <1>2, <2>1, <2>2, <2>3, <2>4 DEF IndicesAgree
<1>4. CASE count_ # Capacity
  <2>1. tail_' = tail_ /\ count_' = count_ + 1
    BY <1>4 DEF Push, TailAfterPush, CountAfterPush, Full
  <2>2. count_ + 1 \in 0 .. Capacity
    BY <1>1, <1>4
  <2>3. Advance(Advance(tail_, count_), 1) = Advance(tail_, count_ + 1)
    BY <1>1, <2>2, AdvanceTwice
  <2>. QED BY <1>1, <1>2, <2>1, <2>2, <2>3 DEF IndicesAgree
<1>. QED BY <1>3, <1>4

\* A push adds the new tick behind the others and costs at most the oldest.
LEMMA PushHolds ==
  ASSUME TypeOK, IndicesAgree, HoldsNewest, NEW tick \in Tick, Push(tick)
  PROVE  HoldsNewest'
<1> USE CapacityAssumption
<1>1. /\ Len(pushed') = Len(pushed) + 1
      /\ pushed'[Len(pushed')] = tick
      /\ \A i \in 1 .. Len(pushed) : pushed'[i] = pushed[i]
  BY DEF TypeOK, Push
<1>2. count_' =< Len(pushed')
  BY <1>1 DEF TypeOK, Push, CountAfterPush, Full, HoldsNewest
<1>3. ASSUME NEW k \in 0 .. count_' - 1
      PROVE  buffer_'[Advance(tail_', k)]
               = pushed'[Len(pushed') - count_' + k + 1]
  <2> DEFINE d == IF Full THEN 1 ELSE 0
  <2>1. /\ count_' = count_ + 1 - d
        /\ k + d \in 0 .. count_
        /\ k + d \in 0 .. Capacity
        /\ d \in 0 .. Capacity
        /\ k \in 0 .. Capacity
    BY DEF TypeOK, Push, CountAfterPush, Full
  <2>2. Advance(tail_', k) = Advance(tail_, k + d)
    <3>1. CASE Full
      BY <3>1, <2>1, AdvanceTwice DEF TypeOK, Push, TailAfterPush
    <3>2. CASE ~Full
      BY <3>2, <2>1 DEF TypeOK, Push, TailAfterPush
    <3>. QED BY <3>1, <3>2
  <2>3. CASE k + d = count_
    <3>1. Advance(tail_, k + d) = head_
      BY <2>3 DEF IndicesAgree
    <3>2. buffer_'[head_] = tick
      BY DEF TypeOK, Push
    <3>3. Len(pushed') - count_' + k + 1 = Len(pushed')
      BY <2>1, <2>3, <1>1 DEF TypeOK
    <3>. QED BY <3>1, <3>2, <3>3, <2>2, <1>1
  <2>4. CASE k + d # count_
    <3>1. k + d \in 0 .. count_ - 1
      BY <2>1, <2>4 DEF TypeOK
    <3>2. Advance(tail_, k + d) # head_
      <4>1. CASE count_ = Capacity
        <5>1. d = 1
          BY <4>1 DEF Full
        <5>2. Advance(tail_, count_) = tail_ /\ head_ = tail_
          BY <4>1, AdvanceWraps DEF TypeOK, Slots, IndicesAgree
        <5>3. k + d \in 1 .. Capacity - 1
          BY <5>1, <3>1, <4>1 DEF TypeOK
        <5>. HIDE DEF d
        <5>4. tail_ \in Slots /\ k + d \in 0 .. Capacity
          BY <2>1 DEF TypeOK
        <5>5. Advance(tail_, k + d) # tail_
          BY <5>3, <5>4, AdvanceWraps DEF Slots
        <5>. QED BY <5>2, <5>5
      <4>2. CASE count_ # Capacity
        <5>1. count_ \in 0 .. Capacity - 1 /\ k + d \in 0 .. Capacity - 1
          BY <4>2, <3>1 DEF TypeOK
        <5>. HIDE DEF d
        <5>. QED BY <5>1, <3>1, AdvanceInjective DEF IndicesAgree, TypeOK
      <4>. QED BY <4>1, <4>2
    <3>3. Advance(tail_, k + d) \in Slots
      BY <2>1, AdvanceInSlots DEF TypeOK
    <3>4. buffer_'[Advance(tail_, k + d)] = buffer_[Advance(tail_, k + d)]
      BY <3>2, <3>3 DEF TypeOK, Push
    <3>5. buffer_[Advance(tail_, k + d)] = pushed[Len(pushed) - count_ + (k + d) + 1]
      <4> HIDE DEF d
      <4>1. \A j \in 0 .. count_ - 1 :
              buffer_[Advance(tail_, j)] = pushed[Len(pushed) - count_ + j + 1]
        BY DEF HoldsNewest
      <4>. QED BY <3>1, <4>1
    <3>6. /\ Len(pushed') - count_' + k + 1 = Len(pushed) - count_ + (k + d) + 1
          /\ Len(pushed) - count_ + (k + d) + 1 \in 1 .. Len(pushed)
      BY <2>1, <3>1, <1>1, SMTT(30) DEF TypeOK, HoldsNewest
    <3>. QED BY <2>2, <3>4, <3>5, <3>6, <1>1
  <2>. QED BY <2>3, <2>4
<1>. QED BY <1>2, <1>3 DEF HoldsNewest

-----------------------------------------------------------------------------
\* The ticks a drain hands over are ticks: no slot it reads has been emptied.
LEMMA OldestAreTicks ==
  ASSUME TypeOK, HoldsNewest, NEW n \in 0 .. count_
  PROVE  /\ Oldest(n) \in Seq(Tick) /\ Len(Oldest(n)) = n
         /\ \A i \in 1 .. n : Oldest(n)[i] = pushed[Len(pushed) - count_ + i]
<1>1. ASSUME NEW i \in 1 .. n
      PROVE  /\ buffer_[Advance(tail_, i - 1)] = pushed[Len(pushed) - count_ + i]
             /\ pushed[Len(pushed) - count_ + i] \in Tick
  <2>1. i - 1 \in 0 .. count_ - 1
    BY DEF TypeOK
  <2>2. buffer_[Advance(tail_, i - 1)] = pushed[Len(pushed) - count_ + (i - 1) + 1]
    BY <2>1 DEF HoldsNewest
  <2>3. /\ Len(pushed) - count_ + (i - 1) + 1 = Len(pushed) - count_ + i
        /\ Len(pushed) - count_ + i \in 1 .. Len(pushed)
    BY <2>1 DEF HoldsNewest, TypeOK
  <2>. QED BY <2>2, <2>3 DEF TypeOK
<1>2. n \in Nat
  BY CapacityAssumption DEF TypeOK
<1>3. Oldest(n) \in [1 .. n -> Tick]
  BY <1>1 DEF Oldest
<1>4. Oldest(n) \in Seq(Tick) /\ Len(Oldest(n)) = n
  BY <1>2, <1>3
<1>5. \A i \in 1 .. n : Oldest(n)[i] = pushed[Len(pushed) - count_ + i]
  BY <1>1 DEF Oldest
<1>. QED BY <1>4, <1>5

\* How far a drain moves, in the terms of the ring.
LEMMA DrainMoves ==
  ASSUME TypeOK, IndicesAgree, HoldsNewest, NEW m \in MaxItems, Drain(m)
  PROVE  \E n \in 0 .. count_ :
           /\ output' = output \o Oldest(n)
           /\ tail_' = Advance(tail_, n) /\ tail_' \in Slots
           /\ count_' = count_ - n /\ count_' \in 0 .. Capacity
           /\ IndicesAgree'
           /\ \A j \in n .. count_ - 1 :
                buffer_'[Advance(tail_, j)] = buffer_[Advance(tail_, j)]
<1> DEFINE n == IF m < count_ THEN m ELSE count_
<1>1. n \in 0 .. count_ /\ n \in 0 .. Capacity /\ count_ - n \in 0 .. Capacity
  BY MaxItemsAssumption, CapacityAssumption DEF TypeOK
<1>2. /\ output' = output \o Oldest(n)
      /\ tail_' = Advance(tail_, n)
      /\ count_' = count_ - n
      /\ head_' = head_
      /\ buffer_' = [s \in Slots |->
                       IF \E i \in 0 .. n - 1 : s = Advance(tail_, i)
                       THEN Null ELSE buffer_[s]]
  BY DEF Drain
<1> HIDE DEF n
<1>3. tail_' \in Slots
  BY <1>1, <1>2, AdvanceInSlots DEF TypeOK
<1>4. IndicesAgree'
  BY <1>1, <1>2, AdvanceTwice DEF IndicesAgree, TypeOK
<1>5. ASSUME NEW j \in n .. count_ - 1
      PROVE  buffer_'[Advance(tail_, j)] = buffer_[Advance(tail_, j)]
  <2>1. j \in 0 .. Capacity - 1 /\ j \in 0 .. Capacity
    BY <1>1, CapacityAssumption DEF TypeOK
  <2>2. Advance(tail_, j) \in Slots
    BY <2>1, AdvanceInSlots DEF TypeOK
  <2>3. ASSUME NEW i \in 0 .. n - 1, Advance(tail_, j) = Advance(tail_, i)
        PROVE  FALSE
    <3>1. i \in 0 .. Capacity - 1 /\ i # j
      BY <1>1, <2>1, CapacityAssumption DEF TypeOK
    <3>. QED BY <2>1, <2>3, <3>1, AdvanceInjective DEF TypeOK
  <2>. QED BY <1>2, <2>2, <2>3
<1>. QED BY <1>1, <1>2, <1>3, <1>4, <1>5

\* A drain takes ticks off the old end and leaves the others where they are.
LEMMA DrainHolds ==
  ASSUME TypeOK, IndicesAgree, HoldsNewest, NEW m \in MaxItems, Drain(m)
  PROVE  HoldsNewest'
<1>1. PICK n \in 0 .. count_ :
        /\ tail_' = Advance(tail_, n) /\ count_' = count_ - n
        /\ \A j \in n .. count_ - 1 :
             buffer_'[Advance(tail_, j)] = buffer_[Advance(tail_, j)]
  BY DrainMoves
<1>2. pushed' = pushed /\ count_ \in Nat /\ count_ =< Capacity
  BY CapacityAssumption DEF Drain, TypeOK
<1>3. ASSUME NEW k \in 0 .. count_' - 1
      PROVE  buffer_'[Advance(tail_', k)]
               = pushed'[Len(pushed') - count_' + k + 1]
  <2>1. /\ n \in 0 .. Capacity /\ k \in 0 .. Capacity /\ n + k =< Capacity
        /\ n + k \in n .. count_ - 1 /\ n + k \in 0 .. count_ - 1
    BY <1>1, <1>2, CapacityAssumption
  <2>2. Advance(tail_', k) = Advance(tail_, n + k)
    BY <1>1, <2>1, AdvanceTwice DEF TypeOK
  <2>3. buffer_[Advance(tail_, n + k)] = pushed[Len(pushed) - count_ + (n + k) + 1]
    <3>1. \A j \in 0 .. count_ - 1 :
            buffer_[Advance(tail_, j)] = pushed[Len(pushed) - count_ + j + 1]
      BY DEF HoldsNewest
    <3>. QED BY <2>1, <3>1
  <2>4. Len(pushed) - count_ + (n + k) + 1 = Len(pushed) - (count_ - n) + k + 1
    BY <1>2, <2>1 DEF TypeOK
  <2>. QED BY <1>1, <1>2, <2>1, <2>2, <2>3, <2>4
<1>4. count_' =< Len(pushed')
  BY <1>1, <1>2 DEF HoldsNewest, TypeOK
<1>. QED BY <1>3, <1>4 DEF HoldsNewest

-----------------------------------------------------------------------------
\* The inductive invariant: TypeOK alone is not one, because that a drain
\* hands over ticks and not emptied slots needs the other two.
Inv == TypeOK /\ IndicesAgree /\ HoldsNewest

LEMMA InitInv == Init => Inv
<1> SUFFICES ASSUME Init PROVE Inv
  OBVIOUS
<1>1. TypeOK
  BY CapacityAssumption DEF Init, TypeOK, Slots
<1>2. IndicesAgree
  BY CapacityAssumption, AdvanceWraps DEF Init, IndicesAgree, Slots
<1>3. HoldsNewest
  BY DEF Init, HoldsNewest
<1>. QED BY <1>1, <1>2, <1>3 DEF Inv

LEMMA PushInv ==
  ASSUME Inv, NEW tick \in Tick, Push(tick)
  PROVE  Inv'
<1>1. IndicesAgree' /\ HoldsNewest'
  BY PushIndices, PushHolds DEF Inv
<1>2. head_' \in Slots /\ tail_' \in Slots /\ count_' \in 0 .. Capacity
  BY PushIndices DEF Inv
<1>3. buffer_' \in [Slots -> Tick \cup {Null}]
  BY DEF Inv, TypeOK, Push
<1>4. /\ total_pushed_' \in Nat /\ total_overwritten_' \in Nat /\ cleared' \in Nat
      /\ output' \in Seq(Tick) /\ pushed' \in Seq(Tick)
  BY DEF Inv, TypeOK, Push, OverwrittenAfterPush
<1>. QED BY <1>1, <1>2, <1>3, <1>4 DEF Inv, TypeOK

LEMMA DrainInv ==
  ASSUME Inv, NEW m \in MaxItems, Drain(m)
  PROVE  Inv'
<1>1. HoldsNewest'
  BY DrainHolds DEF Inv
<1>2. PICK n \in 0 .. count_ :
        /\ output' = output \o Oldest(n)
        /\ tail_' \in Slots /\ count_' \in 0 .. Capacity /\ IndicesAgree'
  BY DrainMoves DEF Inv
<1>3. output' \in Seq(Tick)
  BY <1>2, OldestAreTicks DEF Inv, TypeOK
<1>4. buffer_' \in [Slots -> Tick \cup {Null}]
  BY DEF Inv, TypeOK, Drain
<1>. QED BY <1>1, <1>2, <1>3, <1>4 DEF Inv, TypeOK, Drain

LEMMA ClearInv ==
  ASSUME Inv, Clear
  PROVE  Inv'
<1>1. TypeOK'
  BY CapacityAssumption DEF Inv, TypeOK, Clear, TailAfterClear, Slots
<1>2. head_' = 0 /\ tail_' = 0 /\ count_' = 0 /\ 0 \in Slots /\ 0 \in 0 .. Capacity
  BY CapacityAssumption DEF Clear, TailAfterClear, Slots
<1>3. Advance(0, 0) = 0
  BY <1>2, AdvanceWraps, CapacityAssumption
<1>4. IndicesAgree' /\ HoldsNewest'
  BY <1>1, <1>2, <1>3 DEF IndicesAgree, HoldsNewest, TypeOK
<1>. QED BY <1>1, <1>4 DEF Inv

LEMMA NextInv == Inv /\ [Next]_vars => Inv'
<1> SUFFICES ASSUME Inv, [Next]_vars PROVE Inv'
  OBVIOUS
<1>1. CASE \E tick \in Tick : Push(tick)
  BY <1>1, PushInv
<1>2. CASE \E m \in MaxItems : Drain(m)
  BY <1>2, DrainInv
<1>3. CASE Clear
  BY <1>3, ClearInv
<1>4. CASE UNCHANGED vars
  BY <1>4 DEF Inv, TypeOK, IndicesAgree, HoldsNewest, Slots, Advance, vars
<1>. QED BY <1>1, <1>2, <1>3, <1>4 DEF Next

LEMMA SpecInv == Spec => []Inv
BY InitInv, NextInv, PTL DEF Spec

-----------------------------------------------------------------------------
(***************************************************************************)
(* Type correctness: the indices stay inside the allocated slots, and      *)
(* drain() never hands over the null it left in a slot it had emptied.     *)
(***************************************************************************)
THEOREM TypeCorrect == Spec => []TypeOK
BY SpecInv, PTL DEF Inv

(***************************************************************************)
(* push() and drain() move head_ and tail_ independently; they stay        *)
(* count_ places apart for every capacity.                                 *)
(***************************************************************************)
THEOREM IndicesStayAgreed == Spec => []IndicesAgree
BY SpecInv, PTL DEF Inv

(***************************************************************************)
(* Whatever the interleaving of pushes, drains and clears, the buffer      *)
(* holds exactly the newest ticks in order.                                *)
(***************************************************************************)
THEOREM AlwaysNewest == Spec => []HoldsNewest
BY SpecInv, PTL DEF Inv

(***************************************************************************)
(* Every tick that entered the buffer is held, was drained, was cleared,   *)
(* or was counted as overwritten.                                          *)
(***************************************************************************)
THEOREM LossAccounted == Spec => []LossIsCounted
<1>1. Init => LossIsCounted
  BY DEF Init, LossIsCounted
<1>2. Inv /\ LossIsCounted /\ [Next]_vars => LossIsCounted'
  <2> SUFFICES ASSUME Inv, LossIsCounted, [Next]_vars PROVE LossIsCounted'
    OBVIOUS
  <2>1. ASSUME NEW tick \in Tick, Push(tick) PROVE LossIsCounted'
    BY <2>1, CapacityAssumption
       DEF Inv, TypeOK, LossIsCounted, Push, CountAfterPush, OverwrittenAfterPush, Full
  <2>2. ASSUME NEW m \in MaxItems, Drain(m) PROVE LossIsCounted'
    <3>1. PICK n \in 0 .. count_ :
            output' = output \o Oldest(n) /\ count_' = count_ - n
      BY <2>2, DrainMoves DEF Inv
    <3>2. Len(output') = Len(output) + n
      <4>1. Oldest(n) \in Seq(Tick) /\ Len(Oldest(n)) = n
        BY OldestAreTicks DEF Inv
      <4>2. output \in Seq(Tick)
        BY DEF Inv, TypeOK
      <4>3. Len(output \o Oldest(n)) = Len(output) + Len(Oldest(n))
        BY <4>1, <4>2
      <4>. QED BY <3>1, <4>1, <4>3
    <3>3. count_ \in Nat
      BY CapacityAssumption DEF Inv, TypeOK
    <3>4. UNCHANGED <<cleared, total_pushed_, total_overwritten_>>
      BY <2>2 DEF Drain
    <3>. QED BY <3>1, <3>2, <3>3, <3>4 DEF Inv, TypeOK, LossIsCounted
  <2>3. CASE Clear
    BY <2>3, CapacityAssumption DEF Inv, TypeOK, LossIsCounted, Clear
  <2>4. CASE UNCHANGED vars
    BY <2>4 DEF LossIsCounted, vars
  <2>. QED BY <2>1, <2>2, <2>3, <2>4 DEF Next
<1>. QED BY <1>1, <1>2, SpecInv, PTL DEF Spec

-----------------------------------------------------------------------------
\* The abstract queue is the tail of the history of pushes.
HeldIsSuffix ==
  /\ Held \in Seq(Tick) /\ Len(Held) = count_ /\ count_ \in 0 .. Capacity
  /\ \A i \in 1 .. count_ : Held[i] = pushed[Len(pushed) - count_ + i]

LEMMA HeldNow == Inv => HeldIsSuffix
<1> SUFFICES ASSUME Inv PROVE HeldIsSuffix
  OBVIOUS
<1>1. count_ \in 0 .. count_ /\ count_ \in 0 .. Capacity
  BY CapacityAssumption DEF Inv, TypeOK
<1>2. /\ Oldest(count_) \in Seq(Tick) /\ Len(Oldest(count_)) = count_
      /\ \A i \in 1 .. count_ :
           Oldest(count_)[i] = pushed[Len(pushed) - count_ + i]
  BY <1>1, OldestAreTicks DEF Inv
<1>. QED BY <1>1, <1>2 DEF Held, HeldIsSuffix

LEMMA HeldNext == Inv' => HeldIsSuffix'
BY HeldNow, PTL

LEMMA PushRefines ==
  ASSUME Inv, Inv', NEW tick \in Tick, Push(tick)
  PROVE  Abstract!Push(tick)
<1> USE CapacityAssumption
<1>1. /\ Held \in Seq(Tick) /\ Len(Held) = count_ /\ count_ \in 0 .. Capacity
      /\ \A i \in 1 .. count_ : Held[i] = pushed[Len(pushed) - count_ + i]
  BY HeldNow DEF HeldIsSuffix
<1>2. /\ Held' \in Seq(Tick) /\ Len(Held') = count_'
      /\ \A i \in 1 .. count_' : Held'[i] = pushed'[Len(pushed') - count_' + i]
  BY HeldNext DEF HeldIsSuffix
<1>3. /\ pushed \in Seq(Tick) /\ Len(pushed') = Len(pushed) + 1
      /\ pushed'[Len(pushed) + 1] = tick
      /\ \A i \in 1 .. Len(pushed) : pushed'[i] = pushed[i]
      /\ count_ =< Len(pushed)
  BY DEF Inv, TypeOK, Push, HoldsNewest
<1>4. CASE Full
  <2>1. count_ = Capacity /\ count_' = Capacity /\ Abstract!Room = Tail(Held)
    BY <1>1, <1>4 DEF Full, Push, CountAfterPush, Abstract!Room
  <2>2. /\ Tail(Held) \in Seq(Tick) /\ Len(Tail(Held)) = Capacity - 1
        /\ \A i \in 1 .. Capacity - 1 : Tail(Held)[i] = Held[i + 1]
    BY <1>1, <2>1
  <2>3. ASSUME NEW i \in 1 .. Capacity
        PROVE  Held'[i] = Append(Tail(Held), tick)[i]
    <3>1. Held'[i] = pushed'[(Len(pushed) + 1) - Capacity + i]
      <4>1. \A j \in 1 .. Capacity : Held'[j] = pushed'[(Len(pushed) + 1) - Capacity + j]
        BY <1>2, <1>3, <2>1
      <4>. QED BY <4>1
    <3>2. CASE i = Capacity
      BY <3>1, <3>2, <1>3, <2>2
    <3>3. CASE i # Capacity
      <4>1. i + 1 \in 1 .. Capacity /\ i \in 1 .. Capacity - 1
        BY <3>3
      <4>2. /\ Len(pushed) - Capacity + (i + 1) \in 1 .. Len(pushed)
            /\ Len(pushed) - Capacity + (i + 1) = Len(pushed) + 1 - Capacity + i
        BY <4>1, <1>3, <2>1
      <4>3. Held[i + 1] = pushed[Len(pushed) - Capacity + (i + 1)]
        BY <4>1, <1>1, <2>1
      <4>. QED BY <4>1, <4>2, <4>3, <3>1, <1>3, <2>2
    <3>. QED BY <3>2, <3>3
  <2>4. Held' = Append(Tail(Held), tick)
    <3>1. Append(Tail(Held), tick) \in Seq(Tick) /\ Len(Append(Tail(Held), tick)) = Capacity
      BY <2>2
    <3>. QED BY <3>1, <2>3, <2>1, <1>2
  <2>. QED BY <2>1, <2>4 DEF Abstract!Push, Push
<1>5. CASE ~Full
  <2>1. count_ # Capacity /\ count_' = count_ + 1 /\ Abstract!Room = Held
    BY <1>1, <1>5 DEF Full, Push, CountAfterPush, Abstract!Room
  <2>2. ASSUME NEW i \in 1 .. count_ + 1
        PROVE  Held'[i] = Append(Held, tick)[i]
    <3>1. Held'[i] = pushed'[Len(pushed) + 1 - (count_ + 1) + i]
      BY <1>2, <1>3, <2>1, SMTT(30)
    <3>2. Len(pushed) + 1 - (count_ + 1) + i = Len(pushed) - count_ + i
      BY <1>1, <1>3
    <3>3. CASE i = count_ + 1
      BY <3>1, <3>2, <3>3, <1>1, <1>3
    <3>4. CASE i # count_ + 1
      <4>1. i \in 1 .. count_ /\ Len(pushed) - count_ + i \in 1 .. Len(pushed)
        BY <3>4, <1>1, <1>3
      <4>2. Held[i] = pushed[Len(pushed) - count_ + i]
        BY <4>1, <1>1
      <4>3. Append(Held, tick)[i] = Held[i]
        BY <4>1, <1>1
      <4>. QED BY <3>1, <3>2, <4>1, <4>2, <4>3, <1>3
    <3>. QED BY <3>3, <3>4
  <2>3. Held' = Append(Held, tick)
    <3>1. Append(Held, tick) \in Seq(Tick) /\ Len(Append(Held, tick)) = count_ + 1
      BY <1>1
    <3>. QED BY <3>1, <2>2, <2>1, <1>2
  <2>. QED BY <2>1, <2>3 DEF Abstract!Push, Push
<1>. QED BY <1>4, <1>5

LEMMA DrainRefines ==
  ASSUME Inv, Inv', NEW m \in MaxItems, Drain(m)
  PROVE  Abstract!Next \/ UNCHANGED Abstract!vars
<1> USE CapacityAssumption
<1>1. PICK n \in 0 .. count_ :
        output' = output \o Oldest(n) /\ count_' = count_ - n
  BY DrainMoves DEF Inv
<1>2. /\ Held \in Seq(Tick) /\ Len(Held) = count_ /\ count_ \in 0 .. Capacity
      /\ \A i \in 1 .. count_ : Held[i] = pushed[Len(pushed) - count_ + i]
  BY HeldNow DEF HeldIsSuffix
<1>3. /\ Held' \in Seq(Tick) /\ Len(Held') = count_'
      /\ \A i \in 1 .. count_' : Held'[i] = pushed'[Len(pushed') - count_' + i]
  BY HeldNext DEF HeldIsSuffix
<1>4. pushed' = pushed /\ Len(pushed) \in Nat
  BY DEF Drain, Inv, TypeOK
<1>5. Oldest(n) = SubSeq(Held, 1, n)
  <2>1. /\ Oldest(n) \in Seq(Tick) /\ Len(Oldest(n)) = n
        /\ \A i \in 1 .. n : Oldest(n)[i] = pushed[Len(pushed) - count_ + i]
    BY OldestAreTicks DEF Inv
  <2>2. /\ SubSeq(Held, 1, n) \in Seq(Tick) /\ Len(SubSeq(Held, 1, n)) = n
        /\ \A i \in 1 .. n : SubSeq(Held, 1, n)[i] = Held[i]
    BY <1>2
  <2>. QED BY <2>1, <2>2, <1>2
<1>6. Held' = SubSeq(Held, n + 1, Len(Held))
  <2>1. /\ SubSeq(Held, n + 1, count_) \in Seq(Tick)
        /\ Len(SubSeq(Held, n + 1, count_)) = count_ - n
        /\ \A i \in 1 .. count_ - n : SubSeq(Held, n + 1, count_)[i] = Held[i + n]
    BY <1>2
  <2>2. ASSUME NEW i \in 1 .. count_ - n
        PROVE  Held'[i] = Held[i + n]
    <3>1. /\ i + n \in 1 .. count_
          /\ Len(pushed) - (count_ - n) + i = Len(pushed) - count_ + (i + n)
      BY <1>2, <1>4
    <3>2. Held'[i] = pushed[Len(pushed) - (count_ - n) + i]
      BY <1>1, <1>3, <1>4
    <3>3. Held[i + n] = pushed[Len(pushed) - count_ + (i + n)]
      BY <3>1, <1>2
    <3>. QED BY <3>1, <3>2, <3>3
  <2> DEFINE S == SubSeq(Held, n + 1, count_)
  <2>3. /\ S \in Seq(Tick) /\ Len(S) = count_ - n
        /\ \A i \in 1 .. count_ - n : S[i] = Held'[i]
    BY <2>1, <2>2
  <2>4. S = SubSeq(Held, n + 1, Len(Held))
    BY <1>2
  <2> HIDE DEF S
  <2>5. /\ Held' \in Seq(Tick) /\ Len(Held') = count_ - n
        /\ count_ - n \in Nat
    BY <1>1, <1>2, <1>3
  <2>6. Held' = S
    BY <2>3, <2>5
  <2>. QED BY <2>4, <2>6
<1>7. CASE n = 0
  <2>1. Held' = Held
    BY <1>2, <1>6, <1>7
  <2>2. output' = output
    BY <1>1, <1>5, <1>2, <1>7 DEF Inv, TypeOK
  <2>. QED BY <2>1, <2>2 DEF Abstract!vars
<1>8. CASE n # 0
  <2>1. n \in 1 .. Len(Held)
    BY <1>2, <1>8
  <2>. QED BY <2>1, <1>1, <1>5, <1>6 DEF Abstract!Next, Abstract!Drain
<1>. QED BY <1>7, <1>8

(***************************************************************************)
(* The ring implements the drop-oldest queue for every capacity: no push,  *)
(* drain or clear shows its users anything a queue that drops its oldest   *)
(* tick would not.                                                         *)
(***************************************************************************)
THEOREM RingImplementsQueue == Spec => ImplementsQueue
<1>1. Init => Abstract!Init
  BY DEF Init, Abstract!Init, Held, Oldest
<1>2. Inv /\ Inv' /\ [Next]_vars => [Abstract!Next]_(Abstract!vars)
  <2> SUFFICES ASSUME Inv, Inv', [Next]_vars
               PROVE  Abstract!Next \/ UNCHANGED Abstract!vars
    OBVIOUS
  <2>1. ASSUME NEW tick \in Tick, Push(tick) PROVE Abstract!Next
    BY <2>1, PushRefines DEF Abstract!Next
  <2>2. ASSUME NEW m \in MaxItems, Drain(m)
        PROVE  Abstract!Next \/ UNCHANGED Abstract!vars
    BY <2>2, DrainRefines
  <2>3. CASE Clear
    <3>1. Held' = <<>>
      BY <2>3 DEF Held, Oldest, Clear
    <3>. QED BY <3>1, <2>3 DEF Abstract!Next, Abstract!Clear, Clear
  <2>4. CASE UNCHANGED vars
    BY <2>4 DEF vars, Held, Oldest, Advance, Abstract!vars
  <2>. QED BY <2>1, <2>2, <2>3, <2>4 DEF Next
<1>. QED BY <1>1, <1>2, SpecInv, PTL DEF Spec, ImplementsQueue, Abstract!Spec
=============================================================================
