--------------------------- MODULE DropOldestQueue ---------------------------
(***************************************************************************)
(* What TimeSeriesBuffer promises its two users, the processed-tick        *)
(* consumer and the InfluxDB drain loop: a bounded FIFO queue of ticks in  *)
(* which an insertion never waits and never fails.  When the queue is      *)
(* full the oldest tick gives way to the new one; a drain hands over the   *)
(* oldest ticks first.                                                     *)
(***************************************************************************)
EXTENDS Integers, Sequences

CONSTANTS Tick,     \* the ticks that may be pushed
          Capacity  \* how many the queue holds

VARIABLES queue,    \* the ticks held, oldest first
          output    \* every tick handed over so far, in order

vars == <<queue, output>>

Init == queue = <<>> /\ output = <<>>

\* The queue as a push finds it: a full one has dropped its oldest tick.
Room == IF Len(queue) = Capacity THEN Tail(queue) ELSE queue

Push(tick) == queue' = Append(Room, tick) /\ UNCHANGED output

Drain(n) ==
  /\ output' = output \o SubSeq(queue, 1, n)
  /\ queue' = SubSeq(queue, n + 1, Len(queue))

Clear == queue' = <<>> /\ UNCHANGED output

Next == \/ \E tick \in Tick : Push(tick)
        \/ \E n \in 1 .. Len(queue) : Drain(n)
        \/ Clear

Spec == Init /\ [][Next]_vars
=============================================================================
