---------------------------- MODULE MCKafkaTopic ----------------------------
(* Model of KafkaTopic: two processes share two partitions.                *)
EXTENDS KafkaTopic, TLC
CONSTANTS A, B, p1, p2
MCPartitionOf == (A :> p1) @@ (B :> p2)
Of(k, c) == [key |-> k, content |-> c]
MCTraffic == {<<Of(A, "tick"), Of(A, "tick")>>, <<Of(A, "poison"), Of(A, "tick")>>,
              <<Of(B, "malformed"), Of(A, "tick")>>}
=============================================================================
