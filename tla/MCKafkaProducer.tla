--------------------------- MODULE MCKafkaProducer ---------------------------
(* Model of KafkaProducer alone: a queue of two places and two publishers. *)
EXTENDS KafkaProducer, TLC
CONSTANTS A, p1
MCPartitionOf == (A :> p1)
MCTraffic == {[n \in 1 .. 3 |-> [key |-> A, content |-> "tick"]]}
=============================================================================
