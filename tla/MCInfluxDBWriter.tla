-------------------------- MODULE MCInfluxDBWriter --------------------------
(* Model of InfluxDBWriter: a batch of two points, so that one caller can  *)
(* fill it and two can overshoot it.                                       *)
EXTENDS InfluxDBWriter, TLC
MCBatchSizes == 1 .. 2
CallerSymmetry == Permutations(Caller)
=============================================================================
