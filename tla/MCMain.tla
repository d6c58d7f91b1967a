------------------------------- MODULE MCMain -------------------------------
(* Model of Main: a buffer of two ticks that a third one overflows, drained *)
(* one at a time, and a dashboard that one client connects to.              *)
EXTENDS Main
=============================================================================
