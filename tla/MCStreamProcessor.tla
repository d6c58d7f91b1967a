------------------------- MODULE MCStreamProcessor -------------------------
(* Model of StreamProcessor.  Three ticks over two symbols are the fewest  *)
(* in which two workers can race on one symbol while a third tick belongs  *)
(* to the other.                                                           *)
EXTENDS StreamProcessor
=============================================================================
