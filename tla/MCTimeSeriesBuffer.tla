------------------------- MODULE MCTimeSeriesBuffer -------------------------
(* Model of TimeSeriesBuffer: three slots, enough pushes to wrap twice.     *)
EXTENDS TimeSeriesBuffer
MCMaxItems == 1 .. 4
=============================================================================
