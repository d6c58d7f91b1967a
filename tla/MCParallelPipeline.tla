------------------------- MODULE MCParallelPipeline -------------------------
(* Model of ParallelPipeline: two workers that two asynchronous batches    *)
(* can starve, and a caller of its own.  A mixed batch has a symbol that   *)
(* fails, a tick without a symbol and a symbol that does not fail; the     *)
(* others are the batch whose split throws and the empty one.              *)
EXTENDS ParallelPipeline
CONSTANTS A, B, s1, a1, a2
Tick(t, k) == [ticker |-> t, kind |-> k]
Mixed == <<Tick(A, "malformed"), Tick(NoTicker, "valued"), Tick(B, "valued")>>
MCContent == [b \in Batch |-> CASE b = s1 -> {<<Tick(A, "malformed")>>}
                               [] b = a1 -> {Mixed, <<Tick(BadTicker, "valued")>>}
                               [] b = a2 -> {Mixed, <<>>}]
=============================================================================
