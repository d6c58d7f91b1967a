--------------------------- MODULE MCStockFetcher ---------------------------
(* Model of StockFetcher: three tickers, the times of the code in seconds. *)
EXTENDS StockFetcher
=============================================================================
