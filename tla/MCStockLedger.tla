--------------------------- MODULE MCStockLedger ---------------------------
(* StockLedger for TLC. Requests are interchangeable, but symmetry would be *)
(* unsound for EveryRequestEnds.                                           *)
EXTENDS StockLedger
=============================================================================
