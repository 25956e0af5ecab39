-------------------------- MODULE MCMarketAnalysis --------------------------
(* A small instance of MarketAnalysis.                                     *)
EXTENDS MarketAnalysis, TLC

=============================================================================
