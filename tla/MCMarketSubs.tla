---------------------------- MODULE MCMarketSubs ----------------------------
(***************************************************************************)
(* MarketSubs for TLC.  Callers and tokens are interchangeable: no action  *)
(* and no property tells one from another.                                 *)
(***************************************************************************)
EXTENDS MarketSubs, TLC

Symmetry == Permutations(Callers) \cup Permutations(Tokens)
=============================================================================
