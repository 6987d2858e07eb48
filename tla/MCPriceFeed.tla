---------------------------- MODULE MCPriceFeed ----------------------------
(***************************************************************************)
(* Markets of every period, one with the tags of two periods and two names *)
(* of its coin, and one whose period is unknown.  Each may have an end     *)
(* date that can be read or one that cannot.                               *)
(***************************************************************************)
EXTENDS PriceFeed, TLC

MCMarkets ==
  {{"crypto", "bitcoin", TIME_UNITS[k]} : k \in 1..Len(TIME_UNITS)}
  \cup {{"ethereum", "eth", "5m", "hourly"}, {"solana", "yearly"}}

MCEndDates == {[readable |-> r, time |-> 1000 * Day] : r \in BOOLEAN}

MCSymmetry == Permutations(Workers)
=============================================================================
