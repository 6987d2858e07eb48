---------------------------- MODULE MCTradeFeed ----------------------------
(***************************************************************************)
(* Feeds for module TradeFeed: every kind of message occurs, with a        *)
(* heartbeat and unparsable messages between the others.                   *)
(***************************************************************************)
EXTENDS TradeFeed

MCFeeds == {<<"trade", "badOrder", "heartbeat">>, <<"order", "other", "badTrade">>}
=============================================================================
