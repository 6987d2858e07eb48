----------------------------- MODULE PriceFeed -----------------------------
(***************************************************************************)
(* CryptoPriceMonitor (polymarket/crypto_price_monitor.go): which topics   *)
(* it subscribes for the symbols it was made with, how the workers of the  *)
(* WebSocket client store and hand out the prices that arrive, and which   *)
(* price FetchOpenPrice asks for (the call itself is module OpenPrice).    *)
(*                                                                         *)
(* A requested symbol is a base name with the window suffix the caller     *)
(* wrote: 0 for none, else 30 or 60.  A price is represented by the number *)
(* of the update that brought it, 0 for no price.                          *)
(***************************************************************************)
EXTENDS Integers, Sequences, MarketHelpers

CONSTANTS
  Workers,      \* messageLoop goroutines
  Bases,        \* symbols the server has prices for
  MonitorTypes, \* monitor types under check
  Markets,      \* sets of tags of markets that FetchOpenPrice is called for
  EndDates,     \* the end dates in these markets
  PriceCap,     \* capacity of priceCh
  MaxUpdates    \* bound: updates of all feeds

ASSUME TypesAssumption == MonitorTypes \subseteq {"ALL", "BINANCE", "CHAINLINK", "CHAINLINK_TWAP"}
ASSUME DatesAssumption == EndDates \subseteq Dates
ASSUME BoundsAssumption == PriceCap \in Nat \ {0} /\ MaxUpdates \in Nat

VARIABLES
  monitorType, symbols, \* the arguments of NewCryptoPriceMonitor
  subscriptions,        \* topic -> filter, for the topics subscribed
  prices,               \* feed -> base -> the stored price
  pc, msg,              \* what each worker does, and with which update
  priceCh,              \* the prices queued for the consumer
  query,                \* what FetchOpenPrice asked for
  updates,              \* updates the server has sent
  newest,               \* history: the newest update of each feed and base
  overlaps              \* history: updates handled at a time, the older one first

vars == <<monitorType, symbols, subscriptions, prices, pc, msg, priceCh, query, updates, newest, overlaps>>

Suffixes == {0, 30, 60}
Requested == Bases \X Suffixes

Spot == {"crypto_prices", "crypto_prices_chainlink"}
Twap == {"crypto_prices_twap_thirty", "crypto_prices_twap_sixty"}
Topics == Spot \cup Twap

(***************************************************************************)
(* An empty filter lets everything through.  A filter entry is a symbol as *)
(* the server spells it: the base, with the suffix if one was left on.     *)
(***************************************************************************)
Passes(filter, base) == filter = {} \/ <<base, 0>> \in filter

(***************************************************************************)
(* buildTwapFilters strips the suffix and sorts the symbols by window.     *)
(***************************************************************************)
buildTwapFilters_KeepsSuffix(ss, window) ==
  {s \in ss : (s[2] = 60) <=> (window = 60)}

buildTwapFilters(ss, window) ==
  {<<s[1], 0>> : s \in {r \in ss : (r[2] = 60) <=> (window = 60)}}

Window(topic) == IF topic = "crypto_prices_twap_sixty" THEN 60 ELSE 30

(***************************************************************************)
(* NewCryptoPriceMonitor.                                                  *)
(***************************************************************************)
SubscribedTopics(type, ss) ==
  {topic \in Topics :
     \/ type = "ALL"
     \/ type = "BINANCE" /\ topic = "crypto_prices"
     \/ type = "CHAINLINK" /\ topic = "crypto_prices_chainlink"
     \/ /\ type = "CHAINLINK_TWAP" /\ topic \in Twap
        /\ ss = {} \/ buildTwapFilters(ss, Window(topic)) # {}}

NewCryptoPriceMonitor(type, ss) ==
  [topic \in SubscribedTopics(type, ss) |->
     IF type = "CHAINLINK_TWAP" THEN buildTwapFilters(ss, Window(topic)) ELSE ss]

(***************************************************************************)
(* handleMessage keeps one map per feed.  The map of a TWAP price is       *)
(* chosen by the window in the message (payload.window_s), whatever its    *)
(* topic; a window that is neither 30 nor 60 is ignored.                   *)
(***************************************************************************)
Feeds == {"Binance", "Chainlink", "TWAP30", "TWAP60"}
Windows == {0, 30, 60}   \* 0 stands for any other, a missing one too

Feed(topic, window) ==
  CASE topic = "crypto_prices" -> "Binance"
    [] topic = "crypto_prices_chainlink" -> "Chainlink"
    [] topic \in Twap /\ window = 30 -> "TWAP30"
    [] topic \in Twap /\ window = 60 -> "TWAP60"
    [] OTHER -> "none"

Updates == [feed : Feeds, base : Bases, ts : 1..MaxUpdates]
NoUpdate == [feed |-> "none", base |-> "none", ts |-> 0]

(***************************************************************************)
(* The parameters of the request for the open price of a market.           *)
(***************************************************************************)
Query(symbol, unit, endDate) ==
  [symbol |-> symbol, eventStartTime |-> GetStartTime(unit, endDate),
   endDate |-> TimeParse(endDate), variant |-> GetSearchTimeUnit(unit)]

NoQuery == [symbol |-> "none", eventStartTime |-> 0, endDate |-> 0, variant |-> "none"]

TypeOK ==
  /\ monitorType \in MonitorTypes
  /\ symbols \subseteq Requested
  /\ prices \in [Feeds -> [Bases -> 0..MaxUpdates]]
  /\ pc \in [Workers -> {"idle", "store", "emit"}]
  /\ msg \in [Workers -> Updates \cup {NoUpdate}]
  /\ \A w \in Workers : pc[w] # "idle" => msg[w] \in Updates
  /\ priceCh \in Seq(Updates) /\ Len(priceCh) <= PriceCap
  /\ updates \in 0..MaxUpdates
  /\ newest \in [Feeds -> [Bases -> 0..MaxUpdates]]

Init ==
  /\ monitorType \in MonitorTypes
  /\ symbols \in SUBSET Requested
  /\ subscriptions = NewCryptoPriceMonitor(monitorType, symbols)
  /\ prices = [f \in Feeds |-> [b \in Bases |-> 0]]
  /\ pc = [w \in Workers |-> "idle"]
  /\ msg = [w \in Workers |-> NoUpdate]
  /\ priceCh = <<>>
  /\ query = NoQuery
  /\ updates = 0
  /\ newest = [f \in Feeds |-> [b \in Bases |-> 0]]
  /\ overlaps = {}

-----------------------------------------------------------------------------
(***************************************************************************)
(* The server sends an update of a subscribed topic and a worker receives  *)
(* it.  Acknowledgements, heartbeats and other types are ignored.          *)
(***************************************************************************)
Sent(topic, b) ==
  /\ updates < MaxUpdates /\ query = NoQuery
  /\ topic \in DOMAIN subscriptions /\ Passes(subscriptions[topic], b)
  /\ updates' = updates + 1

Receive(w, topic, window, b) ==
  /\ pc[w] = "idle" /\ Feed(topic, window) \in Feeds
  /\ Sent(topic, b)
  /\ msg' = [msg EXCEPT ![w] = [feed |-> Feed(topic, window), base |-> b, ts |-> updates + 1]]
  /\ newest' = [newest EXCEPT ![Feed(topic, window)][b] = updates + 1]
  /\ overlaps' = overlaps \cup {<<msg[v].ts, updates + 1>> : v \in {u \in Workers : pc[u] # "idle"}}
  /\ pc' = [pc EXCEPT ![w] = "store"]
  /\ UNCHANGED <<monitorType, symbols, subscriptions, prices, priceCh, query>>

Ignore(w, topic, window, b) ==
  /\ pc[w] = "idle" /\ Feed(topic, window) \notin Feeds
  /\ Sent(topic, b)
  /\ UNCHANGED <<monitorType, symbols, subscriptions, prices, pc, msg, priceCh, query, newest, overlaps>>

StorePrice_WrongMap(w) ==
  prices' = [prices EXCEPT ![IF msg[w].feed = "TWAP60" THEN "TWAP30" ELSE msg[w].feed][msg[w].base] = msg[w].ts]

(***************************************************************************)
(* The map of the feed is updated under its lock, whatever it holds.       *)
(***************************************************************************)
StorePrice(w) == prices' = [prices EXCEPT ![msg[w].feed][msg[w].base] = msg[w].ts]

Store(w) ==
  /\ pc[w] = "store"
  /\ StorePrice(w)
  /\ pc' = [pc EXCEPT ![w] = "emit"]
  /\ UNCHANGED <<monitorType, symbols, subscriptions, msg, priceCh, query, updates, newest, overlaps>>

(***************************************************************************)
(* emitPrice queues the price or, if the channel is full, drops it.        *)
(***************************************************************************)
emitPrice(w) ==
  priceCh' = IF Len(priceCh) < PriceCap THEN Append(priceCh, msg[w]) ELSE priceCh

Emit(w) ==
  /\ pc[w] = "emit"
  /\ emitPrice(w)
  /\ pc' = [pc EXCEPT ![w] = "idle"]
  /\ msg' = [msg EXCEPT ![w] = NoUpdate]
  /\ UNCHANGED <<monitorType, symbols, subscriptions, prices, query, updates, newest, overlaps>>

Consume ==
  /\ priceCh # <<>>
  /\ priceCh' = Tail(priceCh)
  /\ UNCHANGED <<monitorType, symbols, subscriptions, prices, pc, msg, query, updates, newest, overlaps>>

(***************************************************************************)
(* FetchOpenPrice reads the coin and the period off the market's tags; if  *)
(* one is missing it returns zeros and asks for nothing.  It shares no     *)
(* state with the feed: the model has a call that asks in behaviours of    *)
(* its own.                                                                *)
(***************************************************************************)
FetchOpenPrice(tags, endDate) ==
  /\ updates = 0 /\ query = NoQuery
  /\ IF GetTimeUnit(tags) = NoUnit \/ GetSymbol(tags) = {} THEN query' = NoQuery
     ELSE \E symbol \in GetSymbol(tags) : query' = Query(symbol, GetTimeUnit(tags), endDate)
  /\ UNCHANGED <<monitorType, symbols, subscriptions, prices, pc, msg, priceCh, updates, newest, overlaps>>

Next ==
  \/ \E w \in Workers :
       \/ Store(w) \/ Emit(w)
       \/ \E topic \in Topics, window \in Windows, b \in Bases :
            Receive(w, topic, window, b) \/ Ignore(w, topic, window, b)
  \/ Consume
  \/ \E tags \in Markets, endDate \in EndDates : FetchOpenPrice(tags, endDate)

Spec == Init /\ [][Next]_vars

-----------------------------------------------------------------------------
GetExternalPrice(b, source) == prices[source][b]

GetTwapPrice(b, windowSeconds) ==
  CASE windowSeconds = 30 -> prices["TWAP30"][b]
    [] windowSeconds = 60 -> prices["TWAP60"][b]

Idle(f, b) == \A w \in Workers : pc[w] # "idle" => msg[w].feed # f \/ msg[w].base # b

(***************************************************************************)
(* Once no update of it is being handled a price is the latest that was    *)
(* received, unless the update that brought it was still being handled     *)
(* when the latest arrived (handleMessage, GetTwapPrice,                   *)
(* GetExternalPrice).                                                      *)
(***************************************************************************)
LatestUnlessRaced(p, latest) == p = latest \/ <<p, latest>> \in overlaps

StalePriceOnlyIfRaced ==
  \A b \in Bases :
    /\ Idle("TWAP30", b) => LatestUnlessRaced(GetTwapPrice(b, 30), newest["TWAP30"][b])
    /\ Idle("TWAP60", b) => LatestUnlessRaced(GetTwapPrice(b, 60), newest["TWAP60"][b])
    /\ \A f \in {"Binance", "Chainlink"} :
         Idle(f, b) => LatestUnlessRaced(GetExternalPrice(b, f), newest[f][b])

(***************************************************************************)
(* The same without the exception.                                         *)
(***************************************************************************)
LatestPriceReturned ==
  \A f \in Feeds, b \in Bases : Idle(f, b) => prices[f][b] = newest[f][b]

(***************************************************************************)
(* A TWAP monitor gets prices for exactly the symbols and windows it was   *)
(* made with: no suffix means 30, no symbols at all means everything       *)
(* (NewCryptoPriceMonitor, buildTwapFilters).                              *)
(***************************************************************************)
TwapAsRequested ==
  monitorType = "CHAINLINK_TWAP" =>
    \A b \in Bases, topic \in Twap :
      (topic \in DOMAIN subscriptions /\ Passes(subscriptions[topic], b))
      <=> \/ symbols = {}
          \/ <<b, Window(topic)>> \in symbols
          \/ Window(topic) = 30 /\ <<b, 0>> \in symbols

(***************************************************************************)
(* The period FetchOpenPrice asks for is as long as the variant in the     *)
(* same request says, for every end date, an unreadable one too (whose     *)
(* period then ends at the zero time).  A monthly market is excepted: its  *)
(* period begins where it should end (GetTimeUnit, GetSearchTimeUnit,      *)
(* GetStartTime).                                                          *)
(***************************************************************************)
Lasts ==
  [fiveminute |-> 5, fifteen |-> 15, hourly |-> 60, fourhour |-> 240,
   daily |-> 1440, weekly |-> 7 * 1440, monthly |-> Month * 1440]

Spans(q) == q.endDate - q.eventStartTime = Lasts[q.variant]

PeriodMatchesVariant == query # NoQuery /\ query.variant # "monthly" => Spans(query)

(***************************************************************************)
(* The same for every market, a monthly one too.                           *)
(***************************************************************************)
EveryPeriodMatches == query # NoQuery => Spans(query)
=============================================================================
