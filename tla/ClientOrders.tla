---------------------------- MODULE ClientOrders ----------------------------
(***************************************************************************)
(* Order creation and the market-parameter caches behind it in             *)
(* polymarket/polymarket.go: GetTickSize, GetFeeRateBps and GetNegRisk     *)
(* look a token up in a map, ask the server if it is missing and store the *)
(* answer; SetXxx and ClearXxx change the maps meanwhile; CreateOrder and  *)
(* CreateMarketOrder use the first and the last of them.                   *)
(*                                                                         *)
(* One token is modelled; entries of other tokens do not interact, except  *)
(* that Clear drops them all.  Prices and tick sizes are counted in the    *)
(* smallest tick, PriceOne of which make 1.0; negRisk is 1 or 0.  Signing  *)
(* and the amounts of an order are left out.                               *)
(***************************************************************************)
EXTENDS Integers

CONSTANTS
  Callers,     \* goroutines that share the client
  PriceOne,    \* the price 1.0
  Ticks,       \* tick sizes a market can have
  Managed,     \* the caches that callers read, set and clear themselves
  OddTicks,    \* numbers that are none, but may be in a caller's options
  Prices,      \* prices a caller asks for or a book offers
  MaxCalls,    \* bound: calls of all callers together
  MaxMoves     \* bound: changes of the market

ASSUME PricesAssumption ==
  /\ PriceOne \in Nat /\ Ticks \subseteq 1..PriceOne /\ Ticks # {}
  /\ Prices \subseteq Nat /\ Prices # {}
ASSUME OddTicksAssumption == OddTicks \subseteq Nat /\ OddTicks \cap Ticks = {}
ASSUME CallersAssumption == "free" \notin Callers
ASSUME BoundsAssumption == MaxCalls \in Nat /\ MaxMoves \in Nat

Kinds == {"tick", "fee", "neg"}
ASSUME ManagedAssumption == Managed \subseteq Kinds

NoEntry == -1
NoPrice == -1
Unreadable == -1    \* a TickSize that is no number
marketFee == 2
userFee == 1

VARIABLES
  market,      \* market[k]: what the server answers
  bookPrice,   \* the price the order book yields
  cache,       \* cache[k]: the map entry of the token
  lock,        \* lock[k]: who holds the write lock, "free" if nobody
  pc, op,      \* where each caller is, and in which call
  param, val,  \* the parameter its current lookup is about, and the value
  tick,        \* the tick size of the order under construction
  draftPrice,  \* the price of the order under construction
  orderPrice,  \* UserMarketOrder.Price of the caller's order, NoPrice for nil
  seen,        \* history: book prices offered during the caller's call
  current,     \* history: tick sizes the market had, or was set to have, since
               \* the last ClearTickSizes, and those on their way to the map then
  known,       \* history: those that were current during the caller's call
  got,         \* what the caller's last call returned
  crashed,     \* the runtime stopped the program
  calls, moves \* counters for the bounds

cached == <<cache, lock>>
job == <<op, param, val, tick, draftPrice, seen, known>>
world == <<market, bookPrice, moves, current>>
clientVars == <<world, cached, pc, job, orderPrice, got, crashed, calls>>

Answer(o, v) == [op |-> o, tick |-> 0, price |-> v, neg |-> 0, offered |-> {}, current |-> {}]
Nothing == Answer("none", 0)

(***************************************************************************)
(* Values a parameter can have; 0 is what a missing map entry yields.      *)
(***************************************************************************)
Values(k) ==
  CASE k = "tick" -> Ticks
    [] k = "fee" -> {marketFee}
    [] k = "neg" -> {1}

Operations == {"none", "get", "resolve", "set", "order", "market"}
Results ==
  [op : Operations \cup Kinds \cup {"accepted", "panic"}, tick : Int, price : Int, neg : Int,
   offered : SUBSET Prices, current : SUBSET Ticks]

TypeOK ==
  /\ market \in [Kinds -> Int] /\ \A k \in Kinds : market[k] \in Values(k)
  /\ cache \in [Kinds -> Int] /\ \A k \in Kinds : cache[k] \in Values(k) \cup {NoEntry}
  /\ bookPrice \in Prices
  /\ lock \in [Kinds -> Callers \cup {"free"}]
  /\ pc \in [Callers -> {"idle", "lookup", "fetch", "lock", "write", "reread", "got", "price", "sign"}]
  /\ op \in [Callers -> Operations]
  /\ param \in [Callers -> Kinds]
  /\ val \in [Callers -> Int] /\ tick \in [Callers -> Int] /\ draftPrice \in [Callers -> Int]
  /\ orderPrice \in [Callers -> Prices \cup {NoPrice}]
  /\ seen \in [Callers -> SUBSET Prices]
  /\ current \in SUBSET Ticks /\ known \in [Callers -> SUBSET Ticks]
  /\ got \in [Callers -> Results]
  /\ crashed \in BOOLEAN
  /\ calls \in 0..MaxCalls /\ moves \in 0..MaxMoves

ClientInit ==
  /\ market \in [Kinds -> Ticks \cup {1, marketFee}]
  /\ \A k \in Kinds : market[k] \in Values(k)
  /\ bookPrice \in Prices
  /\ cache = [k \in Kinds |-> NoEntry]
  /\ lock = [k \in Kinds |-> "free"]
  /\ pc = [c \in Callers |-> "idle"]
  /\ op = [c \in Callers |-> "none"]
  /\ param = [c \in Callers |-> "tick"]
  /\ val = [c \in Callers |-> 0]
  /\ tick = [c \in Callers |-> 0]
  /\ draftPrice = [c \in Callers |-> 0]
  /\ orderPrice = [c \in Callers |-> NoPrice]
  /\ seen = [c \in Callers |-> {}]
  /\ current = {market["tick"]}
  /\ known = [c \in Callers |-> {}]
  /\ got = [c \in Callers |-> Nothing]
  /\ crashed = FALSE
  /\ calls = 0 /\ moves = 0

-----------------------------------------------------------------------------
(***************************************************************************)
(* History: t becomes a current tick size, also for the calls under way.   *)
(***************************************************************************)
NowCurrent(t) ==
  /\ current' = current \cup {t}
  /\ known' = [c \in Callers |-> IF pc[c] = "idle" THEN known[c] ELSE known[c] \cup {t}]

(***************************************************************************)
(* The market changes its tick size, the book its price.                   *)
(***************************************************************************)
MarketMoves ==
  /\ moves < MaxMoves
  /\ moves' = moves + 1
  /\ \/ /\ \E t \in Ticks : market' = [market EXCEPT !["tick"] = t] /\ NowCurrent(t)
        /\ UNCHANGED <<bookPrice, seen>>
     \/ /\ bookPrice' \in Prices
        /\ seen' = [c \in Callers |-> IF pc[c] = "idle" THEN seen[c] ELSE seen[c] \cup {bookPrice'}]
        /\ UNCHANGED <<market, current, known>>
  /\ UNCHANGED <<cached, pc, op, param, val, tick, draftPrice, orderPrice, got, crashed, calls>>

(***************************************************************************)
(* The end of a call.                                                      *)
(***************************************************************************)
Return(c, r) ==
  /\ got' = [got EXCEPT ![c] = r]
  /\ pc' = [pc EXCEPT ![c] = "idle"]
  /\ op' = [op EXCEPT ![c] = "none"]
  /\ param' = [param EXCEPT ![c] = "tick"]
  /\ val' = [val EXCEPT ![c] = 0]
  /\ tick' = [tick EXCEPT ![c] = 0]
  /\ draftPrice' = [draftPrice EXCEPT ![c] = 0]
  /\ seen' = [seen EXCEPT ![c] = {}]
  /\ known' = [known EXCEPT ![c] = {}]
  /\ UNCHANGED <<world, crashed, calls>>

-----------------------------------------------------------------------------
(***************************************************************************)
(* A lookup: under the read lock, from the map or else from the server.    *)
(***************************************************************************)
Lookup(c) ==
  LET k == param[c] IN
  /\ pc[c] = "lookup" /\ lock[k] = "free"
  /\ val' = [val EXCEPT ![c] = cache[k]]
  /\ pc' = [pc EXCEPT ![c] = IF cache[k] = NoEntry THEN "fetch" ELSE "got"]
  /\ UNCHANGED <<world, cached, op, param, tick, draftPrice, seen, known, orderPrice, got, crashed, calls>>

Fetch(c) ==
  /\ pc[c] = "fetch"
  /\ val' = [val EXCEPT ![c] = market[param[c]]]
  /\ pc' = [pc EXCEPT ![c] = "lock"]
  /\ UNCHANGED <<world, cached, op, param, tick, draftPrice, seen, known, orderPrice, got, crashed, calls>>

(***************************************************************************)
(* A failed request or an answer that is no tick size ends the whole call. *)
(***************************************************************************)
Fail(c) == Return(c, Nothing) /\ UNCHANGED <<cached, orderPrice>>

FetchFails(c) == pc[c] = "fetch" /\ Fail(c)

Lock(c) ==
  LET k == param[c] IN
  /\ pc[c] = "lock" /\ lock[k] = "free"
  /\ lock' = [lock EXCEPT ![k] = c]
  /\ pc' = [pc EXCEPT ![c] = "write"]
  /\ UNCHANGED <<world, cache, job, orderPrice, got, crashed, calls>>

(***************************************************************************)
(* After the write GetTickSize returns what it fetched; GetFeeRateBps and  *)
(* GetNegRisk read the map once more, without the lock.                    *)
(***************************************************************************)
RereadKinds_All == {"fee", "neg", "tick"}

RereadKinds == {"fee", "neg"}

Unlock_Forgotten(k) == UNCHANGED lock

Unlock(k) == lock' = [lock EXCEPT ![k] = "free"]

WriteEntry(c) ==
  LET k == param[c] IN
  /\ pc[c] = "write"
  /\ cache' = [cache EXCEPT ![k] = val[c]]
  /\ Unlock(k)
  /\ IF op[c] = "set" THEN Return(c, Nothing)
     ELSE /\ pc' = [pc EXCEPT ![c] = IF k \in RereadKinds THEN "reread" ELSE "got"]
          /\ UNCHANGED <<world, job, got, crashed, calls>>
  /\ UNCHANGED orderPrice

Reread(c) ==
  LET k == param[c] IN
  /\ pc[c] = "reread"
  /\ val' = [val EXCEPT ![c] = IF cache[k] = NoEntry THEN 0 ELSE cache[k]]
  /\ pc' = [pc EXCEPT ![c] = "got"]
  /\ UNCHANGED <<world, cached, op, param, tick, draftPrice, seen, known, orderPrice, got, crashed, calls>>

(***************************************************************************)
(* A map read without the lock while another goroutine writes the map may  *)
(* make the Go runtime stop the program.                                   *)
(***************************************************************************)
RereadRaces(c) ==
  /\ pc[c] = "reread" /\ lock[param[c]] # "free"
  /\ crashed' = TRUE
  /\ UNCHANGED <<world, cached, pc, job, orderPrice, got, calls>>

-----------------------------------------------------------------------------
Start(c, o, k, first) ==
  /\ pc[c] = "idle" /\ calls < MaxCalls
  /\ calls' = calls + 1
  /\ op' = [op EXCEPT ![c] = o]
  /\ param' = [param EXCEPT ![c] = k]
  /\ pc' = [pc EXCEPT ![c] = first]
  /\ seen' = [seen EXCEPT ![c] = {bookPrice}]
  /\ got' = [got EXCEPT ![c] = Nothing]
  /\ UNCHANGED <<market, bookPrice, moves, cached, tick, crashed>>

Begin(c, o, k, first) ==
  /\ Start(c, o, k, first)
  /\ known' = [known EXCEPT ![c] = current]
  /\ UNCHANGED current

Get(c, k) == Begin(c, "get", k, "lookup") /\ UNCHANGED <<val, draftPrice, orderPrice>>

(***************************************************************************)
(* ResolveFeeRateBps, called with a fee rate the market does not have.     *)
(***************************************************************************)
ResolveFeeRateBps(c) ==
  Begin(c, "resolve", "fee", "lookup") /\ UNCHANGED <<val, draftPrice, orderPrice>>

Set(c, k, v) ==
  /\ Start(c, "set", k, "lock")
  /\ val' = [val EXCEPT ![c] = v]
  /\ IF k = "tick" THEN NowCurrent(v) ELSE UNCHANGED <<current, known>>
  /\ UNCHANGED <<draftPrice, orderPrice>>

ClearedMap_WrongOne(k) == CASE k = "tick" -> "fee" [] k = "fee" -> "neg" [] k = "neg" -> "tick"

(***************************************************************************)
(* Each of the three functions clears a map of its own.                    *)
(***************************************************************************)
ClearedMap(k) == k

OnTheWay == {val[c] : c \in {b \in Callers : pc[b] \in {"lock", "write"} /\ param[b] = "tick"}}

Clear(c, k) ==
  /\ pc[c] = "idle" /\ calls < MaxCalls /\ lock[k] = "free"
  /\ calls' = calls + 1
  /\ cache' = [cache EXCEPT ![ClearedMap(k)] = NoEntry]
  /\ current' = IF k = "tick" THEN OnTheWay \cup {market["tick"]} ELSE current
  /\ UNCHANGED <<market, bookPrice, moves, lock, pc, job, orderPrice, got, crashed>>

CreateOrder(c, p) ==
  /\ Begin(c, "order", "tick", "lookup")
  /\ draftPrice' = [draftPrice EXCEPT ![c] = p]
  /\ UNCHANGED <<val, orderPrice>>

CreateMarketOrder(c) ==
  Begin(c, "market", "tick", "lookup") /\ UNCHANGED <<val, draftPrice, orderPrice>>

-----------------------------------------------------------------------------
(***************************************************************************)
(* What the caller does with the value of a lookup.                        *)
(***************************************************************************)
GotValue(c) ==
  /\ pc[c] = "got" /\ op[c] = "get"
  /\ Return(c, [Answer(param[c], val[c]) EXCEPT !.current = known[c]])
  /\ UNCHANGED <<cached, orderPrice>>

GotFee(c) ==
  /\ pc[c] = "got" /\ op[c] = "resolve"
  /\ IF val[c] > 0 /\ userFee # val[c]
     THEN Return(c, Nothing)
     ELSE Return(c, Answer("accepted", val[c]))
  /\ UNCHANGED <<cached, orderPrice>>

(***************************************************************************)
(* ResolveTickSize: the caller may ask for a larger tick size than the     *)
(* market's.  What it asks for is not checked to be a tick size; one that  *)
(* is no number is not smaller either.  An order then needs its price.     *)
(***************************************************************************)
OptionTicks == Ticks \cup OddTicks \cup {Unreadable}

IsTickSizeSmaller(a, b) == a # Unreadable /\ a < b

GotTick(c) ==
  /\ pc[c] = "got" /\ op[c] \in {"order", "market"} /\ param[c] = "tick"
  /\ \E t \in OptionTicks \cup {val[c]} :
       /\ ~IsTickSizeSmaller(t, val[c])
       /\ tick' = [tick EXCEPT ![c] = t]
  /\ pc' = [pc EXCEPT ![c] = "price"]
  /\ UNCHANGED <<world, cached, val, op, param, draftPrice, orderPrice, seen, known, got, crashed, calls>>

(***************************************************************************)
(* It may not ask for a smaller one.                                       *)
(***************************************************************************)
TickRefused(c) ==
  /\ pc[c] = "got" /\ op[c] \in {"order", "market"} /\ param[c] = "tick"
  /\ \E t \in OptionTicks : IsTickSizeSmaller(t, val[c])
  /\ Fail(c)

PriceValid(p, t) == t # Unreadable /\ p >= t /\ p <= PriceOne - t

(***************************************************************************)
(* The price of a market order is taken from the book unless the order has *)
(* one, and is written into the caller's order.  Then the price is checked *)
(* and negRisk is taken from the options or looked up.                     *)
(***************************************************************************)
PriceOrder(c) ==
  LET p == IF op[c] = "order" THEN draftPrice[c]
           ELSE IF orderPrice[c] = NoPrice THEN bookPrice ELSE orderPrice[c] IN
  /\ pc[c] = "price"
  /\ orderPrice' = [orderPrice EXCEPT ![c] = IF op[c] = "market" THEN p ELSE @]
  /\ IF PriceValid(p, tick[c])
     THEN /\ param' = [param EXCEPT ![c] = "neg"]
          /\ \/ pc' = [pc EXCEPT ![c] = "lookup"] /\ UNCHANGED val
             \/ pc' = [pc EXCEPT ![c] = "sign"] /\ \E v \in Values("neg") : val' = [val EXCEPT ![c] = v]
          /\ draftPrice' = [draftPrice EXCEPT ![c] = p]
          /\ UNCHANGED <<world, op, tick, seen, known, got, crashed, calls>>
     ELSE Return(c, Nothing)
  /\ UNCHANGED cached

(***************************************************************************)
(* The book cannot be fetched or cannot fill the amount.                   *)
(***************************************************************************)
NoMarketPrice(c) ==
  /\ pc[c] = "price" /\ op[c] = "market" /\ orderPrice[c] = NoPrice
  /\ Fail(c)

GotNegRisk(c) ==
  /\ pc[c] = "got" /\ op[c] \in {"order", "market"} /\ param[c] = "neg"
  /\ pc' = [pc EXCEPT ![c] = "sign"]
  /\ UNCHANGED <<world, cached, job, orderPrice, got, crashed, calls>>

(***************************************************************************)
(* GetRoundConfig panics for what is no tick size; the panic ends the call *)
(* (and the program, if the caller does not recover).                      *)
(***************************************************************************)
RoundingPanics(c) ==
  /\ pc[c] = "sign" /\ tick[c] \notin Ticks
  /\ Return(c, Answer("panic", 0))
  /\ UNCHANGED <<cached, orderPrice>>

(***************************************************************************)
(* The signed order; negRisk decides which exchange contract it is for.    *)
(***************************************************************************)
SignOrder(c) ==
  /\ pc[c] = "sign" /\ tick[c] \in Ticks
  /\ Return(c, [op |-> op[c], tick |-> tick[c], price |-> draftPrice[c],
                neg |-> val[c], offered |-> seen[c], current |-> known[c]])
  /\ UNCHANGED <<cached, orderPrice>>

BuildFails(c) == pc[c] = "sign" /\ tick[c] \in Ticks /\ Fail(c)

-----------------------------------------------------------------------------
CallStep(c) ==
  \/ Lookup(c) \/ Fetch(c) \/ FetchFails(c) \/ Lock(c) \/ WriteEntry(c)
  \/ Reread(c) \/ RereadRaces(c)
  \/ GotValue(c) \/ GotFee(c) \/ GotTick(c) \/ TickRefused(c)
  \/ PriceOrder(c) \/ NoMarketPrice(c) \/ GotNegRisk(c)
  \/ SignOrder(c) \/ BuildFails(c) \/ RoundingPanics(c)

NewCall(c) ==
  \/ \E k \in Managed : Get(c, k) \/ Clear(c, k) \/ \E v \in Values(k) : Set(c, k, v)
  \/ ResolveFeeRateBps(c)
  \/ \E p \in Prices : CreateOrder(c, p)
  \/ CreateMarketOrder(c)

ClientNext ==
  /\ ~crashed
  /\ \/ MarketMoves
     \/ \E c \in Callers : CallStep(c) \/ NewCall(c)

ClientSpec == ClientInit /\ [][ClientNext]_clientVars

(***************************************************************************)
(* A goroutine that can go on does; the server or the HTTP timeout answers *)
(* every request; a lock is not withheld for ever.                         *)
(***************************************************************************)
ClientFairSpec == ClientSpec /\ \A c \in Callers : SF_clientVars(~crashed /\ CallStep(c))

-----------------------------------------------------------------------------
(***************************************************************************)
(* Whatever is set and cleared meanwhile, a tick size GetTickSize returns  *)
(* and one an order is rounded with is never the empty value.              *)
(***************************************************************************)
TickSizeIsReal ==
  \A c \in Callers :
    /\ got[c].op = "tick" => got[c].price \in Ticks
    /\ got[c].op \in {"order", "market"} => got[c].tick \in Ticks

(***************************************************************************)
(* ClearTickSizes makes the client forget: a tick size that GetTickSize    *)
(* returns was the market's, or was set, after the last ClearTickSizes     *)
(* before the call, or was fetched before it by a lookup that had yet to   *)
(* store it; and no order is rounded with a smaller one than these.        *)
(***************************************************************************)
TickSizeIsCurrent ==
  \A c \in Callers :
    /\ got[c].op = "tick" => got[c].price \in got[c].current
    /\ got[c].op \in {"order", "market"} => \E t \in got[c].current : t <= got[c].tick

(***************************************************************************)
(* Every call ends: a lookup leaves no lock behind (unless the runtime     *)
(* stops the program).                                                     *)
(***************************************************************************)
CallsEnd == \A c \in Callers : []<>(pc[c] = "idle" \/ crashed)

(***************************************************************************)
(* A fee rate that differs from the market's is refused                    *)
(* (ResolveFeeRateBps), whatever is cleared meanwhile.                     *)
(***************************************************************************)
FeeMismatchRefused == \A c \in Callers : got[c].op # "accepted"

(***************************************************************************)
(* A map that has a lock is not read while another goroutine writes it     *)
(* (GetFeeRateBps, GetNegRisk).                                            *)
(***************************************************************************)
MapsUnderLock == ~crashed

(***************************************************************************)
(* A market order whose caller gave no price has a price the book offered  *)
(* during the call, also when the caller uses its order again.             *)
(***************************************************************************)
MarketPriceIsUsed ==
  \A c \in Callers : got[c].op = "market" => got[c].price \in got[c].offered
=============================================================================
