---------------------------- MODULE MarketOrder ----------------------------
(***************************************************************************)
(* From the book to the amounts of an order: CreateMarketOrder and         *)
(* CalculateMarketPrice of polymarket/polymarket.go, which take the price  *)
(* of a market order from the book when the caller gives none, and the     *)
(* amounts of module OrderAmounts.  CalculateBuyMarketPrice and            *)
(* CalculateSellMarketPrice of orders/order_helper.go walk the levels from *)
(* the best one, the last, until the amount is matched: collateral for a   *)
(* buyer, shares for a seller.                                             *)
(*                                                                         *)
(* The book's prices are counted like price, in 10^-(d+1), so that they    *)
(* may lie between the ticks of the order, whose tick size may be larger   *)
(* than the market's (ResolveTickSize); its sizes count 1/100.  The code   *)
(* adds float64 values: sum is the exact sum, and where it equals the      *)
(* amount the comparison may come out either way (0.57 * 100 is less than  *)
(* 57).  Unequal ones differ by far more than the error of float64.        *)
(***************************************************************************)
EXTENDS OrderAmounts, FiniteSetsExt

CONSTANTS
  BookPrices,  \* price levels of the book
  BookSizes,   \* sizes of a level
  MaxLevels    \* bound: levels of one side of the book

ASSUME BookAssumption ==
  BookPrices \subseteq Nat \ {0} /\ BookSizes \subseteq Nat /\ MaxLevels \in Nat

VARIABLES
  orderType,  \* "FOK" or "FAK"
  books,      \* the asks for a buyer, the bids for a seller
  i, sum,     \* the loop over the levels
  walk        \* "given": the caller named a price; "running", "done", "failed"

walkVars == <<orderType, books, i, sum, walk>>
orderVars == <<vars, walkVars>>

Unset == 0

Worse(p, q) == IF side = "BUY" THEN p > q ELSE p < q

(***************************************************************************)
(* A limit order, or a market order whose caller names a valid price.      *)
(***************************************************************************)
GivenPrice ==
  /\ Init
  /\ orderType = "FOK" /\ books = <<>> /\ i = 0 /\ sum = 0
  /\ walk = "given"

(***************************************************************************)
(* A market order priced from the book.  The server lists both sides from  *)
(* the worst price to the best; an empty side fails at once.               *)
(***************************************************************************)
PriceFromBook ==
  /\ kind = "market" /\ side \in {"BUY", "SELL"} /\ orderType \in {"FOK", "FAK"}
  /\ d \in Decimals /\ size \in Sizes /\ price = Unset /\ balance \in Balances
  /\ maker = 0 /\ taker = 0 /\ built = FALSE
  /\ books \in UNION {[1..len -> [price : BookPrices, size : BookSizes]] : len \in 0..MaxLevels}
  /\ \A j, k \in 1..Len(books) : j < k => Worse(books[j].price, books[k].price)
  /\ i = Len(books) /\ sum = 0
  /\ walk = IF books = <<>> THEN "failed" ELSE "running"

OrderInit == GivenPrice \/ PriceFromBook

-----------------------------------------------------------------------------
Filled_Shares(level) == level.size * (IF side = "BUY" THEN One ELSE 1)

Filled(level) == IF side = "BUY" THEN level.size * level.price ELSE level.size

(***************************************************************************)
(* The amount, in the unit of a sum; and whether the sum s of the levels   *)
(* from k on is subject to rounding: a single size is not.                 *)
(***************************************************************************)
Amount == size * (IF side = "BUY" THEN One ELSE 1)

Inexact(s, k) == s > 0 /\ (side = "BUY" \/ k < Len(books))

Matched(s) == s * 10 >= Amount

Missed(s) == s * 10 < Amount \/ (s * 10 = Amount /\ Inexact(s, i))

(***************************************************************************)
(* The price found goes into the caller's order and must be valid.         *)
(***************************************************************************)
PriceFound(p) ==
  /\ price' = p
  /\ walk' = IF Tick <= p /\ p <= One - Tick THEN "done" ELSE "failed"

Level ==
  /\ walk = "running" /\ i > 0
  /\ sum' = sum + Filled(books[i])
  /\ \/ Matched(sum') /\ PriceFound(books[i].price) /\ UNCHANGED i
     \/ Missed(sum') /\ i' = i - 1 /\ UNCHANGED <<price, walk>>
  /\ UNCHANGED <<kind, side, d, size, balance, maker, taker, built, orderType, books>>

(***************************************************************************)
(* All levels together are not enough: a FOK order fails, another one      *)
(* takes what there is.                                                    *)
(***************************************************************************)
Exhausted ==
  /\ walk = "running" /\ i = 0
  /\ IF orderType = "FOK" THEN walk' = "failed" /\ UNCHANGED price
     ELSE PriceFound(books[1].price)
  /\ UNCHANGED <<kind, side, d, size, balance, maker, taker, built, orderType, books, i, sum>>

BuildOrder == walk \in {"given", "done"} /\ Build /\ UNCHANGED walkVars

OrderNext == Level \/ Exhausted \/ BuildOrder

OrderSpec == OrderInit /\ [][OrderNext]_orderVars

-----------------------------------------------------------------------------
(***************************************************************************)
(* What the levels in L offer together: to a buyer shares worth so much    *)
(* collateral, to a seller a demand for so many shares.  It is compared    *)
(* with an amount in 1/1000.                                               *)
(***************************************************************************)
Depth(L) ==
  MapThenSumSet(LAMBDA k : books[k].size * (IF side = "BUY" THEN books[k].price ELSE 1), L)

Reaches(depth, thousandths) == depth * 10 >= thousandths * (IF side = "BUY" THEN One ELSE 1)

Covers(L, thousandths) == Reaches(Depth(L), thousandths)

(***************************************************************************)
(* The levels from k on may be taken not to hold the amount: they hold     *)
(* less, or exactly as much and the sum is rounded.                        *)
(***************************************************************************)
Exceeds(depth, thousandths) == depth * 10 > thousandths * (IF side = "BUY" THEN One ELSE 1)

NotEnough(depth, k) ==
  ~Reaches(depth, size) \/ (~Exceeds(depth, size) /\ Inexact(depth, k))

(***************************************************************************)
(* The price is the best one at which the book holds the amount: what is   *)
(* offered at that price or better suffices, what is offered strictly      *)
(* better does not.  If the whole book does not suffice, FOK orders are    *)
(* refused and others get the worst price.  Only levels that hold the      *)
(* amount exactly may be passed over as if they did not                    *)
(* (CalculateBuyMarketPrice, CalculateSellMarketPrice).                    *)
(***************************************************************************)
BestSufficientPrice ==
  walk \in {"done", "failed"} =>
    LET last == Len(books)
    IN \/ \E k \in 1..last :
            /\ price = books[k].price
            /\ Covers(k..last, size)
            /\ k < last => NotEnough(Depth((k + 1)..last), k + 1)
       \/ /\ books # <<>> => NotEnough(Depth(1..last), 1)
          /\ price = IF books = <<>> \/ orderType = "FOK" THEN Unset ELSE books[1].price

(***************************************************************************)
(* A fill-or-kill order is refused for want of depth only if the book does *)
(* not hold its amount.                                                    *)
(***************************************************************************)
ExactFillTaken ==
  walk = "failed" /\ price = Unset /\ books # <<>> => ~Covers(1..Len(books), size)

(***************************************************************************)
(* A level whose price satisfies the one the two amounts mean.             *)
(***************************************************************************)
Acceptable(level) ==
  IF side = "BUY" THEN level.price * taker <= maker * Scale * 10
  ELSE level.price * maker >= taker * 10

OnTick == side = "BUY" => price % Tick = 0

(***************************************************************************)
(* A fill-or-kill order priced from the book can be filled by that book:   *)
(* the levels that satisfy the price its two amounts mean hold all it      *)
(* gives.  This needs the walk to stop far enough and the amounts to be    *)
(* rounded the right way.  A buyer whose order has a larger tick size than *)
(* the book is excepted, since its price is rounded down to that tick size *)
(* (CreateMarketOrder, GetMarketOrderRawAmounts).                          *)
(***************************************************************************)
MarketOrderFills ==
  built /\ walk = "done" /\ orderType = "FOK" /\ OnTick =>
    Covers({k \in 1..Len(books) : Acceptable(books[k])}, maker * 10)
=============================================================================
