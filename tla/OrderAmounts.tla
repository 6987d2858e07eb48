---------------------------- MODULE OrderAmounts ----------------------------
(***************************************************************************)
(* The maker and taker amounts of an order (orders/order_helper.go), from  *)
(* its size and price and the rounding of its tick size (GetRoundConfig):  *)
(* d decimals for the price, 2 for the size, d + 2 for the other amount.   *)
(*                                                                         *)
(* The caller's numbers have one decimal more than that, which stands for  *)
(* whatever rounding removes: price counts 10^-(d+1), size counts 1/1000.  *)
(* A rounded price counts 10^-d, a rounded size 1/100 and the other amount *)
(* 10^-(d+2).  ParseUnits then multiplies both by 10^6, which is exact as  *)
(* d + 2 <= 6, and is left out.                                            *)
(***************************************************************************)
EXTENDS Integers, Sequences

CONSTANTS
  Decimals,  \* price decimals of the tick sizes: 1 to 4
  Sizes,     \* sizes or amounts asked for
  Margin     \* prices within Margin of either end are checked, in 10^-(d+1)

ASSUME DecimalsAssumption == Decimals \subseteq 1..4 /\ Decimals # {}
ASSUME SizesAssumption == Sizes \subseteq Nat /\ Margin \in Nat

VARIABLES
  kind,     \* "limit" or "market"
  side,     \* "BUY" or "SELL"
  d,        \* price decimals of the tick size
  size,     \* UserOrder.Size or UserMarketOrder.Amount
  price,    \* the price asked for
  balance,  \* UserUSDCBalance: "absent", "covers" amount and fees, or "short"
  maker,    \* MakerAmount
  taker,    \* TakerAmount
  built     \* the amounts are computed

vars == <<kind, side, d, size, price, balance, maker, taker, built>>

Balances == {"absent", "covers", "short"}

Tick == 10
One == <<100, 1000, 10000, 100000>>[d]                \* 10^(d+1)
Scale == <<100, 10000, 1000000, 100000000>>[d]        \* 10^(2d)

(***************************************************************************)
(* A price passes PriceValid before amounts are computed.                  *)
(***************************************************************************)
Init ==
  /\ kind \in {"limit", "market"} /\ side \in {"BUY", "SELL"}
  /\ d \in Decimals /\ size \in Sizes
  /\ balance \in (IF kind = "market" THEN Balances ELSE {"absent"})
  /\ price \in (Tick..(Tick + Margin)) \cup ((One - Tick - Margin)..(One - Tick))
  /\ Tick <= price /\ price <= One - Tick
  /\ maker = 0 /\ taker = 0 /\ built = FALSE

RoundDown_ToNearest(x) == (x + 5) \div 10

RoundDown(x) == x \div 10

RoundNormal(x) == (x + 5) \div 10

CeilDiv(a, b) == (a + b - 1) \div b

(***************************************************************************)
(* The quotient n / p is rounded up to four decimals beyond the amount's   *)
(* and then down to the amount's.  q + r / p is the exact value.           *)
(***************************************************************************)
Finer == 10000    \* four more decimals

RoundAmount_Up(n, p) == CeilDiv(n, p)

RoundAmount(n, p) ==
  LET q == n \div p
      r == n % p
  IN  q + CeilDiv(r * Finer, p) \div Finer

(***************************************************************************)
(* The product of a rounded size and a rounded price has no more decimals  *)
(* than the amount may have, and is not rounded again.                     *)
(***************************************************************************)
GetOrderRawAmounts ==
  LET s == RoundDown(size)
      cost == s * RoundNormal(price)
  IN IF side = "BUY" THEN maker' = cost /\ taker' = s
     ELSE maker' = s /\ taker' = cost

(***************************************************************************)
(* A market order buys for an amount of collateral, and sells a size.  The *)
(* balance is not read.                                                    *)
(***************************************************************************)
GetMarketOrderRawAmounts ==
  LET s == RoundDown(size)
      p == RoundDown(price)
  IN /\ maker' = s
     /\ taker' = IF side = "BUY" THEN RoundAmount(s * Scale, p) ELSE s * p

Build ==
  /\ ~built /\ built' = TRUE
  /\ IF kind = "limit" THEN GetOrderRawAmounts ELSE GetMarketOrderRawAmounts
  /\ UNCHANGED <<kind, side, d, size, price, balance>>

Next == Build

Spec == Init /\ [][Next]_vars

-----------------------------------------------------------------------------
(***************************************************************************)
(* The amount is to be used as it is, unless the balance does not cover it *)
(* and the fees (UserMarketOrder.UserUSDCBalance).                         *)
(***************************************************************************)
UsedAsIs == balance # "short"

(***************************************************************************)
(* No order is for more than was asked, and one whose amount is to be used *)
(* as it is falls short by less than one hundredth (GetOrderRawAmounts,    *)
(* GetMarketOrderRawAmounts).                                              *)
(***************************************************************************)
SizeAsAsked ==
  built =>
    LET s == IF kind = "limit" /\ side = "BUY" THEN taker ELSE maker
    IN  s * 10 <= size /\ (UsedAsIs => size - s * 10 < 10)

(***************************************************************************)
(* A market order whose amount is not to be used as it is pays less, the   *)
(* fees being deducted.                                                    *)
(***************************************************************************)
FeesDeducted ==
  built /\ kind = "market" /\ side = "BUY" /\ ~UsedAsIs /\ size >= 10 => maker < RoundDown(size)

(***************************************************************************)
(* The ratio of the amounts is the price: the nearest one on the tick grid *)
(* for a limit order; for a market order the one below the price asked     *)
(* for, a buyer's shares being rounded down and never up, although they    *)
(* are first rounded up four decimals further (GetMarketOrderRawAmounts).  *)
(***************************************************************************)
AmountsMeanPrice ==
  built =>
    IF kind = "limit"
    THEN \E p \in ((price - 5) \div 10)..((price + 5) \div 10) :
           /\ 10 * p - price \in -5..5
           /\ IF side = "BUY" THEN maker = taker * p ELSE taker = maker * p
    ELSE LET p == price \div 10 IN
         IF side = "SELL" THEN taker = maker * p
         ELSE LET exact == maker * Scale
              IN  taker * p <= exact /\ exact - taker * p < p
=============================================================================
