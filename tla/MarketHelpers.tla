--------------------------- MODULE MarketHelpers ---------------------------
(***************************************************************************)
(* The helpers of polymarket/helper.go, which read the coin and the period *)
(* of a market off its tags.  Tags are lower-case slugs; times are counted *)
(* in minutes from Go's zero time and a month has Month days.  An end date *)
(* is the text of the time, which may be unreadable.                       *)
(***************************************************************************)
EXTENDS Integers, Sequences

CONSTANT Month   \* days of the month that AddDate adds

ASSUME MonthAssumption == Month \in 28..31

TIME_UNITS_ShortestFirst == <<"5m", "15m", "hourly", "4h", "daily", "weekly", "monthly">>

TIME_UNITS == <<"15m", "hourly", "4h", "daily", "weekly", "monthly", "5m">>

TIME_UNIT_MAP ==
  [unit \in {"5m", "15m", "hourly", "4h", "daily", "weekly", "monthly"} |->
     CASE unit = "5m" -> "fiveminute" [] unit = "15m" -> "fifteen" [] unit = "4h" -> "fourhour"
       [] OTHER -> unit]

SYMBOL_MAP ==
  [sol |-> "SOL", solana |-> "SOL", eth |-> "ETH", ethereum |-> "ETH",
   btc |-> "BTC", bitcoin |-> "BTC", xrp |-> "XRP", dogecoin |-> "DOGE"]

NoUnit == "none"

(***************************************************************************)
(* The slugs are tried in the order in which Go iterates over the map,     *)
(* which is any.                                                           *)
(***************************************************************************)
GetSymbol(tags) == {SYMBOL_MAP[slug] : slug \in tags \cap DOMAIN SYMBOL_MAP}

GetTimeUnit(tags) ==
  LET found == {k \in 1..Len(TIME_UNITS) : TIME_UNITS[k] \in tags} IN
  IF found = {} THEN NoUnit ELSE TIME_UNITS[CHOOSE k \in found : \A j \in found : k <= j]

GetSearchTimeUnit(unit) == TIME_UNIT_MAP[unit]

Hour == 60
Day == 24 * Hour

Dates == [readable : BOOLEAN, time : Int]

(***************************************************************************)
(* The error of an unreadable date is dropped: it becomes the zero time.   *)
(***************************************************************************)
TimeParse(timeStr) == IF timeStr.readable THEN timeStr.time ELSE 0

(***************************************************************************)
(* The cases go by the positions in TIME_UNITS.                            *)
(***************************************************************************)
GetStartTime(unit, endDate) ==
  LET startDate == TimeParse(endDate) IN
  CASE unit = TIME_UNITS[1] -> startDate - 15
    [] unit = TIME_UNITS[2] -> startDate - Hour
    [] unit = TIME_UNITS[3] -> startDate - 4 * Hour
    [] unit = TIME_UNITS[4] -> startDate - Day
    [] unit = TIME_UNITS[5] -> startDate - 7 * Day
    [] unit = TIME_UNITS[6] -> startDate + Month * Day
    [] unit = TIME_UNITS[7] -> startDate - 5
    [] OTHER -> startDate
=============================================================================
