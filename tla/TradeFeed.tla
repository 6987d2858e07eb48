----------------------------- MODULE TradeFeed -----------------------------
(***************************************************************************)
(* TradeMonitor (polymarket/trade_monitor.go) as the handler of the        *)
(* WebSocket client: what becomes of the messages of module WSMessages.    *)
(* Its subscription is the one module WSClient follows to the socket.      *)
(*                                                                         *)
(* A message has a kind: "trade" and "order" parse, "badTrade" and         *)
(* "badOrder" name that event type and do not, "heartbeat" is empty, PONG  *)
(* or {}, anything else is "other".                                        *)
(***************************************************************************)
EXTENDS WSMessages

CONSTANTS
  Feeds,     \* sequences of messages the server sends, by their kinds
  EventCap   \* capacity of eventCh

MsgKinds == {"trade", "order", "badTrade", "badOrder", "other", "heartbeat"}

ASSUME FeedsAssumption == Feeds \subseteq [Messages -> MsgKinds]
ASSUME EventCapAssumption == EventCap \in Nat \ {0}

VARIABLES
  kindOf,      \* kindOf[m]: the kind of message m, fixed by the server
  eventCh,     \* events queued for the consumer
  consumed,    \* history: the events it has read
  lostEvents   \* history: messages whose event found eventCh full

eventVars == <<eventCh, consumed, lostEvents>>
feedVars == <<vars, kindOf, eventVars>>

FeedInit ==
  /\ Init
  /\ kindOf \in Feeds
  /\ eventCh = <<>> /\ consumed = <<>> /\ lostEvents = {}

isHeartbeatMessage(kind) == kind = "heartbeat"

(***************************************************************************)
(* procTrade and procOrder: the event of a message, with or without the    *)
(* parsed object.                                                          *)
(***************************************************************************)
Event(m, type, parsed) == [msg |-> m, type |-> type, parsed |-> parsed]

emitEvent(ev) ==
  IF Len(eventCh) < EventCap
    THEN eventCh' = Append(eventCh, ev) /\ UNCHANGED lostEvents
    ELSE lostEvents' = lostEvents \cup {ev.msg} /\ UNCHANGED eventCh

procTrade(m) == emitEvent(Event(m, "trade", kindOf[m] = "trade"))

procOrder_OnlyParsed(m) ==
  IF kindOf[m] = "order" THEN emitEvent(Event(m, "order", TRUE))
  ELSE UNCHANGED <<eventCh, lostEvents>>

procOrder(m) == emitEvent(Event(m, "order", kindOf[m] = "order"))

handleMessage(m) ==
  CASE kindOf[m] \in {"trade", "badTrade"} -> procTrade(m)
    [] kindOf[m] \in {"order", "badOrder"} -> procOrder(m)
    [] OTHER -> emitEvent(Event(m, "unknown", FALSE))

OnMessage(w) ==
  /\ OnMessageReturns(w)
  /\ IF isHeartbeatMessage(kindOf[job[w]])
       THEN UNCHANGED <<eventCh, lostEvents>>
       ELSE handleMessage(job[w])
  /\ UNCHANGED <<kindOf, consumed>>

Consume ==
  /\ eventCh # <<>>
  /\ eventCh' = Tail(eventCh)
  /\ consumed' = Append(consumed, Head(eventCh))
  /\ UNCHANGED <<vars, kindOf, lostEvents>>

FeedNext ==
  \/ /\ \/ RunStep
        \/ \E g \in Gens : ReaderStep(g)
        \/ \E w \in Workers : Take(w) \/ WorkerEnd(w)
     /\ UNCHANGED <<kindOf, eventVars>>
  \/ \E w \in Workers : OnMessage(w)
  \/ Consume

FeedSpec == FeedInit /\ [][FeedNext]_feedVars

(***************************************************************************)
(* Workers are scheduled; OnMessage never blocks on eventCh.               *)
(***************************************************************************)
FeedWorker(w) ==
  \/ (Take(w) \/ WorkerEnd(w)) /\ UNCHANGED <<kindOf, eventVars>>
  \/ OnMessage(w)

FeedFairSpec == FeedSpec /\ \A w \in Workers : WF_feedVars(FeedWorker(w))

-----------------------------------------------------------------------------
Events == consumed \o eventCh
Handled == Range(taken) \ {job[w] : w \in Workers}

EventType(m) ==
  CASE kindOf[m] \in {"trade", "badTrade"} -> "trade"
    [] kindOf[m] \in {"order", "badOrder"} -> "order"
    [] OTHER -> "unknown"

(***************************************************************************)
(* Everything but heartbeats is passed on (the comment on TradeMonitor):   *)
(* however many workers and generations handle them, each handled message, *)
(* parsed or not, yields one event of its type, or was lost to a full      *)
(* eventCh.                                                                *)
(***************************************************************************)
EventsComplete ==
  /\ {Events[i].msg : i \in 1..Len(Events)} =
       {m \in Handled : kindOf[m] # "heartbeat"} \ lostEvents
  /\ \A i, j \in 1..Len(Events) : Events[i].msg = Events[j].msg => i = j
  /\ \A i \in 1..Len(Events) :
       /\ Events[i].type = EventType(Events[i].msg)
       /\ Events[i].parsed <=> kindOf[Events[i].msg] \in {"trade", "order"}
=============================================================================
