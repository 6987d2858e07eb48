---------------------------- MODULE MarketEvents ----------------------------
(***************************************************************************)
(* How MarketMonitor (polymarket/market_monitor.go) handles the events of  *)
(* the market feed.  The workers of the WebSocket client call OnMessage    *)
(* concurrently; each of them checks the parsing switch of the event's     *)
(* kind, updates the stored book of the token and hands the event to the   *)
(* bounded channel of its kind, with no lock around the whole.             *)
(*                                                                         *)
(* A book is represented by its timestamp, 0 for "no book"; the other      *)
(* kinds of event carry a timestamp too.  orderBooks maps a token to a     *)
(* BookStore object; a deleted entry leaves its BookStore to the workers   *)
(* that still hold a pointer to it.                                        *)
(***************************************************************************)
EXTENDS Integers, Sequences

CONSTANTS
  Workers,    \* the messageLoop goroutines that call OnMessage
  Tokens,     \* asset ids
  Kinds,      \* kinds of event that occur, a subset of AllKinds
  IsStore,    \* pm.isStore
  ChCap,      \* capacity of every consumer channel
  MaxTs,      \* bound: timestamps
  MaxStores   \* bound: BookStore objects

AllKinds == {"book", "market_resolved", "price_change", "last_trade_price"}

ASSUME KindsAssumption == Kinds \subseteq AllKinds
ASSUME BoundsAssumption ==
  /\ ChCap \in Nat \ {0}
  /\ MaxTs \in Nat \ {0}
  /\ MaxStores \in Nat
ASSUME StoreAssumption == IsStore \in BOOLEAN

VARIABLES
  subscribed, \* kinds whose parsing switch is on
  orderBooks, \* token -> BookStore, 0 if there is no entry
  stores,     \* BookStore -> timestamp of its book, 0 if it is empty
  allocated,  \* BookStores created so far
  pc,         \* where each worker is
  event,      \* the event each worker handles
  store,      \* the BookStore each worker works on, 0 if none
  channel,    \* kind -> the events queued for its consumer
  raced       \* history: workers overtaken between Load and Store or drop and push

vars == <<subscribed, orderBooks, stores, allocated, pc, event, store, channel, raced>>

StoreIds == 1..MaxStores
Timestamps == 1..MaxTs
Events == [kind : Kinds, token : Tokens, ts : Timestamps]
NoEvent == [kind |-> "none", token |-> "none", ts |-> 0]

TypeOK ==
  /\ subscribed \subseteq Kinds
  /\ orderBooks \in [Tokens -> 0..MaxStores]
  /\ stores \in [StoreIds -> 0..MaxTs]
  /\ allocated \in 0..MaxStores
  /\ pc \in [Workers -> {"idle", "load", "compare", "store", "emit", "drop", "push"}]
  /\ event \in [Workers -> Events \cup {NoEvent}]
  /\ \A w \in Workers : pc[w] # "idle" => event[w] \in Events
  /\ store \in [Workers -> 0..MaxStores]
  /\ channel \in [Kinds -> Seq(Events)]
  /\ \A k \in Kinds : Len(channel[k]) <= ChCap
  /\ raced \subseteq Workers

Init ==
  /\ subscribed = {}
  /\ orderBooks = [t \in Tokens |-> 0]
  /\ stores = [s \in StoreIds |-> 0]
  /\ allocated = 0
  /\ pc = [w \in Workers |-> "idle"]
  /\ event = [w \in Workers |-> NoEvent]
  /\ store = [w \in Workers |-> 0]
  /\ channel = [k \in Kinds |-> <<>>]
  /\ raced = {}

(***************************************************************************)
(* SubscribeOrderBook and its siblings, and their Unsubscribe counterparts *)
(* only turn the switch; the channel keeps what it holds.                  *)
(***************************************************************************)
SubscribeKind(k) ==
  /\ k \notin subscribed
  /\ subscribed' = subscribed \cup {k}
  /\ UNCHANGED <<orderBooks, stores, allocated, pc, event, store, channel, raced>>

UnsubscribeKind(k) ==
  /\ k \in subscribed
  /\ subscribed' = subscribed \ {k}
  /\ UNCHANGED <<orderBooks, stores, allocated, pc, event, store, channel, raced>>

(***************************************************************************)
(* The consumer receives from the channel of kind k.                       *)
(***************************************************************************)
Consume(k) ==
  /\ channel[k] # <<>>
  /\ channel' = [channel EXCEPT ![k] = Tail(@)]
  /\ UNCHANGED <<subscribed, orderBooks, stores, allocated, pc, event, store, raced>>

(***************************************************************************)
(* RemoveTokenOrderBook, and the deletions of UnsubscribeTokens and Reset. *)
(***************************************************************************)
DeleteBook(t) ==
  /\ orderBooks[t] # 0
  /\ orderBooks' = [orderBooks EXCEPT ![t] = 0]
  /\ UNCHANGED <<subscribed, stores, allocated, pc, event, store, channel, raced>>

-----------------------------------------------------------------------------
(***************************************************************************)
(* The switch of handleMessage: an event nobody subscribed to is skipped,  *)
(* except a book when books are stored.  A worker starts on an event that  *)
(* is wanted; heartbeats and all other messages change nothing.            *)
(***************************************************************************)
Wanted(k) == k \in subscribed \/ (k = "book" /\ IsStore)

handleMessage(w, e) ==
  /\ pc[w] = "idle" /\ Wanted(e.kind)
  /\ event' = [event EXCEPT ![w] = e]
  /\ pc' = [pc EXCEPT ![w] = IF e.kind = "book" /\ IsStore THEN "load" ELSE "emit"]
  /\ UNCHANGED <<subscribed, orderBooks, stores, allocated, store, channel, raced>>

(***************************************************************************)
(* updateOrderBook: LoadOrStore, then Load and the comparison of the       *)
(* timestamps, then Store: three separate atomic operations.               *)
(***************************************************************************)
LoadOrStore(w) ==
  LET t == event[w].token IN
  /\ pc[w] = "load"
  /\ \/ /\ orderBooks[t] # 0
        /\ store' = [store EXCEPT ![w] = orderBooks[t]]
        /\ UNCHANGED <<orderBooks, allocated>>
     \/ /\ orderBooks[t] = 0 /\ allocated < MaxStores
        /\ allocated' = allocated + 1
        /\ orderBooks' = [orderBooks EXCEPT ![t] = allocated + 1]
        /\ store' = [store EXCEPT ![w] = allocated + 1]
  /\ pc' = [pc EXCEPT ![w] = "compare"]
  /\ UNCHANGED <<subscribed, stores, event, channel, raced>>

Stale_Never(w) == FALSE

(***************************************************************************)
(* A book older than the stored one is not stored.                         *)
(***************************************************************************)
Stale(w) == event[w].ts < stores[store[w]]

LoadAndCompare(w) ==
  /\ pc[w] = "compare"
  /\ pc' = [pc EXCEPT ![w] = IF Stale(w) THEN "emit" ELSE "store"]
  /\ raced' = raced \ {w}
  /\ UNCHANGED <<subscribed, orderBooks, stores, allocated, event, store, channel>>

Store(w) ==
  /\ pc[w] = "store"
  /\ stores' = [stores EXCEPT ![store[w]] = event[w].ts]
  /\ raced' = raced \cup {v \in Workers \ {w} : store[v] = store[w]}
  /\ pc' = [pc EXCEPT ![w] = "emit"]
  /\ UNCHANGED <<subscribed, orderBooks, allocated, event, store, channel>>

-----------------------------------------------------------------------------
(***************************************************************************)
(* emitOrderBook, emitPriceChange and emitLastTradePrice: queue without    *)
(* blocking, or drop the oldest and try again.  onMarketResolved tries     *)
(* once.                                                                   *)
(***************************************************************************)
Room(k) == Len(channel[k]) < ChCap

Overtaken(w) == {v \in Workers \ {w} : pc[v] = "push" /\ event[v].kind = event[w].kind}

TryPush(w) ==
  LET k == event[w].kind IN
  IF Room(k)
    THEN /\ channel' = [channel EXCEPT ![k] = Append(@, event[w])]
         /\ raced' = raced \cup Overtaken(w)
    ELSE UNCHANGED <<channel, raced>>

Finish(w) ==
  /\ pc' = [pc EXCEPT ![w] = "idle"]
  /\ event' = [event EXCEPT ![w] = NoEvent]

Emit(w) ==
  LET k == event[w].kind IN
  /\ pc[w] = "emit"
  /\ TryPush(w)
  /\ \/ (Room(k) \/ k = "market_resolved") /\ Finish(w)
     \/ /\ ~Room(k) /\ k # "market_resolved"
        /\ pc' = [pc EXCEPT ![w] = "drop"]
        /\ UNCHANGED event
  /\ store' = [store EXCEPT ![w] = 0]
  /\ UNCHANGED <<subscribed, orderBooks, stores, allocated>>

DropOldest_KeepsIt(w) ==
  /\ pc[w] = "drop"
  /\ pc' = [pc EXCEPT ![w] = "push"]
  /\ raced' = raced \ {w}
  /\ UNCHANGED <<subscribed, orderBooks, stores, allocated, event, store, channel>>

DropOldest(w) ==
  LET k == event[w].kind IN
  /\ pc[w] = "drop"
  /\ channel' = IF channel[k] = <<>> THEN channel
                ELSE [channel EXCEPT ![k] = Tail(@)]
  /\ pc' = [pc EXCEPT ![w] = "push"]
  /\ raced' = raced \ {w}
  /\ UNCHANGED <<subscribed, orderBooks, stores, allocated, event, store>>

PushAgain(w) ==
  /\ pc[w] = "push"
  /\ TryPush(w)
  /\ Finish(w)
  /\ UNCHANGED <<subscribed, orderBooks, stores, allocated, store>>

-----------------------------------------------------------------------------
WorkerStep(w) ==
  \/ LoadOrStore(w) \/ LoadAndCompare(w) \/ Store(w)
  \/ Emit(w) \/ DropOldest(w) \/ PushAgain(w)
  \/ \E e \in Events : handleMessage(w, e)

Next ==
  \/ \E w \in Workers : WorkerStep(w)
  \/ \E k \in Kinds : SubscribeKind(k) \/ UnsubscribeKind(k) \/ Consume(k)
  \/ \E t \in Tokens : DeleteBook(t)

Spec == Init /\ [][Next]_vars

-----------------------------------------------------------------------------
(***************************************************************************)
(* What GetTokenOrderBook and GetTokenPrice return for token t: the        *)
(* timestamp of the stored book, 0 when they report an error.              *)
(***************************************************************************)
GetTokenOrderBook(t) == IF orderBooks[t] = 0 THEN 0 ELSE stores[orderBooks[t]]

(***************************************************************************)
(* The comparison in updateOrderBook prevents a rollback by workers that   *)
(* handle messages out of order: as long as a token keeps its entry, a     *)
(* reader never gets an older book than before.                            *)
(***************************************************************************)
BookNeverRollsBack ==
  [][\A t \in Tokens : orderBooks'[t] = orderBooks[t] /\ orderBooks[t] # 0
       => GetTokenOrderBook(t)' >= GetTokenOrderBook(t)]_vars

(***************************************************************************)
(* A book is replaced by an older one only if another worker stored a book *)
(* between this worker's Load and its Store (updateOrderBook).             *)
(***************************************************************************)
RollbackOnlyIfRaced ==
  [][\A s \in StoreIds : stores'[s] < stores[s]
       => \E w \in raced : pc[w] = "store" /\ store[w] = s]_vars

(***************************************************************************)
(* A full channel loses its oldest event, never the new one: when a worker *)
(* tries again there is room, unless another worker queued an event of     *)
(* that kind since it dropped the oldest (emitOrderBook, emitPriceChange   *)
(* and emitLastTradePrice).                                                *)
(***************************************************************************)
NewestLostOnlyIfRaced ==
  \A w \in Workers : pc[w] = "push" /\ w \notin raced => Room(event[w].kind)

(***************************************************************************)
(* A full channel loses its oldest event, as the comments on the emit      *)
(* functions say, and never the new one.                                   *)
(***************************************************************************)
NewestKept == \A w \in Workers : pc[w] = "push" => Room(event[w].kind)
=============================================================================
