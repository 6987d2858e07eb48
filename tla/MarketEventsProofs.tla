------------------------- MODULE MarketEventsProofs -------------------------
(***************************************************************************)
(* Proofs about the handling of market events, for every number of         *)
(* workers, tokens, timestamps and BookStores.                             *)
(***************************************************************************)
EXTENDS MarketEvents, TLAPS

(***************************************************************************)
(* Between Load and Store a worker's BookStore holds no newer book than    *)
(* the worker's own, unless another worker stored one meanwhile.           *)
(***************************************************************************)
UnracedInv ==
  \A w \in Workers :
    pc[w] = "store" /\ w \notin raced => stores[store[w]] <= event[w].ts

(***************************************************************************)
(* A worker inside updateOrderBook has a BookStore.                        *)
(***************************************************************************)
HasStore ==
  \A w \in Workers : pc[w] \in {"compare", "store"} => store[w] \in StoreIds

BookInv == TypeOK /\ HasStore /\ UnracedInv /\ NewestLostOnlyIfRaced

LEMMA EventTypes ==
  ASSUME TypeOK, NEW w \in Workers, pc[w] # "idle"
  PROVE  /\ event[w].kind \in Kinds /\ event[w].token \in Tokens
         /\ event[w].ts \in 1..MaxTs
BY DEF TypeOK, Events, Timestamps

(***************************************************************************)
(* A non-blocking send keeps the type and the capacity of the channels.    *)
(***************************************************************************)
LEMMA TryPushTypes ==
  ASSUME TypeOK, NEW w \in Workers, pc[w] # "idle", TryPush(w)
  PROVE  /\ channel' \in [Kinds -> Seq(Events)]
         /\ \A k \in Kinds : Len(channel'[k]) <= ChCap
         /\ raced' \subseteq Workers /\ raced \subseteq raced'
<1> DEFINE e == event[w]
<1> DEFINE c == channel[e.kind]
<1>1. e \in Events /\ e.kind \in Kinds
  BY DEF TypeOK, Events
<1>2. c \in Seq(Events) /\ Len(c) \in Nat
  BY <1>1 DEF TypeOK
<1>3. CASE Room(e.kind)
  <2>1. channel' = [channel EXCEPT ![e.kind] = Append(c, e)]
    BY <1>3 DEF TryPush
  <2>2. Append(c, e) \in Seq(Events) /\ Len(Append(c, e)) = Len(c) + 1
    BY <1>1, <1>2
  <2>3. Len(Append(c, e)) <= ChCap
    BY <1>2, <1>3, <2>2, BoundsAssumption DEF Room
  <2>4. raced' \subseteq Workers /\ raced \subseteq raced'
    BY <1>3 DEF TryPush, Overtaken, TypeOK
  <2> HIDE DEF c, e
  <2> QED
    BY <1>1, <2>1, <2>2, <2>3, <2>4 DEF TypeOK
<1>4. CASE ~Room(e.kind)
  BY <1>4 DEF TryPush, TypeOK
<1> QED
  BY <1>3, <1>4

LEMMA TailTypes ==
  ASSUME TypeOK, NEW k \in Kinds, channel[k] # <<>>,
         channel' = [channel EXCEPT ![k] = Tail(@)]
  PROVE  /\ channel' \in [Kinds -> Seq(Events)]
         /\ \A j \in Kinds : Len(channel'[j]) <= ChCap
<1>1. channel[k] \in Seq(Events) /\ Len(channel[k]) <= ChCap
  BY DEF TypeOK
<1>2. /\ Tail(channel[k]) \in Seq(Events)
      /\ Len(Tail(channel[k])) = Len(channel[k]) - 1
  BY <1>1
<1>3. Len(Tail(channel[k])) <= ChCap
  BY <1>1, <1>2, BoundsAssumption
<1> QED
  BY <1>2, <1>3 DEF TypeOK

LEMMA TypeOKStep == BookInv /\ [Next]_vars => TypeOK' /\ HasStore'
<1> SUFFICES ASSUME BookInv, [Next]_vars PROVE TypeOK' /\ HasStore'
  OBVIOUS
<1> USE BoundsAssumption, KindsAssumption DEF BookInv, HasStore, StoreIds
<1>1. ASSUME NEW w \in Workers, NEW e \in Events, handleMessage(w, e)
      PROVE  TypeOK' /\ HasStore'
  BY <1>1 DEF handleMessage, TypeOK
<1>2. ASSUME NEW w \in Workers, LoadOrStore(w) PROVE TypeOK' /\ HasStore'
  <2> DEFINE t == event[w].token
  <2>1. t \in Tokens
    BY <1>2, EventTypes DEF LoadOrStore
  <2>2. CASE orderBooks[t] # 0
    <3>1. store' = [store EXCEPT ![w] = orderBooks[t]] /\ orderBooks[t] \in 1..MaxStores
      BY <1>2, <2>1, <2>2 DEF LoadOrStore, TypeOK
    <3>2. UNCHANGED <<orderBooks, allocated>>
      BY <1>2, <2>2 DEF LoadOrStore
    <3> QED
      BY <1>2, <3>1, <3>2 DEF LoadOrStore, TypeOK
  <2>3. CASE orderBooks[t] = 0
    <3>1. /\ allocated + 1 \in 1..MaxStores /\ allocated' = allocated + 1
          /\ store' = [store EXCEPT ![w] = allocated + 1]
          /\ orderBooks' = [orderBooks EXCEPT ![t] = allocated + 1]
      BY <1>2, <2>3 DEF LoadOrStore, TypeOK
    <3> QED
      BY <1>2, <2>1, <3>1 DEF LoadOrStore, TypeOK
  <2> QED
    BY <2>2, <2>3
<1>3. ASSUME NEW w \in Workers, LoadAndCompare(w) PROVE TypeOK' /\ HasStore'
  BY <1>3 DEF LoadAndCompare, TypeOK
<1>4. ASSUME NEW w \in Workers, Store(w) PROVE TypeOK' /\ HasStore'
  BY <1>4, EventTypes DEF Store, TypeOK
<1>5. ASSUME NEW w \in Workers, Emit(w) PROVE TypeOK' /\ HasStore'
  <2>1. /\ channel' \in [Kinds -> Seq(Events)]
        /\ \A k \in Kinds : Len(channel'[k]) <= ChCap
        /\ raced' \subseteq Workers
    BY <1>5, TryPushTypes DEF Emit
  <2>2. \/ Finish(w)
        \/ pc' = [pc EXCEPT ![w] = "drop"] /\ UNCHANGED event
    BY <1>5 DEF Emit
  <2>3. /\ UNCHANGED <<subscribed, orderBooks, stores, allocated>>
        /\ store' = [store EXCEPT ![w] = 0] /\ pc[w] = "emit"
    BY <1>5 DEF Emit
  <2>4. CASE Finish(w)
    BY <2>1, <2>3, <2>4 DEF Finish, TypeOK
  <2>5. CASE pc' = [pc EXCEPT ![w] = "drop"] /\ UNCHANGED event
    BY <2>1, <2>3, <2>5 DEF TypeOK
  <2> QED
    BY <2>2, <2>4, <2>5
<1>6. ASSUME NEW w \in Workers, DropOldest(w) PROVE TypeOK' /\ HasStore'
  BY <1>6, EventTypes, TailTypes DEF DropOldest, TypeOK
<1>7. ASSUME NEW w \in Workers, PushAgain(w) PROVE TypeOK' /\ HasStore'
  BY <1>7, TryPushTypes DEF PushAgain, Finish, TypeOK
<1>8. ASSUME NEW k \in Kinds, SubscribeKind(k) \/ UnsubscribeKind(k)
      PROVE  TypeOK' /\ HasStore'
  BY <1>8 DEF SubscribeKind, UnsubscribeKind, TypeOK
<1>9. ASSUME NEW k \in Kinds, Consume(k) PROVE TypeOK' /\ HasStore'
  BY <1>9, TailTypes DEF Consume, TypeOK
<1>10. ASSUME NEW t \in Tokens, DeleteBook(t) PROVE TypeOK' /\ HasStore'
  BY <1>10 DEF DeleteBook, TypeOK
<1>11. CASE UNCHANGED vars
  BY <1>11 DEF vars, TypeOK
<1> QED
  BY <1>1, <1>2, <1>3, <1>4, <1>5, <1>6, <1>7, <1>8, <1>9, <1>10, <1>11
  DEF Next, WorkerStep

LEMMA UnracedStep == BookInv /\ [Next]_vars => UnracedInv'
<1> SUFFICES ASSUME BookInv, [Next]_vars, NEW w \in Workers,
                    pc'[w] = "store", w \notin raced'
             PROVE  stores'[store'[w]] <= event'[w].ts
  BY DEF UnracedInv
<1> USE DEF BookInv
<1>1. ASSUME NEW v \in Workers, LoadAndCompare(v)
      PROVE  stores'[store'[w]] <= event'[w].ts
  <2>1. CASE v = w
    <3>1. ~Stale(w) /\ UNCHANGED <<stores, store, event>> /\ pc[w] = "compare"
      BY <1>1, <2>1 DEF LoadAndCompare, TypeOK
    <3>2. stores[store[w]] \in 0..MaxTs /\ event[w].ts \in 1..MaxTs
      BY <3>1, EventTypes DEF HasStore, TypeOK
    <3> QED
      BY <3>1, <3>2, BoundsAssumption DEF Stale
  <2>2. CASE v # w
    BY <1>1, <2>2 DEF LoadAndCompare, UnracedInv, TypeOK
  <2> QED
    BY <2>1, <2>2
<1>2. ASSUME NEW v \in Workers, Store(v)
      PROVE  stores'[store'[w]] <= event'[w].ts
  <2>1. v # w /\ pc[w] = "store" /\ w \notin raced /\ store[v] # store[w]
    BY <1>2 DEF Store, TypeOK
  <2>2. stores'[store[w]] = stores[store[w]] /\ UNCHANGED <<store, event>>
    BY <1>2, <2>1 DEF Store, TypeOK, HasStore
  <2> QED
    BY <2>1, <2>2 DEF UnracedInv
<1>3. ASSUME NEW v \in Workers,
             \/ LoadOrStore(v) \/ Emit(v) \/ DropOldest(v) \/ PushAgain(v)
             \/ \E e \in Events : handleMessage(v, e)
      PROVE  stores'[store'[w]] <= event'[w].ts
  <2>1. v # w
    BY <1>3 DEF LoadOrStore, Emit, DropOldest, PushAgain, handleMessage, Finish, TypeOK
  <2>2. /\ pc'[w] = pc[w] /\ store'[w] = store[w] /\ event'[w] = event[w]
        /\ UNCHANGED stores
    BY <1>3, <2>1 DEF LoadOrStore, Emit, DropOldest, PushAgain, handleMessage,
                      Finish, TypeOK
  <2>3. w \notin raced
    BY <1>3, <2>1 DEF LoadOrStore, Emit, DropOldest, PushAgain, handleMessage, TryPush
  <2> QED
    BY <2>2, <2>3 DEF UnracedInv
<1>4. CASE \/ UNCHANGED vars
           \/ \E k \in Kinds : SubscribeKind(k) \/ UnsubscribeKind(k) \/ Consume(k)
           \/ \E t \in Tokens : DeleteBook(t)
  BY <1>4 DEF vars, SubscribeKind, UnsubscribeKind, Consume, DeleteBook, UnracedInv
<1> QED
  BY <1>1, <1>2, <1>3, <1>4 DEF Next, WorkerStep

LEMMA NewestStep == BookInv /\ [Next]_vars => NewestLostOnlyIfRaced'
<1> SUFFICES ASSUME BookInv, [Next]_vars, NEW w \in Workers,
                    pc'[w] = "push", w \notin raced'
             PROVE  Len(channel'[event'[w].kind]) < ChCap
  BY DEF NewestLostOnlyIfRaced, Room
<1> USE DEF BookInv
<1> DEFINE k == event[w].kind
<1>1. ASSUME NEW v \in Workers, DropOldest(v), v = w
      PROVE  Len(channel'[event'[w].kind]) < ChCap
  <2>1. k \in Kinds /\ event' = event
    BY <1>1, EventTypes DEF DropOldest
  <2>2. channel[k] \in Seq(Events) /\ Len(channel[k]) <= ChCap
    BY <2>1 DEF TypeOK
  <2>3. CASE channel[k] = <<>>
    BY <1>1, <2>1, <2>3, BoundsAssumption DEF DropOldest
  <2>4. CASE channel[k] # <<>>
    <3>1. channel'[k] = Tail(channel[k])
      BY <1>1, <2>1, <2>4 DEF DropOldest, TypeOK
    <3>2. Len(Tail(channel[k])) = Len(channel[k]) - 1 /\ Len(channel[k]) \in Nat
      BY <2>2, <2>4
    <3> QED
      BY <2>1, <2>2, <3>1, <3>2, BoundsAssumption
  <2> QED
    BY <2>3, <2>4
<1>2. ASSUME pc[w] = "push", event'[w] = event[w], w \notin raced,
             \/ channel'[k] = channel[k]
             \/ channel[k] # <<>> /\ channel'[k] = Tail(channel[k])
      PROVE  Len(channel'[event'[w].kind]) < ChCap
  <2>1. Len(channel[k]) < ChCap
    BY <1>2 DEF NewestLostOnlyIfRaced, Room
  <2>2. channel[k] \in Seq(Events)
    BY <1>2, EventTypes DEF TypeOK
  <2>3. Len(channel'[k]) <= Len(channel[k])
    <3>1. CASE channel'[k] = channel[k]
      BY <2>2, <3>1
    <3>2. CASE channel[k] # <<>> /\ channel'[k] = Tail(channel[k])
      <4>1. Len(Tail(channel[k])) = Len(channel[k]) - 1 /\ Len(channel[k]) \in Nat
        BY <2>2, <3>2
      <4> QED
        BY <3>2, <4>1
    <3> QED
      BY <1>2, <3>1, <3>2
  <2>4. Len(channel[k]) \in Nat /\ Len(channel'[k]) \in Nat
    <3>1. CASE channel'[k] = channel[k]
      BY <2>2, <3>1
    <3>2. CASE channel[k] # <<>> /\ channel'[k] = Tail(channel[k])
      <4>1. Tail(channel[k]) \in Seq(Events)
        BY <2>2, <3>2
      <4> QED
        BY <2>2, <3>2, <4>1
    <3> QED
      BY <1>2, <3>1, <3>2
  <2> QED
    BY <1>2, <2>1, <2>3, <2>4, BoundsAssumption
<1>3. ASSUME NEW v \in Workers, v # w, DropOldest(v)
      PROVE  Len(channel'[event'[w].kind]) < ChCap
  <2>1. pc[w] = "push" /\ event' = event /\ w \notin raced
    BY <1>3 DEF DropOldest, TypeOK
  <2>2. \/ channel'[k] = channel[k]
        \/ channel[k] # <<>> /\ channel'[k] = Tail(channel[k])
    BY <1>3, <2>1, EventTypes DEF DropOldest, TypeOK
  <2> QED
    BY <1>2, <2>1, <2>2
<1>4. ASSUME NEW v \in Workers, Emit(v) \/ PushAgain(v)
      PROVE  Len(channel'[event'[w].kind]) < ChCap
  <2>1. v # w /\ TryPush(v) /\ pc[v] # "idle"
    BY <1>4 DEF Emit, PushAgain, Finish, TypeOK
  <2>2. pc[w] = "push" /\ event'[w] = event[w]
    BY <1>4, <2>1 DEF Emit, PushAgain, Finish, TypeOK
  <2>3. w \notin raced
    BY <2>1 DEF TryPush
  <2>4. channel'[k] = channel[k]
    <3>1. CASE Room(event[v].kind)
      <4>1. event[v].kind # k
        BY <2>1, <2>2, <3>1 DEF TryPush, Overtaken
      <4> QED
        BY <2>1, <2>2, <3>1, <4>1, EventTypes DEF TryPush, TypeOK
    <3>2. CASE ~Room(event[v].kind)
      BY <2>1, <3>2 DEF TryPush
    <3> QED
      BY <3>1, <3>2
  <2> QED
    BY <1>2, <2>2, <2>3, <2>4
<1>5. ASSUME NEW v \in Workers,
             \/ LoadOrStore(v) \/ LoadAndCompare(v) \/ Store(v)
             \/ \E e \in Events : handleMessage(v, e)
      PROVE  Len(channel'[event'[w].kind]) < ChCap
  <2>1. v # w
    BY <1>5 DEF LoadOrStore, LoadAndCompare, Store, handleMessage, TypeOK
  <2>2. pc[w] = "push" /\ event'[w] = event[w] /\ w \notin raced /\ channel' = channel
    BY <1>5, <2>1 DEF LoadOrStore, LoadAndCompare, Store, handleMessage, TypeOK
  <2> QED
    BY <1>2, <2>2
<1>6. ASSUME NEW j \in Kinds, Consume(j)
      PROVE  Len(channel'[event'[w].kind]) < ChCap
  <2>1. pc[w] = "push" /\ event' = event /\ w \notin raced
    BY <1>6 DEF Consume
  <2>2. \/ channel'[k] = channel[k]
        \/ channel[k] # <<>> /\ channel'[k] = Tail(channel[k])
    BY <1>6, <2>1, EventTypes DEF Consume, TypeOK
  <2> QED
    BY <1>2, <2>1, <2>2
<1>7. CASE \/ UNCHANGED vars
           \/ \E j \in Kinds : SubscribeKind(j) \/ UnsubscribeKind(j)
           \/ \E t \in Tokens : DeleteBook(t)
  BY <1>2, <1>7 DEF vars, SubscribeKind, UnsubscribeKind, DeleteBook
<1> QED
  BY <1>1, <1>3, <1>4, <1>5, <1>6, <1>7 DEF Next, WorkerStep

(***************************************************************************)
(* The types, the capacity of the channels and UnracedInv hold throughout. *)
(***************************************************************************)
THEOREM BookInvariance == Spec => []BookInv
<1>1. Init => BookInv
  <2> SUFFICES ASSUME Init PROVE BookInv
    OBVIOUS
  <2>1. <<>> \in Seq(Events) /\ Len(<<>>) = 0
    OBVIOUS
  <2>2. TypeOK
    BY <2>1, BoundsAssumption DEF Init, TypeOK, StoreIds
  <2> QED
    BY <2>2 DEF Init, BookInv, HasStore, UnracedInv, NewestLostOnlyIfRaced
<1>2. BookInv /\ [Next]_vars => BookInv'
  BY TypeOKStep, UnracedStep, NewestStep DEF BookInv
<1> QED
  BY <1>1, <1>2, PTL DEF Spec

(***************************************************************************)
(* However many workers there are, a book is replaced by an older one only *)
(* when another worker stored between Load and Store (updateOrderBook).    *)
(***************************************************************************)
LEMMA RollbackNeedsRace ==
  ASSUME BookInv, [Next]_vars, NEW s \in StoreIds, stores'[s] < stores[s]
  PROVE  \E w \in raced : pc[w] = "store" /\ store[w] = s
<1> USE DEF BookInv
<1>1. stores[s] \in Int
  BY DEF TypeOK
<1>2. stores' # stores
  BY <1>1
<1>3. PICK w \in Workers : Store(w)
  BY <1>2 DEF Next, WorkerStep, LoadOrStore, LoadAndCompare, Emit, DropOldest,
              PushAgain, handleMessage, SubscribeKind, UnsubscribeKind, Consume,
              DeleteBook, vars
<1>4. pc[w] = "store" /\ store[w] \in StoreIds /\ event[w].ts \in 1..MaxTs
  BY <1>3, EventTypes DEF Store, HasStore
<1>5. store[w] = s
  BY <1>1, <1>3 DEF Store, TypeOK
<1>6. event[w].ts < stores[s]
  BY <1>3, <1>5 DEF Store, TypeOK
<1>7. w \in raced
  BY <1>1, <1>4, <1>5, <1>6, BoundsAssumption DEF UnracedInv
<1> QED
  BY <1>4, <1>5, <1>7

THEOREM RollbackNeedsRacingWorker == Spec => RollbackOnlyIfRaced
<1>1. BookInv /\ [Next]_vars
        => [\A s \in StoreIds : stores'[s] < stores[s]
              => \E w \in raced : pc[w] = "store" /\ store[w] = s]_vars
  BY RollbackNeedsRace
<1> QED
  BY <1>1, BookInvariance, PTL DEF Spec, RollbackOnlyIfRaced

(***************************************************************************)
(* However many workers there are, a full channel loses its newest event   *)
(* only to another worker's (emitOrderBook and its siblings).              *)
(***************************************************************************)
THEOREM NewestLostNeedsRacingWorker == Spec => []NewestLostOnlyIfRaced
<1>1. BookInv => NewestLostOnlyIfRaced
  BY DEF BookInv
<1> QED
  BY <1>1, BookInvariance, PTL

(***************************************************************************)
(* With a single worker the comparison in updateOrderBook does what its    *)
(* comment says: as long as a token keeps its entry its book never goes    *)
(* back in time.                                                           *)
(***************************************************************************)
THEOREM OneWorkerNeverRollsBack ==
  ASSUME \A v, w \in Workers : v = w
  PROVE  Spec => BookNeverRollsBack
<1> DEFINE NoRace == raced = {}
<1>1. Init => NoRace
  BY DEF Init
<1>2. NoRace /\ [Next]_vars => NoRace'
  BY DEF Next, WorkerStep, LoadOrStore, LoadAndCompare, Store, Emit, DropOldest,
         PushAgain, TryPush, Overtaken, handleMessage, SubscribeKind,
         UnsubscribeKind, Consume, DeleteBook, vars
<1>3. BookInv /\ NoRace /\ [Next]_vars
        => [\A t \in Tokens : orderBooks'[t] = orderBooks[t] /\ orderBooks[t] # 0
              => GetTokenOrderBook(t)' >= GetTokenOrderBook(t)]_vars
  <2> SUFFICES ASSUME BookInv, BookInv', raced = {}, [Next]_vars, NEW t \in Tokens,
                      orderBooks'[t] = orderBooks[t], orderBooks[t] # 0
               PROVE  GetTokenOrderBook(t)' >= GetTokenOrderBook(t)
    BY TypeOKStep, UnracedStep, NewestStep DEF BookInv
  <2> DEFINE s == orderBooks[t]
  <2>1. s \in StoreIds
    BY DEF BookInv, TypeOK, StoreIds
  <2>2. stores[s] \in Int /\ stores'[s] \in Int
    BY <2>1 DEF BookInv, TypeOK
  <2>3. ~(stores'[s] < stores[s])
    BY <2>1, RollbackNeedsRace
  <2> QED
    BY <2>2, <2>3 DEF GetTokenOrderBook
<1> HIDE DEF NoRace
<1>4. Spec => []NoRace
  BY <1>1, <1>2, PTL DEF Spec
<1> QED
  BY <1>3, <1>4, BookInvariance, PTL DEF Spec, BookNeverRollsBack
=============================================================================
