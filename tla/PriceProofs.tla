---------------------------- MODULE PriceProofs ----------------------------
(***************************************************************************)
(* Proofs about the prices of CryptoPriceMonitor: the calls for open       *)
(* prices (GetContext, RateLimit and OpenPrice), for every configuration,  *)
(* every Retry-After and every width of a duration; and the price feed     *)
(* (PriceFeed), for any number of workers, symbols and updates, any        *)
(* capacity of priceCh, every monitor type, every set of market tags and   *)
(* every end date.                                                         *)
(***************************************************************************)
EXTENDS OpenPrice, PriceFeed, TLAPS

(***************************************************************************)
(* The waits so far fit into the time since the first 429, which ends at   *)
(* wakeAt during a wait and at now during a request.                       *)
(***************************************************************************)
WaitedSince == IF stage = "wait" THEN wakeAt ELSE now

BudgetInv ==
  /\ retryDeadline = 0 => slept = 0 /\ stage # "wait"
  /\ retryDeadline # 0 /\ stage \in {"request", "wait"}
       => slept <= WaitedSince - (retryDeadline - budget)
  /\ slept <= budget

(***************************************************************************)
(* A wait is entered with attempts left and ends within both deadlines.    *)
(***************************************************************************)
WaitInv ==
  stage = "wait" => attempt < maxRetries /\ wakeAt <= retryDeadline

(***************************************************************************)
(* Where a call is that outlives its context: still at the attempt at      *)
(* which the context ended, or in the one request begun after that.        *)
(***************************************************************************)
EndedInv ==
  /\ stage = "late" => ctxDone /\ attempt = endedAt + 1
  /\ ctxDone /\ stage \in {"request", "wait", "panic"} => attempt = endedAt
  /\ EndedContextStopsRetries

RetryInv == GetTypeOK /\ BudgetInv /\ WaitInv /\ WaitEndsBeforeCtx /\ EndedInv

LEMMA ParameterTypes ==
  /\ maxRetries \in Nat \ {0} /\ budget \in Nat \ {0}
  /\ CtxDeadlines \subseteq Nat
BY CfgAssumption, TimeAssumption
DEF maxRetries, budget, defaultRateLimitMaxRetries, defaultRateLimitRetryBudget

(***************************************************************************)
(* What remains never exceeds either deadline.                             *)
(***************************************************************************)
LEMMA RemainingBounds ==
  ASSUME GetTypeOK
  PROVE  /\ Deadline(now) \in Nat \ {0} /\ Remaining(now) \in Int
         /\ Remaining(now) <= Deadline(now) - now
         /\ ctxDeadline > 0 => Remaining(now) <= ctxDeadline - now
BY ParameterTypes DEF GetTypeOK, Deadline, Remaining

(***************************************************************************)
(* The step that matters: a new wait, whatever delay was computed for it.  *)
(***************************************************************************)
LEMMA StartWaitStep ==
  ASSUME RetryInv, NEW ra, stage = "request", MayRetry, StartWait(ra)
  PROVE  RetryInv'
<1> USE ParameterTypes
<1>1. PICK d \in Durations :
        LET delay == IF d > Remaining(now) THEN Remaining(now) ELSE d IN
        /\ wakeAt' = now + AtLeastZero(delay)
        /\ slept' = slept + AtLeastZero(delay)
  BY DEF StartWait, rateLimitDelay
<1> DEFINE wait == AtLeastZero(IF d > Remaining(now) THEN Remaining(now) ELSE d)
<1>2. d \in Int
  BY TimeAssumption DEF Durations
<1>3. wait \in Nat /\ wait <= Remaining(now)
  BY <1>2, RemainingBounds DEF AtLeastZero, StartWait, RetryInv
<1>4. wakeAt' = now + wait /\ slept' = slept + wait
  BY <1>1
<1> HIDE DEF wait
<1>5. /\ retryDeadline' = Deadline(now) /\ stage' = "wait"
      /\ UNCHANGED <<now, attempt, ctxDeadline, ctxDone, result, endedAt>>
  BY DEF StartWait
<1>6. GetTypeOK'
  BY <1>3, <1>4, <1>5, RemainingBounds DEF RetryInv, GetTypeOK
<1>7. WaitInv' /\ WaitEndsBeforeCtx' /\ EndedInv'
  BY <1>3, <1>4, <1>5, RemainingBounds
  DEF RetryInv, GetTypeOK, WaitInv, WaitEndsBeforeCtx, EndedInv, EndedContextStopsRetries, MayRetry
<1>8. slept <= now - (Deadline(now) - budget)
  BY DEF RetryInv, GetTypeOK, BudgetInv, WaitedSince, Deadline
<1>9. BudgetInv'
  BY <1>3, <1>4, <1>5, <1>8, RemainingBounds DEF RetryInv, GetTypeOK, BudgetInv, WaitedSince
<1> QED
  BY <1>6, <1>7, <1>9 DEF RetryInv

LEMMA RetryStep == RetryInv /\ [GetNext]_getVars => RetryInv'
<1> SUFFICES ASSUME RetryInv, [GetNext]_getVars PROVE RetryInv'
  OBVIOUS
<1> USE ParameterTypes DEF RetryInv, BudgetInv, WaitInv, WaitEndsBeforeCtx, EndedInv, EndedContextStopsRetries, WaitedSince
<1>1. CASE Tick
  BY <1>1 DEF Tick, GetTypeOK
<1>2. CASE Cancel
  BY <1>2 DEF Cancel, GetTypeOK
<1>3. CASE Answered \/ RequestFails
  BY <1>3 DEF Answered, RequestFails, Return, GetTypeOK, Results
<1>4. CASE Wake
  BY <1>4 DEF Wake, Request, GetTypeOK
<1>5. CASE WaitAborted
  BY <1>5 DEF WaitAborted, Return, GetTypeOK, Results
<1>6. ASSUME NEW ra \in RetryAfters, Got429(ra) PROVE RetryInv'
  <2>1. CASE GiveUpRetrying
    BY <1>6, <2>1, RemainingBounds DEF Got429, GiveUpRetrying, Return, GetTypeOK, Results, Deadline
  <2>2. CASE StartWait(ra)
    BY <1>6, <2>2, StartWaitStep DEF Got429
  <2>3. CASE Crash(ra)
    BY <1>6, <2>3, RemainingBounds DEF Got429, Crash, GetTypeOK, Deadline
  <2> QED
    BY <1>6, <2>1, <2>2, <2>3 DEF Got429
<1>7. CASE UNCHANGED getVars
  BY <1>7 DEF getVars, GetTypeOK
<1> QED
  BY <1>1, <1>2, <1>3, <1>4, <1>5, <1>6, <1>7 DEF GetNext, Call, Returned

(***************************************************************************)
(* The inductive invariant behind the theorems below.                      *)
(***************************************************************************)
THEOREM RetryInvariance == GetSpec => []RetryInv
<1>1. GetInit => RetryInv
  <2> SUFFICES ASSUME GetInit PROVE RetryInv
    OBVIOUS
  <2>1. GetTypeOK
    <3>1. attempt \in 0..maxRetries /\ endedAt \in 0..maxRetries /\ now \in Nat \ {0} /\ slept \in Nat
      BY ParameterTypes DEF GetInit
    <3>2. (result = "none") <=> (stage # "done")
      BY DEF GetInit
    <3> QED
      BY <3>1, <3>2 DEF GetInit, GetTypeOK, Results
  <2>2. BudgetInv /\ WaitInv /\ WaitEndsBeforeCtx /\ EndedInv
    BY ParameterTypes DEF GetInit, BudgetInv, WaitInv, WaitEndsBeforeCtx, EndedInv, EndedContextStopsRetries
  <2> QED
    BY <2>1, <2>2 DEF RetryInv
<1> QED
  BY <1>1, RetryStep, PTL DEF GetSpec

(***************************************************************************)
(* The types hold; in particular a call makes at most maxRetries + 1       *)
(* requests.                                                               *)
(***************************************************************************)
THEOREM RetriesBounded == GetSpec => []GetTypeOK
<1>1. RetryInv => GetTypeOK
  BY DEF RetryInv
<1> QED
  BY <1>1, RetryInvariance, PTL

(***************************************************************************)
(* The waits of one call stay within the budget, for every Retry-After the *)
(* server can send, even where a duration overflows.                       *)
(***************************************************************************)
THEOREM WaitsWithinBudget == GetSpec => []SleptWithinBudget
<1>1. RetryInv => SleptWithinBudget
  BY DEF RetryInv, BudgetInv, SleptWithinBudget
<1> QED
  BY <1>1, RetryInvariance, PTL

(***************************************************************************)
(* No wait is scheduled past the deadline of the caller's context.         *)
(***************************************************************************)
THEOREM WaitsWithinCtx == GetSpec => []WaitEndsBeforeCtx
<1>1. RetryInv => WaitEndsBeforeCtx
  BY DEF RetryInv
<1> QED
  BY <1>1, RetryInvariance, PTL

(***************************************************************************)
(* After its context has ended a call begins at most one more request,     *)
(* which fails with the context's error, for every Retry-After and every   *)
(* way select decides (GetContext).                                        *)
(***************************************************************************)
THEOREM EndedContextEndsCall == GetSpec => []EndedContextStopsRetries
<1>1. RetryInv => EndedContextStopsRetries
  BY DEF RetryInv, EndedInv
<1> QED
  BY <1>1, RetryInvariance, PTL
-----------------------------------------------------------------------------
(***************************************************************************)
(* However the context of a call is derived, the call itself is one of     *)
(* GetContext: the theorems above hold of it (FetchOpenPrice).             *)
(***************************************************************************)
THEOREM FetchIsCall == FetchSpec => GetSpec
<1>1. FetchInit => GetInit
  BY DEF FetchInit
<1>2. ASSUME [FetchNext]_fetchVars
      PROVE  [GetNext]_getVars
  <2>1. CASE UNCHANGED fetchVars
    BY <2>1 DEF fetchVars
  <2>2. CASE RunEnds
    BY <2>2 DEF RunEnds, GetNext
  <2>3. QED
    BY <1>2, <2>1, <2>2 DEF FetchNext, GetNext
<1>3. QED
  BY <1>1, <1>2, PTL DEF FetchSpec, GetSpec

-----------------------------------------------------------------------------
Busy == {w \in Workers : pc[w] # "idle"}

(***************************************************************************)
(* Updates are numbered in the order in which they came, and the newest of *)
(* a feed is known as soon as it is received.                              *)
(***************************************************************************)
AgeInv ==
  /\ \A w \in Busy : msg[w].ts <= newest[msg[w].feed][msg[w].base]
  /\ \A f \in Feeds, b \in Bases : newest[f][b] <= updates

(***************************************************************************)
(* An update that is still being handled was already there when anything   *)
(* newer arrived.                                                          *)
(***************************************************************************)
RaceInv ==
  \A v \in Busy, f \in Feeds, b \in Bases :
    <<msg[v].ts, newest[f][b]>> \in overlaps \/ msg[v].ts >= newest[f][b]

(***************************************************************************)
(* A stored price is the newest, or raced with it, or the newest is on its *)
(* way.                                                                    *)
(***************************************************************************)
OnItsWay(f, b) ==
  \E w \in Workers : pc[w] = "store" /\ msg[w].feed = f /\ msg[w].base = b /\ msg[w].ts = newest[f][b]

LatestInv ==
  \A f \in Feeds, b \in Bases : LatestUnlessRaced(prices[f][b], newest[f][b]) \/ OnItsWay(f, b)

PricesInv == TypeOK /\ AgeInv /\ RaceInv /\ LatestInv

(***************************************************************************)
(* What was subscribed follows from the arguments of the monitor; a query  *)
(* is one for a known unit.                                                *)
(***************************************************************************)
SubscribedInv ==
  /\ symbols \subseteq Requested
  /\ subscriptions = NewCryptoPriceMonitor(monitorType, symbols)

Units == {"15m", "hourly", "4h", "daily", "weekly", "monthly", "5m"}

QueryInv ==
  query = NoQuery \/ \E unit \in Units, endDate \in Dates : query = Query(query.symbol, unit, endDate)
-----------------------------------------------------------------------------
LEMMA UpdateFacts ==
  /\ MaxUpdates \in Nat
  /\ \A u \in Updates : u.feed \in Feeds /\ u.base \in Bases /\ u.ts \in Nat /\ u.ts \in 0..MaxUpdates
<1>1. MaxUpdates \in Nat
  BY BoundsAssumption
<1>2. \A u \in Updates : u.feed \in Feeds /\ u.base \in Bases /\ u.ts \in Nat /\ u.ts \in 0..MaxUpdates
  BY <1>1 DEF Updates
<1>3. QED
  BY <1>1, <1>2

LEMMA StateFacts ==
  ASSUME TypeOK
  PROVE  /\ updates \in Nat
         /\ \A w \in Busy : msg[w] \in Updates /\ msg[w].ts \in Nat /\ msg[w].feed \in Feeds /\ msg[w].base \in Bases
         /\ \A f \in Feeds, b \in Bases : newest[f][b] \in Nat /\ prices[f][b] \in Nat
<1>1. updates \in Nat
  BY DEF TypeOK
<1>2. \A w \in Busy : msg[w] \in Updates
  BY DEF TypeOK, Busy
<1>3. \A f \in Feeds, b \in Bases : newest[f][b] \in 0..MaxUpdates /\ prices[f][b] \in 0..MaxUpdates
  BY DEF TypeOK
<1>4. QED
  BY <1>1, <1>2, <1>3, UpdateFacts

(***************************************************************************)
(* An update arrives: it is newer than everything and races with what is   *)
(* being handled.                                                          *)
(***************************************************************************)
LEMMA ReceiveInv ==
  ASSUME PricesInv, NEW w \in Workers, NEW topic, NEW window, NEW b \in Bases,
         Receive(w, topic, window, b)
  PROVE  PricesInv'
<1> DEFINE n == updates + 1
           f == Feed(topic, window)
           u == [feed |-> f, base |-> b, ts |-> n]
<1>1. TypeOK /\ AgeInv /\ RaceInv /\ LatestInv
  BY DEF PricesInv
<1>2. /\ pc[w] = "idle" /\ updates < MaxUpdates /\ updates' = n /\ f \in Feeds
      /\ msg' = [msg EXCEPT ![w] = u]
      /\ newest' = [newest EXCEPT ![f][b] = n]
      /\ overlaps' = overlaps \cup {<<msg[v].ts, n>> : v \in Busy}
      /\ pc' = [pc EXCEPT ![w] = "store"]
      /\ UNCHANGED <<monitorType, symbols, prices, priceCh>>
  BY DEF Receive, Sent, Busy
<1>3. /\ updates \in Nat /\ n \in Nat /\ f \in Feeds /\ n \in 0..MaxUpdates /\ u \in Updates
      /\ u.feed = f /\ u.base = b /\ u.ts = n
  <2>1. updates \in Nat /\ f \in Feeds
    BY <1>1, <1>2, StateFacts
  <2>2. n \in Nat /\ n \in 1..MaxUpdates /\ n \in 0..MaxUpdates
    BY <1>2, <2>1, UpdateFacts
  <2>3. QED
    BY <2>1, <2>2 DEF Updates
<1> HIDE DEF n, f, u
<1>4. /\ \A v \in Busy : msg[v] \in Updates /\ msg[v].ts \in Nat /\ msg[v].ts < n
      /\ \A g \in Feeds, c \in Bases : newest[g][c] \in Nat /\ newest[g][c] < n
  <2>1. \A g \in Feeds, c \in Bases : newest[g][c] \in Nat /\ newest[g][c] < n
    BY <1>1, <1>3, StateFacts DEF AgeInv, n
  <2>2. ASSUME NEW v \in Busy
        PROVE  msg[v] \in Updates /\ msg[v].ts \in Nat /\ msg[v].ts < n
    <3>1. msg[v] \in Updates /\ msg[v].ts \in Nat /\ msg[v].feed \in Feeds /\ msg[v].base \in Bases
      BY <1>1, StateFacts
    <3>2. msg[v].ts <= newest[msg[v].feed][msg[v].base]
      BY <1>1 DEF AgeInv
    <3>3. QED
      BY <1>3, <2>1, <3>1, <3>2
  <2>3. QED
    BY <2>1, <2>2
<1>5. /\ Busy' = Busy \cup {w} /\ w \notin Busy
      /\ msg'[w] = u /\ \A v \in Workers : v # w => msg'[v] = msg[v] /\ pc'[v] = pc[v]
      /\ pc'[w] = "store"
  BY <1>1, <1>2 DEF TypeOK, Busy
<1>6. /\ newest'[f][b] = n
      /\ \A g \in Feeds, c \in Bases : g # f \/ c # b => newest'[g][c] = newest[g][c]
      /\ newest' \in [Feeds -> [Bases -> 0..MaxUpdates]]
  BY <1>1, <1>2, <1>3 DEF TypeOK
<1>7. \A v \in Busy : <<msg[v].ts, n>> \in overlaps'
  BY <1>2
<1>8. \A v \in Busy : v # w /\ v \in Workers /\ msg'[v] = msg[v]
  BY <1>5 DEF Busy
<1>9. TypeOK'
  <2>1. pc' \in [Workers -> {"idle", "store", "emit"}] /\ msg' \in [Workers -> Updates \cup {NoUpdate}]
    BY <1>1, <1>2, <1>3 DEF TypeOK
  <2>2. \A v \in Workers : pc'[v] # "idle" => msg'[v] \in Updates
    BY <1>1, <1>3, <1>5 DEF TypeOK
  <2>3. QED
    BY <1>1, <1>2, <1>3, <1>6, <2>1, <2>2 DEF TypeOK
<1>10. AgeInv'
  <2>1. \A v \in Busy' : msg'[v].ts <= newest'[msg'[v].feed][msg'[v].base]
    <3>1. msg'[w].ts <= newest'[msg'[w].feed][msg'[w].base]
      BY <1>3, <1>5, <1>6
    <3>2. ASSUME NEW v \in Busy
          PROVE  msg[v].ts <= newest'[msg[v].feed][msg[v].base]
      <4>1. msg[v].feed \in Feeds /\ msg[v].base \in Bases /\ msg[v].ts <= newest[msg[v].feed][msg[v].base]
        BY <1>1, StateFacts DEF AgeInv
      <4>2. CASE msg[v].feed = f /\ msg[v].base = b
        <5>1. msg[v].ts \in Nat /\ msg[v].ts < n
          BY <1>4
        <5>2. QED
          BY <1>3, <1>6, <4>2, <5>1
      <4>3. CASE msg[v].feed # f \/ msg[v].base # b
        BY <1>6, <4>1, <4>3
      <4>4. QED
        BY <4>2, <4>3
    <3>3. QED
      BY <1>5, <1>8, <3>1, <3>2
  <2>2. ASSUME NEW g \in Feeds, NEW c \in Bases
        PROVE  newest'[g][c] <= n
    <3>1. CASE g = f /\ c = b
      BY <1>3, <1>6, <3>1
    <3>2. CASE g # f \/ c # b
      <4>1. newest'[g][c] = newest[g][c]
        BY <1>6, <3>2
      <4>2. QED
        BY <1>3, <1>4, <4>1
    <3>3. QED
      BY <3>1, <3>2
  <2>3. QED
    BY <1>2, <2>1, <2>2 DEF AgeInv
<1>11. RaceInv'
  <2> SUFFICES ASSUME NEW v \in Busy', NEW g \in Feeds, NEW c \in Bases
               PROVE  <<msg'[v].ts, newest'[g][c]>> \in overlaps' \/ msg'[v].ts >= newest'[g][c]
    BY DEF RaceInv
  <2>1. CASE v = w
    <3>1. newest'[g][c] <= n
      BY <1>3, <1>4, <1>6
    <3>2. QED
      BY <1>3, <1>4, <1>5, <1>6, <2>1, <3>1
  <2>2. CASE v \in Busy /\ g = f /\ c = b
    BY <1>6, <1>7, <1>8, <2>2
  <2>3. CASE v \in Busy /\ (g # f \/ c # b)
    BY <1>1, <1>2, <1>6, <1>8, <2>3 DEF RaceInv
  <2>4. QED
    BY <1>5, <2>1, <2>2, <2>3
<1>12. LatestInv'
  <2> SUFFICES ASSUME NEW g \in Feeds, NEW c \in Bases
               PROVE  \/ prices[g][c] = newest'[g][c] \/ <<prices[g][c], newest'[g][c]>> \in overlaps'
                      \/ \E v \in Workers : /\ pc'[v] = "store" /\ msg'[v].feed = g /\ msg'[v].base = c
                                            /\ msg'[v].ts = newest'[g][c]
    BY <1>2 DEF LatestInv, LatestUnlessRaced, OnItsWay
  <2>1. CASE g = f /\ c = b
    BY <1>3, <1>5, <1>6, <2>1
  <2>2. CASE g # f \/ c # b
    <3>1. \/ prices[g][c] = newest[g][c] \/ <<prices[g][c], newest[g][c]>> \in overlaps
          \/ \E v \in Workers : /\ pc[v] = "store" /\ msg[v].feed = g /\ msg[v].base = c
                                /\ msg[v].ts = newest[g][c]
      BY <1>1 DEF LatestInv, LatestUnlessRaced, OnItsWay
    <3>2. QED
      BY <1>2, <1>5, <1>6, <2>2, <3>1
  <2>3. QED
    BY <2>1, <2>2
<1>13. QED
  BY <1>9, <1>10, <1>11, <1>12 DEF PricesInv

(***************************************************************************)
(* The price is stored whatever the map holds: if a newer one has arrived, *)
(* this one raced with it.                                                 *)
(***************************************************************************)
LEMMA StoreInv ==
  ASSUME PricesInv, NEW w \in Workers, Store(w)
  PROVE  PricesInv'
<1> DEFINE f == msg[w].feed
           b == msg[w].base
           t == msg[w].ts
<1>1. TypeOK /\ AgeInv /\ RaceInv /\ LatestInv
  BY DEF PricesInv
<1>2. /\ pc[w] = "store" /\ prices' = [prices EXCEPT ![f][b] = t]
      /\ pc' = [pc EXCEPT ![w] = "emit"]
      /\ UNCHANGED <<monitorType, symbols, msg, priceCh, updates, newest, overlaps>>
  BY DEF Store, StorePrice
<1>3. w \in Busy /\ Busy' = Busy /\ \A v \in Workers : v # w => pc'[v] = pc[v]
  BY <1>1, <1>2 DEF Busy, TypeOK
<1>4. f \in Feeds /\ b \in Bases /\ t \in Nat /\ t \in 0..MaxUpdates /\ newest[f][b] \in Nat
  BY <1>1, <1>3, StateFacts, UpdateFacts
<1>5. t = newest[f][b] \/ <<t, newest[f][b]>> \in overlaps
  <2>1. <<t, newest[f][b]>> \in overlaps \/ t >= newest[f][b]
    BY <1>1, <1>3, <1>4 DEF RaceInv
  <2>2. t <= newest[f][b]
    BY <1>1, <1>3 DEF AgeInv
  <2>3. QED
    BY <1>4, <2>1, <2>2
<1> HIDE DEF f, b, t
<1>6. /\ prices'[f][b] = t
      /\ \A g \in Feeds, c \in Bases : g # f \/ c # b => prices'[g][c] = prices[g][c]
      /\ prices' \in [Feeds -> [Bases -> 0..MaxUpdates]]
  BY <1>1, <1>2, <1>4 DEF TypeOK
<1>7. TypeOK'
  <2>1. pc' \in [Workers -> {"idle", "store", "emit"}] /\ \A v \in Workers : pc'[v] # "idle" => msg[v] \in Updates
    BY <1>1, <1>2 DEF TypeOK
  <2>2. QED
    BY <1>1, <1>2, <1>6, <2>1 DEF TypeOK
<1>8. AgeInv' /\ RaceInv'
  BY <1>1, <1>2, <1>3 DEF AgeInv, RaceInv
<1>9. LatestInv'
  <2> SUFFICES ASSUME NEW g \in Feeds, NEW c \in Bases
               PROVE  \/ prices'[g][c] = newest[g][c] \/ <<prices'[g][c], newest[g][c]>> \in overlaps
                      \/ \E v \in Workers : /\ pc'[v] = "store" /\ msg[v].feed = g /\ msg[v].base = c
                                            /\ msg[v].ts = newest[g][c]
    BY <1>2 DEF LatestInv, LatestUnlessRaced, OnItsWay
  <2>1. CASE g = f /\ c = b
    BY <1>5, <1>6, <2>1
  <2>2. CASE g # f \/ c # b
    <3>1. \/ prices[g][c] = newest[g][c] \/ <<prices[g][c], newest[g][c]>> \in overlaps
          \/ \E v \in Workers : /\ pc[v] = "store" /\ msg[v].feed = g /\ msg[v].base = c
                                /\ msg[v].ts = newest[g][c]
      BY <1>1 DEF LatestInv, LatestUnlessRaced, OnItsWay
    <3>2. \A v \in Workers : pc[v] = "store" /\ msg[v].feed = g /\ msg[v].base = c => pc'[v] = "store"
      BY <1>3, <2>2 DEF f, b
    <3>3. QED
      BY <1>6, <2>2, <3>1, <3>2
  <2>3. QED
    BY <2>1, <2>2
<1>10. QED
  BY <1>7, <1>8, <1>9 DEF PricesInv

(***************************************************************************)
(* The price is queued, or dropped if the queue is full.                   *)
(***************************************************************************)
LEMMA QueueFacts ==
  ASSUME NEW S, NEW q \in Seq(S), NEW u \in S
  PROVE  Append(q, u) \in Seq(S) /\ Len(q) \in Nat /\ Len(Append(q, u)) = Len(q) + 1
OBVIOUS

LEMMA EmitInv ==
  ASSUME PricesInv, NEW w \in Workers, Emit(w)
  PROVE  PricesInv'
<1>1. TypeOK /\ AgeInv /\ RaceInv /\ LatestInv
  BY DEF PricesInv
<1>2. /\ pc[w] = "emit" /\ emitPrice(w)
      /\ pc' = [pc EXCEPT ![w] = "idle"] /\ msg' = [msg EXCEPT ![w] = NoUpdate]
      /\ UNCHANGED <<monitorType, symbols, prices, updates, newest, overlaps>>
  BY DEF Emit
<1>3. /\ w \in Busy
      /\ \A v \in Workers : v # w => pc'[v] = pc[v] /\ msg'[v] = msg[v]
      /\ \A v \in Busy' : v \in Busy /\ v # w /\ msg'[v] = msg[v]
  BY <1>1, <1>2 DEF Busy, TypeOK
<1>4. /\ pc' \in [Workers -> {"idle", "store", "emit"}] /\ msg' \in [Workers -> Updates \cup {NoUpdate}]
      /\ \A v \in Workers : pc'[v] # "idle" => msg'[v] \in Updates
  BY <1>1, <1>2 DEF TypeOK
<1>5. priceCh' \in Seq(Updates) /\ Len(priceCh') <= PriceCap
  <2>1. msg[w] \in Updates /\ priceCh \in Seq(Updates) /\ Len(priceCh) <= PriceCap
    BY <1>1, <1>3, StateFacts DEF TypeOK
  <2>2. CASE Len(priceCh) < PriceCap
    <3>1. priceCh' = Append(priceCh, msg[w])
      BY <1>2, <2>2 DEF emitPrice
    <3>2. QED
      BY <2>1, <2>2, <3>1, QueueFacts, BoundsAssumption
  <2>3. CASE ~(Len(priceCh) < PriceCap)
    BY <1>2, <2>1, <2>3 DEF emitPrice
  <2>4. QED
    BY <2>2, <2>3
<1>6. TypeOK'
  BY <1>1, <1>2, <1>4, <1>5 DEF TypeOK
<1>7. AgeInv' /\ RaceInv'
  BY <1>1, <1>2, <1>3 DEF AgeInv, RaceInv
<1>8. LatestInv'
  <2> SUFFICES ASSUME NEW g \in Feeds, NEW c \in Bases
               PROVE  \/ prices[g][c] = newest[g][c] \/ <<prices[g][c], newest[g][c]>> \in overlaps
                      \/ \E v \in Workers : /\ pc'[v] = "store" /\ msg'[v].feed = g /\ msg'[v].base = c
                                            /\ msg'[v].ts = newest[g][c]
    BY <1>2 DEF LatestInv, LatestUnlessRaced, OnItsWay
  <2>1. \/ prices[g][c] = newest[g][c] \/ <<prices[g][c], newest[g][c]>> \in overlaps
        \/ \E v \in Workers : /\ pc[v] = "store" /\ msg[v].feed = g /\ msg[v].base = c
                              /\ msg[v].ts = newest[g][c]
    BY <1>1 DEF LatestInv, LatestUnlessRaced, OnItsWay
  <2>2. QED
    BY <1>2, <1>3, <2>1
<1>9. QED
  BY <1>6, <1>7, <1>8 DEF PricesInv

LEMMA ConsumeInv ==
  ASSUME PricesInv, Consume
  PROVE  PricesInv'
<1>1. TypeOK /\ AgeInv /\ RaceInv /\ LatestInv
  BY DEF PricesInv
<1>2. /\ priceCh # <<>> /\ priceCh' = Tail(priceCh)
      /\ UNCHANGED <<monitorType, symbols, prices, pc, msg, updates, newest, overlaps>>
  BY DEF Consume
<1>3. priceCh' \in Seq(Updates) /\ Len(priceCh') <= PriceCap
  <2>1. priceCh \in Seq(Updates) /\ Len(priceCh) <= PriceCap
    BY <1>1 DEF TypeOK
  <2>2. priceCh' \in Seq(Updates) /\ Len(priceCh) \in Nat /\ Len(priceCh') = Len(priceCh) - 1
    BY <1>2, <2>1
  <2>3. QED
    BY <2>1, <2>2, BoundsAssumption
<1>4. TypeOK'
  BY <1>1, <1>2, <1>3 DEF TypeOK
<1>5. Busy' = Busy
  BY <1>2 DEF Busy
<1>6. AgeInv' /\ RaceInv'
  BY <1>1, <1>2, <1>5 DEF AgeInv, RaceInv
<1>7. LatestInv'
  BY <1>1, <1>2 DEF LatestInv, LatestUnlessRaced, OnItsWay
<1>8. QED
  BY <1>4, <1>6, <1>7 DEF PricesInv

(***************************************************************************)
(* A message that is ignored only counts.                                  *)
(***************************************************************************)
LEMMA IgnoreInv ==
  ASSUME PricesInv, NEW w \in Workers, NEW topic, NEW window, NEW b \in Bases,
         Ignore(w, topic, window, b)
  PROVE  PricesInv'
<1>1. TypeOK /\ AgeInv /\ RaceInv /\ LatestInv
  BY DEF PricesInv
<1>2. /\ updates < MaxUpdates /\ updates' = updates + 1
      /\ UNCHANGED <<monitorType, symbols, prices, pc, msg, priceCh, newest, overlaps>>
  BY DEF Ignore, Sent
<1>3. updates \in Nat /\ updates' \in 0..MaxUpdates /\ updates <= updates'
  BY <1>1, <1>2, StateFacts, UpdateFacts
<1>4. TypeOK'
  BY <1>1, <1>2, <1>3 DEF TypeOK
<1>5. Busy' = Busy
  BY <1>2 DEF Busy
<1>6. AgeInv'
  <2>1. \A f \in Feeds, c \in Bases : newest[f][c] \in Nat /\ newest[f][c] <= updates
    BY <1>1, StateFacts DEF AgeInv
  <2>2. updates' \in Nat /\ \A f \in Feeds, c \in Bases : newest[f][c] <= updates'
    BY <1>2, <1>3, <2>1
  <2>3. QED
    BY <1>1, <1>2, <1>5, <2>2 DEF AgeInv
<1>7. RaceInv' /\ LatestInv'
  BY <1>1, <1>2, <1>5 DEF RaceInv, LatestInv, LatestUnlessRaced, OnItsWay
<1>8. QED
  BY <1>4, <1>6, <1>7 DEF PricesInv

LEMMA PricesStep ==
  ASSUME PricesInv, [Next]_vars
  PROVE  PricesInv'
<1>1. CASE UNCHANGED vars
  <2>1. UNCHANGED <<monitorType, symbols, prices, pc, msg, priceCh, updates, newest, overlaps>>
    BY <1>1 DEF vars
  <2>2. TypeOK' /\ Busy' = Busy
    BY <2>1 DEF PricesInv, TypeOK, Busy
  <2>3. AgeInv' /\ RaceInv' /\ LatestInv'
    BY <2>1, <2>2 DEF PricesInv, AgeInv, RaceInv, LatestInv, LatestUnlessRaced, OnItsWay
  <2>4. QED
    BY <2>2, <2>3 DEF PricesInv
<1>2. ASSUME NEW tags \in Markets, NEW endDate \in EndDates, FetchOpenPrice(tags, endDate)
      PROVE  PricesInv'
  <2>1. UNCHANGED <<monitorType, symbols, prices, pc, msg, priceCh, updates, newest, overlaps>>
    BY <1>2 DEF FetchOpenPrice
  <2>2. TypeOK' /\ Busy' = Busy
    BY <2>1 DEF PricesInv, TypeOK, Busy
  <2>3. AgeInv' /\ RaceInv' /\ LatestInv'
    BY <2>1, <2>2 DEF PricesInv, AgeInv, RaceInv, LatestInv, LatestUnlessRaced, OnItsWay
  <2>4. QED
    BY <2>2, <2>3 DEF PricesInv
<1>3. QED
  BY <1>1, <1>2, ReceiveInv, IgnoreInv, StoreInv, EmitInv, ConsumeInv DEF Next

LEMMA PricesInit ==
  ASSUME Init
  PROVE  PricesInv
<1>1. /\ Busy = {} /\ priceCh = <<>> /\ Len(priceCh) = 0
      /\ \A f \in Feeds, b \in Bases : newest[f][b] = 0 /\ prices[f][b] = 0
  BY DEF Init, Busy
<1>2. TypeOK
  <2>1. 0 \in 0..MaxUpdates /\ 0 <= PriceCap
    BY BoundsAssumption
  <2>2. prices \in [Feeds -> [Bases -> 0..MaxUpdates]] /\ newest \in [Feeds -> [Bases -> 0..MaxUpdates]]
    BY <2>1 DEF Init
  <2>3. QED
    BY <1>1, <2>1, <2>2 DEF Init, TypeOK
<1>3. AgeInv
  BY <1>1 DEF Init, AgeInv
<1>4. RaceInv /\ LatestInv
  BY <1>1 DEF RaceInv, LatestInv, LatestUnlessRaced
<1>5. QED
  BY <1>2, <1>3, <1>4 DEF PricesInv

(***************************************************************************)
(* The inductive invariant of the prices: whatever is handled late was     *)
(* there before anything newer (handleMessage, emitPrice).                 *)
(***************************************************************************)
THEOREM PricesAccounted == Spec => []PricesInv
<1>1. Init => PricesInv
  BY PricesInit
<1>2. PricesInv /\ [Next]_vars => PricesInv'
  BY PricesStep
<1>3. QED
  BY <1>1, <1>2, PTL DEF Spec

(***************************************************************************)
(* A price at rest is the latest received, unless two workers raced for it *)
(* (handleMessage, GetTwapPrice, GetExternalPrice).                        *)
(***************************************************************************)
THEOREM StaleOnlyIfRaced == Spec => []StalePriceOnlyIfRaced
<1>1. ASSUME PricesInv
      PROVE  StalePriceOnlyIfRaced
  <2>1. ASSUME NEW f \in Feeds, NEW b \in Bases, Idle(f, b)
        PROVE  LatestUnlessRaced(prices[f][b], newest[f][b])
    <3>1. ~OnItsWay(f, b)
      BY <2>1 DEF OnItsWay, Idle
    <3>2. QED
      BY <1>1, <3>1 DEF PricesInv, LatestInv
  <2>2. \A b : GetTwapPrice(b, 30) = prices["TWAP30"][b] /\ GetTwapPrice(b, 60) = prices["TWAP60"][b]
    BY DEF GetTwapPrice
  <2>3. {"TWAP30", "TWAP60", "Binance", "Chainlink"} \subseteq Feeds
    BY DEF Feeds
  <2>4. QED
    BY <2>1, <2>2, <2>3 DEF StalePriceOnlyIfRaced, GetExternalPrice
<1>2. QED
  BY <1>1, PricesAccounted, PTL

-----------------------------------------------------------------------------
(***************************************************************************)
(* The filters of a TWAP monitor select what was asked for.                *)
(***************************************************************************)
LEMMA FilterMembers ==
  ASSUME NEW ss \in SUBSET Requested, NEW b \in Bases, NEW window \in {30, 60}
  PROVE  <<b, 0>> \in buildTwapFilters(ss, window)
         <=> <<b, window>> \in ss \/ (window = 30 /\ <<b, 0>> \in ss)
<1>1. <<b, 0>> \in buildTwapFilters(ss, window)
      <=> \E r \in ss : r[1] = b /\ ((r[2] = 60) <=> (window = 60))
  BY DEF buildTwapFilters
<1>2. ASSUME NEW r \in ss, r[1] = b, (r[2] = 60) <=> (window = 60)
      PROVE  <<b, window>> \in ss \/ (window = 30 /\ <<b, 0>> \in ss)
  <2>1. r = <<r[1], r[2]>> /\ r[2] \in {0, 30, 60}
    BY DEF Requested, Suffixes
  <2>2. QED
    BY <1>2, <2>1
<1>3. ASSUME <<b, window>> \in ss \/ (window = 30 /\ <<b, 0>> \in ss)
      PROVE  \E r \in ss : r[1] = b /\ ((r[2] = 60) <=> (window = 60))
  <2>1. CASE <<b, window>> \in ss
    BY <2>1
  <2>2. CASE window = 30 /\ <<b, 0>> \in ss
    BY <2>2
  <2>3. QED
    BY <1>3, <2>1, <2>2
<1>4. QED
  BY <1>1, <1>2, <1>3

(***************************************************************************)
(* A TWAP monitor gets exactly the prices it was made for, for every list  *)
(* of symbols (NewCryptoPriceMonitor, buildTwapFilters).                   *)
(***************************************************************************)
THEOREM SubscribesWhatWasAsked == Spec => []TwapAsRequested
<1>1. Init => SubscribedInv
  BY DEF Init, SubscribedInv
<1>2. ASSUME SubscribedInv, [Next]_vars
      PROVE  SubscribedInv'
  <2>1. UNCHANGED <<monitorType, symbols, subscriptions>>
    BY <1>2 DEF Next, Store, Emit, Receive, Ignore, Consume, FetchOpenPrice, vars
  <2>2. QED
    BY <1>2, <2>1 DEF SubscribedInv
<1>3. ASSUME SubscribedInv
      PROVE  TwapAsRequested
  <2> SUFFICES ASSUME monitorType = "CHAINLINK_TWAP", NEW b \in Bases, NEW topic \in Twap
               PROVE  (topic \in DOMAIN subscriptions /\ Passes(subscriptions[topic], b))
                      <=> \/ symbols = {}
                          \/ <<b, Window(topic)>> \in symbols
                          \/ Window(topic) = 30 /\ <<b, 0>> \in symbols
    BY DEF TwapAsRequested
  <2> DEFINE F == buildTwapFilters(symbols, Window(topic))
  <2>1. topic \in Topics /\ Window(topic) \in {30, 60} /\ symbols \in SUBSET Requested
    BY <1>3 DEF Topics, Window, SubscribedInv
  <2>2. topic \in DOMAIN subscriptions <=> symbols = {} \/ F # {}
    BY <1>3, <2>1 DEF SubscribedInv, NewCryptoPriceMonitor, SubscribedTopics
  <2>3. topic \in DOMAIN subscriptions => subscriptions[topic] = F
    BY <1>3 DEF SubscribedInv, NewCryptoPriceMonitor
  <2>4. symbols = {} => F = {}
    BY DEF buildTwapFilters
  <2>5. <<b, 0>> \in F <=> <<b, Window(topic)>> \in symbols \/ (Window(topic) = 30 /\ <<b, 0>> \in symbols)
    <3>1. \A ss \in SUBSET Requested, window \in {30, 60} :
            <<b, 0>> \in buildTwapFilters(ss, window)
            <=> <<b, window>> \in ss \/ (window = 30 /\ <<b, 0>> \in ss)
      BY FilterMembers
    <3> DEFINE window == Window(topic)
    <3>2. window \in {30, 60} /\ symbols \in SUBSET Requested
      BY <2>1
    <3> HIDE DEF window
    <3>3. <<b, 0>> \in buildTwapFilters(symbols, window)
          <=> <<b, window>> \in symbols \/ (window = 30 /\ <<b, 0>> \in symbols)
      BY ONLY <3>1, <3>2, Zenon
    <3>4. QED
      BY <3>3 DEF window
  <2> HIDE DEF F
  <2>6. QED
    BY <2>2, <2>3, <2>4, <2>5 DEF Passes
<1>4. QED
  BY <1>1, <1>2, <1>3, PTL DEF Spec

(***************************************************************************)
(* The unit is one of TIME_UNITS, whatever the tags.                       *)
(***************************************************************************)
LEMMA KnownUnits ==
  ASSUME NEW tags
  PROVE  GetTimeUnit(tags) = NoUnit \/ GetTimeUnit(tags) \in Units
<1> DEFINE found == {k \in 1..Len(TIME_UNITS) : TIME_UNITS[k] \in tags}
<1>1. Len(TIME_UNITS) = 7 /\ \A k \in 1..7 : TIME_UNITS[k] \in Units
  BY DEF TIME_UNITS, Units
<1>2. ASSUME found # {}
      PROVE  \E k \in found : \A j \in found : k <= j
  <2>1. found \subseteq {1, 2, 3, 4, 5, 6, 7}
    BY <1>1
  <2> HIDE DEF found
  <2>2. PICK k \in 1..7 : k \in found /\ \A j \in 1..7 : j \in found => k <= j
    <3>1. CASE 1 \in found
      BY <3>1
    <3>2. CASE 1 \notin found /\ 2 \in found
      BY <3>2
    <3>3. CASE 1 \notin found /\ 2 \notin found /\ 3 \in found
      BY <3>3
    <3>4. CASE found \cap {1, 2, 3} = {} /\ 4 \in found
      BY <3>4
    <3>5. CASE found \cap {1, 2, 3, 4} = {} /\ 5 \in found
      BY <3>5
    <3>6. CASE found \cap {1, 2, 3, 4, 5} = {} /\ 6 \in found
      BY <3>6
    <3>7. CASE found \cap {1, 2, 3, 4, 5, 6} = {} /\ 7 \in found
      BY <3>7
    <3>8. QED
      BY <1>2, <2>1, <3>1, <3>2, <3>3, <3>4, <3>5, <3>6, <3>7
  <2>3. QED
    BY <2>1, <2>2
<1>3. QED
  BY <1>1, <1>2 DEF GetTimeUnit

LEMMA UnitSpans ==
  ASSUME NEW unit \in Units, NEW symbol, NEW endDate \in Dates
  PROVE  LET q == Query(symbol, unit, endDate) IN
         q.variant # "monthly" => Spans(q)
<1>1. /\ TIME_UNITS[1] = "15m" /\ TIME_UNITS[2] = "hourly" /\ TIME_UNITS[3] = "4h" /\ TIME_UNITS[4] = "daily"
      /\ TIME_UNITS[5] = "weekly" /\ TIME_UNITS[6] = "monthly" /\ TIME_UNITS[7] = "5m"
  BY DEF TIME_UNITS
<1>2. /\ TIME_UNIT_MAP["5m"] = "fiveminute" /\ TIME_UNIT_MAP["15m"] = "fifteen" /\ TIME_UNIT_MAP["hourly"] = "hourly"
      /\ TIME_UNIT_MAP["4h"] = "fourhour" /\ TIME_UNIT_MAP["daily"] = "daily" /\ TIME_UNIT_MAP["weekly"] = "weekly"
      /\ TIME_UNIT_MAP["monthly"] = "monthly"
  BY DEF TIME_UNIT_MAP
<1>3. /\ Lasts["fiveminute"] = 5 /\ Lasts["fifteen"] = 15 /\ Lasts["hourly"] = 60 /\ Lasts["fourhour"] = 240
      /\ Lasts["daily"] = 1440 /\ Lasts["weekly"] = 7 * 1440
  BY DEF Lasts
<1>4. TimeParse(endDate) \in Int /\ Day = 1440 /\ Hour = 60
  BY DEF TimeParse, Dates, Day, Hour
<1>5. QED
  BY <1>1, <1>2, <1>3, <1>4 DEF Query, Spans, GetStartTime, GetSearchTimeUnit, Units

(***************************************************************************)
(* The period of a request for the open price matches its variant, for     *)
(* every set of tags and every end date, readable or not, except that of a *)
(* monthly market (FetchOpenPrice, GetTimeUnit, GetSearchTimeUnit,         *)
(* GetStartTime, TimeParse).                                               *)
(***************************************************************************)
THEOREM PeriodsMatch == Spec => []PeriodMatchesVariant
<1>1. Init => QueryInv
  BY DEF Init, QueryInv
<1>2. ASSUME QueryInv, [Next]_vars
      PROVE  QueryInv'
  <2>1. ASSUME NEW tags \in Markets, NEW endDate \in EndDates, FetchOpenPrice(tags, endDate)
        PROVE  QueryInv'
    <3>1. CASE query' = NoQuery
      BY <3>1 DEF QueryInv
    <3>2. CASE GetTimeUnit(tags) # NoUnit /\ \E symbol \in GetSymbol(tags) : query' = Query(symbol, GetTimeUnit(tags), endDate)
      <4>1. PICK symbol : query' = Query(symbol, GetTimeUnit(tags), endDate)
        BY <3>2
      <4>2. query'.symbol = symbol
        BY <4>1 DEF Query
      <4>3. GetTimeUnit(tags) \in Units
        BY <3>2, KnownUnits
      <4>4. endDate \in Dates
        BY DatesAssumption
      <4>5. QED
        BY <4>1, <4>2, <4>3, <4>4 DEF QueryInv, Query
    <3>3. QED
      BY <2>1, <3>1, <3>2 DEF FetchOpenPrice
  <2>2. CASE UNCHANGED query
    BY <1>2, <2>2 DEF QueryInv, Query
  <2>3. QED
    BY <1>2, <2>1, <2>2 DEF Next, Store, Emit, Receive, Ignore, Consume, vars
<1>3. QueryInv => PeriodMatchesVariant
  BY UnitSpans DEF QueryInv, PeriodMatchesVariant
<1>4. QED
  BY <1>1, <1>2, <1>3, PTL DEF Spec
=============================================================================
