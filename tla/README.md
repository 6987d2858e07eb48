# Verification of the Polymarket SDK

This directory holds TLA+ models of the Go SDK in `src/`, the TLC configurations
that check them on small instances, and TLAPS proofs of the properties that
matter most. `PROJECT.json` lists every run, the lines each definition stands
for, the hazards the properties are aimed at, and the findings.

To check a run: `tlc -config <file>.cfg <module>`. To check proofs:
`tlapm <module>.tla` for the modules whose names end in `Proofs`.

## 1. Inventory of the system

| Part | State | Operations | What is hard |
|---|---|---|---|
| WebSocket client, `utils/websocket_client.go` | `conn`, `alive`, `closed`, the locks `mu` and `writeMu`, the channels `sendCh`, `msgCh`, `ctrlCh`, an `errCh` per connection | `Run`, `connect`, `readLoop`, `writeLoop`, `pingLoop`, `messageLoop`, `Send`, `Close`, `Reset` | every connection starts a new generation of goroutines and nothing waits for the old one; the fields are shared by all of them and partly used without a lock |
| Market monitor, `polymarket/market_monitor.go` | books per token, four event channels, the subscribed tokens, the pointer `pm.ws` | `Run`, `Disconnect`, `Reset`, `Subscribe…`, `Unsubscribe…`, `handleMessage`, `RemoveTokenOrderBook` | several workers handle messages at once; callers and the callbacks of the client change the subscription concurrently |
| Trade monitor, `polymarket/trade_monitor.go` | one event channel | `Run`, `Close`, `handleMessage` | same workers, a channel that may be full |
| Crypto price monitor, `polymarket/crypto_price_monitor.go` | prices per feed, a price channel, a detached context | `Run`, `handleMessage`, `GetExternalPrice`, `GetTwapPrice`, `FetchOpenPrice` | order of updates; deadlines |
| REST client, `polymarket/polymarket.go` | three caches of market parameters, each with a lock | `GetContext` with its 429 retries, `Get/Set/Clear` of the parameters, `CreateOrder`, `CreateMarketOrder`, `CalculateMarketPrice`, paged queries, posting and cancelling | retries against a budget and a deadline; caches filled while they are cleared; partial failure while paging |
| Orders, `orders/` | none | amounts, rounding, the walk over a book, building and signing | rounding at a boundary; who makes and who signs an order depends on configuration and options together |
| Relayer, `relayer/` | none of its own; the nonce is the Safe's | `EexecuteSafeTransactions`, `RedeemBatch`, `SplitTokens`, `MergeTokens`, `Transfer`, `Approve` | two calls for one nonce, lost and late answers |
| Helpers, `polymarket/helper.go` | none | coin, period and start time of a market from its tags | two tables that must agree by position and by name |
| Headers, encryption, configuration | none | pure functions | – |

How they interact: a monitor's `Run` creates a client of its own and passes itself
as the handler; the client calls `OnOpen`/`OnReconnect` in the goroutine of
`Run`, where the monitor queues its subscription with `Send`, and `OnMessage` in
`WorkerNum` worker goroutines per connection (one per CPU by default). Each
monitor hands its events to the application through bounded channels and never
blocks. `CryptoPriceMonitor` calls the REST client for open prices. The order
functions use the caches, the walk over the book and the amounts.

What makes each part correct:

* client: no socket is leaked, `IsAlive` does not lie while there is no
  connection, the retry budget is kept, the subscription of every connection
  reaches it, cancellation ends everything, a dead connection is noticed;
* received messages: each is handled once, in order, or is dropped for newer ones;
* monitors: the stored book or price is the newest, a full channel loses what it
  is meant to lose, the server streams what the application asked for;
* REST client: waits stay within the budget and the deadline, parameters and
  prices used for an order are the market's, a paged walk is complete, an order
  posted again is not in the book twice and a cancelled one does not come back;
* signatures: the exchange accepts what is posted;
* relayer: each call is executed as a whole and at most once, although every
  failure is reported as the same plain error;
* amounts: never more than asked, and at the price asked for.

## 2. Modules

| Module | Models | State and actions |
|---|---|---|
| `WSClient` | connection life cycle | the variables are the fields of `wsClient` plus one program counter per goroutine; `RunTop … RunDelay` are `Run` between two observable points, `ReadBegin/ReadMsg/ReadErr` the reader, `WriterTake`, `PingTick`, `WriteLock`, `WriteUse`, `AfterWrite` the two senders, `CloseBegin/CloseFrame/CloseConn` one `Close` by whoever calls it. `crashed` is a nil dereference |
| `WSMessages` | received messages | the reader's send, drop and second send, and the workers of every generation, on the shared `msgCh` |
| `DropOldest` | abstract specification | one first-in first-out queue per reader, which may drop anything but its newest message |
| `TradeFeed`, `MCTradeFeed` | trade monitor | extends `WSMessages`: finishing `OnMessage` emits the event |
| `MarketEvents` | events and books of the market monitor | `Load` and `Store` of a `BookStore` are separate steps of a worker, as are the send, drop and second send of the `emit` functions |
| `MarketSubs`, `MCMarketSubs` | subscriptions of the market monitor | callers and the goroutine of `Run` take the steps of `Subscribe`, `subscribeMarket` with `Send` (`CheckAlive`, `SendChecks`, `QueueSnapshot`), `UnsubscribeTokens`, `Reset`, `Disconnect`; composed with `sendCh`, the writers of the old and new connection, and a server that applies what is written |
| `MarketHelpers` | `helper.go` | its tables and lookups as operators |
| `PriceFeed`, `MCPriceFeed` | prices of the crypto price monitor | filters built from symbols, store and emit of each worker for every topic and window; `FetchOpenPrice` builds its request with `MarketHelpers` |
| `RateLimit` | `GetContext` (`GetSpec`) | a clock, the attempts, the budget's deadline, durations that wrap around; a request begun under an ended context is `late` and can only fail |
| `OpenPrice` | `FetchOpenPrice` | extends `RateLimit` with the contexts of its callers: their own, or the detached one of `FetchOpenPrice` |
| `ClientOrders` | parameter caches and order creation | each lookup is read, request, lock and write, (re-)read; `Set` and `Clear` between any two; the caller's own tick size may be odd or unreadable |
| `OrderAmounts` | raw amounts of orders | one step per order, in whole numbers of the smallest unit |
| `MarketOrder` | `CreateMarketOrder`, `CalculateMarketPrice` | extends `OrderAmounts`: the loop over the levels of the book, then the amounts |
| `Paging` | `GetOpenOrders`, `SearchPositions` | call, request, answer or failure, with the cursor passed by reference; the lists may change between any two steps |
| `OrderPosting`, `MCOrderPosting` | building, signing, posting and cancelling orders | extends `Paging`: the callers' requests travel in `net` and change the lists that are being walked; a caller may stop waiting while its request arrives later. `BuildSignedOrder`, `OrderToDTO` and `Payload` are operators |
| `SafeLedger` | abstract specification | each call asks for a list of contract calls; the list is executed whole and at most once, and not at all if the call failed its own checks |
| `Relayer`, `MCRelayer` | relayer client | `Operation` checks and packs the arguments, then `GetDeployed`, `GetNonce`, `Submit`, `PostReturns` or a failure; the relayer and the Safe contract are external actions |
| `…Proofs` | – | theorems about the module of that name; `TradeFeedProofs` also about `WSMessages` and `DropOldest`, `OrderPostingProofs` also about `Paging`, `PriceProofs` about `RateLimit`, `OpenPrice` and `PriceFeed`, `OrderProofs` about `OrderAmounts`, `MarketOrder` and `ClientOrders`, `RelayerProofs` also about `SafeLedger` |

Abstractions worth knowing:

* A message is a number: of the connection it subscribes in `WSClient`, of its
  arrival elsewhere. A book is its timestamp, a price the number of its update.
* In `WSClient` the network is one action, `Break`; a dial succeeds or fails.
  `OnOpen` and `OnReconnect` queue one message, as the monitors do; `OnClose` and
  `OnError` only log in the monitors and are left out.
* `MarketSubs` uses the client through what `WSClient` shows of it: a queue that
  outlives a connection and a writer of the previous connection that may still
  take or hold a message.
* A Go map read that overlaps a write may end the program; `ClientOrders` makes
  that a choice of its own (`crashed`).
* The code computes amounts with `decimal.Decimal`, whose sums and products are
  exact, so whole numbers are faithful. Its `Div` keeps 16 decimals, six more
  than the finest rounding applied to the quotient; the model divides exactly.
* The walk over the book adds `float64` values (`order_helper.go:181`, 209). The sum
  differs from the exact one by far less than a unit of an amount, so it matters
  only where the levels hold exactly the amount: there `Missed` lets the sum fall
  short (0.57 × 100 is 56.99999999999999 and does not reach 57). A single level's
  shares are added to 0 and are exact (`Inexact`).
* An end date is a time or unreadable (`Dates`); `TimeParse` makes an unreadable one
  the zero time.
* `ClientOrders` keeps two histories: `current`, the tick sizes that were the market's
  or were set since the last `ClearTickSizes`, with those that lookups were about to
  store then, and `known`, what each call has seen of it.
* A rate limit tick is half a second; computing takes no time, requests and
  timers take any.
* The server in `Paging` answers `LTE=` (or an empty cursor for positions) at the
  end, as the code expects of it. It cuts pages by position in the list as it is
  when asked.
* In `OrderPosting` a hash is what it is computed from and a signature is the key
  with the hash it signs; `Verifies` is what the exchange checks, the wallet that
  `orders/constants.go:50` names for the signature type (`MakerFor`) included. The
  exchange is external; it knows an order by its hash, which covers the salt, and
  counts in `placed` how often it took an order. `Salt` gives each order the salt it
  was signed with. A configuration (`Configs`) is a type, a funder or none, and whether
  there are CLOB credentials. Both lists start with distinct items (`Standing`), and
  `Without` takes cancelled or filled ones out of a list. `PostedOrdersVerify` excepts
  an order whose wallet is not the one for its type.
* In `Relayer` a contract call is its target, method, argument and amount; the
  Safe executes a request only with its current nonce, and the relayer may count
  accepted transactions that can still be executed into the nonce it answers or not.
  A relayer that counted overtaken ones too could answer a nonce below the Safe's,
  and four calls would then be enough for a transaction to be overtaken by one it
  never overlapped with.
* Times of markets are in minutes; a month has `Month` days.

Definitions whose names have a suffix after an underscore (`Stale_Never`,
`Repush_Forgotten`; not the source's own `TIME_UNITS`, `TIME_UNIT_MAP`, `SYMBOL_MAP`) are deliberately wrong variants of the definition below them. No specification
uses them; `PROJECT.json` lists which property each one breaks.

## 3. Runs

| Run | Question | Instance |
|---|---|---|
| `ws_generations` | do sockets, `alive`, retries and the resubscription survive two overlapping generations and a caller that sends, closes and resets? | 2 connections, 1 caller, 1 message, queue of 1, 1 retry; 4.8 M states |
| `ws_liveness` | does cancelling stop `Run` and its goroutines, is a dead connection noticed? | 1 connection, 1 caller, a ping, fair; 61 K states |
| `trades` | do the readers and workers of two generations implement `DropOldest`; is no message stuck, and one event made of each that is handled? | 2 generations with a worker each, both channels of 1, 3 messages of every kind; 0.53 M states |
| `events` | does a book go back in time, or a full channel lose its newest event, only if another worker came in between? | 2 workers, books and resolutions of one token, 3 timestamps, 2 stores, channels of 1; 2.8 M states |
| `subs` | does the server stream what was asked for, when things settle? | 2 callers, 2 tokens, 3 calls, 2 connections; 2.0 M states (symmetry on callers and tokens, which the specification treats alike) |
| `feed` | is a stored price old only if two workers overlapped; do TWAP filters match the symbols; does the period of an open price match its variant? | 2 workers, 3 updates, every monitor type, topic, window and set of symbols over 2 bases, a market of every period, with a readable and an unreadable end date; 2.0 M states (symmetry on workers) |
| `rest_calls` | waits within budget and deadline, an ended context stops the attempts although timers may win the race with it, the call returns; also where durations overflow | 7 retries, 3 deadlines, durations of 6 bits; 115 K states |
| `orders` | is every tick size that is returned or used real, and none older than the last `ClearTickSizes`, does every call end? | 2 callers, 3 calls, 1 move of the market, 2 tick sizes and an odd one, only tick sizes set and cleared (`Managed`), fair; 528 K states |
| `market_orders` | is the price the best that suffices, do the amounts mean it, can the book fill the order? | books of up to 3 levels; all prices for tick sizes 0.1 and 0.01, 490 units from both ends for 0.001; every balance; 1.9 M states |
| `posting` | is an order taken once however often it is posted, does a cancelled one stay gone, does every posted order verify, is a walk complete although orders come and go, and does it end? | 2 callers, 3 calls, 2 new orders and 4 standing items, pages of 1 and 2, one page or all; a Safe, a contract wallet and `DefaultConfig` without funder and credentials; 0.80 M states |
| `relayer` | does the client implement `SafeLedger`, is a transaction overtaken only by one that was under way with it? | 2 goroutines, 4 calls of all five operations, invalid arguments included; 1.0 M states (symmetry on goroutines) |
| `ws_nil_read` (violation) | `readLoop` uses `c.conn` after `Close` has set it to nil; the process ends | 1 connection |

Why the bounds suffice. The hard cases of the client need an old and a new
generation, hence two connections; a third adds no new kind of overlap, and the
safety theorems cover any number. Queues of one or two already overflow. Two
workers suffice for every race on a pair of operations; timestamps up to 3 allow
one book older and one newer than the stored one. Prices near 0 and 1 and small
sizes are where remainders come closest to being rounded up; the theorems cover
the rest, the tick size 0.0001 included, whose products exceed TLC's integers.
In `rest_calls` a duration is so narrow that a backoff and a `Retry-After` leave
it within seven retries.

In `relayer` the i-th call chooses among `Arguments[i]`, which between them hold
every operation, an empty and a mismatched batch, and unparsable amounts; the
calls are free to overlap. In `posting` three calls are enough to post, post again
and cancel in any order; a behaviour with a walk has at most `MaxWalkCalls` of
them, so that a walk meets one change by a call and one by a trade, and the
model stops when the walk is over. `FetchOpenPrice` shares no state
with the feed and has behaviours of its own in `feed`.

`TypeOK` of `OrderPosting` is proved and not part of a run.

The run that is expected to find a violation shows a disagreement between
the code and what a check in it says; the quotation is under `findings`. Runs with a crash in reach check their other properties up to the
crash: an action is enabled only while the program runs, and liveness properties
allow `crashed` as an outcome.

### Further disagreements

The other disagreements met while modelling are stated as properties, each with
a configuration that reproduces the counterexample; they are not in the list of
runs. A configuration with several such properties is run with `-continue`, which
shows each of them violated.

| Configuration | Property violated | What happens |
|---|---|---|
| `WSClient_nilwrite` | `CheckedConnIsUsable` | the nil check of `writeMessage` (`websocket_client.go:390`) does not hold until the use at 394: `Close` takes another lock |
| `WSClient_noreconnect` | `NoRedialAfterError` | without `Reconnect` an error leads to another dial: the `return` at `websocket_client.go:225` leaves the function literal only |
| `MarketEvents_rollback` | `BookNeverRollsBack` | two workers roll a book back despite the comparison that is to prevent it ("防止多worker乱序回滚", `market_monitor.go:384`) |
| `MarketEvents_dropnewest` | `NewestKept` | "drop oldest" (`market_monitor.go:131`): two workers on a full channel can lose the newest event |
| `MCPriceFeed_monthly` | `EveryPeriodMatches` | `GetStartTime` adds the month it should subtract (`helper.go:83`): the period of a monthly market starts after its end |
| `MCOrderPosting_documented` | `ExpirationSent` | the expiration the user asks for (`orders/types.go:134`) is not the one posted: `PostOrder` and `PostOrders` always send `"0"` (`polymarket.go:573`, 630); the signature does not cover it |
| `MCOrderPosting_documented` | `NoPanic` | `CancelMarketOrders` does not check the CLOB credentials and panics without them, where the other calls return an error |
| `MCOrderPosting_documented` | `WalletFitsType` | a signature type says whose wallet the maker is (`orders/constants.go:52-65`), but `CreateOrder` takes the maker from `FunderAddress` whatever the type: `DefaultConfig` has `POLY_GNOSIS_SAFE` (`config_impl.go:39`) and no funder, so its orders name the key itself as the maker and the exchange refuses them |
| `MarketOrder_documented` | `FeesDeducted` | "Otherwise fees are deducted from the amount" (`orders/types.go:170-172`): nothing reads `UserUSDCBalance`, an amount that the balance does not cover is used as it is |
| `MarketOrder_documented` | `ExactFillTaken` | "if the amount to match is $150 that will be reached" (`order_helper.go:183-188`): the sum of `float64` products may miss an amount that the book holds exactly, and a FOK order for it is refused |
| `MCPriceFeed_latest` | `LatestPriceReturned` | the default of one worker per CPU leaves an older price in place of the latest that `GetTwapPrice` promises (`crypto_price_monitor.go:327`) |
| `MarketSubs_nilws` | `CheckedWsIsUsable` | `Disconnect` sets `pm.ws` to nil between the check at `market_monitor.go:535` and the use at 547 |
| `ClientOrders_fee` | `FeeMismatchRefused` | `ClearFeeRates` during `GetFeeRateBps` makes the second read of the map at `polymarket.go:380` yield 0, which switches the fee check off |
| `ClientOrders_maprace` | `MapsUnderLock` | that read, and the one in `GetNegRisk`, happen without the lock |
| `ClientOrders_reuse` | `MarketPriceIsUsed` | `CreateMarketOrder` writes the price into the caller's order (`polymarket.go:510`); used twice, the order keeps its first price (`orders/types.go:147` says the market price is used) |
| `RateLimit_overflow` | `LongRetryAfterTruncated` | a huge `Retry-After` becomes a negative wait instead of being truncated (`polymarket.go:134`) |
| `RateLimit_ctxerror` | `BudgetErrorMeansSpent` | the budget's error is returned where the context's is promised (`polymarket.go:136`) |
| `RateLimit_defaults` | `ZeroMeansThreeRetries` | the documented defaults (`config.go:44`) are not those of the code |
| `OpenPrice_deadline` | `RunDeadlineBoundsFetch` | `context.WithoutCancel` drops the deadline that the comment at `crypto_price_monitor.go:176` says is kept |

Smaller points without a property of their own:

* `ResolveTickSize` (`polymarket.go:410`) compares the caller's tick size only with
  `IsTickSizeSmaller`, which is false for one it cannot parse: that one is refused
  later by `PriceValid`, and a number that is none of the four, such as 0.05, makes
  `GetRoundConfig` panic (`types_impl.go:33`). Both are steps of `ClientOrders`.
* `GetStartTime` ignores the error of an unreadable end date and counts from the zero
  time. The period keeps its length, which is what `PeriodMatchesVariant` says.
* With `onlyFirstPage` `GetOpenOrders` (`polymarket.go:697`) asks for a page only when
  the caller's cursor is `MA==`, and does not hand the next cursor back.
* The relayer client returns a plain error for a refusal, a lost answer and a failed
  query alike (`relay_client.go:86-91`): a caller cannot tell whether the
  transaction may still be executed.
* The deferred `Disconnect` of a `Run` that ends late disconnects the monitor from the
  client of a newer `Run` (`market_monitor.go:223`). `RunDisconnects` models it; the
  properties of `MarketSubs` are about a monitor that has a client.
* The properties whose names end in `OnlyIfRaced` are what remains true of promises
  that `BookNeverRollsBack`, `NewestKept` and `LatestPriceReturned` show broken: they
  say that the window between the two named steps is the only way.

### Deadlock and fairness

Deadlock checking is off where a run ends because calls, levels or messages are
used up. It is on for `WSClient`, `MarketEvents` and `OpenPrice`,
where the end states are explicit.

* `WSClient!FairSpec`: `Run` and readers are weakly fair (the Go scheduler runs
  every runnable goroutine), `Close` and the senders strongly fair because they
  take mutexes, which Go does not withhold from a waiter for ever. The network,
  callers and cancellation are not fair.
* `TradeFeed!FeedFairSpec`: workers are weakly fair; `OnMessage` never blocks in the
  monitors. Readers need not go on.
* `ClientOrders!ClientFairSpec`: a call in progress is strongly fair, for the same
  reason; new calls are not fair.
* `OpenPrice!FetchSpec`: time passes and requests end (the HTTP client has a
  timeout). The server may answer 429 for ever.
* `OrderPosting!Spec`: a walk is weakly fair (its requests end by the timeout of
  the HTTP client); callers, the network and the exchange are not.
* `Relayer` states no fairness. The relayer client has **no** HTTP timeout, so a
  call ends only if the relayer answers; that every call ends would restate this
  assumption and is not among the properties.

## 4. Proofs

All proofs hold for every value of the constants allowed by the named
assumptions in the modules.

**`WSClientProofs`.** `TypeCorrect`, `SocketsAreClosed` (`NoLeakedSocket`),
`AliveMeansConnected` (`DownIsNotAlive`), `GivingUp` (`GivesUpOnlyAfterRetries`)
and `SubscriptionsSurvive` (`SubscriptionNotLost`) follow from `Invariance`,
that `IInv` is invariant. None of the properties is inductive alone:
`NoLeakedSocket` needs to know that `c.conn` is nil or the newest connection and
names every open socket (`ConnInv`); that `closed` implies a connection that is
gone or going, except between a dial and the stores that follow it
(`ClosedInv`), since otherwise `Run`'s own `Close` would return early and leave the
socket; that `mu` is held exactly by a `Close` that has a connection to close
(`LockInv`); and what `Run`'s `Close` has achieved at each of its steps (`RunInv`,
with `GenStarted`).
`GivesUpOnlyAfterRetries` needs the relation of `retry` to the failed dials
(`RetryInv`), `SubscriptionNotLost` that a connection that is up is alive, so that
`Send` in `OnOpen` is not refused (`UpInv`).

**`MarketEventsProofs`.** `BookInvariance` shows `BookInv`: types, that a worker
about to store holds a store, that an unraced worker's comparison is still true,
and that there is room for an unraced worker that has dropped the oldest event.
`RollbackNeedsRacingWorker` (`RollbackOnlyIfRaced`), `NewestLostNeedsRacingWorker`
(`NewestLostOnlyIfRaced`) and, for one worker, `OneWorkerNeverRollsBack`
(`BookNeverRollsBack`) follow. The history variable `raced` is what makes the
first two inductive: it remembers who was overtaken inside a window.

**`PriceProofs`, rate limits and open prices.** `RetryInv` relates what was slept to the time left of the
budget. `RetriesBounded`, `WaitsWithinBudget` and `WaitsWithinCtx` follow, for
every `Retry-After`, overflowing ones included. `EndedContextEndsCall`
(`EndedContextStopsRetries`) shows that a call whose context has ended begins at most
one more request: the one after the wait in which it ended, which carries the
context and fails.

`FetchIsCall` shows that `FetchSpec` of `OpenPrice` implies `GetSpec` of `RateLimit`,
so that every theorem above holds of open prices too.

**`MarketSubsProofs`.** `NothingForgotten` (`NoTokenForgotten`) and
`NoUnexplainedGhost` (`GhostsExplained`) speak of settled states only, so the
invariant has to say where a token is while things are under way. `Wanted` says
of a subscribed token that its subscription was refused, is about to be sent by a
goroutine, is queued or in a writer's hand with no newer removal, or has reached
the server with every pending removal older; `Unwanted` is the mirror image. The
two meet in the sequence numbers (`NumbersInv`), which say which of two messages
held by writers of different connections was queued first. A goroutine between the
two steps of `Send` is about to send to the client it looked at, which may no longer
be the monitor's or alive; `SendInv` says that it is one that `Run` has made, so that
a client that `Run` is still to make starts with an empty queue. `TokensAccounted` proves
it for any number of callers, tokens, calls of `Run`, connections and places in
`sendCh`.

**`TradeFeedProofs`.** `MessagesAccounted` proves `MessagesInv`: each message is in
exactly one place (`EachMessageInOnePlace`), no two workers hold
the same one (`WorkInv`), and messages of one reader are queued in the order of
arrival (`OrderInv`). `RefinesDropOldest` (`ImplementsDropOldest`) maps each step
of readers and workers to a step of the abstract queue; it needs `OrderInv` to see
that the head of `msgCh` is the oldest pending message of its reader, and that a
reader that made room and finds the queue full again was overtaken by another
reader, which is the only case in which the newest message may go.
`NoEventMissing` (`EventsComplete`) relates what was handled to the events.
`FeedIsClient` carries the results about the messages of any client over to the
trade monitor.

**`PriceProofs`, prices.** `StaleOnlyIfRaced` (`StalePriceOnlyIfRaced`)
follows from `PricesAccounted`. The
history `overlaps` records who was in hand when an update arrived; `RaceInv` says
that an update in hand is newer than another one, than the newest of a feed and
than a queued one, or is recorded with it; `LatestInv` that a price is the newest,
or raced with it, or the newest is about to be stored. `SubscribesWhatWasAsked`
(`TwapAsRequested`) holds for any set of symbols. `PeriodsMatch`
(`PeriodMatchesVariant`) holds for every end date and needs `QueryInv`, that a query
is one for a known unit; the rest are the tables of `MarketHelpers`.

**`RelayerProofs`.** `RequestsAccounted` proves `RelayerInv`: a call in progress
carries what was asked for and has sent nothing before it submits (`CallsInv`); a
request is in one place, and what was refused is nowhere
(`RequestsInv`); calls that were open together know each other, and a request
whose nonce is used up was overtaken by one of those (`RacesInv`). From it follow
`LostOnlyToARival` (`OvertakenOnlyIfRaced`) and `RefinesLedger`
(`ImplementsLedger`): the step that executes a request maps to the execution of the
whole call in `SafeLedger`, every other one to a step of the call or to a stutter.

**`OrderProofs`.** The key lemma `RoundAmountIsFloor` shows that rounding up
four decimals further never carries, because the divisor is below 10 000 and the
remainder is therefore at most 9 999/10 000. `NeverMoreThanAsked` and
`AmountsFollowPrice` follow, and for orders priced from a book `BookPricedAmounts`.
`WalkInv` follows the loop over the levels: its sum is the running total of the
levels seen, which did not reach the amount. It is said of any function `total`
that adds the levels up in the order of the walk (`AddsUp`); `DepthFacts` shows that
`Depth`, the sum over a set of levels in whatever order `CHOOSE` takes them, is one,
and that more levels never offer less. For that the sums over the subsets of a
finite set are shown to exist (`SumsExist`), to be the same in every order
(`SumsAnyOrder`, `SumsAgree`) and to grow with the set (`SumsMonotone`).
`WalkFindsBestPrice` (`BestSufficientPrice`) and `BookFillsOrder`
(`MarketOrderFills`) follow for a book of any length, with sums that may miss an
exact fill.

For `ClientOrders`, `TickSizesReal` (`TickSizeIsReal`) follows from
`CallersAccounted`, for any number of callers, tick sizes and prices. It speaks of
what a call returned, so `CallersInv` says what a caller carries until then: a value
that is about to be stored is one its parameter can have (`ValueOK`; the entries of the
maps are in `TypeOK`), a tick size is used as it was looked up, because `GetTickSize`
alone does not read the map a second time, and an order that waits for negRisk has a
tick size and a price that were checked against each other (`DraftOK`). `LockInv`,
that a lock is held by the one caller that writes, is part of it. `TickSizesCurrent`
(`TickSizeIsCurrent`) needs in addition `CurrentInv`: the cached entry and every value
on its way into the map are in `current` (`MapCurrent`), and what a caller has looked
up is in its `known`, which only grows while the call lasts (`Carried`).

**`OrderPostingProofs`.** `PostingAgrees` proves `PostingInv`: types, which include
that a list holds no item twice; that the exchange took each order under the one
identity it was signed with, counted it once, and lists only what it took (`TakenInv`); that a post on
its way carries orders as they are signed and converted, and that no two requests
share a number (`RequestsInv`); that what a caller was told, or is about to be told,
is cancelled had been taken and is not open (`GoneInv`). `OrdersTakenOnce`
(`TakenOnce`), `CancelledOrdersStayGone` (`CancelledStaysGone`) and `OrdersVerify`
(`PostedOrdersVerify`) follow. `CancelledStaysGone` alone is not inductive: a post
that was given up may still arrive, and only that its order is known to the exchange
keeps it from being listed again. For `WalksComplete` (`WalkComplete`), `WalkInv`
adds that what was collected, followed by what the list holds from the cursor on, is
what there was to collect while the list has not changed, and covers it while items
were only added. `FromShifts` says what an addition in front or at the end does to
the part that is still to come, `PageCollected` that a page moves from the one to
the other; `OnePageInv` says of a call for one page that its request is for the first page
and that it leaves the loop with that page or with nothing.

Induction over data. The induction theorems of the library take an operator and
cannot be used here; `LeastNumber` and `InductionUpTo` state induction with a set
instead, which the provers can instantiate. The lemmas about `Without` and about
sums rest on it.

### Only model-checked

Every invariant, every action property and both refinements that the passing runs
check are proved. Liveness (`ws_liveness`, `CallsEnd`, `CallReturns`, `WalkEnds`,
`NoMessageStuck`) is out of the prover's reach and stays with TLC, and so do the
counterexamples above.

## 5. Not modelled

* Hashes, elliptic curves, call data, request headers and encryption: pure encoding
  and cryptography. Both `orders/order_builder_impl.go:339` and
  `relayer/safe.go:40` assign an error of a signature without looking at it; the
  models take signing to succeed.
* `GetRelayPayload`, a query that nothing in the repository uses.
* Configuration, message types, constants, single queries.
* A server that ends `GetOpenOrders` with an empty cursor: the loop would start
  again at the first page. The run `posting` assumes `LTE=`.
* What the exchange does with a market order whose caller gives a tick size coarser than the market's: the
  price is rounded to it, for a buyer below the asks. `MarketOrder` models it;
  `MarketOrderFills` excepts that buyer.

## 6. Plan

Built so far, in this order: `WSClient` and its proofs, `MarketEvents` and its
proofs, `RateLimit` and its proofs, `MarketSubs`, `ClientOrders`, `OpenPrice`,
`PriceFeed`, `WSMessages` with `DropOldest`, `TradeFeed`, `OrderAmounts` and its
proofs, `MarketOrder`, `SafeLedger` and `Relayer`, `Paging` with `OrderPosting`,
`MarketHelpers`.

Theorems so far: the invariants of `WSClient`, `MarketEvents`, `MarketSubs`,
`WSMessages` with `TradeFeed`, `PriceFeed`, `RateLimit` with `OpenPrice`,
`Relayer`, `OrderAmounts` with `MarketOrder`, `ClientOrders`, `OrderPosting` with
`Paging`, and the refinements of `DropOldest` and `SafeLedger`: every safety property
of the passing runs.

Next modules: composition of `MarketEvents` and `PriceFeed` with `WSMessages`, so
that the order in which workers get messages comes from the client and both
drops are seen together; `Run` and `Close` of the trade and price monitors,
composed with `WSClient`.
