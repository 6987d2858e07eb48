----------------------------- MODULE RateLimit -----------------------------
(***************************************************************************)
(* One call of PolymarketClient.GetContext (polymarket/polymarket.go): a   *)
(* GET request that is retried while the server answers 429, waiting       *)
(* between two attempts for Retry-After or an exponential backoff, within  *)
(* a total budget and the deadline of the caller's context.                *)
(*                                                                         *)
(* Time is counted in ticks of half a second.  The code between two        *)
(* requests takes no time; requests and the context's own timer take any.  *)
(* A time.Duration wraps around at Half, which is 2^63 in the code.        *)
(***************************************************************************)
EXTENDS Integers

CONSTANTS
  CfgMaxRetries,  \* cfg.RateLimitMaxRetries, 0 if it is not set
  CfgBaseDelay,   \* cfg.RateLimitBaseDelay in ticks, 0 if it is not set
  CfgBudget,      \* cfg.RateLimitRetryBudget in ticks, 0 if it is not set
  RetryAfters,    \* Retry-After values in seconds, 0 for none or an unusable one
  CtxDeadlines,   \* deadlines of the caller's context, 0 for none
  Half,           \* durations range over -Half .. Half - 1
  MaxTime         \* bound: time that passes outside waits

ASSUME CfgAssumption ==
  CfgMaxRetries \in Nat /\ CfgBaseDelay \in Nat /\ CfgBudget \in Nat
ASSUME TimeAssumption ==
  /\ RetryAfters \subseteq Nat /\ CtxDeadlines \subseteq Nat
  /\ MaxTime \in Nat /\ Half \in Nat

TicksPerSecond == 2
defaultRateLimitMaxRetries == 6
defaultRateLimitBaseDelay == 2
defaultRateLimitRetryBudget == 20

maxRetries == IF CfgMaxRetries <= 0 THEN defaultRateLimitMaxRetries ELSE CfgMaxRetries
baseDelay == IF CfgBaseDelay <= 0 THEN defaultRateLimitBaseDelay ELSE CfgBaseDelay
budget == IF CfgBudget <= 0 THEN defaultRateLimitRetryBudget ELSE CfgBudget

ASSUME WidthAssumption == baseDelay < Half /\ budget < Half

VARIABLES
  now,            \* the clock
  stage,          \* where the call is; "late": in a request begun after the context ended
  attempt,        \* the loop variable: retries so far
  retryDeadline,  \* set at the first 429, 0 before
  wakeAt,         \* when the timer of the current wait fires
  ctxDeadline,    \* deadline of the context, 0 for none
  ctxDone,        \* ctx.Done() is closed
  result,         \* what the call returned
  slept,          \* history: sum of the waits
  endedAt         \* history: attempt when the context ended

getVars == <<now, stage, attempt, retryDeadline, wakeAt, ctxDeadline, ctxDone, result, slept, endedAt>>

Results == {"none", "ok", "status", "transport", "ctx", "budget"}

GetTypeOK ==
  /\ now \in Nat \ {0}
  /\ stage \in {"request", "late", "wait", "done", "panic"}
  /\ attempt \in 0..maxRetries
  /\ retryDeadline \in Nat
  /\ wakeAt \in Nat
  /\ ctxDeadline \in CtxDeadlines
  /\ ctxDone \in BOOLEAN
  /\ result \in Results
  /\ (result = "none") <=> (stage # "done")
  /\ slept \in Nat /\ endedAt \in 0..maxRetries

GetInit ==
  /\ now = 1
  /\ stage = "request"
  /\ attempt = 0
  /\ retryDeadline = 0
  /\ wakeAt = 0
  /\ ctxDeadline \in CtxDeadlines
  /\ ctxDone = FALSE
  /\ result = "none"
  /\ slept = 0 /\ endedAt = 0

-----------------------------------------------------------------------------
(***************************************************************************)
(* The environment: time passes, the caller cancels the context, and some  *)
(* time after its deadline the context's own timer closes ctx.Done().      *)
(***************************************************************************)
Tick ==
  /\ now < MaxTime \/ (stage = "wait" /\ now < wakeAt)
  /\ now' = now + 1
  /\ UNCHANGED <<stage, attempt, retryDeadline, wakeAt, ctxDeadline, ctxDone, result, slept, endedAt>>

Cancel ==
  /\ ~ctxDone /\ stage # "done"
  /\ ctxDone' = TRUE /\ endedAt' = attempt
  /\ UNCHANGED <<now, stage, attempt, retryDeadline, wakeAt, ctxDeadline, result, slept>>

Return(r) ==
  /\ stage' = "done" /\ result' = r
  /\ UNCHANGED <<now, attempt, wakeAt, ctxDeadline, ctxDone, slept, endedAt>>

-----------------------------------------------------------------------------
(***************************************************************************)
(* rateLimitDelay: Retry-After if the server sent a usable one, else the   *)
(* backoff plus up to 100% jitter.  rand.Int63n panics unless its argument *)
(* is positive.                                                            *)
(***************************************************************************)
Wrap(d) == ((d + Half) % (2 * Half)) - Half

Durations == -Half .. (Half - 1)

Backoff_OneMore(a) == Wrap(baseDelay * 2^(a + 1))

Backoff(a) == Wrap(baseDelay * 2^a)

Panics(ra, a) == ra = 0 /\ Wrap(Backoff(a) + 1) <= 0

rateLimitDelay(ra, a) ==
  {d \in Durations :
     IF ra > 0 THEN d = Wrap(ra * TicksPerSecond)
     ELSE \E jitter \in 0..Backoff(a) : d = Wrap(Backoff(a) + jitter)}

AtLeastZero(d) == IF d < 0 THEN 0 ELSE d

(***************************************************************************)
(* The deadline of the whole series of waits, set once, and what is left   *)
(* of it and of the context's deadline.                                    *)
(***************************************************************************)
Deadline_Renewed(t) == t + budget

Deadline(t) == IF retryDeadline = 0 THEN t + budget ELSE retryDeadline

Remaining_IgnoresCtx(t) == Deadline(t) - t

Remaining(t) ==
  LET left == Deadline(t) - t IN
  IF ctxDeadline > 0 /\ ctxDeadline - t < left THEN ctxDeadline - t ELSE left

(***************************************************************************)
(* A 429 with attempts left: give up if nothing remains, else wait for the *)
(* delay, truncated to what remains.                                       *)
(***************************************************************************)
GiveUpRetrying ==
  /\ Remaining(now) <= 0
  /\ retryDeadline' = Deadline(now)
  /\ Return(IF ctxDone THEN "ctx" ELSE "budget")

StartWait(ra) ==
  /\ Remaining(now) > 0
  /\ ~Panics(ra, attempt)
  /\ \E d \in rateLimitDelay(ra, attempt) :
       LET delay == IF d > Remaining(now) THEN Remaining(now) ELSE d IN
       /\ wakeAt' = now + AtLeastZero(delay)
       /\ slept' = slept + AtLeastZero(delay)
  /\ retryDeadline' = Deadline(now)
  /\ stage' = "wait"
  /\ UNCHANGED <<now, attempt, ctxDeadline, ctxDone, result, endedAt>>

Crash(ra) ==
  /\ Remaining(now) > 0
  /\ Panics(ra, attempt)
  /\ retryDeadline' = Deadline(now)
  /\ stage' = "panic"
  /\ UNCHANGED <<now, attempt, wakeAt, ctxDeadline, ctxDone, result, slept, endedAt>>

MayRetry_Always == TRUE

MayRetry == attempt < maxRetries

Got429(ra) ==
  /\ stage = "request" /\ MayRetry
  /\ GiveUpRetrying \/ StartWait(ra) \/ Crash(ra)

(***************************************************************************)
(* Any other answer ends the call, and so does a 429 without attempts      *)
(* left.  A failed request ends it too, with the context's error if the    *)
(* context has ended; a request begun after that can only fail.            *)
(***************************************************************************)
Answered ==
  /\ stage = "request"
  /\ Return("ok") \/ Return("status")
  /\ UNCHANGED retryDeadline

RequestFails ==
  /\ stage \in {"request", "late"}
  /\ Return(IF ctxDone THEN "ctx" ELSE "transport")
  /\ UNCHANGED retryDeadline

(***************************************************************************)
(* The wait ends with its timer or with the context; with both ready       *)
(* select picks either.  Every request carries the context.                *)
(***************************************************************************)
Request_NoContext == "request"

Request == IF ctxDone THEN "late" ELSE "request"

Wake ==
  /\ stage = "wait" /\ now >= wakeAt
  /\ stage' = Request
  /\ attempt' = attempt + 1
  /\ UNCHANGED <<now, retryDeadline, wakeAt, ctxDeadline, ctxDone, result, slept, endedAt>>

WaitAborted ==
  /\ stage = "wait" /\ ctxDone
  /\ Return("ctx")
  /\ UNCHANGED retryDeadline

Call == Answered \/ RequestFails \/ Wake \/ WaitAborted \/ \E ra \in RetryAfters : Got429(ra)

(***************************************************************************)
(* A call that has returned stays where it is.                             *)
(***************************************************************************)
Returned == stage \in {"done", "panic"} /\ UNCHANGED getVars

GetNext == Tick \/ Cancel \/ Call \/ Returned

GetSpec == GetInit /\ [][GetNext]_getVars

(***************************************************************************)
(* Time passes while the call waits, and every request ends at some time   *)
(* (the HTTP client has a timeout).                                        *)
(***************************************************************************)
FairSpec == GetSpec /\ WF_getVars(Tick) /\ WF_getVars(Call)

-----------------------------------------------------------------------------
(***************************************************************************)
(* However often the server answers 429 and whatever Retry-After it sends, *)
(* the waits of one call add up to no more than the budget (GetContext).   *)
(***************************************************************************)
SleptWithinBudget == slept <= budget

(***************************************************************************)
(* No wait is scheduled to end after the deadline of the context.          *)
(***************************************************************************)
WaitEndsBeforeCtx == stage = "wait" /\ ctxDeadline > 0 => wakeAt <= ctxDeadline

(***************************************************************************)
(* A Retry-After beyond what remains is truncated to it, as the comment on *)
(* Get says, whatever its size.                                            *)
(***************************************************************************)
LongRetryAfterTruncated ==
  [][\A ra \in RetryAfters : Got429(ra) /\ stage' = "wait" /\ ra * TicksPerSecond > Remaining(now)
       => wakeAt' = now + Remaining(now)]_getVars

(***************************************************************************)
(* A context that ends stops the series of attempts, whatever the server   *)
(* answers and even if the timer of a wait, which an overflowing           *)
(* Retry-After makes fire at once, wins every race with the context: at    *)
(* most one more request is begun, and the call then returns the context's *)
(* error (the comment on GetContext).                                      *)
(***************************************************************************)
EndedContextStopsRetries ==
  ctxDone =>
    \/ attempt = endedAt
    \/ attempt = endedAt + 1 /\ (stage = "late" \/ result = "ctx")

(***************************************************************************)
(* "Budget exhausted" is reported only when the budget is exhausted; when  *)
(* the context's deadline is what ran out the context's error is returned. *)
(***************************************************************************)
BudgetErrorMeansSpent == result = "budget" => now >= retryDeadline

(***************************************************************************)
(* Without configuration a call is retried at most three times, as the     *)
(* comment on Config.RateLimitMaxRetries says.                             *)
(***************************************************************************)
ZeroMeansThreeRetries == CfgMaxRetries = 0 => attempt <= 3

(***************************************************************************)
(* The call returns, whatever the server answers.  Only if short           *)
(* Retry-After values let it come to an attempt whose backoff is no        *)
(* Duration any more does rand.Int63n panic (GetContext, rateLimitDelay).  *)
(***************************************************************************)
CallReturns ==
  LET overflow == stage = "panic" /\ baseDelay * 2^attempt >= Half - 1
  IN  <>(stage = "done" \/ overflow)
=============================================================================
