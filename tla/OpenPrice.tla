----------------------------- MODULE OpenPrice -----------------------------
(***************************************************************************)
(* Who calls GetContext (module RateLimit) under which context.  A caller  *)
(* passes its own context on, or CryptoPriceMonitor.FetchOpenPrice         *)
(* (polymarket/crypto_price_monitor.go) derives one from the context the   *)
(* monitor was run with, so that the request outlives the monitor.  Before *)
(* Run there is no such context, which is the same as one without a        *)
(* deadline.                                                               *)
(***************************************************************************)
EXTENDS RateLimit

CONSTANT RunDeadlines  \* deadlines of the caller's context, 0 for none

ASSUME RunDeadlinesAssumption == RunDeadlines \subseteq CtxDeadlines /\ 0 \in CtxDeadlines

VARIABLES
  detached,     \* the call is FetchOpenPrice
  runDeadline,  \* deadline of the caller's context
  runEnded      \* that context was cancelled or expired

caller == <<detached, runDeadline, runEnded>>
fetchVars == <<getVars, caller>>

(***************************************************************************)
(* context.WithoutCancel: the derived context has neither the deadline nor *)
(* the cancellation of its parent.                                         *)
(***************************************************************************)
WithoutCancel(deadline) == 0

FetchInit ==
  /\ GetInit
  /\ detached \in BOOLEAN /\ runDeadline \in RunDeadlines
  /\ ctxDeadline = IF detached THEN WithoutCancel(runDeadline) ELSE runDeadline
  /\ runEnded = FALSE

RunEnds ==
  /\ ~runEnded /\ runEnded' = TRUE
  /\ IF detached THEN UNCHANGED getVars ELSE Cancel
  /\ UNCHANGED <<detached, runDeadline>>

FetchNext ==
  \/ RunEnds
  \/ (Tick \/ Call \/ Returned) /\ UNCHANGED caller

FetchSpec ==
  /\ FetchInit /\ [][FetchNext]_fetchVars
  /\ WF_fetchVars(Tick /\ UNCHANGED caller)
  /\ WF_fetchVars(Call /\ UNCHANGED caller)

-----------------------------------------------------------------------------
(***************************************************************************)
(* The waits of a fetch stay within the deadline of the context the        *)
(* monitor was run with, as the comment in CryptoPriceMonitor.Run says.    *)
(***************************************************************************)
RunDeadlineBoundsFetch == stage = "wait" /\ runDeadline > 0 => wakeAt <= runDeadline
=============================================================================
