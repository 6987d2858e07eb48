----------------------------- MODULE WSMessages -----------------------------
(***************************************************************************)
(* The way of a received message through utils/websocket_client.go: the    *)
(* readLoop of a generation puts it into msgCh, dropping the oldest one if *)
(* the channel is full; one of the workers (messageLoop) takes it and      *)
(* calls OnMessage.  msgCh is shared by all generations, and those of an   *)
(* old one may still be running when the next one starts.                  *)
(*                                                                         *)
(* A message is the number of the ReadMessage that returned it.  Run is    *)
(* reduced to what it does to the connection and the contexts; module      *)
(* WSClient has its detail, and the panic of a reader that finds no        *)
(* connection, which here just stops.                                      *)
(***************************************************************************)
EXTENDS Integers, Sequences

CONSTANTS
  MaxGen,     \* bound: generations
  WorkerNum,  \* cfg.WorkerNum
  MsgCap,     \* cfg.MsgBufferSize
  MaxMsgs     \* bound: messages received

ASSUME BoundsAssumption ==
  /\ MaxGen \in Nat \ {0} /\ WorkerNum \in Nat \ {0}
  /\ MsgCap \in Nat \ {0} /\ MaxMsgs \in Nat

VARIABLES
  gen,        \* generations started
  conn,       \* c.conn: the generation that dialled it, 0 for nil
  ctxDone,    \* the context of the caller of Run has ended
  cancelled,  \* generations whose context has ended
  reader,     \* reader[g]: where readLoop is
  rconn,      \* rconn[g]: the connection it reads from
  hand,       \* hand[g]: the message it has read and not yet queued
  msgCh,      \* the queue
  worker,     \* worker[w]: "off", "select", "busy" or "done"
  job,        \* job[w]: the message OnMessage was called with
  received,   \* number of messages received
  source,     \* history: source[m] is the generation whose reader read m
  taken,      \* history: messages taken by workers, in order
  dropped,    \* history: messages dropped on overflow
  abandoned   \* history: messages given up when the context ended

runVars == <<gen, conn, ctxDone, cancelled>>
readVars == <<reader, rconn, hand>>
workVars == <<worker, job, taken>>
lost == <<dropped, abandoned>>
arrivals == <<received, source>>
vars == <<runVars, readVars, msgCh, workVars, arrivals, lost>>

Gens == 1..MaxGen
Workers == Gens \X (1..WorkerNum)
Messages == 1..MaxMsgs

TypeOK ==
  /\ gen \in 0..MaxGen /\ conn \in 0..gen /\ ctxDone \in BOOLEAN /\ cancelled \subseteq Gens
  /\ reader \in [Gens -> {"off", "top", "reading", "push", "drop", "repush", "done"}]
  /\ rconn \in [Gens -> 0..MaxGen]
  /\ hand \in [Gens -> 0..MaxMsgs]
  /\ \A g \in Gens : (hand[g] # 0) <=> (reader[g] \in {"push", "drop", "repush"})
  /\ msgCh \in Seq(Messages) /\ Len(msgCh) <= MsgCap
  /\ worker \in [Workers -> {"off", "select", "busy", "done"}]
  /\ job \in [Workers -> 0..MaxMsgs]
  /\ received \in 0..MaxMsgs /\ source \in [Messages -> 0..MaxGen]
  /\ taken \in Seq(Messages)
  /\ dropped \subseteq Messages /\ abandoned \subseteq Messages

Init ==
  /\ gen = 0 /\ conn = 0 /\ ctxDone = FALSE /\ cancelled = {}
  /\ reader = [g \in Gens |-> "off"]
  /\ rconn = [g \in Gens |-> 0]
  /\ hand = [g \in Gens |-> 0]
  /\ msgCh = <<>>
  /\ worker = [w \in Workers |-> "off"]
  /\ job = [w \in Workers |-> 0]
  /\ received = 0 /\ source = [m \in Messages |-> 0] /\ taken = <<>>
  /\ dropped = {} /\ abandoned = {}

-----------------------------------------------------------------------------
(***************************************************************************)
(* Run: a connection with its goroutines; the end of the connection, then  *)
(* the deferred cancellation of the generation's context.  The end of the  *)
(* caller's context ends the generation's at once, and is the last one.    *)
(***************************************************************************)
StartGeneration ==
  /\ gen < MaxGen /\ ~ctxDone /\ conn = 0 /\ (gen > 0 => gen \in cancelled)
  /\ gen' = gen + 1 /\ conn' = gen + 1
  /\ reader' = [reader EXCEPT ![gen + 1] = "top"]
  /\ worker' = [w \in Workers |-> IF w[1] = gen + 1 THEN "select" ELSE worker[w]]
  /\ UNCHANGED <<ctxDone, cancelled, rconn, hand, msgCh, job, taken, arrivals, lost>>

CloseConn ==
  /\ conn # 0
  /\ conn' = 0
  /\ UNCHANGED <<gen, ctxDone, cancelled, readVars, msgCh, workVars, arrivals, lost>>

CancelGeneration ==
  /\ gen > 0 /\ gen \notin cancelled /\ conn = 0
  /\ cancelled' = cancelled \cup {gen}
  /\ UNCHANGED <<gen, conn, ctxDone, readVars, msgCh, workVars, arrivals, lost>>

ContextEnds ==
  /\ ~ctxDone /\ gen > 0
  /\ ctxDone' = TRUE
  /\ cancelled' = cancelled \cup {gen}
  /\ UNCHANGED <<gen, conn, readVars, msgCh, workVars, arrivals, lost>>

-----------------------------------------------------------------------------
(***************************************************************************)
(* readLoop.  c.conn is read in every iteration.                           *)
(***************************************************************************)
ReadBegin(g) ==
  /\ reader[g] = "top" /\ conn # 0
  /\ reader' = [reader EXCEPT ![g] = "reading"]
  /\ rconn' = [rconn EXCEPT ![g] = conn]
  /\ UNCHANGED <<runVars, hand, msgCh, workVars, arrivals, lost>>

ReadMsg(g) ==
  /\ reader[g] = "reading" /\ rconn[g] = conn /\ received < MaxMsgs
  /\ received' = received + 1
  /\ source' = [source EXCEPT ![received + 1] = g]
  /\ hand' = [hand EXCEPT ![g] = received + 1]
  /\ reader' = [reader EXCEPT ![g] = "push"]
  /\ rconn' = [rconn EXCEPT ![g] = 0]
  /\ UNCHANGED <<runVars, msgCh, workVars, lost>>

ReadErr(g) ==
  /\ reader[g] = "reading"
  /\ reader' = [reader EXCEPT ![g] = "done"]
  /\ rconn' = [rconn EXCEPT ![g] = 0]
  /\ UNCHANGED <<runVars, hand, msgCh, workVars, arrivals, lost>>

Room == Len(msgCh) < MsgCap

(***************************************************************************)
(* The first select: the context's end or a free place, either if both are *)
(* there; overflow if neither is.                                          *)
(***************************************************************************)
Enqueue(g, next) ==
  /\ msgCh' = Append(msgCh, hand[g])
  /\ hand' = [hand EXCEPT ![g] = 0]
  /\ reader' = [reader EXCEPT ![g] = next]
  /\ UNCHANGED lost

Push(g) ==
  /\ reader[g] = "push" /\ Room
  /\ Enqueue(g, "top")
  /\ UNCHANGED <<runVars, rconn, workVars, arrivals>>

GiveUp(g) ==
  /\ reader[g] = "push" /\ g \in cancelled
  /\ abandoned' = abandoned \cup {hand[g]}
  /\ hand' = [hand EXCEPT ![g] = 0]
  /\ reader' = [reader EXCEPT ![g] = "done"]
  /\ UNCHANGED <<runVars, rconn, msgCh, workVars, arrivals, dropped>>

Overflow(g) ==
  /\ reader[g] = "push" /\ g \notin cancelled /\ ~Room
  /\ reader' = [reader EXCEPT ![g] = "drop"]
  /\ UNCHANGED <<runVars, rconn, hand, msgCh, workVars, arrivals, lost>>

(***************************************************************************)
(* On overflow the oldest message goes, if workers have left one, and the  *)
(* new one is queued, if no other reader has taken its place.              *)
(***************************************************************************)
DropHead ==
  IF msgCh = <<>> THEN UNCHANGED <<msgCh, dropped>>
  ELSE msgCh' = Tail(msgCh) /\ dropped' = dropped \cup {Head(msgCh)}

DropOld(g) ==
  /\ reader[g] = "drop"
  /\ DropHead
  /\ reader' = [reader EXCEPT ![g] = "repush"]
  /\ UNCHANGED <<runVars, rconn, hand, workVars, arrivals, abandoned>>

Repush_Forgotten(g) ==
  /\ reader[g] = "repush"
  /\ dropped' = dropped \cup {hand[g]}
  /\ hand' = [hand EXCEPT ![g] = 0]
  /\ reader' = [reader EXCEPT ![g] = "top"]
  /\ UNCHANGED <<msgCh, abandoned>>
  /\ UNCHANGED <<runVars, rconn, workVars, arrivals>>

Repush(g) ==
  /\ reader[g] = "repush"
  /\ IF Room THEN Enqueue(g, "top")
     ELSE /\ dropped' = dropped \cup {hand[g]}
          /\ hand' = [hand EXCEPT ![g] = 0]
          /\ reader' = [reader EXCEPT ![g] = "top"]
          /\ UNCHANGED <<msgCh, abandoned>>
  /\ UNCHANGED <<runVars, rconn, workVars, arrivals>>

-----------------------------------------------------------------------------
(***************************************************************************)
(* messageLoop: the select, and the call of OnMessage.                     *)
(***************************************************************************)
Take(w) ==
  /\ worker[w] = "select" /\ msgCh # <<>>
  /\ job' = [job EXCEPT ![w] = Head(msgCh)]
  /\ taken' = Append(taken, Head(msgCh))
  /\ msgCh' = Tail(msgCh)
  /\ worker' = [worker EXCEPT ![w] = "busy"]
  /\ UNCHANGED <<runVars, readVars, arrivals, lost>>

WorkerReturns_Ends(w) ==
  /\ job' = [job EXCEPT ![w] = 0]
  /\ worker' = [worker EXCEPT ![w] = "done"]

WorkerReturns(w) ==
  /\ job' = [job EXCEPT ![w] = 0]
  /\ worker' = [worker EXCEPT ![w] = "select"]

OnMessageReturns(w) ==
  /\ worker[w] = "busy"
  /\ WorkerReturns(w)
  /\ UNCHANGED <<runVars, readVars, msgCh, taken, arrivals, lost>>

WorkerEnd(w) ==
  /\ worker[w] = "select" /\ w[1] \in cancelled
  /\ worker' = [worker EXCEPT ![w] = "done"]
  /\ UNCHANGED <<runVars, readVars, msgCh, job, taken, arrivals, lost>>

-----------------------------------------------------------------------------
RunStep == StartGeneration \/ CloseConn \/ CancelGeneration \/ ContextEnds

ReaderStep(g) ==
  \/ ReadBegin(g) \/ ReadMsg(g) \/ ReadErr(g)
  \/ Push(g) \/ GiveUp(g) \/ Overflow(g) \/ DropOld(g) \/ Repush(g)

WorkerStep(w) == Take(w) \/ OnMessageReturns(w) \/ WorkerEnd(w)

Next ==
  \/ RunStep
  \/ \E g \in Gens : ReaderStep(g)
  \/ \E w \in Workers : WorkerStep(w)

Spec == Init /\ [][Next]_vars

(***************************************************************************)
(* Workers are scheduled, and OnMessage returns: the handlers of this      *)
(* repository never block.                                                 *)
(***************************************************************************)
FairSpec == Spec /\ \A w \in Workers : WF_vars(WorkerStep(w))

-----------------------------------------------------------------------------
Range(s) == {s[i] : i \in 1..Len(s)}
InHand == {hand[g] : g \in Gens} \ {0}
InQueue == Range(msgCh)

(***************************************************************************)
(* Across all generations no message is handed to OnMessage twice, none is *)
(* handled after it was dropped, and none disappears: each one received is *)
(* in exactly one place (readLoop, messageLoop).                           *)
(***************************************************************************)
EachMessageInOnePlace ==
  /\ InHand \cup InQueue \cup Range(taken) \cup dropped \cup abandoned = 1..received
  /\ \A i, j \in 1..Len(taken) : taken[i] = taken[j] => i = j
  /\ \A i, j \in 1..Len(msgCh) : msgCh[i] = msgCh[j] => i = j
  /\ \A f, g \in Gens : hand[f] = hand[g] /\ hand[f] # 0 => f = g
  /\ InHand \cap (InQueue \cup Range(taken) \cup dropped \cup abandoned) = {}
  /\ InQueue \cap (Range(taken) \cup dropped \cup abandoned) = {}
  /\ Range(taken) \cap (dropped \cup abandoned) = {}
  /\ dropped \cap abandoned = {}

(***************************************************************************)
(* The queue keeps its promise (the comment on overflow in readLoop): what *)
(* one reader read is handled in order, and the newest message is dropped  *)
(* only for one of another generation's reader.                            *)
(***************************************************************************)
Pending(g) == {m \in InQueue : source[m] = g} \cup ({hand[g]} \ {0})

Abstract == INSTANCE DropOldest WITH
  Readers <- Gens,
  arrived <- received,
  pending <- [g \in Gens |-> Pending(g)],
  closing <- cancelled

ImplementsDropOldest == Abstract!Spec

(***************************************************************************)
(* A queued message is handled, or dropped for a newer one, as long as     *)
(* there is a generation to do so, even if the one that read it has ended  *)
(* (messageLoop).                                                          *)
(***************************************************************************)
NoMessageStuck ==
  \A m \in Messages : m \in InQueue ~> (m \notin InQueue \/ gen \in cancelled)
=============================================================================
