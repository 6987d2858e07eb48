-------------------------- MODULE MarketSubsProofs --------------------------
(***************************************************************************)
(* Proofs about the subscriptions of MarketMonitor, for any number of      *)
(* callers, tokens, calls of Run, connections and places in sendCh.        *)
(***************************************************************************)
EXTENDS MarketSubs, TLAPS

(***************************************************************************)
(* What is queued for client i or held by one of its writers.              *)
(***************************************************************************)
Queued(i) == {sendCh[i][k] : k \in 1..Len(sendCh[i])}
Held(i) == {hand[w] : w \in {v \in 1..Len(dials) : dials[v] = i}}
Pending(i) == (Queued(i) \cup Held(i)) \ {None, Gone}

Adds(m, t) == m.op = "sub" /\ t \in m.tokens
Removes(m, t) == m.op = "unsub" /\ t \in m.tokens

(***************************************************************************)
(* Messages are numbered in the order in which they are queued.  A client  *)
(* that Run has not made yet has nothing, and neither has the writer of a  *)
(* connection that was not dialled yet.                                    *)
(***************************************************************************)
NumberInv ==
  \A i \in Clients : written[i] <= sent /\ \A m \in Pending(i) : m.seq <= sent

FreshInv ==
  /\ \A w \in Writers : w > Len(dials) => hand[w] = None
  /\ \A i \in Clients :
       run[i] = "new" => ~alive[i] /\ server[i] = {} /\ Pending(i) = {}

NumbersInv == NumberInv /\ FreshInv

(***************************************************************************)
(* A goroutine in Send is in the Send of a client that Run has made.       *)
(***************************************************************************)
SendInv == \A p \in Procs : pc[p] = "queue" => run[via[p]] # "new"

(***************************************************************************)
(* A subscribed token whose connection is up: a goroutine is about to send *)
(* it, its newest subscription is pending and newer than any removal, or   *)
(* the server has it and every pending removal is late.                    *)
(***************************************************************************)
AboutToSend(i, t) ==
  \E p \in Procs : t \in toks[p] /\ (pc[p] \in {"check", "send"} \/ (pc[p] = "queue" /\ via[p] = i))

SubPending(i, t) ==
  \E m \in Pending(i) : Adds(m, t) /\ \A n \in Pending(i) : Removes(n, t) => n.seq < m.seq

Streamed(i, t) ==
  t \in server[i] /\ \A n \in Pending(i) : Removes(n, t) => n.seq < written[i]

Wanted(i, t) ==
  ws = i /\ alive[i] /\ link[i] = "up" /\ t \in subsTokens =>
    t \in unsent \/ AboutToSend(i, t) \/ SubPending(i, t) \/ Streamed(i, t)

(***************************************************************************)
(* The same for a token that is not subscribed.                            *)
(***************************************************************************)
AboutToRemove(t) == \E c \in Callers : pc[c] \in {"reset", "unsub"} /\ t \in toks[c]

UnsubPending(i, t) ==
  \E m \in Pending(i) : Removes(m, t) /\ \A n \in Pending(i) : Adds(n, t) => n.seq < m.seq

Silent(i, t) ==
  t \notin server[i] /\ \A n \in Pending(i) : Adds(n, t) => n.seq < written[i]

Unwanted(i, t) ==
  ws = i /\ t \notin subsTokens =>
    t \in ghosts \/ AboutToRemove(t) \/ UnsubPending(i, t) \/ Silent(i, t)

TokensInv == \A i \in Clients, t \in Tokens : Wanted(i, t) /\ Unwanted(i, t)

SubsInv == TypeOK /\ NumbersInv /\ SendInv /\ TokensInv

-----------------------------------------------------------------------------
(***************************************************************************)
(* Types.                                                                  *)
(***************************************************************************)
LEMMA Constants ==
  /\ MaxRuns \in Nat /\ MaxConns \in Nat /\ SendCap \in Nat \ {0} /\ MaxOps \in Nat
  /\ 0 \notin Clients /\ Clients \subseteq Procs /\ Callers \subseteq Procs
  /\ Clients \subseteq 0..MaxRuns
BY BoundsAssumption DEF Clients, Procs

LEMMA PushTypes ==
  ASSUME TypeOK, NEW i \in Clients, NEW op \in {"sub", "unsub"}, NEW T \in SUBSET Tokens,
         Room(i), Push(i, op, T)
  PROVE  /\ sendCh' \in [Clients -> Seq(Messages)] /\ \A j \in Clients : Len(sendCh'[j]) <= SendCap
         /\ hand' \in [Writers -> Messages \cup {None, Gone}]
         /\ server' \in [Clients -> SUBSET Tokens]
         /\ sent' \in Nat /\ written' \in [Clients -> Nat]
<1> DEFINE m == [op |-> op, tokens |-> T, seq |-> sent + 1]
<1>1. m \in Messages
  BY DEF TypeOK, Messages
<1>2. sendCh[i] \in Seq(Messages) /\ Len(sendCh[i]) \in Nat
  BY DEF TypeOK
<1>3. Append(sendCh[i], m) \in Seq(Messages) /\ Len(Append(sendCh[i], m)) = Len(sendCh[i]) + 1
  BY <1>1, <1>2
<1>4. sendCh' = [sendCh EXCEPT ![i] = Append(sendCh[i], m)]
  BY DEF Push
<1> HIDE DEF m
<1>5. sendCh' \in [Clients -> Seq(Messages)] /\ \A j \in Clients : Len(sendCh'[j]) <= SendCap
  BY <1>2, <1>3, <1>4, Constants DEF TypeOK, Room
<1>6. QED
  BY <1>5 DEF TypeOK, Push

LEMMA RemoveTypes ==
  ASSUME TypeOK, NEW T \in SUBSET Tokens, RemoveTokens(T)
  PROVE  /\ subsTokens' \subseteq Tokens /\ ghosts' \subseteq Tokens
         /\ sendCh' \in [Clients -> Seq(Messages)] /\ \A j \in Clients : Len(sendCh'[j]) <= SendCap
         /\ hand' \in [Writers -> Messages \cup {None, Gone}]
         /\ server' \in [Clients -> SUBSET Tokens]
         /\ sent' \in Nat /\ written' \in [Clients -> Nat]
<1>1. subsTokens' \subseteq Tokens /\ ghosts' \subseteq Tokens
  BY DEF RemoveTokens, TypeOK
<1>2. CASE T # {} /\ Tells(subsTokens \ T)
  <2>1. ws \in Clients /\ Room(ws) /\ Push(ws, "unsub", T)
    BY <1>2, Constants DEF RemoveTokens, Tells, Usable, TypeOK, Clients
  <2>2. QED
    BY <1>1, <2>1, PushTypes
<1>3. CASE ~(T # {} /\ Tells(subsTokens \ T))
  BY <1>1, <1>3 DEF RemoveTokens, TypeOK, wires
<1>4. QED
  BY <1>2, <1>3

LEMMA CloseTypes ==
  ASSUME TypeOK, NEW i \in Clients, CloseClient(i)
  PROVE  /\ alive' \in [Clients -> BOOLEAN]
         /\ link' \in [Clients -> {"none", "up", "broken"}]
         /\ server' \in [Clients -> SUBSET Tokens]
BY DEF TypeOK, CloseClient

LEMMA DisconnectTypes ==
  ASSUME TypeOK, Disconnect, UNCHANGED <<ctrl, calls, crashed, dials, unsent>>, ops' \in 0..MaxOps,
         run' \in [Clients -> {"new", "dial", "open", "up", "ending", "ended"}]
  PROVE  TypeOK'
<1>1. subsTokens' \subseteq Tokens /\ ws' \in 0..MaxRuns /\ ghosts' \subseteq Tokens
  BY Constants DEF TypeOK, Disconnect
<1>2. CASE ws # 0 /\ CloseClient(ws)
  <2>1. ws \in Clients
    BY <1>2, Constants DEF TypeOK, Clients
  <2>2. UNCHANGED <<sendCh, hand, sent, written>>
    BY <1>2 DEF CloseClient
  <2>3. QED
    BY <1>1, <1>2, <2>1, <2>2, CloseTypes DEF TypeOK, calls
<1>3. CASE UNCHANGED <<alive, link, wires>>
  BY <1>1, <1>3 DEF TypeOK, wires, calls
<1>4. QED
  BY <1>2, <1>3 DEF Disconnect

LEMMA BeginTypes ==
  ASSUME TypeOK, NEW c, Begin(c)
  PROVE  ops' \in 0..MaxOps
BY Constants DEF TypeOK, Begin

(***************************************************************************)
(* What the goroutines execute; a step that changes only that.             *)
(***************************************************************************)
CallsTyped ==
  /\ pc \in [Procs -> {"idle", "check", "send", "queue", "unsub", "reset", "resetws"}]
  /\ toks \in [Procs -> SUBSET Tokens]
  /\ via \in [Procs -> 0..MaxRuns] /\ \A p \in Procs : pc[p] = "queue" => via[p] # 0

LEMMA LeaveTypes ==
  ASSUME TypeOK, NEW p \in Procs, Leave(p)
  PROVE  CallsTyped'
BY Constants DEF TypeOK, Leave, CallsTyped

LEMMA CallsTypes ==
  ASSUME TypeOK, CallsTyped', subsTokens' \subseteq Tokens, ops' \in 0..MaxOps,
         ctrl' \in [Clients -> BOOLEAN],
         UNCHANGED <<ws, run, alive, link, wires, crashed, dials, unsent, ghosts>>
  PROVE  TypeOK'
BY DEF TypeOK, CallsTyped, wires

LEMMA CallerTypes ==
  ASSUME TypeOK, NEW c \in Callers, CallerStep(c)
  PROVE  TypeOK'
<1> c \in Procs
  BY Constants
<1>0. CASE Subscribe(c)
  <2>1. CallsTyped'
    BY <1>0 DEF TypeOK, Subscribe, CallsTyped
  <2>2. QED
    BY <1>0, <2>1, BeginTypes, CallsTypes DEF Subscribe, TypeOK
<1>1. ASSUME NEW T \in SUBSET Tokens, SubscribeTokens(c, T)
      PROVE  TypeOK'
  <2>1. CallsTyped' /\ subsTokens' \subseteq Tokens
    BY <1>1 DEF TypeOK, SubscribeTokens, AddTokens, CallsTyped
  <2>2. QED
    BY <1>1, <2>1, BeginTypes, CallsTypes DEF SubscribeTokens, TypeOK
<1>2. ASSUME NEW T \in SUBSET Tokens, UnsubscribeTokens(c, T)
      PROVE  TypeOK'
  <2>1. RemoveTokens(T)
    BY <1>2 DEF UnsubscribeTokens
  <2>2. ops' \in 0..MaxOps
    BY <1>2, BeginTypes DEF UnsubscribeTokens
  <2>3. UNCHANGED <<ws, run, alive, link, ctrl, pc, toks, via, crashed, dials, unsent>>
    BY <1>2 DEF UnsubscribeTokens, calls
  <2>4. QED
    BY <2>1, <2>2, <2>3, RemoveTypes DEF TypeOK
<1>3. ASSUME NEW b \in BOOLEAN, ResetTake(c, b)
      PROVE  TypeOK'
  <2>1. CallsTyped' /\ subsTokens' \subseteq Tokens
    BY <1>3 DEF TypeOK, ResetTake, CallsTyped
  <2>2. QED
    BY <1>3, <2>1, BeginTypes, CallsTypes DEF ResetTake, TypeOK
<1>4. ASSUME ResetUnsubscribe(c)
      PROVE  TypeOK'
  <2>1. toks[c] \in SUBSET Tokens /\ RemoveTokens(toks[c])
    BY <1>4 DEF ResetUnsubscribe, TypeOK
  <2>2. QED
    BY <1>4, <2>1, RemoveTypes DEF TypeOK, ResetUnsubscribe
<1>5. ASSUME ResetReconnect(c)
      PROVE  TypeOK'
  BY <1>5, LeaveTypes, CallsTypes DEF TypeOK, ResetReconnect
<1>6. ASSUME CallDisconnect(c)
      PROVE  TypeOK'
  <2>1. ops' \in 0..MaxOps
    BY <1>6, BeginTypes DEF CallDisconnect
  <2>2. Disconnect /\ UNCHANGED <<run, ctrl, calls, crashed, dials, unsent>>
    BY <1>6 DEF CallDisconnect
  <2>3. QED
    BY <2>1, <2>2, DisconnectTypes DEF TypeOK
<1>7. QED
  BY <1>0, <1>1, <1>2, <1>3, <1>4, <1>5, <1>6 DEF CallerStep

LEMMA ProcTypes ==
  ASSUME TypeOK, NEW p \in Procs, ProcStep(p)
  PROVE  TypeOK'
<1>1. CASE CheckAlive(p)
  <2>1. CallsTyped'
    <3>1. CASE pc' = [pc EXCEPT ![p] = "send"] /\ UNCHANGED <<toks, via>>
      BY <3>1 DEF TypeOK, CallsTyped
    <3>2. QED
      BY <1>1, <3>1, LeaveTypes DEF CheckAlive
  <2>2. QED
    BY <1>1, <2>1, CallsTypes DEF CheckAlive, TypeOK
<1>2. CASE SendChecks(p)
  <2>1. CallsTyped'
    <3>1. CASE pc' = [pc EXCEPT ![p] = "queue"] /\ via' = [via EXCEPT ![p] = ws] /\ UNCHANGED toks
      BY <1>2, <3>1 DEF SendChecks, TypeOK, CallsTyped
    <3>2. QED
      BY <1>2, <3>1, LeaveTypes DEF SendChecks
  <2>2. QED
    BY <1>2, <2>1, CallsTypes DEF SendChecks, TypeOK
<1>3. CASE QueueSnapshot(p)
  <2>1. CallsTyped'
    BY <1>3, LeaveTypes DEF QueueSnapshot
  <2>2. via[p] \in Clients /\ toks[p] \in SUBSET Tokens
    BY <1>3, Constants DEF TypeOK, QueueSnapshot, Clients
  <2>3. ghosts' \subseteq Tokens /\ unsent' \subseteq Tokens
    BY <1>3, <2>2 DEF QueueSnapshot, TypeOK
  <2>4. UNCHANGED <<subsTokens, ws, run, alive, link, ctrl, crashed, dials, ops>>
    BY <1>3 DEF QueueSnapshot
  <2>5. CASE Room(via[p]) /\ Push(via[p], "sub", toks[p])
    BY <2>1, <2>2, <2>3, <2>4, <2>5, PushTypes DEF TypeOK, CallsTyped
  <2>6. CASE UNCHANGED wires
    BY <2>1, <2>3, <2>4, <2>6 DEF TypeOK, wires, CallsTyped
  <2>7. QED
    BY <1>3, <2>5, <2>6 DEF QueueSnapshot
<1>4. CASE UseNil(p)
  BY <1>4 DEF TypeOK, UseNil, wires, calls
<1>5. QED
  BY <1>1, <1>2, <1>3, <1>4 DEF ProcStep

LEMMA ClientTypes ==
  ASSUME TypeOK, NEW i \in Clients, ClientStep(i)
  PROVE  TypeOK'
<1> i \in Procs /\ i \in 0..MaxRuns
  BY Constants
<1>1. CASE RunStart(i)
  BY <1>1 DEF TypeOK, RunStart, wires, calls
<1>2. CASE Dial(i)
  <2>1. dials' \in Seq(Clients) /\ Len(dials') <= MaxConns
    BY <1>2, Constants DEF TypeOK, Dial
  <2>2. QED
    BY <1>2, <2>1 DEF TypeOK, Dial, Connected, AddTokens
<1>3. CASE RunOpened(i)
  BY <1>3 DEF TypeOK, RunOpened, wires, calls
<1>4. CASE RunRedial(i)
  BY <1>4, CloseTypes DEF TypeOK, RunRedial, CloseClient, calls
<1>5. CASE RunEnds(i)
  BY <1>5, CloseTypes DEF TypeOK, RunEnds, CloseClient, calls
<1>6. CASE RunDisconnects(i)
  <2>1. Disconnect /\ UNCHANGED <<ctrl, calls, crashed, dials, ops, unsent>> /\ run' = [run EXCEPT ![i] = "ended"]
    BY <1>6 DEF RunDisconnects
  <2>2. QED
    BY <2>1, DisconnectTypes DEF TypeOK
<1>7. CASE Break(i)
  BY <1>7 DEF TypeOK, Break, wires, calls
<1>8. QED
  BY <1>1, <1>2, <1>3, <1>4, <1>5, <1>6, <1>7 DEF ClientStep

LEMMA WriterTypes ==
  ASSUME TypeOK, NEW w \in 1..Len(dials), Take(w) \/ Write(w)
  PROVE  TypeOK'
<1> DEFINE i == dials[w]
<1>1. i \in Clients /\ w \in Writers
  BY Constants DEF TypeOK, Writers
<1>2. CASE Take(w)
  <2>1. sendCh[i] \in Seq(Messages) /\ sendCh[i] # <<>> /\ Len(sendCh[i]) <= SendCap
    BY <1>1, <1>2 DEF TypeOK, Take
  <2>2. Head(sendCh[i]) \in Messages /\ Tail(sendCh[i]) \in Seq(Messages) /\ Len(Tail(sendCh[i])) <= SendCap
    BY <2>1, Constants
  <2>3. QED
    BY <1>1, <1>2, <2>2 DEF TypeOK, Take, calls
<1>3. CASE Write(w)
  <2>1. hand[w] \in Messages
    BY <1>1, <1>3 DEF TypeOK, Write
  <2>2. hand[w].tokens \subseteq Tokens /\ hand[w].seq \in Nat
    BY <2>1 DEF Messages
  <2>3. hand' \in [Writers -> Messages \cup {None, Gone}]
    BY <1>1, <1>3 DEF TypeOK, Write
  <2>4. server' \in [Clients -> SUBSET Tokens] /\ written' \in [Clients -> Nat]
    <3>1. server[i] \subseteq Tokens /\ Apply(hand[w], server[i]) \subseteq Tokens
      BY <1>1, <2>2 DEF TypeOK, Apply
    <3>2. server' = server \/ server' = [server EXCEPT ![i] = Apply(hand[w], server[i])]
      BY <1>3 DEF Write
    <3>3. written' \in [Clients -> Nat]
      <4>1. \/ written' = written
            \/ written' = [written EXCEPT ![i] = IF hand[w].seq < @ THEN @ ELSE hand[w].seq]
        BY <1>3 DEF Write
      <4>2. written \in [Clients -> Nat]
        BY <1>1 DEF TypeOK
      <4>3. QED
        BY ONLY <2>2, <4>1, <4>2
    <3>4. QED
      BY <3>1, <3>2, <3>3, <1>1 DEF TypeOK
  <2>5. unsent' \subseteq Tokens /\ ghosts' \subseteq Tokens
    BY <1>1, <1>3, <2>2 DEF TypeOK, Write
  <2>6. QED
    BY <1>3, <2>3, <2>4, <2>5 DEF TypeOK, Write, calls
<1>4. QED
  BY <1>2, <1>3

LEMMA Typing ==
  ASSUME TypeOK, [Next]_vars
  PROVE  TypeOK'
<1>1. CASE UNCHANGED vars
  BY <1>1 DEF TypeOK, vars, wires, calls
<1>2. QED
  BY <1>1, CallerTypes, ProcTypes, ClientTypes, WriterTypes DEF Next

-----------------------------------------------------------------------------
(***************************************************************************)
(* What the steps do to the pending messages.                              *)
(***************************************************************************)
LEMMA PendingTypes ==
  ASSUME TypeOK, NEW i \in Clients
  PROVE  Pending(i) \subseteq Messages
<1>1. \A k \in 1..Len(sendCh[i]) : sendCh[i][k] \in Messages
  BY DEF TypeOK
<1>2. \A w \in 1..Len(dials) : hand[w] \in Messages \cup {None, Gone}
  BY Constants DEF TypeOK, Writers
<1>3. QED
  BY <1>1, <1>2 DEF Pending, Queued, Held

LEMMA PendingSame ==
  ASSUME UNCHANGED <<sendCh, hand, dials>>, NEW i
  PROVE  Pending(i)' = Pending(i)
BY DEF Pending, Queued, Held

LEMMA PendingPush ==
  ASSUME TypeOK, NEW i \in Clients, NEW op \in {"sub", "unsub"}, NEW T \in SUBSET Tokens,
         Push(i, op, T), UNCHANGED dials, NEW j \in Clients
  PROVE  Pending(j)' = IF j = i THEN Pending(i) \cup {[op |-> op, tokens |-> T, seq |-> sent + 1]}
                       ELSE Pending(j)
<1> DEFINE m == [op |-> op, tokens |-> T, seq |-> sent + 1]
<1>1. m \in Messages /\ m # None /\ m # Gone
  BY DEF TypeOK, Messages, None, Gone
<1>2. Held(j)' = Held(j)
  BY DEF Push, Held
<1>3. sendCh' = [sendCh EXCEPT ![i] = Append(sendCh[i], m)]
  BY DEF Push
<1> HIDE DEF m
<1>4. sendCh[i] \in Seq(Messages) /\ sendCh \in [Clients -> Seq(Messages)]
  BY DEF TypeOK
<1>5. CASE j # i
  <2>1. Queued(j)' = Queued(j)
    BY <1>3, <1>4, <1>5 DEF Queued
  <2>2. QED
    BY <1>2, <1>5, <2>1 DEF Pending
<1>6. CASE j = i
  <2>1. sendCh'[i] = Append(sendCh[i], m)
    BY <1>3, <1>4
  <2>2. /\ Len(sendCh'[i]) = Len(sendCh[i]) + 1 /\ Len(sendCh[i]) \in Nat
        /\ \A k \in 1..Len(sendCh[i]) : sendCh'[i][k] = sendCh[i][k]
        /\ sendCh'[i][Len(sendCh[i]) + 1] = m
    BY <2>1, <1>1, <1>4
  <2>3. {sendCh'[i][k] : k \in 1..Len(sendCh'[i])} = {sendCh[i][k] : k \in 1..Len(sendCh[i])} \cup {m}
    <3>1. 1..Len(sendCh'[i]) = 1..Len(sendCh[i]) \cup {Len(sendCh[i]) + 1}
      BY <2>2
    <3>2. QED
      BY <2>2, <3>1
  <2>4. Queued(i)' = Queued(i) \cup {m}
    BY <2>3 DEF Queued
  <2>5. QED
    BY <1>1, <1>2, <1>6, <2>4 DEF Pending, m
<1>7. QED
  BY <1>5, <1>6

LEMMA PendingTake ==
  ASSUME TypeOK, NEW w \in 1..Len(dials), Take(w), NEW j \in Clients
  PROVE  Pending(j)' = Pending(j)
<1> DEFINE i == dials[w]
<1>1. /\ i \in Clients /\ w \in Writers /\ sendCh[i] \in Seq(Messages) /\ sendCh[i] # <<>>
      /\ sendCh \in [Clients -> Seq(Messages)] /\ hand \in [Writers -> Messages \cup {None, Gone}]
      /\ dials \in Seq(Clients) /\ Len(dials) <= MaxConns /\ Len(dials) \in Nat
  <2>1. dials \in Seq(Clients) /\ Len(dials) <= MaxConns /\ Len(dials) \in Nat
    BY DEF TypeOK
  <2>2. i \in Clients /\ w \in Writers
    BY <2>1, Constants DEF Writers
  <2>3. sendCh[i] # <<>>
    BY DEF Take
  <2>4. QED
    BY <2>1, <2>2, <2>3 DEF TypeOK
<1>2. /\ hand[w] = None /\ UNCHANGED dials
      /\ hand' = [hand EXCEPT ![w] = Head(sendCh[i])]
      /\ sendCh' = [sendCh EXCEPT ![i] = Tail(sendCh[i])]
  BY DEF Take
<1>3. CASE j # i
  <2>1. Queued(j)' = Queued(j)
    BY <1>1, <1>2, <1>3 DEF Queued
  <2>2. Held(j)' = Held(j)
    BY <1>1, <1>2, <1>3 DEF Held
  <2>3. QED
    BY <2>1, <2>2 DEF Pending
<1>4. CASE j = i
  <2>1. sendCh'[j] = Tail(sendCh[j]) /\ sendCh[j] \in Seq(Messages) /\ sendCh[j] # <<>>
    BY <1>1, <1>2, <1>4
  <2>2. Queued(j) = Queued(j)' \cup {Head(sendCh[j])}
    <3>1. /\ Len(sendCh'[j]) = Len(sendCh[j]) - 1 /\ Len(sendCh[j]) \in Nat \ {0}
          /\ \A k \in 1..Len(sendCh'[j]) : sendCh'[j][k] = sendCh[j][k + 1]
          /\ Head(sendCh[j]) = sendCh[j][1]
      BY <2>1
    <3>2. \A k \in 1..Len(sendCh[j]) : k = 1 \/ (k - 1 \in 1..Len(sendCh'[j]) /\ sendCh[j][k] = sendCh'[j][k - 1])
      BY <3>1
    <3>3. \A k \in 1..Len(sendCh'[j]) : k + 1 \in 1..Len(sendCh[j]) /\ 1 \in 1..Len(sendCh[j])
      BY <3>1
    <3>4. 1 \in 1..Len(sendCh[j])
      BY <3>1
    <3>5. {sendCh[j][k] : k \in 1..Len(sendCh[j])}
            \subseteq {sendCh'[j][k] : k \in 1..Len(sendCh'[j])} \cup {Head(sendCh[j])}
      <4> SUFFICES ASSUME NEW k \in 1..Len(sendCh[j]), k # 1
                   PROVE  sendCh[j][k] \in {sendCh'[j][l] : l \in 1..Len(sendCh'[j])}
        BY <3>1
      <4> QED
        BY <3>2
    <3>6. {sendCh'[j][k] : k \in 1..Len(sendCh'[j])} \cup {Head(sendCh[j])}
            \subseteq {sendCh[j][k] : k \in 1..Len(sendCh[j])}
      BY <3>1, <3>3, <3>4
    <3>7. QED
      BY <3>5, <3>6 DEF Queued
  <2>3. Head(sendCh[j]) \in Messages
    BY <2>1
  <2>4. Held(j)' \cup {None} = Held(j) \cup {Head(sendCh[j]), None}
    BY <1>1, <1>2, <1>4 DEF Held
  <2>5. QED
    BY <2>2, <2>3, <2>4 DEF Pending
<1>5. QED
  BY <1>3, <1>4

LEMMA PendingWrite ==
  ASSUME TypeOK, NEW w \in 1..Len(dials), Write(w), NEW j \in Clients
  PROVE  /\ Pending(j)' \subseteq Pending(j)
         /\ hand[w] \in Pending(dials[w])
         /\ \A m \in Pending(j) : m \in Pending(j)' \/ (j = dials[w] /\ m = hand[w])
<1>1. /\ hand \in [Writers -> Messages \cup {None, Gone}] /\ 1..Len(dials) \subseteq Writers
  BY Constants DEF TypeOK, Writers
<1>2. /\ UNCHANGED <<sendCh, dials>> /\ hand[w] \notin {None, Gone}
      /\ hand' = [hand EXCEPT ![w] = None] \/ hand' = [hand EXCEPT ![w] = Gone]
  BY DEF Write
<1>3. Queued(j)' = Queued(j)
  BY <1>2 DEF Queued
<1>4. Held(j)' \subseteq Held(j) \cup {None, Gone}
  <2>1. \A v \in 1..Len(dials) : hand'[v] = hand[v] \/ hand'[v] \in {None, Gone}
    BY <1>1, <1>2
  <2>2. QED
    BY <1>2, <2>1 DEF Held
<1>5. \A m \in Held(j) : m \in Held(j)' \/ (j = dials[w] /\ m = hand[w])
  <2>1. \A v \in 1..Len(dials) : v # w => hand'[v] = hand[v]
    BY <1>1, <1>2
  <2>2. QED
    BY <1>2, <2>1 DEF Held
<1>6. hand[w] \in Pending(dials[w])
  BY <1>2 DEF Pending, Held
<1>7. QED
  BY <1>3, <1>4, <1>5, <1>6 DEF Pending

LEMMA PendingDial ==
  ASSUME TypeOK, FreshInv, NEW i \in Clients, Dial(i), NEW j \in Clients
  PROVE  Pending(j)' = Pending(j)
<1>1. /\ UNCHANGED <<sendCh, hand>> /\ dials' = Append(dials, i) /\ Len(dials) < MaxConns
      /\ dials \in Seq(Clients)
  BY DEF Dial, TypeOK
<1>2. /\ Len(dials') = Len(dials) + 1 /\ Len(dials) \in Nat
      /\ \A v \in 1..Len(dials) : dials'[v] = dials[v]
  BY <1>1
<1>3. hand[Len(dials) + 1] = None
  BY <1>1, <1>2, Constants DEF FreshInv, Writers
<1>4. Queued(j)' = Queued(j)
  BY <1>1 DEF Queued
<1>5. Held(j)' \subseteq Held(j) \cup {None} /\ Held(j) \subseteq Held(j)'
  BY <1>1, <1>2, <1>3 DEF Held
<1>6. QED
  BY <1>4, <1>5 DEF Pending

-----------------------------------------------------------------------------
(***************************************************************************)
(* Numbers, and clients that are not made yet.                             *)
(***************************************************************************)
(***************************************************************************)
(* A step that queues nothing, writes nothing and dials nothing.           *)
(***************************************************************************)
LEMMA NumbersKept ==
  ASSUME TypeOK, NumbersInv, UNCHANGED <<sendCh, hand, dials, sent, written>>,
         \A i \in Clients : run'[i] = "new" => run[i] = "new" /\ (alive'[i] => alive[i]) /\ server'[i] \subseteq server[i]
  PROVE  NumbersInv'
<1>1. \A i \in Clients : Pending(i)' = Pending(i)
  BY PendingSame
<1>2. NumberInv'
  BY <1>1 DEF NumbersInv, NumberInv
<1>3. FreshInv'
  BY <1>1 DEF NumbersInv, FreshInv
<1>4. QED
  BY <1>2, <1>3 DEF NumbersInv

LEMMA NumbersPush ==
  ASSUME TypeOK, NumbersInv, NEW op \in {"sub", "unsub"}, NEW T \in SUBSET Tokens,
         NEW j \in Clients, run[j] # "new", Push(j, op, T), UNCHANGED <<dials, run, alive>>
  PROVE  NumbersInv'
<1> DEFINE m == [op |-> op, tokens |-> T, seq |-> sent + 1]
<1>2. \A i \in Clients : Pending(i)' = IF i = j THEN Pending(i) \cup {m} ELSE Pending(i)
  BY PendingPush
<1>3. \A i \in Clients : Pending(i) \subseteq Messages
  BY PendingTypes
<1>4. m.seq = sent + 1
  OBVIOUS
<1> HIDE DEF m
<1>5. NumberInv'
  <2>1. sent' = sent + 1 /\ written' = written /\ sent \in Nat /\ \A i \in Clients : written[i] \in Nat
    BY DEF Push, TypeOK
  <2>2. \A i \in Clients : \A n \in Pending(i) : n.seq \in Nat /\ n.seq <= sent
    BY <1>3 DEF Messages, NumbersInv, NumberInv
  <2>3. QED
    BY <1>2, <1>4, <2>1, <2>2 DEF NumbersInv, NumberInv
<1>6. FreshInv'
  BY <1>2 DEF NumbersInv, FreshInv, Push
<1>7. QED
  BY <1>5, <1>6 DEF NumbersInv

LEMMA NumbersRemove ==
  ASSUME TypeOK, NumbersInv, NEW T \in SUBSET Tokens, RemoveTokens(T), UNCHANGED <<dials, run, alive>>
  PROVE  NumbersInv'
<1>1. CASE T # {} /\ Tells(subsTokens \ T)
  <2>1. ws # 0 /\ alive[ws] /\ Push(ws, "unsub", T)
    BY <1>1 DEF RemoveTokens, Tells, Usable
  <2>2. ws \in Clients /\ run[ws] # "new"
    BY <2>1, Constants DEF TypeOK, NumbersInv, FreshInv, Clients
  <2>3. QED
    BY <2>1, <2>2, NumbersPush
<1>2. CASE ~(T # {} /\ Tells(subsTokens \ T))
  BY <1>2, NumbersKept DEF RemoveTokens, wires
<1>3. QED
  BY <1>1, <1>2

LEMMA NumbersClose ==
  ASSUME TypeOK, NumbersInv, NEW i \in Clients, CloseClient(i), UNCHANGED dials,
         \A j \in Clients : run'[j] = "new" => run[j] = "new"
  PROVE  NumbersInv'
<1>1. \A j \in Clients : (alive'[j] => alive[j]) /\ server'[j] \subseteq server[j]
  BY DEF CloseClient, TypeOK
<1>2. UNCHANGED <<sendCh, hand, dials, sent, written>>
  BY DEF CloseClient
<1>3. QED
  BY <1>1, <1>2, NumbersKept

LEMMA NumbersDisconnect ==
  ASSUME TypeOK, NumbersInv, Disconnect, UNCHANGED dials,
         \A j \in Clients : run'[j] = "new" => run[j] = "new"
  PROVE  NumbersInv'
<1>1. CASE ws # 0 /\ CloseClient(ws)
  <2>1. ws \in Clients
    BY <1>1, Constants DEF TypeOK, Clients
  <2>2. QED
    BY <1>1, <2>1, NumbersClose
<1>2. CASE UNCHANGED <<alive, link, wires>>
  BY <1>2, NumbersKept DEF wires
<1>3. QED
  BY <1>1, <1>2 DEF Disconnect

LEMMA NumbersWrite ==
  ASSUME TypeOK, NumbersInv, NEW w \in 1..Len(dials), Write(w)
  PROVE  NumbersInv'
<1> DEFINE i == dials[w]
           m == hand[w]
<1>1. i \in Clients /\ w \in Writers
  BY Constants DEF TypeOK, Writers
<1>2. m \in Pending(i) /\ \A j \in Clients : Pending(j)' \subseteq Pending(j)
  BY <1>1, PendingWrite
<1>3. m \in Messages /\ m.seq <= sent /\ run[i] # "new"
  BY <1>1, <1>2, PendingTypes DEF NumbersInv, NumberInv, FreshInv
<1>4. /\ UNCHANGED <<run, alive, dials, sent>>
      /\ hand' = [hand EXCEPT ![w] = None] \/ hand' = [hand EXCEPT ![w] = Gone]
      /\ \A j \in Clients : j # i => server'[j] = server[j]
      /\ \A j \in Clients : written'[j] = written[j] \/ (j = i /\ written'[j] = m.seq)
  <2>1. /\ server \in [Clients -> SUBSET Tokens] /\ written \in [Clients -> Nat]
    BY DEF TypeOK
  <2>2. QED
    BY <1>1, <2>1 DEF Write
<1>5. NumberInv'
  BY <1>2, <1>3, <1>4 DEF NumbersInv, NumberInv
<1>6. \A v \in Writers : v > Len(dials) => hand'[v] = hand[v]
  <2>1. \A v \in Writers : v > Len(dials) => v # w
    BY DEF TypeOK, Writers
  <2>2. QED
    BY <1>1, <1>4, <2>1 DEF TypeOK
<1>7. FreshInv'
  BY <1>2, <1>3, <1>4, <1>6 DEF NumbersInv, FreshInv
<1>8. QED
  BY <1>5, <1>7 DEF NumbersInv

LEMMA NumbersTake ==
  ASSUME TypeOK, NumbersInv, NEW w \in 1..Len(dials), Take(w)
  PROVE  NumbersInv'
<1>1. \A j \in Clients : Pending(j)' = Pending(j)
  BY PendingTake
<1>2. UNCHANGED <<run, alive, server, dials, sent, written>> /\ w \in Writers
  BY Constants DEF Take, TypeOK, Writers
<1>3. \A v \in Writers : v > Len(dials) => hand'[v] = hand[v]
  BY <1>2 DEF TypeOK, Writers, Take
<1>4. QED
  BY <1>1, <1>2, <1>3 DEF NumbersInv, NumberInv, FreshInv

LEMMA NumbersDial ==
  ASSUME TypeOK, NumbersInv, NEW i \in Clients, Dial(i)
  PROVE  NumbersInv'
<1>1. \A j \in Clients : Pending(j)' = Pending(j)
  BY PendingDial DEF NumbersInv
<1>2. /\ UNCHANGED <<hand, sent, written>> /\ Len(dials') = Len(dials) + 1 /\ Len(dials) \in Nat
      /\ \A j \in Clients : run'[j] = "new" => j # i /\ run[j] = "new"
      /\ \A j \in Clients : j # i => alive'[j] = alive[j] /\ server'[j] = server[j]
  BY DEF Dial, Connected, TypeOK
<1>3. NumberInv'
  BY <1>1, <1>2 DEF NumbersInv, NumberInv
<1>4. FreshInv'
  BY <1>1, <1>2 DEF NumbersInv, FreshInv, Writers
<1>5. QED
  BY <1>3, <1>4 DEF NumbersInv

LEMMA Numbers ==
  ASSUME TypeOK, NumbersInv, SendInv, [Next]_vars
  PROVE  NumbersInv'
<1>1. ASSUME NEW c \in Callers, CallerStep(c)
      PROVE  NumbersInv'
  <2>1. ASSUME NEW T \in SUBSET Tokens, SubscribeTokens(c, T)
        PROVE  NumbersInv'
    BY <2>1, NumbersKept DEF SubscribeTokens, wires
  <2>2. ASSUME NEW T \in SUBSET Tokens, UnsubscribeTokens(c, T)
        PROVE  NumbersInv'
    BY <2>2, NumbersRemove DEF UnsubscribeTokens
  <2>3. ASSUME NEW b \in BOOLEAN, ResetTake(c, b)
        PROVE  NumbersInv'
    BY <2>3, NumbersKept DEF ResetTake, wires
  <2>4. CASE ResetUnsubscribe(c)
    <3>1. toks[c] \in SUBSET Tokens
      BY Constants DEF TypeOK
    <3>2. QED
      BY <2>4, <3>1, NumbersRemove DEF ResetUnsubscribe
  <2>5. CASE ResetReconnect(c)
    BY <2>5, NumbersKept DEF ResetReconnect, wires
  <2>6. CASE CallDisconnect(c)
    BY <2>6, NumbersDisconnect DEF CallDisconnect
  <2>7. CASE Subscribe(c)
    BY <2>7, NumbersKept DEF Subscribe, wires
  <2>8. QED
    BY <1>1, <2>1, <2>2, <2>3, <2>4, <2>5, <2>6, <2>7 DEF CallerStep
<1>2. ASSUME NEW p \in Procs, ProcStep(p)
      PROVE  NumbersInv'
  <2>1. CASE CheckAlive(p) \/ SendChecks(p) \/ UseNil(p)
    BY <2>1, NumbersKept DEF CheckAlive, SendChecks, UseNil, wires
  <2>2. CASE QueueSnapshot(p)
    <3>1. toks[p] \in SUBSET Tokens /\ via[p] \in Clients /\ run[via[p]] # "new"
      BY <2>2, Constants DEF TypeOK, SendInv, QueueSnapshot, Clients
    <3>2. CASE Push(via[p], "sub", toks[p])
      BY <2>2, <3>1, <3>2, NumbersPush DEF QueueSnapshot
    <3>3. CASE UNCHANGED wires
      BY <2>2, <3>3, NumbersKept DEF QueueSnapshot, wires
    <3>4. QED
      BY <2>2, <3>2, <3>3 DEF QueueSnapshot
  <2>3. QED
    BY <1>2, <2>1, <2>2 DEF ProcStep
<1>3. ASSUME NEW i \in Clients, ClientStep(i)
      PROVE  NumbersInv'
  <2>1. CASE RunStart(i) \/ RunOpened(i) \/ Break(i)
    <3>1. \A j \in Clients : run'[j] = "new" => run[j] = "new"
      BY <2>1 DEF RunStart, RunOpened, Break, TypeOK
    <3>2. UNCHANGED <<alive, wires, dials>>
      BY <2>1 DEF RunStart, RunOpened, Break
    <3>3. QED
      BY <3>1, <3>2, NumbersKept DEF wires
  <2>2. CASE Dial(i)
    BY <2>2, NumbersDial
  <2>3. CASE RunRedial(i) \/ RunEnds(i)
    <3>1. \A j \in Clients : run'[j] = "new" => run[j] = "new"
      BY <2>3 DEF RunRedial, RunEnds, TypeOK
    <3>2. QED
      BY <2>3, <3>1, NumbersClose DEF RunRedial, RunEnds
  <2>4. CASE RunDisconnects(i)
    <3>1. \A j \in Clients : run'[j] = "new" => run[j] = "new"
      BY <2>4 DEF RunDisconnects, TypeOK
    <3>2. QED
      BY <2>4, <3>1, NumbersDisconnect DEF RunDisconnects
  <2>5. QED
    BY <1>3, <2>1, <2>2, <2>3, <2>4 DEF ClientStep
<1>4. CASE UNCHANGED vars
  BY <1>4, NumbersKept DEF vars, wires
<1>5. QED
  BY <1>1, <1>2, <1>3, <1>4, NumbersTake, NumbersWrite DEF Next

(***************************************************************************)
(* Only SendChecks enters Send, of a client that is alive, and Run makes a *)
(* client once.                                                            *)
(***************************************************************************)
LEMMA SendKept ==
  ASSUME SendInv, \A i \in Clients : run'[i] = "new" => run[i] = "new", TypeOK,
         \A p \in Procs : pc'[p] = "queue" => pc[p] = "queue" /\ via'[p] = via[p]
  PROVE  SendInv'
<1> SUFFICES ASSUME NEW p \in Procs, pc'[p] = "queue"
             PROVE  run'[via'[p]] # "new"
  BY DEF SendInv
<1>1. via[p] \in Clients
  BY Constants DEF TypeOK, Clients
<1>2. QED
  BY <1>1 DEF SendInv

LEMMA Sends ==
  ASSUME TypeOK, NumbersInv, SendInv, [Next]_vars
  PROVE  SendInv'
<1>0. /\ pc \in [Procs -> {"idle", "check", "send", "queue", "unsub", "reset", "resetws"}]
      /\ via \in [Procs -> 0..MaxRuns]
      /\ run \in [Clients -> {"new", "dial", "open", "up", "ending", "ended"}]
  BY DEF TypeOK
<1>1. ASSUME NEW c \in Callers, CallerStep(c)
      PROVE  SendInv'
  <2>1. UNCHANGED run
    BY <1>1 DEF CallerStep, Subscribe, SubscribeTokens, UnsubscribeTokens, ResetTake,
                ResetUnsubscribe, ResetReconnect, CallDisconnect
  <2>2. \A p \in Procs : pc'[p] = "queue" => pc[p] = "queue" /\ via'[p] = via[p]
    <3>1. ASSUME NEW T \in SUBSET Tokens, SubscribeTokens(c, T)
          PROVE  \A p \in Procs : pc'[p] = "queue" => pc[p] = "queue" /\ via'[p] = via[p]
      BY <1>0, <3>1 DEF SubscribeTokens, AddTokens
    <3>2. CASE \E b \in BOOLEAN : ResetTake(c, b)
      BY <1>0, <3>2 DEF ResetTake
    <3>3. CASE ResetUnsubscribe(c)
      BY <1>0, <3>3 DEF ResetUnsubscribe
    <3>4. CASE ResetReconnect(c) \/ Subscribe(c)
      BY <1>0, <3>4 DEF ResetReconnect, Leave, Subscribe
    <3>5. CASE UNCHANGED calls
      BY <3>5 DEF calls
    <3>6. QED
      BY <1>1, <3>1, <3>2, <3>3, <3>4, <3>5 DEF CallerStep, UnsubscribeTokens, CallDisconnect
  <2>3. QED
    BY <2>1, <2>2, SendKept
<1>2. ASSUME NEW p \in Procs, ProcStep(p)
      PROVE  SendInv'
  <2>1. CASE CheckAlive(p) \/ QueueSnapshot(p) \/ UseNil(p)
    <3>1. UNCHANGED run
      BY <2>1 DEF CheckAlive, QueueSnapshot, UseNil
    <3>2. \A q \in Procs : pc'[q] = "queue" => pc[q] = "queue" /\ via'[q] = via[q]
      BY <1>0, <2>1 DEF CheckAlive, QueueSnapshot, UseNil, Leave, calls
    <3>3. QED
      BY <3>1, <3>2, SendKept
  <2>2. CASE SendChecks(p)
    <3>1. alive[ws] => run[ws] # "new"
      BY <2>2, Constants DEF SendChecks, TypeOK, NumbersInv, FreshInv, Clients
    <3>2. QED
      BY <1>0, <2>2, <3>1 DEF SendChecks, SendInv, Leave
  <2>3. QED
    BY <1>2, <2>1, <2>2 DEF ProcStep
<1>3. ASSUME NEW i \in Clients, ClientStep(i)
      PROVE  SendInv'
  <2>1. \A j \in Clients : run'[j] = "new" => run[j] = "new"
    BY <1>0, <1>3 DEF ClientStep, RunStart, Dial, Connected, RunOpened, RunRedial, RunEnds,
                      RunDisconnects, Break
  <2>2. \A q \in Procs : pc'[q] = "queue" => pc[q] = "queue" /\ via'[q] = via[q]
    BY <1>0, <1>3, Constants DEF ClientStep, RunStart, Dial, Connected, AddTokens, RunOpened,
                      RunRedial, RunEnds, RunDisconnects, Break, calls
  <2>3. QED
    BY <2>1, <2>2, SendKept
<1>4. CASE UNCHANGED vars
  BY <1>4, SendKept DEF vars, calls
<1>5. ASSUME NEW w \in 1..Len(dials), Take(w) \/ Write(w)
      PROVE  SendInv'
  BY <1>5, SendKept DEF Take, Write, calls
<1>6. QED
  BY <1>1, <1>2, <1>3, <1>4, <1>5 DEF Next

-----------------------------------------------------------------------------
(***************************************************************************)
(* What becomes of a token.  A step that leaves the messages of client i   *)
(* as they are.                                                            *)
(***************************************************************************)
LEMMA WantedKept ==
  ASSUME NEW i \in Clients, NEW t \in Tokens, Wanted(i, t),
         Pending(i)' = Pending(i), written'[i] = written[i],
         ws' = i /\ alive'[i] /\ link'[i] = "up" /\ t \in subsTokens'
           => /\ ws = i /\ alive[i] /\ link[i] = "up" /\ t \in subsTokens
              /\ server'[i] = server[i] /\ (t \in unsent => t \in unsent')
              /\ (AboutToSend(i, t) => AboutToSend(i, t)' \/ t \in unsent')
  PROVE  Wanted(i, t)'
<1>1. SubPending(i, t) => SubPending(i, t)'
  BY DEF SubPending
<1>2. Streamed(i, t) /\ server'[i] = server[i] => Streamed(i, t)'
  BY DEF Streamed
<1>3. QED
  BY <1>1, <1>2 DEF Wanted

LEMMA UnwantedKept ==
  ASSUME NEW i \in Clients, NEW t \in Tokens, Unwanted(i, t),
         Pending(i)' = Pending(i), written'[i] = written[i],
         server'[i] \subseteq server[i],
         ws' = i /\ t \notin subsTokens'
           => /\ ws = i /\ t \notin subsTokens
              /\ (t \in ghosts => t \in ghosts')
              /\ (AboutToRemove(t) => AboutToRemove(t)')
  PROVE  Unwanted(i, t)'
<1>1. UnsubPending(i, t) => UnsubPending(i, t)'
  BY DEF UnsubPending
<1>2. Silent(i, t) => Silent(i, t)'
  BY DEF Silent
<1>3. QED
  BY <1>1, <1>2 DEF Unwanted

LEMMA TokensDone ==
  ASSUME \A i \in Clients, t \in Tokens : Wanted(i, t)' /\ Unwanted(i, t)'
  PROVE  TokensInv'
BY DEF TokensInv

(***************************************************************************)
(* The calls of the application and of OnOpen that send nothing yet.       *)
(***************************************************************************)
LEMMA TokensSubscribe ==
  ASSUME SubsInv, NEW c \in Callers, NEW T \in SUBSET Tokens, SubscribeTokens(c, T)
  PROVE  TokensInv'
<1>1. /\ UNCHANGED <<ws, alive, link, sendCh, hand, dials, written, server, unsent, ghosts>>
      /\ pc[c] = "idle" /\ AddTokens(c, T) /\ c \in Procs
      /\ pc \in [Procs -> {"idle", "check", "send", "queue", "unsub", "reset", "resetws"}]
      /\ toks \in [Procs -> SUBSET Tokens]
  BY Constants DEF SubscribeTokens, wires, Begin, SubsInv, TypeOK
<1> SUFFICES ASSUME NEW i \in Clients, NEW t \in Tokens
             PROVE  Wanted(i, t)' /\ Unwanted(i, t)'
  BY TokensDone
<1>2. Pending(i)' = Pending(i) /\ Wanted(i, t) /\ Unwanted(i, t)
  BY <1>1, PendingSame DEF SubsInv, TokensInv
<1>3. t \in subsTokens' => AboutToSend(i, t)'
  BY <1>1 DEF AddTokens, AboutToSend
<1>4. AboutToRemove(t) => AboutToRemove(t)'
  BY <1>1, Constants DEF AddTokens, AboutToRemove
<1>5. t \notin subsTokens' => t \notin subsTokens
  BY <1>1 DEF AddTokens
<1>6. Wanted(i, t)'
  BY <1>3 DEF Wanted
<1>7. QED
  BY <1>1, <1>2, <1>4, <1>5, <1>6, UnwantedKept

LEMMA TokensResetTake ==
  ASSUME SubsInv, NEW c \in Callers, NEW b \in BOOLEAN, ResetTake(c, b)
  PROVE  TokensInv'
<1>1. /\ UNCHANGED <<ws, alive, link, sendCh, hand, dials, written, server, unsent, ghosts>>
      /\ pc[c] = "idle" /\ c \in Procs /\ subsTokens' = {}
      /\ pc \in [Procs -> {"idle", "check", "send", "queue", "unsub", "reset", "resetws"}]
      /\ toks \in [Procs -> SUBSET Tokens]
      /\ toks' = [toks EXCEPT ![c] = subsTokens]
      /\ pc' = [pc EXCEPT ![c] = IF b THEN "reset" ELSE "unsub"]
  BY Constants DEF ResetTake, wires, Begin, SubsInv, TypeOK
<1> SUFFICES ASSUME NEW i \in Clients, NEW t \in Tokens
             PROVE  Wanted(i, t)' /\ Unwanted(i, t)'
  BY TokensDone
<1>2. Pending(i)' = Pending(i) /\ Wanted(i, t) /\ Unwanted(i, t)
  BY <1>1, PendingSame DEF SubsInv, TokensInv
<1>3. t \in subsTokens => AboutToRemove(t)'
  BY <1>1 DEF AboutToRemove
<1>4. AboutToRemove(t) => AboutToRemove(t)'
  BY <1>1, Constants DEF AboutToRemove
<1>5. Wanted(i, t)'
  BY <1>1 DEF Wanted
<1>6. CASE t \in subsTokens
  BY <1>3, <1>5, <1>6 DEF Unwanted
<1>7. CASE t \notin subsTokens
  BY <1>1, <1>2, <1>4, <1>5, <1>7, UnwantedKept
<1>8. QED
  BY <1>6, <1>7

LEMMA TokensResetReconnect ==
  ASSUME SubsInv, NEW c \in Callers, ResetReconnect(c)
  PROVE  TokensInv'
<1>1. /\ UNCHANGED <<subsTokens, ws, alive, link, sendCh, hand, dials, written, server, unsent, ghosts>>
      /\ pc[c] = "resetws" /\ Leave(c) /\ c \in Procs
      /\ pc \in [Procs -> {"idle", "check", "send", "queue", "unsub", "reset", "resetws"}]
      /\ toks \in [Procs -> SUBSET Tokens]
  BY Constants DEF ResetReconnect, wires, SubsInv, TypeOK
<1> SUFFICES ASSUME NEW i \in Clients, NEW t \in Tokens
             PROVE  Wanted(i, t)' /\ Unwanted(i, t)'
  BY TokensDone
<1>2. Pending(i)' = Pending(i) /\ Wanted(i, t) /\ Unwanted(i, t)
  BY <1>1, PendingSame DEF SubsInv, TokensInv
<1>3. AboutToRemove(t) => AboutToRemove(t)'
  BY <1>1, Constants DEF AboutToRemove, Leave
<1>4. AboutToSend(i, t) => AboutToSend(i, t)'
  BY <1>1 DEF AboutToSend, Leave
<1>5. QED
  BY <1>1, <1>2, <1>3, <1>4, WantedKept, UnwantedKept

LEMMA TokensCheckAlive ==
  ASSUME SubsInv, NEW p \in Procs, CheckAlive(p)
  PROVE  TokensInv'
<1>1. /\ UNCHANGED <<subsTokens, ws, alive, link, sendCh, hand, dials, written, server, unsent, ghosts>>
      /\ pc[p] = "check"
      /\ pc \in [Procs -> {"idle", "check", "send", "queue", "unsub", "reset", "resetws"}]
      /\ toks \in [Procs -> SUBSET Tokens]
  BY DEF CheckAlive, wires, SubsInv, TypeOK
<1> SUFFICES ASSUME NEW i \in Clients, NEW t \in Tokens
             PROVE  Wanted(i, t)' /\ Unwanted(i, t)'
  BY TokensDone
<1>2. Pending(i)' = Pending(i) /\ Wanted(i, t) /\ Unwanted(i, t)
  BY <1>1, PendingSame DEF SubsInv, TokensInv
<1>3. AboutToRemove(t) => AboutToRemove(t)'
  BY <1>1, Constants DEF AboutToRemove, Leave, CheckAlive
<1>4. ws = i /\ alive[i] => (AboutToSend(i, t) => AboutToSend(i, t)')
  BY <1>1, Constants DEF AboutToSend, CheckAlive, Usable
<1>5. QED
  BY <1>1, <1>2, <1>3, <1>4, WantedKept, UnwantedKept

LEMMA TokensSendChecks ==
  ASSUME SubsInv, NEW p \in Procs, SendChecks(p)
  PROVE  TokensInv'
<1>1. /\ UNCHANGED <<subsTokens, ws, alive, link, sendCh, hand, dials, written, server, unsent, ghosts>>
      /\ pc[p] = "send"
      /\ pc \in [Procs -> {"idle", "check", "send", "queue", "unsub", "reset", "resetws"}]
      /\ toks \in [Procs -> SUBSET Tokens] /\ via \in [Procs -> 0..MaxRuns]
  BY DEF SendChecks, wires, SubsInv, TypeOK
<1> SUFFICES ASSUME NEW i \in Clients, NEW t \in Tokens
             PROVE  Wanted(i, t)' /\ Unwanted(i, t)'
  BY TokensDone
<1>2. Pending(i)' = Pending(i) /\ Wanted(i, t) /\ Unwanted(i, t)
  BY <1>1, PendingSame DEF SubsInv, TokensInv
<1>3. AboutToRemove(t) => AboutToRemove(t)'
  BY <1>1, Constants DEF AboutToRemove, Leave, SendChecks
<1>4. ws = i /\ alive[i] => (AboutToSend(i, t) => AboutToSend(i, t)')
  BY <1>1, Constants DEF AboutToSend, SendChecks
<1>5. QED
  BY <1>1, <1>2, <1>3, <1>4, WantedKept, UnwantedKept

LEMMA TokensSubscribeNone ==
  ASSUME SubsInv, NEW c \in Callers, Subscribe(c)
  PROVE  TokensInv'
<1>1. /\ UNCHANGED <<subsTokens, ws, alive, link, sendCh, hand, dials, written, server, unsent, ghosts>>
      /\ pc[c] = "idle" /\ c \in Procs /\ pc' = [pc EXCEPT ![c] = "check"] /\ UNCHANGED <<toks, via>>
      /\ pc \in [Procs -> {"idle", "check", "send", "queue", "unsub", "reset", "resetws"}]
  BY Constants DEF Subscribe, Begin, wires, SubsInv, TypeOK
<1> SUFFICES ASSUME NEW i \in Clients, NEW t \in Tokens
             PROVE  Wanted(i, t)' /\ Unwanted(i, t)'
  BY TokensDone
<1>2. Pending(i)' = Pending(i) /\ Wanted(i, t) /\ Unwanted(i, t)
  BY <1>1, PendingSame DEF SubsInv, TokensInv
<1>3. AboutToRemove(t) => AboutToRemove(t)'
  BY <1>1, Constants DEF AboutToRemove
<1>4. AboutToSend(i, t) => AboutToSend(i, t)'
  BY <1>1 DEF AboutToSend
<1>5. QED
  BY <1>1, <1>2, <1>3, <1>4, WantedKept, UnwantedKept

LEMMA TokensIdle ==
  ASSUME SubsInv, UNCHANGED <<subsTokens, ws, alive, link, sendCh, hand, dials, written, server, calls, unsent, ghosts>>
  PROVE  TokensInv'
<1> SUFFICES ASSUME NEW i \in Clients, NEW t \in Tokens
             PROVE  Wanted(i, t)' /\ Unwanted(i, t)'
  BY TokensDone
<1>1. Pending(i)' = Pending(i) /\ Wanted(i, t) /\ Unwanted(i, t)
  BY PendingSame DEF SubsInv, TokensInv
<1>2. (AboutToRemove(t) <=> AboutToRemove(t)') /\ (AboutToSend(i, t) <=> AboutToSend(i, t)')
  BY DEF AboutToRemove, AboutToSend, calls
<1>3. QED
  BY <1>1, <1>2, WantedKept, UnwantedKept

-----------------------------------------------------------------------------
(***************************************************************************)
(* What is queued is newer than everything pending.                        *)
(***************************************************************************)
Queues(op, T) == [op |-> op, tokens |-> T, seq |-> sent + 1]

LEMMA PushNewest ==
  ASSUME SubsInv, NEW j \in Clients, NEW op \in {"sub", "unsub"}, NEW T \in SUBSET Tokens,
         Push(j, op, T), UNCHANGED dials, NEW i \in Clients
  PROVE  /\ Queues(op, T).op = op /\ Queues(op, T).tokens = T
         /\ Pending(i)' = IF i = j THEN Pending(i) \cup {Queues(op, T)} ELSE Pending(i)
         /\ Queues(op, T).seq \in Nat
         /\ \A n \in Pending(i) : n.seq \in Nat /\ n.seq < Queues(op, T).seq
<1>1. TypeOK /\ sent \in Nat
  BY DEF TypeOK, SubsInv
<1>2. Pending(i)' = IF i = j THEN Pending(j) \cup {[op |-> op, tokens |-> T, seq |-> sent + 1]}
                    ELSE Pending(i)
  BY <1>1, PendingPush
<1>3. \A n \in Pending(i) : n.seq \in Nat /\ n.seq < sent + 1
  BY <1>1, PendingTypes DEF SubsInv, NumbersInv, NumberInv, Messages
<1>4. /\ Queues(op, T).op = op /\ Queues(op, T).tokens = T
      /\ Queues(op, T).seq = sent + 1
  BY DEF Queues
<1>5. Pending(i)' = IF i = j THEN Pending(i) \cup {Queues(op, T)} ELSE Pending(i)
  <2>1. CASE i = j
    BY <1>2, <2>1, Zenon DEF Queues
  <2>2. CASE i # j
    BY <1>2, <2>2
  <2>3. QED
    BY <2>1, <2>2
<1>6. QED
  BY <1>1, <1>3, <1>4, <1>5

LEMMA TokensSend ==
  ASSUME SubsInv, NEW p \in Procs, QueueSnapshot(p)
  PROVE  TokensInv'
<1>1. /\ UNCHANGED <<subsTokens, ws, alive, link, dials>> /\ via[p] \in Clients
      /\ pc[p] = "queue" /\ Leave(p) /\ toks[p] \in SUBSET Tokens
      /\ pc \in [Procs -> {"idle", "check", "send", "queue", "unsub", "reset", "resetws"}]
      /\ toks \in [Procs -> SUBSET Tokens] /\ via \in [Procs -> 0..MaxRuns]
  BY Constants DEF QueueSnapshot, SubsInv, TypeOK, Clients
<1> SUFFICES ASSUME NEW i \in Clients, NEW t \in Tokens
             PROVE  Wanted(i, t)' /\ Unwanted(i, t)'
  BY TokensDone
<1>2. Wanted(i, t) /\ Unwanted(i, t)
  BY DEF SubsInv, TokensInv
<1>3. AboutToRemove(t) => AboutToRemove(t)'
  BY <1>1, Constants DEF AboutToRemove, Leave
<1>4. AboutToSend(i, t) => AboutToSend(i, t)' \/ (i = via[p] /\ t \in toks[p])
  BY <1>1 DEF AboutToSend, Leave
<1>5. CASE Push(via[p], "sub", toks[p]) /\ ghosts' = ghosts \cup (toks[p] \ subsTokens) /\ UNCHANGED unsent
  <2>1. UNCHANGED <<server, written>>
    BY <1>5 DEF Push
  <2> DEFINE m == Queues("sub", toks[p])
  <2>2. /\ m.op = "sub" /\ m.tokens = toks[p]
        /\ Pending(i)' = IF i = via[p] THEN Pending(i) \cup {m} ELSE Pending(i)
        /\ m.seq \in Nat /\ \A n \in Pending(i) : n.seq \in Nat /\ n.seq < m.seq
    BY <1>1, <1>5, PushNewest
  <2> HIDE DEF m
  <2>3. CASE i # via[p]
    <3>1. Pending(i)' = Pending(i)
      BY <2>2, <2>3
    <3>2. AboutToSend(i, t) => AboutToSend(i, t)'
      BY <1>4, <2>3
    <3>3. t \in ghosts => t \in ghosts'
      BY <1>5
    <3>4. QED
      BY <1>1, <1>2, <1>3, <1>5, <2>1, <3>1, <3>2, <3>3, WantedKept, UnwantedKept
  <2>4. CASE i = via[p]
    <3>1. ~Removes(m, t) /\ (Adds(m, t) <=> t \in toks[p])
      BY <2>2 DEF Removes, Adds
    <3>2. t \in toks[p] => SubPending(i, t)'
      BY <2>2, <2>4, <3>1 DEF SubPending, Removes, Adds
    <3>3. SubPending(i, t) => SubPending(i, t)'
      BY <2>2, <2>4, <3>1 DEF SubPending
    <3>4. Streamed(i, t) => Streamed(i, t)'
      BY <2>1, <2>2, <2>4, <3>1 DEF Streamed
    <3>5. Wanted(i, t)'
      BY <1>1, <1>2, <1>4, <1>5, <3>2, <3>3, <3>4 DEF Wanted
    <3>6. t \notin subsTokens /\ t \notin ghosts' => ~Adds(m, t)
      BY <1>5, <3>1
    <3>7. UnsubPending(i, t) /\ ~Adds(m, t) => UnsubPending(i, t)'
      BY <2>2, <2>4 DEF UnsubPending
    <3>8. Silent(i, t) /\ ~Adds(m, t) => Silent(i, t)'
      BY <2>1, <2>2, <2>4 DEF Silent
    <3>9. Unwanted(i, t)'
      BY <1>1, <1>2, <1>3, <1>5, <3>6, <3>7, <3>8 DEF Unwanted
    <3>10. QED
      BY <3>5, <3>9
  <2>5. QED
    BY <2>3, <2>4
<1>6. CASE /\ unsent' = unsent \cup toks[p]
           /\ UNCHANGED <<wires, ghosts>>
  <2>1. Pending(i)' = Pending(i) /\ UNCHANGED <<server, written>>
    BY <1>1, <1>6, PendingSame DEF wires
  <2>2. AboutToSend(i, t) => AboutToSend(i, t)' \/ t \in unsent'
    BY <1>4, <1>6
  <2>3. t \in unsent => t \in unsent'
    BY <1>6
  <2>4. QED
    BY <1>1, <1>2, <1>3, <1>6, <2>1, <2>2, <2>3, WantedKept, UnwantedKept
<1>7. QED
  BY <1>5, <1>6 DEF QueueSnapshot

(***************************************************************************)
(* UnsubscribeTokens, called by the application or by Reset.               *)
(***************************************************************************)
LEMMA TokensRemove ==
  ASSUME SubsInv, NEW T \in SUBSET Tokens, RemoveTokens(T), UNCHANGED <<ws, alive, link, dials, unsent>>,
         \A i \in Clients, t \in Tokens : AboutToSend(i, t) => AboutToSend(i, t)',
         \A t \in Tokens : (AboutToRemove(t) => AboutToRemove(t)' \/ t \in T)
  PROVE  TokensInv'
<1> SUFFICES ASSUME NEW i \in Clients, NEW t \in Tokens
             PROVE  Wanted(i, t)' /\ Unwanted(i, t)'
  BY TokensDone
<1>1. Wanted(i, t) /\ Unwanted(i, t) /\ subsTokens' = subsTokens \ T
  BY DEF SubsInv, TokensInv, RemoveTokens
<1>2. CASE T # {} /\ Tells(subsTokens \ T)
  <2>1. UNCHANGED <<server, written, ghosts>> /\ ws \in Clients /\ Push(ws, "unsub", T)
    <3>1. ws # 0 /\ Push(ws, "unsub", T) /\ UNCHANGED ghosts
      BY <1>2 DEF RemoveTokens, Tells, Usable
    <3>2. ws \in 0..MaxRuns
      BY DEF SubsInv, TypeOK
    <3>3. QED
      BY <3>1, <3>2, Constants DEF Push, Clients
  <2> DEFINE m == Queues("unsub", T)
  <2>2. /\ m.op = "unsub" /\ m.tokens = T
        /\ Pending(i)' = IF i = ws THEN Pending(i) \cup {m} ELSE Pending(i)
        /\ m.seq \in Nat /\ \A n \in Pending(i) : n.seq \in Nat /\ n.seq < m.seq
    BY <2>1, PushNewest
  <2> HIDE DEF m
  <2>3. CASE i # ws
    BY <2>3 DEF Wanted, Unwanted
  <2>4. CASE i = ws
    <3>1. ~Adds(m, t) /\ (Removes(m, t) <=> t \in T)
      BY <2>2 DEF Removes, Adds
    <3>2. t \notin T /\ SubPending(i, t) => SubPending(i, t)'
      BY <2>2, <2>4, <3>1 DEF SubPending
    <3>3. t \notin T /\ Streamed(i, t) => Streamed(i, t)'
      BY <2>1, <2>2, <2>4, <3>1 DEF Streamed
    <3>4. Wanted(i, t)'
      BY <1>1, <3>2, <3>3 DEF Wanted
    <3>5. t \in T => UnsubPending(i, t)'
      BY <2>2, <2>4, <3>1 DEF UnsubPending, Removes, Adds
    <3>6. UnsubPending(i, t) => UnsubPending(i, t)'
      BY <2>2, <2>4, <3>1 DEF UnsubPending
    <3>7. Silent(i, t) => Silent(i, t)'
      BY <2>1, <2>2, <2>4, <3>1 DEF Silent
    <3>8. Unwanted(i, t)'
      BY <1>1, <2>1, <3>5, <3>6, <3>7 DEF Unwanted
    <3>9. QED
      BY <3>4, <3>8
  <2>5. QED
    BY <2>3, <2>4
<1>3. CASE ~(T # {} /\ Tells(subsTokens \ T))
  <2>1. UNCHANGED wires /\ ghosts' = ghosts \cup T
    BY <1>3 DEF RemoveTokens
  <2>2. Pending(i)' = Pending(i) /\ UNCHANGED <<server, written>>
    BY <2>1, PendingSame DEF wires
  <2>3. CASE t \in T
    BY <1>1, <2>1, <2>3 DEF Wanted, Unwanted
  <2>4. CASE t \notin T
    BY <1>1, <2>1, <2>2, <2>4, WantedKept, UnwantedKept
  <2>5. QED
    BY <2>3, <2>4
<1>4. QED
  BY <1>2, <1>3

LEMMA TokensUnsubscribe ==
  ASSUME SubsInv, NEW c \in Callers, NEW T \in SUBSET Tokens, UnsubscribeTokens(c, T)
  PROVE  TokensInv'
BY TokensRemove DEF UnsubscribeTokens, calls, AboutToSend, AboutToRemove

LEMMA TokensResetUnsubscribe ==
  ASSUME SubsInv, NEW c \in Callers, ResetUnsubscribe(c)
  PROVE  TokensInv'
<1>1. /\ RemoveTokens(toks[c]) /\ UNCHANGED <<ws, alive, link, dials, unsent>>
      /\ pc[c] \in {"reset", "unsub"} /\ c \in Procs /\ toks[c] \in SUBSET Tokens
      /\ pc \in [Procs -> {"idle", "check", "send", "queue", "unsub", "reset", "resetws"}]
      /\ toks \in [Procs -> SUBSET Tokens]
      /\ toks' = [toks EXCEPT ![c] = {}]
      /\ UNCHANGED via /\ \A p \in Procs : p # c => pc'[p] = pc[p]
  BY Constants DEF ResetUnsubscribe, SubsInv, TypeOK
<1>2. \A i \in Clients, t \in Tokens : AboutToSend(i, t) => AboutToSend(i, t)'
  BY <1>1 DEF AboutToSend
<1>3. \A t \in Tokens : AboutToRemove(t) => AboutToRemove(t)' \/ t \in toks[c]
  BY <1>1, Constants DEF AboutToRemove
<1>4. QED
  BY <1>1, <1>2, <1>3, TokensRemove

-----------------------------------------------------------------------------
(***************************************************************************)
(* The steps of Run.                                                       *)
(***************************************************************************)
LEMMA TokensDisconnect ==
  ASSUME Disconnect
  PROVE  TokensInv'
<1>1. ws' = 0 /\ 0 \notin Clients
  BY Constants DEF Disconnect
<1>2. QED
  BY <1>1, TokensDone DEF Wanted, Unwanted

LEMMA TokensClose ==
  ASSUME SubsInv, NEW i \in Clients, CloseClient(i), UNCHANGED <<subsTokens, ws, dials, calls, unsent, ghosts>>
  PROVE  TokensInv'
<1> SUFFICES ASSUME NEW j \in Clients, NEW t \in Tokens
             PROVE  Wanted(j, t)' /\ Unwanted(j, t)'
  BY TokensDone
<1>1. Wanted(j, t) /\ Unwanted(j, t)
  BY DEF SubsInv, TokensInv
<1>2. Pending(j)' = Pending(j) /\ UNCHANGED written
  BY PendingSame DEF CloseClient
<1>3. (AboutToRemove(t) => AboutToRemove(t)') /\ (AboutToSend(j, t) => AboutToSend(j, t)')
  BY DEF AboutToRemove, AboutToSend, calls
<1>4. /\ server'[j] \subseteq server[j]
      /\ alive'[j] => alive[j] /\ link'[j] = link[j] /\ server'[j] = server[j]
  BY DEF SubsInv, TypeOK, CloseClient
<1>5. QED
  BY <1>1, <1>2, <1>3, <1>4, WantedKept, UnwantedKept

LEMMA TokensRunStart ==
  ASSUME SubsInv, NEW i \in Clients, RunStart(i)
  PROVE  TokensInv'
<1> SUFFICES ASSUME NEW j \in Clients, NEW t \in Tokens
             PROVE  Wanted(j, t)' /\ Unwanted(j, t)'
  BY TokensDone
<1>1. /\ run[i] = "new" /\ ws' = i
      /\ UNCHANGED <<alive, sendCh, hand, dials, server>>
  BY DEF RunStart, wires
<1>2. CASE j # i
  BY <1>1, <1>2 DEF Wanted, Unwanted
<1>3. CASE j = i
  <2>1. ~alive[i] /\ server[i] = {} /\ Pending(i) = {}
    BY <1>1 DEF SubsInv, NumbersInv, FreshInv
  <2>2. Pending(i)' = {}
    BY <1>1, <2>1, PendingSame
  <2>3. Silent(i, t)'
    BY <1>1, <2>1, <2>2 DEF Silent
  <2>4. QED
    BY <1>1, <1>3, <2>1, <2>3 DEF Wanted, Unwanted
<1>4. QED
  BY <1>2, <1>3

LEMMA TokensDial ==
  ASSUME SubsInv, NEW i \in Clients, Dial(i)
  PROVE  TokensInv'
<1> SUFFICES ASSUME NEW j \in Clients, NEW t \in Tokens
             PROVE  Wanted(j, t)' /\ Unwanted(j, t)'
  BY TokensDone
<1>1. /\ UNCHANGED <<ws, written, ghosts>> /\ subsTokens' = subsTokens
      /\ server' = [server EXCEPT ![i] = {}]
      /\ toks' = [toks EXCEPT ![i] = subsTokens]
      /\ pc' = [pc EXCEPT ![i] = IF subsTokens = {} THEN "idle" ELSE "check"]
      /\ server \in [Clients -> SUBSET Tokens] /\ i \in Procs /\ i \notin Callers
      /\ pc \in [Procs -> {"idle", "check", "send", "queue", "unsub", "reset", "resetws"}]
      /\ toks \in [Procs -> SUBSET Tokens]
  BY Constants, CallersAssumption DEF Dial, Connected, AddTokens, SubsInv, TypeOK
<1>2. Unwanted(j, t) /\ Pending(j)' = Pending(j)
  BY PendingDial DEF SubsInv, TokensInv, NumbersInv
<1>3. t \in subsTokens => AboutToSend(j, t)'
  BY <1>1 DEF AboutToSend
<1>4. AboutToRemove(t) => AboutToRemove(t)'
  BY <1>1, Constants DEF AboutToRemove
<1>5. Wanted(j, t)'
  BY <1>1, <1>3 DEF Wanted
<1>6. server'[j] \subseteq server[j]
  BY <1>1
<1>7. QED
  BY <1>1, <1>2, <1>4, <1>5, <1>6, UnwantedKept

LEMMA TokensBreak ==
  ASSUME SubsInv, NEW i \in Clients, Break(i)
  PROVE  TokensInv'
<1> SUFFICES ASSUME NEW j \in Clients, NEW t \in Tokens
             PROVE  Wanted(j, t)' /\ Unwanted(j, t)'
  BY TokensDone
<1>1. Wanted(j, t) /\ Unwanted(j, t)
  BY DEF SubsInv, TokensInv
<1>2. Pending(j)' = Pending(j) /\ UNCHANGED <<subsTokens, ws, alive, written, server, unsent, ghosts>>
  BY PendingSame DEF Break, wires
<1>3. (AboutToRemove(t) => AboutToRemove(t)') /\ (AboutToSend(j, t) => AboutToSend(j, t)')
  BY DEF AboutToRemove, AboutToSend, calls, Break
<1>4. link'[j] = "up" => link[j] = "up"
  BY DEF SubsInv, TypeOK, Break
<1>5. QED
  BY <1>1, <1>2, <1>3, <1>4, WantedKept, UnwantedKept

-----------------------------------------------------------------------------
(***************************************************************************)
(* The writers.                                                            *)
(***************************************************************************)
LEMMA TokensTake ==
  ASSUME SubsInv, NEW w \in 1..Len(dials), Take(w)
  PROVE  TokensInv'
<1> SUFFICES ASSUME NEW j \in Clients, NEW t \in Tokens
             PROVE  Wanted(j, t)' /\ Unwanted(j, t)'
  BY TokensDone
<1>1. Wanted(j, t) /\ Unwanted(j, t) /\ Pending(j)' = Pending(j)
  BY PendingTake DEF SubsInv, TokensInv
<1>2. UNCHANGED <<subsTokens, ws, alive, link, written, server, calls, unsent, ghosts>>
  BY DEF Take
<1>3. (AboutToRemove(t) => AboutToRemove(t)') /\ (AboutToSend(j, t) => AboutToSend(j, t)')
  BY <1>2 DEF AboutToRemove, AboutToSend, calls
<1>4. QED
  BY <1>1, <1>2, <1>3, WantedKept, UnwantedKept

LEMMA TokensWrite ==
  ASSUME SubsInv, NEW w \in 1..Len(dials), Write(w)
  PROVE  TokensInv'
<1> SUFFICES ASSUME NEW j \in Clients, NEW t \in Tokens, ws = j
             PROVE  Wanted(j, t)' /\ Unwanted(j, t)'
  BY TokensDone DEF Write, Wanted, Unwanted
<1> DEFINE i == dials[w]
           m == hand[w]
           late == m.seq < written[i]
<1>1. /\ i \in Clients
      /\ server \in [Clients -> SUBSET Tokens] /\ written \in [Clients -> Nat]
  BY Constants DEF SubsInv, TypeOK
<1>2. Wanted(j, t) /\ Unwanted(j, t)
  BY DEF SubsInv, TokensInv
<1>3. /\ Pending(j)' \subseteq Pending(j)
      /\ m \in Pending(i)
      /\ \A n \in Pending(j) : n \in Pending(j)' \/ (j = i /\ n = m)
  BY PendingWrite DEF SubsInv
<1>4. /\ \A n \in Pending(j) : n.seq \in Nat
      /\ m.seq \in Nat /\ m.op \in {"sub", "unsub"} /\ m.tokens \subseteq Tokens
  BY <1>1, <1>3, PendingTypes DEF SubsInv, Messages
<1>5. UNCHANGED <<subsTokens, ws, alive, link, calls>>
  BY DEF Write
<1>6. (AboutToRemove(t) => AboutToRemove(t)') /\ (AboutToSend(j, t) => AboutToSend(j, t)')
  BY <1>5 DEF AboutToRemove, AboutToSend, calls
<1>7. CASE /\ link[i] = "up"
           /\ server' = [server EXCEPT ![i] = Apply(m, @)]
           /\ written' = [written EXCEPT ![i] = IF late THEN @ ELSE m.seq]
           /\ unsent' = IF late /\ m.op = "unsub" THEN unsent \cup m.tokens ELSE unsent
           /\ ghosts' = IF late /\ m.op = "sub" THEN ghosts \cup m.tokens ELSE ghosts
  <2>1. /\ written[j] \in Nat /\ written'[j] \in Nat /\ written'[j] >= written[j]
        /\ j = i => written'[j] >= m.seq
        /\ j # i => server'[j] = server[j]
    BY <1>1, <1>4, <1>7
  <2>2. j = i => (t \in server'[j] <=> Adds(m, t) \/ (t \in server[j] /\ ~Removes(m, t)))
    BY <1>1, <1>4, <1>7 DEF Apply, Adds, Removes
  <2>3. ~(Adds(m, t) /\ Removes(m, t))
    BY DEF Adds, Removes
  <2>4. (t \in unsent => t \in unsent') /\ (t \in ghosts => t \in ghosts')
    BY <1>7
  <2>5. /\ j = i /\ Removes(m, t) /\ m.seq < written[j] => t \in unsent'
        /\ j = i /\ Adds(m, t) /\ m.seq < written[j] => t \in ghosts'
    BY <1>7 DEF Adds, Removes
  <2>6. SubPending(j, t) => SubPending(j, t)' \/ Streamed(j, t)'
    <3> SUFFICES ASSUME NEW n \in Pending(j), Adds(n, t),
                        \A k \in Pending(j) : Removes(k, t) => k.seq < n.seq
                 PROVE  SubPending(j, t)' \/ Streamed(j, t)'
      BY DEF SubPending
    <3>1. CASE n \in Pending(j)'
      BY <1>3, <3>1 DEF SubPending
    <3>2. CASE j = i /\ n = m
      <4>1. t \in server'[j]
        BY <2>2, <3>2
      <4>2. \A k \in Pending(j)' : Removes(k, t) => k.seq < written'[j]
        BY <1>3, <1>4, <2>1, <3>2
      <4>3. QED
        BY <4>1, <4>2 DEF Streamed
    <3>3. QED
      BY <1>3, <3>1, <3>2
  <2>7. Streamed(j, t) => Streamed(j, t)' \/ t \in unsent'
    <3> SUFFICES ASSUME t \in server[j], \A n \in Pending(j) : Removes(n, t) => n.seq < written[j],
                        t \notin unsent'
                 PROVE  Streamed(j, t)'
      BY DEF Streamed
    <3>1. t \in server'[j]
      BY <1>3, <2>1, <2>2, <2>5
    <3>2. \A n \in Pending(j)' : Removes(n, t) => n.seq < written'[j]
      BY <1>3, <1>4, <2>1
    <3>3. QED
      BY <3>1, <3>2 DEF Streamed
  <2>8. UnsubPending(j, t) => UnsubPending(j, t)' \/ Silent(j, t)'
    <3> SUFFICES ASSUME NEW n \in Pending(j), Removes(n, t),
                        \A k \in Pending(j) : Adds(k, t) => k.seq < n.seq
                 PROVE  UnsubPending(j, t)' \/ Silent(j, t)'
      BY DEF UnsubPending
    <3>1. CASE n \in Pending(j)'
      BY <1>3, <3>1 DEF UnsubPending
    <3>2. CASE j = i /\ n = m
      <4>1. t \notin server'[j]
        BY <2>2, <2>3, <3>2
      <4>2. \A k \in Pending(j)' : Adds(k, t) => k.seq < written'[j]
        BY <1>3, <1>4, <2>1, <3>2
      <4>3. QED
        BY <4>1, <4>2 DEF Silent
    <3>3. QED
      BY <1>3, <3>1, <3>2
  <2>9. Silent(j, t) => Silent(j, t)' \/ t \in ghosts'
    <3> SUFFICES ASSUME t \notin server[j], \A n \in Pending(j) : Adds(n, t) => n.seq < written[j],
                        t \notin ghosts'
                 PROVE  Silent(j, t)'
      BY DEF Silent
    <3>1. t \notin server'[j]
      BY <1>3, <2>1, <2>2, <2>5
    <3>2. \A n \in Pending(j)' : Adds(n, t) => n.seq < written'[j]
      BY <1>3, <1>4, <2>1
    <3>3. QED
      BY <3>1, <3>2 DEF Silent
  <2>10. QED
    BY <1>2, <1>5, <1>6, <2>4, <2>6, <2>7, <2>8, <2>9 DEF Wanted, Unwanted
<1>8. CASE /\ link[i] # "up"
           /\ ghosts' = IF m.op = "unsub" THEN ghosts \cup m.tokens ELSE ghosts
           /\ UNCHANGED <<server, written, unsent>>
  <2>1. SubPending(j, t) => j = i \/ SubPending(j, t)'
    BY <1>3 DEF SubPending
  <2>2. Streamed(j, t) => Streamed(j, t)'
    BY <1>3, <1>8 DEF Streamed
  <2>3. Wanted(j, t)'
    BY <1>2, <1>5, <1>6, <1>8, <2>1, <2>2 DEF Wanted
  <2>4. (t \in ghosts => t \in ghosts') /\ (Removes(m, t) => t \in ghosts')
    BY <1>8 DEF Removes
  <2>5. UnsubPending(j, t) => UnsubPending(j, t)' \/ t \in ghosts'
    BY <1>3, <2>4 DEF UnsubPending
  <2>6. Silent(j, t) => Silent(j, t)'
    BY <1>3, <1>8 DEF Silent
  <2>7. QED
    BY <1>2, <1>5, <1>6, <2>3, <2>4, <2>5, <2>6 DEF Unwanted
<1>9. QED
  BY <1>7, <1>8 DEF Write

LEMMA TokensNext ==
  ASSUME SubsInv, [Next]_vars
  PROVE  TokensInv'
<1>1. ASSUME NEW c \in Callers, CallerStep(c)
      PROVE  TokensInv'
  <2>1. CASE CallDisconnect(c)
    BY <2>1, TokensDisconnect DEF CallDisconnect
  <2>2. QED
    BY <1>1, <2>1, TokensSubscribe, TokensSubscribeNone, TokensUnsubscribe, TokensResetTake, TokensResetUnsubscribe,
       TokensResetReconnect DEF CallerStep
<1>2. ASSUME NEW p \in Procs, ProcStep(p)
      PROVE  TokensInv'
  <2>1. CASE UseNil(p)
    BY <2>1, TokensIdle DEF UseNil, wires
  <2>2. QED
    BY <1>2, <2>1, TokensCheckAlive, TokensSendChecks, TokensSend DEF ProcStep
<1>3. ASSUME NEW i \in Clients, ClientStep(i)
      PROVE  TokensInv'
  <2>1. CASE RunOpened(i)
    BY <2>1, TokensIdle DEF RunOpened, wires
  <2>2. CASE RunRedial(i) \/ RunEnds(i)
    BY <2>2, TokensClose DEF RunRedial, RunEnds
  <2>3. CASE RunDisconnects(i)
    BY <2>3, TokensDisconnect DEF RunDisconnects
  <2>4. QED
    BY <1>3, <2>1, <2>2, <2>3, TokensRunStart, TokensDial, TokensBreak DEF ClientStep
<1>4. CASE UNCHANGED vars
  BY <1>4, TokensIdle DEF vars, wires
<1>5. QED
  BY <1>1, <1>2, <1>3, <1>4, TokensTake, TokensWrite DEF Next

-----------------------------------------------------------------------------
(***************************************************************************)
(* Every reachable state accounts for every token, subscribed or not:      *)
(* SubsInv is inductive.                                                   *)
(***************************************************************************)
LEMMA Initially ==
  ASSUME Init
  PROVE  SubsInv
<1>1. TypeOK
  <2>1. sendCh \in [Clients -> Seq(Messages)] /\ \A i \in Clients : Len(sendCh[i]) <= SendCap
    BY Constants DEF Init
  <2>2. dials \in Seq(Clients) /\ Len(dials) <= MaxConns
    BY Constants DEF Init
  <2>3. ops \in 0..MaxOps /\ ws \in 0..MaxRuns /\ sent \in Nat /\ written \in [Clients -> Nat]
    BY Constants DEF Init
  <2>4. QED
    BY <2>1, <2>2, <2>3 DEF Init, TypeOK
<1>2. \A i \in Clients : Pending(i) = {}
  BY DEF Init, Pending, Queued, Held
<1>3. NumbersInv
  BY <1>2 DEF Init, NumbersInv, NumberInv, FreshInv
<1>4. TokensInv
  BY Constants DEF Init, TokensInv, Wanted, Unwanted
<1>5. SendInv
  BY DEF Init, SendInv
<1>6. QED
  BY <1>1, <1>3, <1>4, <1>5 DEF SubsInv

(***************************************************************************)
(* In every reachable state each token is accounted for: a subscribed one  *)
(* is on its way to the server or there, one that is not is on its way out *)
(* or gone, or the reason why not was recorded.                            *)
(***************************************************************************)
THEOREM TokensAccounted == Spec => []SubsInv
<1>1. Init => SubsInv
  BY Initially
<1>2. SubsInv /\ [Next]_vars => SubsInv'
  BY Typing, Numbers, Sends, TokensNext DEF SubsInv
<1>3. QED
  BY <1>1, <1>2, PTL DEF Spec

LEMMA SettledQuiet ==
  ASSUME TypeOK, Settled
  PROVE  ws \in Clients /\ Pending(ws) = {}
<1>1. ws \in Clients
  BY Constants DEF Settled, TypeOK, Clients
<1>2. Queued(ws) = {}
  BY DEF Queued, Settled
<1>3. Held(ws) \subseteq {None, Gone}
  BY DEF Held, Settled
<1>4. QED
  BY <1>1, <1>2, <1>3 DEF Pending

(***************************************************************************)
(* When nothing is under way the server streams every subscribed token,    *)
(* unless a full sendCh refused the subscription or the writer of an older *)
(* connection wrote an older removal after it.                             *)
(***************************************************************************)
THEOREM NothingForgotten == Spec => []NoTokenForgotten
<1>1. SubsInv => NoTokenForgotten
  <2> SUFFICES ASSUME SubsInv, Settled, NEW t \in subsTokens, t \notin server[ws]
               PROVE  t \in unsent
    BY DEF NoTokenForgotten
  <2>1. ws \in Clients /\ Pending(ws) = {} /\ t \in Tokens
    BY SettledQuiet DEF SubsInv, TypeOK
  <2>2. Wanted(ws, t)
    BY <2>1 DEF SubsInv, TokensInv
  <2>3. ~AboutToSend(ws, t) /\ ~SubPending(ws, t) /\ ~Streamed(ws, t)
    BY <2>1 DEF Settled, AboutToSend, SubPending, Streamed
  <2>4. QED
    BY <2>2, <2>3 DEF Wanted, Settled
<1>2. QED
  BY <1>1, TokensAccounted, PTL

(***************************************************************************)
(* When nothing is under way a token that the server streams and nobody    *)
(* subscribes was removed without a message to the server, by a message    *)
(* that was lost, or a list taken before the removal arrived after it.     *)
(***************************************************************************)
THEOREM NoUnexplainedGhost == Spec => []GhostsExplained
<1>1. SubsInv => GhostsExplained
  <2> SUFFICES ASSUME SubsInv, Settled, NEW t \in server[ws], t \notin subsTokens
               PROVE  t \in ghosts
    BY DEF GhostsExplained
  <2>1. ws \in Clients /\ Pending(ws) = {} /\ t \in Tokens
    BY SettledQuiet DEF SubsInv, TypeOK
  <2>2. Unwanted(ws, t)
    BY <2>1 DEF SubsInv, TokensInv
  <2>3. ~AboutToRemove(t) /\ ~UnsubPending(ws, t) /\ ~Silent(ws, t)
    BY <2>1, Constants DEF Settled, AboutToRemove, UnsubPending, Silent
  <2>4. QED
    BY <2>2, <2>3 DEF Unwanted
<1>2. QED
  BY <1>1, TokensAccounted, PTL

(***************************************************************************)
(* Types, among them the capacity of sendCh.                               *)
(***************************************************************************)
THEOREM SubsTyped == Spec => []TypeOK
<1>1. SubsInv => TypeOK
  BY DEF SubsInv
<1>2. QED
  BY <1>1, TokensAccounted, PTL
=============================================================================
