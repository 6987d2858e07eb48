----------------------------- MODULE MarketSubs -----------------------------
(***************************************************************************)
(* How MarketMonitor (polymarket/market_monitor.go) keeps the tokens the   *)
(* server streams in step with the tokens the application asked for.       *)
(* Callers subscribe, unsubscribe, reset and disconnect concurrently with  *)
(* the goroutine of Run, whose OnOpen and OnReconnect subscribe again.     *)
(*                                                                         *)
(* The WebSocket client (utils/websocket_client.go, module WSClient) is    *)
(* used through its promise: while alive, Send queues a message; the queue *)
(* outlives a connection; the writer of the previous connection may still  *)
(* hold or take a message and write it on the new one; a dead connection   *)
(* is eventually closed and dialled again.  A call of pm.Run is a client i *)
(* of its own.  Dialling and storing alive is one step.                    *)
(***************************************************************************)
EXTENDS Integers, Sequences

CONSTANTS
  Callers,    \* goroutines of the application
  Tokens,     \* asset ids
  SendCap,    \* capacity of sendCh
  MaxRuns,    \* bound: calls of Run
  MaxConns,   \* bound: connections of all clients together
  MaxOps      \* bound: calls of the application

Clients == 1..MaxRuns
Procs == Callers \cup Clients
Writers == 1..MaxConns

ASSUME CallersAssumption == Callers \cap Clients = {}
ASSUME BoundsAssumption ==
  /\ SendCap \in Nat \ {0} /\ MaxRuns \in Nat
  /\ MaxConns \in Nat /\ MaxOps \in Nat

VARIABLES
  subsTokens, \* pm.subsTokens
  ws,         \* pm.ws: the client it points to, 0 for nil
  run,        \* run[i]: where the Run that made client i is
  alive,      \* alive[i]: IsAlive()
  link,       \* link[i]: the connection of client i
  ctrl,       \* ctrl[i]: a reset is requested
  sendCh,     \* sendCh[i]: queued messages
  hand,       \* hand[w]: the message the writer of the w-th connection holds
  server,     \* server[i]: tokens the server streams on the connection
  pc,         \* what each goroutine executes
  toks,       \* its tokens: the snapshot to send, or what Reset took
  via,        \* the client whose Send it is in, 0 for none
  crashed,    \* a nil pm.ws was used
  dials,      \* dials[w]: the client that made the w-th connection
  ops,        \* calls of the application so far
  sent,       \* history: messages queued so far, their sequence number
  written,    \* history: written[i]: the newest message written
  unsent,     \* history: tokens whose subscription was dropped or overtaken
  ghosts      \* history: tokens whose removal was not sent, lost or undone

calls == <<pc, toks, via>>
wires == <<sendCh, hand, server, sent, written>>
vars == <<subsTokens, ws, run, alive, link, ctrl, wires, calls, crashed, dials, ops, unsent, ghosts>>

None == [op |-> "none", tokens |-> {}, seq |-> 0]
Gone == [op |-> "gone", tokens |-> {}, seq |-> 0]
Messages == [op : {"sub", "unsub"}, tokens : SUBSET Tokens, seq : Nat]

TypeOK ==
  /\ subsTokens \subseteq Tokens
  /\ ws \in 0..MaxRuns
  /\ run \in [Clients -> {"new", "dial", "open", "up", "ending", "ended"}]
  /\ alive \in [Clients -> BOOLEAN]
  /\ link \in [Clients -> {"none", "up", "broken"}]
  /\ ctrl \in [Clients -> BOOLEAN]
  /\ sendCh \in [Clients -> Seq(Messages)] /\ \A i \in Clients : Len(sendCh[i]) <= SendCap
  /\ hand \in [Writers -> Messages \cup {None, Gone}]
  /\ server \in [Clients -> SUBSET Tokens]
  /\ pc \in [Procs -> {"idle", "check", "send", "queue", "unsub", "reset", "resetws"}]
  /\ toks \in [Procs -> SUBSET Tokens]
  /\ via \in [Procs -> 0..MaxRuns] /\ \A p \in Procs : pc[p] = "queue" => via[p] # 0
  /\ crashed \in BOOLEAN
  /\ dials \in Seq(Clients) /\ Len(dials) <= MaxConns
  /\ ops \in 0..MaxOps /\ sent \in Nat /\ written \in [Clients -> Nat]
  /\ unsent \subseteq Tokens /\ ghosts \subseteq Tokens

Init ==
  /\ subsTokens = {}
  /\ ws = 0
  /\ run = [i \in Clients |-> "new"]
  /\ alive = [i \in Clients |-> FALSE]
  /\ link = [i \in Clients |-> "none"]
  /\ ctrl = [i \in Clients |-> FALSE]
  /\ sendCh = [i \in Clients |-> <<>>]
  /\ hand = [w \in Writers |-> None]
  /\ server = [i \in Clients |-> {}]
  /\ pc = [p \in Procs |-> "idle"]
  /\ toks = [p \in Procs |-> {}]
  /\ via = [p \in Procs |-> 0]
  /\ crashed = FALSE
  /\ dials = <<>> /\ ops = 0 /\ sent = 0
  /\ written = [i \in Clients |-> 0]
  /\ unsent = {} /\ ghosts = {}

-----------------------------------------------------------------------------
(***************************************************************************)
(* ws.Send is refused unless the client is alive; then, whatever became of *)
(* the client since, the message is queued if there is room.               *)
(***************************************************************************)
Room(i) == Len(sendCh[i]) < SendCap

Usable == ws # 0 /\ alive[ws]

Push(i, op, T) ==
  /\ sendCh' = [sendCh EXCEPT ![i] = Append(@, [op |-> op, tokens |-> T, seq |-> sent + 1])]
  /\ sent' = sent + 1
  /\ UNCHANGED <<hand, server, written>>

(***************************************************************************)
(* ws.Close: closes the connection unless the client is closed already.    *)
(***************************************************************************)
CloseClient(i) ==
  /\ alive' = [alive EXCEPT ![i] = FALSE]
  /\ link' = [link EXCEPT ![i] = IF alive[i] THEN "none" ELSE @]
  /\ server' = [server EXCEPT ![i] = IF alive[i] THEN {} ELSE @]
  /\ UNCHANGED <<sendCh, hand, sent, written>>

-----------------------------------------------------------------------------
(***************************************************************************)
(* subscribeMarket: add the tokens and copy the list under the lock; then, *)
(* unlocked, look whether the client is alive; then call Send of pm.ws,    *)
(* read once more, which looks again and queues the copy.                  *)
(***************************************************************************)
AddTokens_OnlyNew(p, T) ==
  /\ subsTokens' = subsTokens \cup T
  /\ toks' = [toks EXCEPT ![p] = T]
  /\ pc' = [pc EXCEPT ![p] = IF T = {} THEN "idle" ELSE "check"]
  /\ UNCHANGED via

AddTokens(p, T) ==
  /\ subsTokens' = subsTokens \cup T
  /\ toks' = [toks EXCEPT ![p] = subsTokens \cup T]
  /\ pc' = [pc EXCEPT ![p] = IF subsTokens \cup T = {} THEN "idle" ELSE "check"]
  /\ UNCHANGED via

Leave(p) ==
  /\ pc' = [pc EXCEPT ![p] = "idle"]
  /\ toks' = [toks EXCEPT ![p] = {}]
  /\ via' = [via EXCEPT ![p] = 0]

CheckAlive(p) ==
  /\ pc[p] = "check"
  /\ \/ Usable /\ pc' = [pc EXCEPT ![p] = "send"] /\ UNCHANGED <<toks, via>>
     \/ ~Usable /\ Leave(p)
  /\ UNCHANGED <<subsTokens, ws, run, alive, link, ctrl, wires, crashed, dials, ops, unsent, ghosts>>

SendChecks(p) ==
  /\ pc[p] = "send" /\ ws # 0
  /\ \/ /\ alive[ws]
        /\ pc' = [pc EXCEPT ![p] = "queue"]
        /\ via' = [via EXCEPT ![p] = ws]
        /\ UNCHANGED toks
     \/ ~alive[ws] /\ Leave(p)
  /\ UNCHANGED <<subsTokens, ws, run, alive, link, ctrl, wires, crashed, dials, ops, unsent, ghosts>>

(***************************************************************************)
(* A snapshot may name tokens that were unsubscribed after it was taken.   *)
(***************************************************************************)
QueueSnapshot(p) ==
  /\ pc[p] = "queue"
  /\ \/ /\ Room(via[p])
        /\ Push(via[p], "sub", toks[p])
        /\ ghosts' = ghosts \cup (toks[p] \ subsTokens)
        /\ UNCHANGED unsent
     \/ /\ ~Room(via[p])
        /\ unsent' = unsent \cup toks[p]
        /\ UNCHANGED <<wires, ghosts>>
  /\ Leave(p)
  /\ UNCHANGED <<subsTokens, ws, run, alive, link, ctrl, crashed, dials, ops>>

(***************************************************************************)
(* A method call on a nil pm.ws panics.                                    *)
(***************************************************************************)
UseNil(p) ==
  /\ pc[p] \in {"send", "resetws"} /\ ws = 0
  /\ crashed' = TRUE
  /\ UNCHANGED <<subsTokens, ws, run, alive, link, ctrl, wires, calls, dials, ops, unsent, ghosts>>

(***************************************************************************)
(* UnsubscribeTokens, wholly under the lock.  Nothing is sent when no      *)
(* token is left.  Between its look at alive and the queueing nobody       *)
(* changes the list, and closing a client leaves its queue alone: what     *)
(* other goroutines do meanwhile could as well come before or after.       *)
(***************************************************************************)
Tells(rest) == rest # {} /\ Usable /\ Room(ws)

RemoveTokens_SendsNone(T) ==
  LET rest == subsTokens \ T IN
  /\ subsTokens' = rest
  /\ IF T # {} /\ Tells(rest)
     THEN Push(ws, "unsub", {}) /\ UNCHANGED ghosts
     ELSE ghosts' = ghosts \cup T /\ UNCHANGED wires

RemoveTokens(T) ==
  LET rest == subsTokens \ T IN
  /\ subsTokens' = rest
  /\ IF T # {} /\ Tells(rest)
     THEN Push(ws, "unsub", T) /\ UNCHANGED ghosts
     ELSE ghosts' = ghosts \cup T /\ UNCHANGED wires

-----------------------------------------------------------------------------
Begin(c) ==
  /\ pc[c] = "idle" /\ ops < MaxOps
  /\ ops' = ops + 1

SubscribeTokens(c, T) ==
  /\ Begin(c)
  /\ AddTokens(c, T)
  /\ UNCHANGED <<ws, run, alive, link, ctrl, wires, crashed, dials, unsent, ghosts>>

(***************************************************************************)
(* Subscribe sends a message that names no token, and takes no lock.       *)
(***************************************************************************)
Subscribe(c) ==
  /\ Begin(c)
  /\ pc' = [pc EXCEPT ![c] = "check"]
  /\ UNCHANGED <<subsTokens, ws, run, alive, link, ctrl, wires, toks, via, crashed, dials, unsent, ghosts>>

UnsubscribeTokens(c, T) ==
  /\ Begin(c)
  /\ RemoveTokens(T)
  /\ UNCHANGED <<ws, run, alive, link, ctrl, calls, crashed, dials, unsent>>

(***************************************************************************)
(* Reset takes the list and empties it, then unsubscribes what it took,    *)
(* and then asks the client to reconnect if the caller wants it.           *)
(***************************************************************************)
ResetTake(c, isReconnect) ==
  /\ Begin(c)
  /\ toks' = [toks EXCEPT ![c] = subsTokens]
  /\ subsTokens' = {}
  /\ pc' = [pc EXCEPT ![c] = IF isReconnect THEN "reset" ELSE "unsub"]
  /\ UNCHANGED <<ws, run, alive, link, ctrl, wires, via, crashed, dials, unsent, ghosts>>

ResetUnsubscribe(c) ==
  /\ pc[c] \in {"reset", "unsub"}
  /\ RemoveTokens(toks[c])
  /\ toks' = [toks EXCEPT ![c] = {}]
  /\ pc' = [pc EXCEPT ![c] = IF pc[c] = "reset" /\ ws # 0 THEN "resetws" ELSE "idle"]
  /\ UNCHANGED <<ws, run, alive, link, ctrl, via, crashed, dials, ops, unsent>>

ResetReconnect(c) ==
  /\ pc[c] = "resetws" /\ ws # 0
  /\ ctrl' = [ctrl EXCEPT ![ws] = TRUE]
  /\ Leave(c)
  /\ UNCHANGED <<subsTokens, ws, run, alive, link, wires, crashed, dials, ops, unsent, ghosts>>

Disconnect ==
  /\ subsTokens' = {}
  /\ ws' = 0
  /\ ghosts' = ghosts \cup subsTokens
  /\ \/ ws # 0 /\ CloseClient(ws)
     \/ ws = 0 /\ UNCHANGED <<alive, link, wires>>

CallDisconnect(c) ==
  /\ Begin(c)
  /\ Disconnect
  /\ UNCHANGED <<run, ctrl, calls, crashed, dials, unsent>>

-----------------------------------------------------------------------------
(***************************************************************************)
(* Run makes a client unless the monitor has one that is alive.  The       *)
(* client dials; OnOpen or OnReconnect subscribes; then it waits.          *)
(***************************************************************************)
RunStart(i) ==
  /\ run[i] = "new" /\ \A j \in 1..(i - 1) : run[j] # "new"
  /\ ~Usable
  /\ ws' = i
  /\ run' = [run EXCEPT ![i] = "dial"]
  /\ UNCHANGED <<subsTokens, alive, link, ctrl, wires, calls, crashed, dials, ops, unsent, ghosts>>

(***************************************************************************)
(* Each connection starts with a writer of its own; earlier writers keep   *)
(* what they hold, nothing the server knew survives.                       *)
(***************************************************************************)
Connected(i) ==
  /\ link' = [link EXCEPT ![i] = "up"]
  /\ alive' = [alive EXCEPT ![i] = TRUE]
  /\ run' = [run EXCEPT ![i] = "open"]
  /\ AddTokens(i, {})

Dial(i) ==
  /\ run[i] = "dial" /\ Len(dials) < MaxConns
  /\ dials' = Append(dials, i)
  /\ Connected(i)
  /\ server' = [server EXCEPT ![i] = {}]
  /\ unsent' = {}
  /\ UNCHANGED <<ws, ctrl, sendCh, hand, sent, written, crashed, ops, ghosts>>

RunOpened(i) ==
  /\ run[i] = "open" /\ pc[i] = "idle"
  /\ run' = [run EXCEPT ![i] = "up"]
  /\ UNCHANGED <<subsTokens, ws, alive, link, ctrl, wires, calls, crashed, dials, ops, unsent, ghosts>>

(***************************************************************************)
(* A reset request or the end of the connection makes the client dial      *)
(* again; the end of the context ends Run, which then disconnects the      *)
(* monitor, whichever client pm.ws points to by then.                      *)
(***************************************************************************)
RunRedial(i) ==
  /\ run[i] = "up" /\ (ctrl[i] \/ link[i] # "up")
  /\ run' = [run EXCEPT ![i] = "dial"]
  /\ ctrl' = [ctrl EXCEPT ![i] = FALSE]
  /\ CloseClient(i)
  /\ UNCHANGED <<subsTokens, ws, calls, crashed, dials, ops, unsent, ghosts>>

RunEnds(i) ==
  /\ run[i] \in {"dial", "up"}
  /\ run' = [run EXCEPT ![i] = "ending"]
  /\ CloseClient(i)
  /\ UNCHANGED <<subsTokens, ws, ctrl, calls, crashed, dials, ops, unsent, ghosts>>

RunDisconnects(i) ==
  /\ run[i] = "ending"
  /\ run' = [run EXCEPT ![i] = "ended"]
  /\ Disconnect
  /\ UNCHANGED <<ctrl, calls, crashed, dials, ops, unsent>>

Break(i) ==
  /\ link[i] = "up"
  /\ link' = [link EXCEPT ![i] = "broken"]
  /\ UNCHANGED <<subsTokens, ws, run, alive, ctrl, wires, calls, crashed, dials, ops, unsent, ghosts>>

-----------------------------------------------------------------------------
(***************************************************************************)
(* The writers: the one of the current connection starts after OnOpen, an  *)
(* earlier one may still take a message before it sees that its connection *)
(* has ended.                                                              *)
(***************************************************************************)
Current(w) == \A v \in (w + 1)..Len(dials) : dials[v] # dials[w]

Take(w) ==
  LET i == dials[w] IN
  /\ hand[w] = None /\ sendCh[i] # <<>>
  /\ Current(w) => run[i] # "open"
  /\ hand' = [hand EXCEPT ![w] = Head(sendCh[i])]
  /\ sendCh' = [sendCh EXCEPT ![i] = Tail(@)]
  /\ UNCHANGED <<subsTokens, ws, run, alive, link, ctrl, server, sent, written, calls, crashed, dials, ops, unsent, ghosts>>

(***************************************************************************)
(* The server applies what reaches it.  A message written on a broken or   *)
(* missing connection is lost and ends its writer.                         *)
(***************************************************************************)
Apply(m, T) == IF m.op = "sub" THEN T \cup m.tokens ELSE T \ m.tokens

Write(w) ==
  LET i == dials[w]
      m == hand[w]
      late == m.seq < written[i] IN
  /\ m \notin {None, Gone}
  /\ \/ /\ link[i] = "up"
        /\ hand' = [hand EXCEPT ![w] = None]
        /\ server' = [server EXCEPT ![i] = Apply(m, @)]
        /\ written' = [written EXCEPT ![i] = IF late THEN @ ELSE m.seq]
        /\ unsent' = IF late /\ m.op = "unsub" THEN unsent \cup m.tokens ELSE unsent
        /\ ghosts' = IF late /\ m.op = "sub" THEN ghosts \cup m.tokens ELSE ghosts
     \/ /\ link[i] # "up"
        /\ hand' = [hand EXCEPT ![w] = Gone]
        /\ ghosts' = IF m.op = "unsub" THEN ghosts \cup m.tokens ELSE ghosts
        /\ UNCHANGED <<server, written, unsent>>
  /\ UNCHANGED <<subsTokens, ws, run, alive, link, ctrl, sendCh, sent, calls, crashed, dials, ops>>

-----------------------------------------------------------------------------
CallerStep(c) ==
  \/ \E T \in SUBSET Tokens \ {{}} : SubscribeTokens(c, T) \/ UnsubscribeTokens(c, T)
  \/ Subscribe(c)
  \/ \E b \in BOOLEAN : ResetTake(c, b)
  \/ ResetUnsubscribe(c) \/ ResetReconnect(c)
  \/ CallDisconnect(c)

ProcStep(p) == CheckAlive(p) \/ SendChecks(p) \/ QueueSnapshot(p) \/ UseNil(p)

ClientStep(i) ==
  \/ RunStart(i) \/ Dial(i) \/ RunOpened(i) \/ RunRedial(i) \/ RunEnds(i) \/ RunDisconnects(i)
  \/ Break(i)

Next ==
  /\ ~crashed
  /\ \/ \E c \in Callers : CallerStep(c)
     \/ \E p \in Procs : ProcStep(p)
     \/ \E i \in Clients : ClientStep(i)
     \/ \E w \in 1..Len(dials) : Take(w) \/ Write(w)

Spec == Init /\ [][Next]_vars

-----------------------------------------------------------------------------
(***************************************************************************)
(* Nothing is under way on the monitor's client and its connection is up.  *)
(***************************************************************************)
Settled ==
  /\ ~crashed /\ \A p \in Procs : pc[p] = "idle"
  /\ ws # 0 /\ run[ws] = "up" /\ link[ws] = "up" /\ alive[ws]
  /\ sendCh[ws] = <<>> /\ \A w \in 1..Len(dials) : dials[w] = ws => hand[w] \in {None, Gone}

(***************************************************************************)
(* When things have settled the server streams every token the application *)
(* subscribed (subscribeMarket, OnOpen, OnReconnect), unless a full queue  *)
(* refused its subscription or the previous connection's writer wrote an   *)
(* older removal after it.                                                 *)
(***************************************************************************)
NoTokenForgotten == Settled => subsTokens \ server[ws] \subseteq unsent

(***************************************************************************)
(* A token the server streams without being subscribed was removed without *)
(* telling the server or by a message that was lost, or a copy of the list *)
(* taken before its removal was sent or written after it.                  *)
(***************************************************************************)
GhostsExplained == Settled => server[ws] \ subsTokens \subseteq ghosts

(***************************************************************************)
(* subscribeMarket and Reset use pm.ws only while it is not nil, which is  *)
(* what they check it for.                                                 *)
(***************************************************************************)
CheckedWsIsUsable == ~crashed
=============================================================================
