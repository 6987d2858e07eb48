------------------------------ MODULE WSClient ------------------------------
(***************************************************************************)
(* The reconnecting WebSocket client of utils/websocket_client.go.         *)
(*                                                                         *)
(* One goroutine executes Run: it dials, publishes the connection in the   *)
(* shared field c.conn, calls the handler, starts the goroutines of this   *)
(* connection and waits until the context ends, a reset is requested or    *)
(* one of them reports an error; then it closes the connection and dials   *)
(* again.  Each successful dial starts a GENERATION g of goroutines        *)
(* (readLoop, writeLoop, pingLoop) which share c.conn and sendCh with      *)
(* every other generation: nothing waits for the old ones to end.  Callers *)
(* use Send, Close and Reset from outside.                                 *)
(*                                                                         *)
(* Dereferencing c.conn when it is nil ends the program (no goroutine of   *)
(* this file recovers): the variable crashed.                              *)
(*                                                                         *)
(* Abstractions: a message is the number of the connection it belongs to;  *)
(* OnOpen and OnReconnect queue one subscription (what the handlers of     *)
(* this repository do), OnClose and OnError only log; deadlines and broken *)
(* peers are the single event Break.  Received messages are followed in    *)
(* module WSMessages: messageLoop has no effect on this state.             *)
(***************************************************************************)
EXTENDS Integers, Sequences

CONSTANTS
  Users,          \* goroutines that call Send, Close and Reset
  MaxGen,         \* bound: successful dials
  MaxTicks,       \* bound: ticks of all ping loops together
  MaxSends,       \* bound: messages queued by Users
  SendCap,        \* capacity of sendCh
  Reconnect,      \* cfg.Reconnect
  MaxReconnect,   \* cfg.MaxReconnect
  TextHeartbeat   \* cfg.TextHeartbeat

ASSUME UsersAssumption == Users \cap {"run", "free"} = {}
ASSUME BoundsAssumption ==
  /\ MaxGen \in Nat \ {0}
  /\ MaxTicks \in Nat /\ MaxSends \in Nat
  /\ SendCap \in Nat \ {0}
ASSUME ConfigAssumption ==
  /\ Reconnect \in BOOLEAN
  /\ MaxReconnect \in Nat
  /\ TextHeartbeat \in BOOLEAN

VARIABLES
  ctxDone,    \* the caller's context has ended
  runPc,      \* where Run is
  retry,      \* Run's retry counter
  fails,      \* history: failed dials since the last connection
  gen,        \* generations started so far
  conn,       \* c.conn: the generation that dialled it, 0 for nil
  sock,       \* sock[g]: the socket dialled by generation g
  alive,      \* c.alive
  closed,     \* c.closed
  mu,         \* holder of c.mu, "free" if none
  writeMu,    \* c.writeMu is held
  sendCh,     \* queued messages: k for a subscription of generation k, 0 else
  ctrlCh,     \* a reset request is queued
  errCh,      \* generations with an error queued in their errCh
  cancelled,  \* generations whose context Run has cancelled
  reader,     \* reader[g]: where readLoop is
  rconn,      \* rconn[g]: the connection readLoop called ReadMessage on
  sender,     \* sender["write"][g], sender["ping"][g]: writeLoop, pingLoop
  held,       \* held[g]: the message writeLoop took from sendCh
  beat,       \* beat[g]: which of its two frames pingLoop is writing
  op,         \* op[p]: the call that p is executing
  ticks,      \* ticks of the ping loops so far
  sends,      \* messages queued by Users so far
  got,        \* generations whose subscription was written on their connection
  refused,    \* generations whose subscription found sendCh full
  crashed     \* a nil connection was dereferenced

runVars  == <<ctxDone, runPc, retry, fails, gen>>
connVars == <<conn, sock, alive, closed, mu>>
chanVars == <<sendCh, ctrlCh, errCh>>
loopVars == <<cancelled, reader, rconn, sender, held, beat>>
vars == <<runVars, connVars, writeMu, chanVars, loopVars, op, ticks, sends, got, refused, crashed>>

Gens == 1..MaxGen
Closers == Users \cup {"run"}
RunPcs == {"top", "dial", "backoff", "storeAlive", "storeClosed", "handler",
           "select", "closing", "closingErr", "delay", "returned"}
ReaderPcs == {"off", "read", "reading", "done"}
Kinds == {"write", "ping"}
SenderPcs == {"off", "select", "lock", "use", "done"}

(***************************************************************************)
(* The states of Run in which no connection is published.                  *)
(***************************************************************************)
Down == {"top", "dial", "backoff", "delay", "returned"}

(***************************************************************************)
(* The context given to the goroutines of generation g has ended.          *)
(***************************************************************************)
Ended(g) == ctxDone \/ g \in cancelled

Init ==
  /\ ctxDone = FALSE /\ runPc = "top"
  /\ retry = 0 /\ fails = 0 /\ gen = 0
  /\ conn = 0 /\ sock = [g \in Gens |-> "none"]
  /\ alive = FALSE /\ closed = FALSE
  /\ mu = "free" /\ writeMu = FALSE
  /\ sendCh = <<>> /\ ctrlCh = FALSE
  /\ errCh = {} /\ cancelled = {}
  /\ reader = [g \in Gens |-> "off"] /\ rconn = [g \in Gens |-> 0]
  /\ sender = [k \in Kinds |-> [g \in Gens |-> "off"]]
  /\ held = [g \in Gens |-> 0] /\ beat = [g \in Gens |-> "ping"]
  /\ op = [p \in Closers |-> "idle"]
  /\ ticks = 0 /\ sends = 0 /\ got = {} /\ refused = {} /\ crashed = FALSE

-----------------------------------------------------------------------------
(***************************************************************************)
(* Run: the outer loop.                                                    *)
(***************************************************************************)
RunTop ==
  /\ runPc = "top"
  /\ runPc' = IF ctxDone THEN "returned" ELSE "dial"
  /\ UNCHANGED <<ctxDone, retry, fails, gen, connVars, writeMu, chanVars,
                 loopVars, op, ticks, sends, got, refused, crashed>>

(***************************************************************************)
(* connect holds mu from before Dial until c.conn is set, so a dial is one *)
(* step for everyone who needs mu; c.conn is only dereferenced by others   *)
(* through the field, which the dial sets last.                            *)
(***************************************************************************)
DialOk ==
  /\ runPc = "dial" /\ mu = "free" /\ gen < MaxGen
  /\ gen' = gen + 1
  /\ conn' = gen + 1
  /\ sock' = [sock EXCEPT ![gen + 1] = "open"]
  /\ fails' = 0
  /\ runPc' = "storeAlive"
  /\ UNCHANGED <<ctxDone, retry, alive, closed, mu, writeMu, chanVars,
                 loopVars, op, ticks, sends, got, refused, crashed>>

GiveUp == ~Reconnect \/ retry >= MaxReconnect

DialFail ==
  /\ runPc = "dial" /\ mu = "free"
  /\ fails' = fails + 1
  /\ \/ /\ GiveUp
        /\ runPc' = "returned"
        /\ UNCHANGED retry
     \/ /\ ~GiveUp
        /\ runPc' = "backoff"
        /\ retry' = retry + 1
  /\ UNCHANGED <<ctxDone, gen, connVars, writeMu, chanVars, loopVars, op,
                 ticks, sends, got, refused, crashed>>

(***************************************************************************)
(* SleepWithCtx after a failed dial: the timer or the end of the context.  *)
(***************************************************************************)
RunBackoff ==
  /\ runPc = "backoff"
  /\ \/ runPc' = "top"
     \/ ctxDone /\ runPc' = "returned"
  /\ UNCHANGED <<ctxDone, retry, fails, gen, connVars, writeMu, chanVars,
                 loopVars, op, ticks, sends, got, refused, crashed>>

StoreAlive ==
  /\ runPc = "storeAlive"
  /\ alive' = TRUE
  /\ runPc' = "storeClosed"
  /\ UNCHANGED <<ctxDone, retry, fails, gen, conn, sock, closed, mu,
                 writeMu, chanVars, loopVars, op, ticks, sends, got, refused, crashed>>

StoreClosed_KeepsClosed ==
  /\ runPc = "storeClosed"
  /\ closed' = closed
  /\ retry' = 0
  /\ runPc' = "handler"
  /\ UNCHANGED <<ctxDone, fails, gen, conn, sock, alive, mu, writeMu,
                 chanVars, loopVars, op, ticks, sends, got, refused, crashed>>

StoreClosed_KeepsRetry ==
  /\ runPc = "storeClosed"
  /\ closed' = FALSE
  /\ retry' = retry
  /\ runPc' = "handler"
  /\ UNCHANGED <<ctxDone, fails, gen, conn, sock, alive, mu, writeMu,
                 chanVars, loopVars, op, ticks, sends, got, refused, crashed>>

StoreClosed ==
  /\ runPc = "storeClosed"
  /\ closed' = FALSE
  /\ retry' = 0
  /\ runPc' = "handler"
  /\ UNCHANGED <<ctxDone, fails, gen, conn, sock, alive, mu, writeMu,
                 chanVars, loopVars, op, ticks, sends, got, refused, crashed>>

(***************************************************************************)
(* The non-blocking send of Send: a full sendCh refuses the message.       *)
(***************************************************************************)
Queued(m) == IF Len(sendCh) < SendCap THEN Append(sendCh, m) ELSE sendCh

(***************************************************************************)
(* callOnOpen or callOnReconnect, which queue the subscription of this     *)
(* connection with the non-blocking Send, and the go statements.           *)
(***************************************************************************)
OpenAndSpawn ==
  /\ runPc = "handler"
  /\ sendCh' = IF alive THEN Queued(gen) ELSE sendCh
  /\ refused' = IF Len(sendCh) < SendCap THEN refused ELSE refused \cup {gen}
  /\ reader' = [reader EXCEPT ![gen] = "read"]
  /\ sender' = [k \in Kinds |-> [sender[k] EXCEPT ![gen] = "select"]]
  /\ runPc' = "select"
  /\ UNCHANGED <<ctxDone, retry, fails, gen, connVars, writeMu,
                 ctrlCh, errCh, cancelled, rconn, held, beat, op, ticks, sends, got,
                 crashed>>

(***************************************************************************)
(* The select of Run: the context, a reset request or an error.  Every     *)
(* case calls Close next.                                                  *)
(***************************************************************************)
SelectCtx_Missing == FALSE

SelectCtx ==
  /\ ctxDone
  /\ runPc' = "closing"
  /\ UNCHANGED <<ctrlCh, errCh>>

SelectCtrl ==
  /\ ctrlCh
  /\ ctrlCh' = FALSE
  /\ runPc' = "closing"
  /\ UNCHANGED errCh

SelectErr ==
  /\ gen \in errCh
  /\ errCh' = errCh \ {gen}
  /\ runPc' = "closingErr"
  /\ UNCHANGED ctrlCh

RunSelect ==
  /\ runPc = "select"
  /\ SelectCtx \/ SelectCtrl \/ SelectErr
  /\ op' = [op EXCEPT !["run"] = "close"]
  /\ UNCHANGED <<ctxDone, retry, fails, gen, connVars, writeMu, sendCh,
                 loopVars, ticks, sends, got, refused, crashed>>

CancelGeneration_Forgotten ==
  /\ cancelled' = cancelled
  /\ errCh' = errCh \ {gen}

(***************************************************************************)
(* The inner function returns: the deferred cancel runs, and nobody reads  *)
(* the generation's errCh any more.                                        *)
(***************************************************************************)
CancelGeneration ==
  /\ cancelled' = cancelled \cup {gen}
  /\ errCh' = errCh \ {gen}

(***************************************************************************)
(* After Close: only an error with cfg.Reconnect sleeps, and the context   *)
(* of the generation stays open during that sleep.  Without cfg.Reconnect  *)
(* the return leaves the inner function only.                              *)
(***************************************************************************)
RunClosed ==
  /\ op["run"] = "idle"
  /\ \/ /\ runPc = "closingErr" /\ Reconnect
        /\ runPc' = "delay"
        /\ UNCHANGED <<cancelled, errCh>>
     \/ /\ runPc = "closing" \/ (runPc = "closingErr" /\ ~Reconnect)
        /\ runPc' = "top"
        /\ CancelGeneration
  /\ UNCHANGED <<ctxDone, retry, fails, gen, connVars, writeMu, sendCh, ctrlCh, reader, rconn, sender, held, beat, op, ticks, sends,
                 got, refused, crashed>>

(***************************************************************************)
(* SleepWithCtx(ReconnectDelay): the timer and the end of the context both *)
(* leave the inner function, whose deferred cancel runs.                   *)
(***************************************************************************)
RunDelay ==
  /\ runPc = "delay"
  /\ runPc' = "top"
  /\ CancelGeneration
  /\ UNCHANGED <<ctxDone, retry, fails, gen, connVars, writeMu, sendCh, ctrlCh, reader, rconn, sender, held, beat, op, ticks, sends,
                 got, refused, crashed>>

-----------------------------------------------------------------------------
(***************************************************************************)
(* Close, called by Run and by Users.  closed and alive are set under mu;  *)
(* conn.Close and c.conn = nil follow under mu but without writeMu.        *)
(***************************************************************************)
CloseBegin(p) ==
  /\ op[p] = "close" /\ mu = "free"
  /\ \/ /\ closed
        /\ op' = [op EXCEPT ![p] = "idle"]
        /\ UNCHANGED <<closed, alive, mu>>
     \/ /\ ~closed
        /\ closed' = TRUE
        /\ alive' = FALSE
        /\ mu' = IF conn = 0 THEN "free" ELSE p
        /\ op' = [op EXCEPT ![p] = IF conn = 0 THEN "idle" ELSE "frame"]
  /\ UNCHANGED <<runVars, conn, sock, writeMu, chanVars, loopVars, ticks, sends, got,
                 refused, crashed>>

(***************************************************************************)
(* The close frame, written under writeMu; its error is ignored.           *)
(***************************************************************************)
CloseFrame(p) ==
  /\ op[p] = "frame" /\ ~writeMu
  /\ op' = [op EXCEPT ![p] = "drop"]
  /\ UNCHANGED <<runVars, connVars, writeMu, chanVars, loopVars, ticks, sends, got,
                 refused, crashed>>

CloseConn(p) ==
  /\ op[p] = "drop"
  /\ sock' = [sock EXCEPT ![conn] = "closed"]
  /\ conn' = 0
  /\ mu' = "free"
  /\ op' = [op EXCEPT ![p] = "idle"]
  /\ UNCHANGED <<runVars, alive, closed, writeMu, chanVars, loopVars, ticks, sends,
                 got, refused, crashed>>

-----------------------------------------------------------------------------
(***************************************************************************)
(* The callers.  Send checks alive and then queues without blocking: the   *)
(* connection may change in between.                                       *)
(***************************************************************************)
CallClose(u) ==
  /\ op[u] = "idle"
  /\ op' = [op EXCEPT ![u] = "close"]
  /\ UNCHANGED <<runVars, connVars, writeMu, chanVars, loopVars, ticks, sends, got,
                 refused, crashed>>

CallSend(u) ==
  /\ op[u] = "idle" /\ alive /\ sends < MaxSends
  /\ op' = [op EXCEPT ![u] = "send"]
  /\ sends' = sends + 1
  /\ UNCHANGED <<runVars, connVars, writeMu, chanVars, loopVars, ticks, got, refused, crashed>>

SendPush(u) ==
  /\ op[u] = "send"
  /\ op' = [op EXCEPT ![u] = "idle"]
  /\ sendCh' = Queued(0)
  /\ UNCHANGED <<runVars, connVars, writeMu, ctrlCh, errCh, loopVars,
                 ticks, sends, got, refused, crashed>>

Reset ==
  /\ ~ctrlCh
  /\ ctrlCh' = TRUE
  /\ UNCHANGED <<runVars, connVars, writeMu, sendCh, errCh, loopVars,
                 op, ticks, sends, got, refused, crashed>>

-----------------------------------------------------------------------------
ReportErr_Dropped(g) == errCh' = errCh

(***************************************************************************)
(* The non-blocking send on the generation's errCh.                        *)
(***************************************************************************)
ReportErr(g) == errCh' = errCh \cup ({g} \ cancelled)

(***************************************************************************)
(* readLoop of generation g.  c.conn is read again in every iteration,     *)
(* without a lock and without a nil check.                                 *)
(***************************************************************************)
ReadBegin(g) ==
  /\ reader[g] = "read"
  /\ IF conn = 0
       THEN crashed' = TRUE /\ UNCHANGED <<reader, rconn>>
       ELSE /\ reader' = [reader EXCEPT ![g] = "reading"]
            /\ rconn' = [rconn EXCEPT ![g] = conn]
            /\ UNCHANGED crashed
  /\ UNCHANGED <<runVars, connVars, writeMu, chanVars, cancelled, sender, held,
                 beat, op, ticks, sends, got, refused>>

(***************************************************************************)
(* A message: its delivery to msgCh (module WSMessages) never blocks, and  *)
(* its select may take the end of the context instead.                     *)
(***************************************************************************)
ReadMsg(g) ==
  /\ reader[g] = "reading" /\ sock[rconn[g]] = "open"
  /\ \/ reader' = [reader EXCEPT ![g] = "read"]
     \/ Ended(g) /\ reader' = [reader EXCEPT ![g] = "done"]
  /\ rconn' = [rconn EXCEPT ![g] = 0]
  /\ UNCHANGED <<runVars, connVars, writeMu, chanVars, cancelled, sender, held,
                 beat, op, ticks, sends, got, refused, crashed>>

ReadErr(g) ==
  /\ reader[g] = "reading" /\ sock[rconn[g]] # "open"
  /\ ReportErr(g)
  /\ reader' = [reader EXCEPT ![g] = "done"]
  /\ rconn' = [rconn EXCEPT ![g] = 0]
  /\ UNCHANGED <<runVars, connVars, writeMu, sendCh, ctrlCh, cancelled,
                 sender, held, beat, op, ticks, sends, got,
                 refused, crashed>>

-----------------------------------------------------------------------------
(***************************************************************************)
(* writeLoop and pingLoop of generation g: the select, and writeMessage.   *)
(***************************************************************************)
SenderEnd(k, g) ==
  /\ sender[k][g] = "select" /\ Ended(g)
  /\ sender' = [sender EXCEPT ![k][g] = "done"]
  /\ UNCHANGED <<runVars, connVars, writeMu, chanVars, cancelled, reader,
                 rconn, held, beat, op, ticks, sends, got, refused, crashed>>

WriterTake_DropsWhenEnded(g) ==
  /\ sender["write"][g] = "select" /\ sendCh # <<>>
  /\ held' = [held EXCEPT ![g] = IF Ended(g) THEN 0 ELSE Head(sendCh)]
  /\ sendCh' = Tail(sendCh)
  /\ sender' = [sender EXCEPT !["write"][g] = IF Ended(g) THEN "done" ELSE "lock"]
  /\ UNCHANGED <<runVars, connVars, writeMu, ctrlCh, errCh, cancelled,
                 reader, rconn, beat, op, ticks, sends, got, refused, crashed>>

WriterTake(g) ==
  /\ sender["write"][g] = "select" /\ sendCh # <<>>
  /\ held' = [held EXCEPT ![g] = Head(sendCh)]
  /\ sendCh' = Tail(sendCh)
  /\ sender' = [sender EXCEPT !["write"][g] = "lock"]
  /\ UNCHANGED <<runVars, connVars, writeMu, ctrlCh, errCh, cancelled,
                 reader, rconn, beat, op, ticks, sends, got, refused, crashed>>

PingTick(g) ==
  /\ sender["ping"][g] = "select" /\ ticks < MaxTicks
  /\ ticks' = ticks + 1
  /\ sender' = [sender EXCEPT !["ping"][g] = "lock"]
  /\ UNCHANGED <<runVars, connVars, writeMu, chanVars, cancelled, reader,
                 rconn, held, beat, op, sends, got, refused, crashed>>

(***************************************************************************)
(* writeMessage takes writeMu and checks c.conn for nil; an error goes to  *)
(* the generation's own errCh and ends the loop.                           *)
(***************************************************************************)
WriteLock(k, g) ==
  /\ sender[k][g] = "lock" /\ ~writeMu
  /\ IF conn = 0
       THEN /\ sender' = [sender EXCEPT ![k][g] = "done"]
            /\ ReportErr(g)
            /\ UNCHANGED writeMu
       ELSE /\ sender' = [sender EXCEPT ![k][g] = "use"]
            /\ writeMu' = TRUE
            /\ UNCHANGED errCh
  /\ UNCHANGED <<runVars, connVars, sendCh, ctrlCh, cancelled, reader,
                 rconn, held, beat, op, ticks, sends, got, refused, crashed>>

(***************************************************************************)
(* A tick writes a ping frame and then, with TextHeartbeat, a text frame.  *)
(***************************************************************************)
AfterWrite(k, g) ==
  IF k = "ping" /\ beat[g] = "ping" /\ TextHeartbeat THEN "lock" ELSE "select"

OtherBeat(b) == IF b = "ping" /\ TextHeartbeat THEN "text" ELSE "ping"

(***************************************************************************)
(* writeMessage reads c.conn again to use it.  A write on a socket whose   *)
(* peer is gone may still succeed locally.                                 *)
(***************************************************************************)
WriteUse(k, g) ==
  /\ sender[k][g] = "use"
  /\ writeMu' = FALSE
  /\ held' = [held EXCEPT ![g] = IF k = "write" THEN 0 ELSE @]
  /\ \/ /\ conn = 0
        /\ crashed' = TRUE
        /\ UNCHANGED <<sender, beat, errCh, got>>
     \/ /\ conn # 0 /\ sock[conn] # "open"
        /\ sender' = [sender EXCEPT ![k][g] = "done"]
        /\ ReportErr(g)
        /\ UNCHANGED <<beat, got, refused, crashed>>
     \/ /\ conn # 0 /\ sock[conn] \in {"open", "broken"}
        /\ sender' = [sender EXCEPT ![k][g] = AfterWrite(k, g)]
        /\ beat' = IF k = "ping" THEN [beat EXCEPT ![g] = OtherBeat(@)] ELSE beat
        /\ got' = IF k = "write" /\ sock[conn] = "open" /\ held[g] = conn
                    THEN got \cup {conn}
                    ELSE got
        /\ UNCHANGED <<errCh, crashed>>
  /\ UNCHANGED <<runVars, connVars, sendCh, ctrlCh, cancelled, reader,
                 rconn, op, ticks, sends, refused>>

-----------------------------------------------------------------------------
(***************************************************************************)
(* The environment: the peer or the network gives up a connection, the     *)
(* caller ends the context.                                                *)
(***************************************************************************)
Break(g) ==
  /\ sock[g] = "open"
  /\ sock' = [sock EXCEPT ![g] = "broken"]
  /\ UNCHANGED <<runVars, conn, alive, closed, mu, writeMu, chanVars, loopVars,
                 op, ticks, sends, got, refused, crashed>>

Cancel ==
  /\ ~ctxDone
  /\ ctxDone' = TRUE
  /\ UNCHANGED <<runPc, retry, fails, gen, connVars, writeMu, chanVars,
                 loopVars, op, ticks, sends, got, refused, crashed>>

-----------------------------------------------------------------------------
RunStep ==
  /\ ~crashed
  /\ \/ RunTop \/ DialOk \/ DialFail \/ RunBackoff \/ StoreAlive
     \/ StoreClosed \/ OpenAndSpawn \/ RunSelect \/ RunClosed \/ RunDelay

CloseStep(p) ==
  /\ ~crashed
  /\ CloseBegin(p) \/ CloseFrame(p) \/ CloseConn(p)

CallerStep(u) ==
  /\ ~crashed
  /\ CallClose(u) \/ CallSend(u) \/ SendPush(u)

(***************************************************************************)
(* The steps of a reader that need no message from the peer.               *)
(***************************************************************************)
ReaderStep(g) ==
  /\ ~crashed
  /\ ReadBegin(g) \/ ReadErr(g)

SenderStep(k, g) ==
  /\ ~crashed
  /\ \/ SenderEnd(k, g) \/ WriteLock(k, g) \/ WriteUse(k, g)
     \/ k = "write" /\ WriterTake(g)

Outside ==
  /\ ~crashed
  /\ \/ Reset \/ Cancel
     \/ \E g \in Gens : Break(g) \/ ReadMsg(g) \/ PingTick(g)

(***************************************************************************)
(* Nothing is left to do: the process is gone, or Run has returned and the *)
(* goroutines have ended.                                                  *)
(***************************************************************************)
LoopsEnded ==
  \A g \in Gens :
    /\ reader[g] \in {"off", "done"}
    /\ \A k \in Kinds : sender[k][g] \in {"off", "done"}

Halted ==
  /\ crashed \/ (runPc = "returned" /\ LoopsEnded)
  /\ UNCHANGED vars

Next ==
  \/ RunStep
  \/ \E p \in Closers : CloseStep(p)
  \/ \E u \in Users : CallerStep(u)
  \/ \E g \in Gens :
       \/ ReaderStep(g)
       \/ \E k \in Kinds : SenderStep(k, g)
  \/ Outside
  \/ Halted

Spec == Init /\ [][Next]_vars

(***************************************************************************)
(* Goroutines that can run do run; a timer fires and a dial returns.  A    *)
(* sync.Mutex does not starve a waiter, hence strong fairness where a step *)
(* takes mu or writeMu.  Callers, peers and tickers owe nothing.           *)
(***************************************************************************)
Fairness ==
  /\ WF_vars(RunStep)
  /\ \A p \in Closers : SF_vars(CloseStep(p))
  /\ \A g \in Gens :
       /\ WF_vars(ReaderStep(g))
       /\ \A k \in Kinds : SF_vars(SenderStep(k, g))

FairSpec == Spec /\ Fairness

-----------------------------------------------------------------------------
(***************************************************************************)
(* Types, and the capacity of sendCh.                                      *)
(***************************************************************************)
RunTypes ==
  /\ ctxDone \in BOOLEAN /\ runPc \in RunPcs
  /\ retry \in Nat /\ fails \in Nat /\ gen \in 0..MaxGen

ConnTypes ==
  /\ conn \in 0..MaxGen
  /\ sock \in [Gens -> {"none", "open", "broken", "closed"}]
  /\ alive \in BOOLEAN /\ closed \in BOOLEAN
  /\ mu \in Closers \cup {"free"}

ChanTypes ==
  /\ sendCh \in Seq(0..MaxGen) /\ Len(sendCh) <= SendCap
  /\ ctrlCh \in BOOLEAN /\ errCh \subseteq Gens

LoopTypes ==
  /\ cancelled \subseteq Gens
  /\ reader \in [Gens -> ReaderPcs] /\ rconn \in [Gens -> 0..MaxGen]
  /\ sender \in [Kinds -> [Gens -> SenderPcs]]
  /\ held \in [Gens -> 0..MaxGen] /\ beat \in [Gens -> {"ping", "text"}]

CallTypes ==
  /\ writeMu \in BOOLEAN
  /\ op \in [Closers -> {"idle", "send", "close", "frame", "drop"}]
  /\ ticks \in Nat /\ sends \in Nat
  /\ got \subseteq Gens /\ refused \subseteq Gens
  /\ crashed \in BOOLEAN

TypeOK == RunTypes /\ ConnTypes /\ ChanTypes /\ LoopTypes /\ CallTypes

(***************************************************************************)
(* Once Run is past its first dial, a generation exists.                   *)
(***************************************************************************)
GenStarted == runPc \notin {"top", "dial", "backoff", "returned"} => gen >= 1

(***************************************************************************)
(* A socket that nobody has closed is the one c.conn names, and Run is in  *)
(* a state from which it closes it: Run never dials, sleeps or returns     *)
(* with a socket still open (Run, connect and Close).                      *)
(***************************************************************************)
NoLeakedSocket ==
  \A g \in Gens : sock[g] \in {"open", "broken"} => conn = g /\ runPc \notin Down

(***************************************************************************)
(* While Run has no connection, IsAlive is false, so that Send refuses     *)
(* messages (Run, Close and Send).                                         *)
(***************************************************************************)
DownIsNotAlive == runPc \in Down => ~alive

(***************************************************************************)
(* Run returns without its context having ended only after as many dials   *)
(* in a row failed as the configuration allows: a connection in between    *)
(* starts the count again (Run).                                           *)
(***************************************************************************)
GivesUpOnlyAfterRetries ==
  runPc = "returned" /\ ~ctxDone
    => fails = IF Reconnect THEN MaxReconnect + 1 ELSE 1

(***************************************************************************)
(* The subscription of connection c was written on it, or is queued, or is *)
(* in the hands of some writeLoop, or was refused by a full sendCh.        *)
(***************************************************************************)
Carried(c) ==
  \/ c \in got \cup refused
  \/ \E i \in 1..Len(sendCh) : sendCh[i] = c
  \/ \E g \in Gens : sender["write"][g] \in {"lock", "use"} /\ held[g] = c

(***************************************************************************)
(* As long as a connection is up and nobody is closing it, its             *)
(* subscription has been written on it, is still queued, or is in the      *)
(* hands of a writeLoop, possibly one of an earlier generation; the only   *)
(* exception is a sendCh that was full when it was queued (Run, writeLoop, *)
(* Send).                                                                  *)
(***************************************************************************)
SubscriptionNotLost ==
  runPc = "select" /\ conn # 0 /\ sock[conn] = "open" /\ mu = "free"
    => Carried(conn)

-----------------------------------------------------------------------------
(***************************************************************************)
(* The inductive invariant behind the safety properties.                   *)
(***************************************************************************)
(* mu is held exactly by a Close that has a connection to close.           *)
LockInv ==
  /\ \A p \in Closers : op[p] \in {"frame", "drop"} <=> mu = p
  /\ mu # "free" => conn # 0

(* c.conn is nil or the newest connection, and names every open socket.    *)
ConnInv ==
  /\ conn # 0 => conn = gen
  /\ \A g \in Gens : sock[g] \in {"open", "broken"} => conn = g

(* closed means that c.conn is nil or about to be, and that alive is       *)
(* false, except between a dial and the stores that follow it.             *)
ClosedInv ==
  /\ closed /\ mu = "free" /\ runPc \notin {"storeAlive", "storeClosed"}
       => conn = 0
  /\ closed /\ runPc # "storeClosed" => ~alive

(* What Run's Close achieves, wherever Run goes from there.                *)
RunInv ==
  /\ op["run"] # "idle" => runPc \in {"closing", "closingErr"}
  /\ op["run"] # "send"
  /\ runPc \in {"closing", "closingErr"} /\ op["run"] # "close" => closed
  /\ runPc \in {"closing", "closingErr"} /\ op["run"] = "idle" => conn = 0
  /\ runPc \in Down => conn = 0 /\ ~alive

(* The retry counter counts the dials that failed in a row.                *)
RetryInv ==
  /\ retry <= MaxReconnect /\ (~Reconnect => retry = 0)
  /\ runPc \in {"storeAlive", "storeClosed"} => fails = 0
  /\ runPc \notin {"storeAlive", "storeClosed", "returned"} => fails = retry
  /\ runPc = "returned" /\ ~ctxDone => fails = retry + 1 /\ GiveUp

(* A connection that is up and not being closed is marked alive.           *)
UpInv ==
  runPc \in {"storeClosed", "handler", "select"} /\ conn # 0 /\ mu = "free"
    => alive

IInv ==
  /\ TypeOK /\ GenStarted /\ LockInv /\ ConnInv /\ ClosedInv /\ RunInv
  /\ RetryInv /\ UpInv /\ SubscriptionNotLost

-----------------------------------------------------------------------------
(***************************************************************************)
(* No goroutine dereferences a nil connection: a missing connection is an  *)
(* error that is reported, as writeMessage does (readLoop, writeMessage).  *)
(***************************************************************************)
NoCrash == ~crashed

(***************************************************************************)
(* The nil check of writeMessage holds until the connection is used.       *)
(***************************************************************************)
CheckedConnIsUsable ==
  \A k \in Kinds, g \in Gens : sender[k][g] = "use" => conn # 0

(***************************************************************************)
(* Without cfg.Reconnect an error ends Run: its error case calls OnClose   *)
(* and returns (Run).                                                      *)
(***************************************************************************)
NoRedialAfterError ==
  [][runPc = "closingErr" /\ runPc' # runPc /\ ~Reconnect
       => runPc' = "returned"]_vars

(***************************************************************************)
(* The end of the context ends Run, whatever it is doing (Run).            *)
(***************************************************************************)
CancelStopsRun == ctxDone ~> (runPc = "returned" \/ crashed)

(***************************************************************************)
(* When Run has returned, the readLoop, writeLoop and pingLoop of every    *)
(* generation end.                                                         *)
(***************************************************************************)
NoGoroutineLeak ==
  runPc = "returned" ~> (LoopsEnded \/ crashed)

(***************************************************************************)
(* Run does not keep waiting on a connection that is gone, whether the     *)
(* peer dropped it or a caller closed it (readLoop, Run).                  *)
(***************************************************************************)
DeadConnectionNoticed ==
  \A g \in Gens :
    runPc = "select" /\ gen = g /\ sock[g] # "open"
      ~> (runPc # "select" \/ crashed)
=============================================================================
