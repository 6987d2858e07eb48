--------------------------- MODULE WSClientProofs ---------------------------
(***************************************************************************)
(* Proofs about the reconnecting client, for every set of callers, every   *)
(* number of generations and every configuration.                          *)
(***************************************************************************)
EXTENDS WSClient, TLAPS

(***************************************************************************)
(* The non-blocking send on sendCh keeps its type and its capacity.        *)
(***************************************************************************)
LEMMA QueuedType ==
  ASSUME sendCh \in Seq(0..MaxGen), Len(sendCh) <= SendCap,
         NEW m \in 0..MaxGen
  PROVE  Queued(m) \in Seq(0..MaxGen) /\ Len(Queued(m)) <= SendCap
<1>1. Append(sendCh, m) \in Seq(0..MaxGen) /\ Len(Append(sendCh, m)) = Len(sendCh) + 1
  OBVIOUS
<1>2. Len(sendCh) \in Nat
  OBVIOUS
<1>3. CASE Len(sendCh) < SendCap
  BY <1>1, <1>2, <1>3, BoundsAssumption DEF Queued
<1>4. CASE ~(Len(sendCh) < SendCap)
  BY <1>4 DEF Queued
<1> QED
  BY <1>3, <1>4

(***************************************************************************)
(* Moving one writeLoop or pingLoop keeps the type of sender.              *)
(***************************************************************************)
LEMMA SenderType ==
  ASSUME sender \in [Kinds -> [Gens -> SenderPcs]],
         NEW k \in Kinds, NEW g \in Gens, NEW pc \in SenderPcs
  PROVE  [sender EXCEPT ![k][g] = pc] \in [Kinds -> [Gens -> SenderPcs]]
OBVIOUS

(***************************************************************************)
(* Every step keeps the types and the capacity of sendCh.                  *)
(***************************************************************************)
LEMMA TypeOKStep == TypeOK /\ GenStarted /\ [Next]_vars => TypeOK'
<1> SUFFICES ASSUME TypeOK, GenStarted, [Next]_vars PROVE TypeOK'
  OBVIOUS
<1> USE UsersAssumption, BoundsAssumption, ConfigAssumption
    DEF TypeOK, GenStarted, Gens, Closers, Kinds, RunPcs, ReaderPcs, SenderPcs
<1>1. CASE RunTop
  <2>1. RunTypes'
    BY <1>1 DEF RunTop, RunTypes, runVars
  <2>2. CallTypes'
    BY <1>1 DEF RunTop, CallTypes
  <2> QED
    BY <1>1, <2>1, <2>2 DEF RunTop, ConnTypes, connVars, ChanTypes, chanVars, LoopTypes, loopVars
<1>2. CASE DialOk
  <2>1. RunTypes'
    BY <1>2 DEF DialOk, RunTypes, runVars
  <2>2. ConnTypes'
    BY <1>2 DEF DialOk, ConnTypes, connVars, RunTypes
  <2>3. CallTypes'
    BY <1>2 DEF DialOk, CallTypes
  <2> QED
    BY <1>2, <2>1, <2>2, <2>3 DEF DialOk, ChanTypes, chanVars, LoopTypes, loopVars
<1>3. CASE DialFail
  <2>1. RunTypes'
    BY <1>3 DEF DialFail, GiveUp, RunTypes, runVars
  <2>2. CallTypes'
    BY <1>3 DEF DialFail, GiveUp, CallTypes
  <2> QED
    BY <1>3, <2>1, <2>2 DEF DialFail, ConnTypes, connVars, ChanTypes, chanVars, LoopTypes, loopVars
<1>4. CASE RunBackoff
  <2>1. RunTypes'
    BY <1>4 DEF RunBackoff, RunTypes, runVars
  <2>2. CallTypes'
    BY <1>4 DEF RunBackoff, CallTypes
  <2> QED
    BY <1>4, <2>1, <2>2 DEF RunBackoff, ConnTypes, connVars, ChanTypes, chanVars, LoopTypes, loopVars
<1>5. CASE StoreAlive
  <2>1. RunTypes'
    BY <1>5 DEF StoreAlive, RunTypes, runVars
  <2>2. ConnTypes'
    BY <1>5 DEF StoreAlive, ConnTypes, connVars
  <2>3. CallTypes'
    BY <1>5 DEF StoreAlive, CallTypes
  <2> QED
    BY <1>5, <2>1, <2>2, <2>3 DEF StoreAlive, ChanTypes, chanVars, LoopTypes, loopVars
<1>6. CASE StoreClosed
  <2>1. RunTypes'
    BY <1>6 DEF StoreClosed, RunTypes, runVars
  <2>2. ConnTypes'
    BY <1>6 DEF StoreClosed, ConnTypes, connVars
  <2>3. CallTypes'
    BY <1>6 DEF StoreClosed, CallTypes
  <2> QED
    BY <1>6, <2>1, <2>2, <2>3 DEF StoreClosed, ChanTypes, chanVars, LoopTypes, loopVars
<1>7. CASE OpenAndSpawn
  <2>1. RunTypes'
    BY <1>7 DEF OpenAndSpawn, Queued, RunTypes, runVars
  <2>2. ChanTypes'
    <3>1. gen \in 0..MaxGen
      BY DEF RunTypes
    <3>2. Queued(gen) \in Seq(0..MaxGen) /\ Len(Queued(gen)) <= SendCap
      BY <3>1, QueuedType DEF ChanTypes
    <3> QED
      BY <1>7, <3>2 DEF OpenAndSpawn, ChanTypes
  <2>3. LoopTypes'
    BY <1>7 DEF OpenAndSpawn, Queued, LoopTypes, loopVars
  <2>4. CallTypes'
    BY <1>7 DEF OpenAndSpawn, CallTypes, RunTypes
  <2> QED
    BY <1>7, <2>1, <2>2, <2>3, <2>4 DEF OpenAndSpawn, ConnTypes, connVars
<1>8. CASE RunSelect
  <2>1. RunTypes'
    BY <1>8 DEF RunSelect, SelectCtx, SelectCtrl, SelectErr, RunTypes, runVars
  <2>2. ChanTypes'
    BY <1>8 DEF RunSelect, SelectCtx, SelectCtrl, SelectErr, ChanTypes, chanVars
  <2>3. CallTypes'
    BY <1>8 DEF RunSelect, SelectCtx, SelectCtrl, SelectErr, CallTypes
  <2> QED
    BY <1>8, <2>1, <2>2, <2>3 DEF RunSelect, ConnTypes, connVars, LoopTypes, loopVars
<1>9. CASE RunClosed
  <2>1. RunTypes'
    BY <1>9 DEF RunClosed, CancelGeneration, RunTypes, runVars
  <2>2. ChanTypes'
    BY <1>9 DEF RunClosed, CancelGeneration, ChanTypes, chanVars
  <2>3. LoopTypes'
    <3>1. gen \in Gens
      BY <1>9 DEF RunClosed, RunTypes
    <3>2. cancelled' \subseteq Gens
      BY <1>9, <3>1 DEF RunClosed, CancelGeneration, LoopTypes
    <3> QED
      BY <1>9, <3>2 DEF RunClosed, LoopTypes
  <2>4. CallTypes'
    BY <1>9 DEF RunClosed, CancelGeneration, CallTypes
  <2> QED
    BY <1>9, <2>1, <2>2, <2>3, <2>4 DEF RunClosed, ConnTypes, connVars
<1>10. CASE RunDelay
  <2>1. RunTypes'
    BY <1>10 DEF RunDelay, CancelGeneration, RunTypes, runVars
  <2>2. ChanTypes'
    BY <1>10 DEF RunDelay, CancelGeneration, ChanTypes, chanVars
  <2>3. LoopTypes'
    BY <1>10 DEF RunDelay, CancelGeneration, LoopTypes, RunTypes
  <2>4. CallTypes'
    BY <1>10 DEF RunDelay, CancelGeneration, CallTypes
  <2> QED
    BY <1>10, <2>1, <2>2, <2>3, <2>4 DEF RunDelay, ConnTypes, connVars
<1>11. ASSUME NEW p \in Closers, CloseBegin(p) PROVE TypeOK'
  <2>1. ConnTypes'
    BY <1>11 DEF CloseBegin, ConnTypes, connVars
  <2>2. CallTypes'
    BY <1>11 DEF CloseBegin, CallTypes
  <2> QED
    BY <1>11, <2>1, <2>2 DEF CloseBegin, RunTypes, runVars, ChanTypes, chanVars, LoopTypes, loopVars
<1>12. ASSUME NEW p \in Closers, CloseFrame(p) PROVE TypeOK'
  <2>1. CallTypes'
    BY <1>12 DEF CloseFrame, CallTypes
  <2> QED
    BY <1>12, <2>1 DEF CloseFrame, RunTypes, runVars, ConnTypes, connVars, ChanTypes, chanVars, LoopTypes, loopVars
<1>13. ASSUME NEW p \in Closers, CloseConn(p) PROVE TypeOK'
  <2>1. ConnTypes'
    <3>1. sock' \in [Gens -> {"none", "open", "broken", "closed"}]
      BY <1>13 DEF CloseConn, ConnTypes
    <3> QED
      BY <1>13, <3>1 DEF CloseConn, ConnTypes
  <2>2. CallTypes'
    BY <1>13 DEF CloseConn, CallTypes
  <2> QED
    BY <1>13, <2>1, <2>2 DEF CloseConn, RunTypes, runVars, ChanTypes, chanVars, LoopTypes, loopVars
<1>14. ASSUME NEW u \in Users, CallClose(u) PROVE TypeOK'
  <2>1. CallTypes'
    BY <1>14 DEF CallClose, CallTypes
  <2> QED
    BY <1>14, <2>1 DEF CallClose, RunTypes, runVars, ConnTypes, connVars, ChanTypes, chanVars, LoopTypes, loopVars
<1>15. ASSUME NEW u \in Users, CallSend(u) PROVE TypeOK'
  <2>1. CallTypes'
    BY <1>15 DEF CallSend, CallTypes
  <2> QED
    BY <1>15, <2>1 DEF CallSend, RunTypes, runVars, ConnTypes, connVars, ChanTypes, chanVars, LoopTypes, loopVars
<1>16. ASSUME NEW u \in Users, SendPush(u) PROVE TypeOK'
  <2>1. ChanTypes'
    <3>1. Queued(0) \in Seq(0..MaxGen) /\ Len(Queued(0)) <= SendCap
      BY QueuedType DEF ChanTypes
    <3> QED
      BY <1>16, <3>1 DEF SendPush, ChanTypes
  <2>2. CallTypes'
    BY <1>16 DEF SendPush, Queued, CallTypes
  <2> QED
    BY <1>16, <2>1, <2>2 DEF SendPush, RunTypes, runVars, ConnTypes, connVars, LoopTypes, loopVars
<1>17. CASE Reset
  <2>1. ChanTypes'
    BY <1>17 DEF Reset, ChanTypes, chanVars
  <2>2. CallTypes'
    BY <1>17 DEF Reset, CallTypes
  <2> QED
    BY <1>17, <2>1, <2>2 DEF Reset, RunTypes, runVars, ConnTypes, connVars, LoopTypes, loopVars
<1>18. ASSUME NEW g \in Gens, ReadBegin(g) PROVE TypeOK'
  <2>1. LoopTypes'
    <3>1. reader' \in [Gens -> ReaderPcs]
      BY <1>18 DEF ReadBegin, LoopTypes
    <3>2. rconn' \in [Gens -> 0..MaxGen]
      BY <1>18 DEF ReadBegin, LoopTypes, ConnTypes
    <3> QED
      BY <1>18, <3>1, <3>2 DEF ReadBegin, LoopTypes
  <2>2. CallTypes'
    BY <1>18 DEF ReadBegin, CallTypes
  <2> QED
    BY <1>18, <2>1, <2>2 DEF ReadBegin, RunTypes, runVars, ConnTypes, connVars, ChanTypes, chanVars
<1>19. ASSUME NEW g \in Gens, ReadMsg(g) PROVE TypeOK'
  <2>1. LoopTypes'
    <3>1. reader' \in [Gens -> ReaderPcs]
      <4>1. \A pc \in ReaderPcs : [reader EXCEPT ![g] = pc] \in [Gens -> ReaderPcs]
        BY DEF LoopTypes
      <4> QED
        BY <1>19, <4>1 DEF ReadMsg
    <3>2. rconn' \in [Gens -> 0..MaxGen]
      BY <1>19 DEF ReadMsg, LoopTypes
    <3> QED
      BY <1>19, <3>1, <3>2 DEF ReadMsg, LoopTypes
  <2>2. CallTypes'
    BY <1>19 DEF ReadMsg, CallTypes
  <2> QED
    BY <1>19, <2>1, <2>2 DEF ReadMsg, RunTypes, runVars, ConnTypes, connVars, ChanTypes, chanVars
<1>20. ASSUME NEW g \in Gens, ReadErr(g) PROVE TypeOK'
  <2>1. ChanTypes'
    BY <1>20 DEF ReadErr, ReportErr, ChanTypes, chanVars
  <2>2. LoopTypes'
    BY <1>20 DEF ReadErr, ReportErr, LoopTypes, loopVars
  <2>3. CallTypes'
    BY <1>20 DEF ReadErr, ReportErr, CallTypes
  <2> QED
    BY <1>20, <2>1, <2>2, <2>3 DEF ReadErr, RunTypes, runVars, ConnTypes, connVars
<1>21. ASSUME NEW k \in Kinds, NEW g \in Gens, SenderEnd(k, g) PROVE TypeOK'
  <2>1. LoopTypes'
    BY <1>21 DEF SenderEnd, LoopTypes, loopVars
  <2>2. CallTypes'
    BY <1>21 DEF SenderEnd, CallTypes
  <2> QED
    BY <1>21, <2>1, <2>2 DEF SenderEnd, RunTypes, runVars, ConnTypes, connVars, ChanTypes, chanVars
<1>22. ASSUME NEW g \in Gens, WriterTake(g) PROVE TypeOK'
  <2>1. ChanTypes'
    BY <1>22 DEF WriterTake, ChanTypes, chanVars
  <2>2. LoopTypes'
    <3>1. held' \in [Gens -> 0..MaxGen]
      BY <1>22 DEF WriterTake, LoopTypes, ChanTypes
    <3>2. sender' \in [Kinds -> [Gens -> SenderPcs]]
      BY <1>22, SenderType DEF WriterTake, LoopTypes
    <3> QED
      BY <1>22, <3>1, <3>2 DEF WriterTake, LoopTypes
  <2>3. CallTypes'
    BY <1>22 DEF WriterTake, CallTypes
  <2> QED
    BY <1>22, <2>1, <2>2, <2>3 DEF WriterTake, RunTypes, runVars, ConnTypes, connVars
<1>23. ASSUME NEW g \in Gens, PingTick(g) PROVE TypeOK'
  <2>1. CallTypes'
    BY <1>23 DEF PingTick, CallTypes
  <2> QED
    BY <1>23, <2>1 DEF PingTick, RunTypes, runVars, ConnTypes, connVars, ChanTypes, chanVars, LoopTypes, loopVars
<1>24. ASSUME NEW k \in Kinds, NEW g \in Gens, WriteLock(k, g) PROVE TypeOK'
  <2>1. ChanTypes'
    BY <1>24 DEF WriteLock, ReportErr, ChanTypes, chanVars
  <2>2. LoopTypes'
    <3>1. sender' \in [Kinds -> [Gens -> SenderPcs]]
      <4>1. \A pc \in SenderPcs :
              [sender EXCEPT ![k][g] = pc] \in [Kinds -> [Gens -> SenderPcs]]
        BY SenderType DEF LoopTypes
      <4> QED
        BY <1>24, <4>1 DEF WriteLock
    <3> QED
      BY <1>24, <3>1 DEF WriteLock, LoopTypes
  <2>3. CallTypes'
    BY <1>24 DEF WriteLock, ReportErr, CallTypes
  <2> QED
    BY <1>24, <2>1, <2>2, <2>3 DEF WriteLock, RunTypes, runVars, ConnTypes, connVars
<1>25. ASSUME NEW k \in Kinds, NEW g \in Gens, WriteUse(k, g) PROVE TypeOK'
  <2>1. ChanTypes'
    BY <1>25 DEF WriteUse, ReportErr, AfterWrite, OtherBeat, ChanTypes, chanVars
  <2>2. LoopTypes'
    <3>1. sender' \in [Kinds -> [Gens -> SenderPcs]]
      <4>1. \A pc \in SenderPcs :
              [sender EXCEPT ![k][g] = pc] \in [Kinds -> [Gens -> SenderPcs]]
        BY SenderType DEF LoopTypes
      <4>2. AfterWrite(k, g) \in SenderPcs
        BY DEF AfterWrite
      <4>3. \/ sender' = sender
            \/ sender' = [sender EXCEPT ![k][g] = "done"]
            \/ sender' = [sender EXCEPT ![k][g] = AfterWrite(k, g)]
        BY <1>25 DEF WriteUse
      <4>4. [sender EXCEPT ![k][g] = "done"] \in [Kinds -> [Gens -> SenderPcs]]
        BY SenderType DEF LoopTypes
      <4>5. [sender EXCEPT ![k][g] = AfterWrite(k, g)]
              \in [Kinds -> [Gens -> SenderPcs]]
        BY <4>2, SenderType DEF LoopTypes
      <4>6. CASE sender' = sender
        BY <4>6 DEF LoopTypes
      <4>7. CASE sender' = [sender EXCEPT ![k][g] = "done"]
        BY <4>4, <4>7
      <4>8. CASE sender' = [sender EXCEPT ![k][g] = AfterWrite(k, g)]
        BY <4>5, <4>8
      <4> QED
        BY <4>3, <4>6, <4>7, <4>8
    <3>2. held' \in [Gens -> 0..MaxGen]
      BY <1>25 DEF WriteUse, LoopTypes
    <3>3. beat' \in [Gens -> {"ping", "text"}]
      BY <1>25 DEF WriteUse, OtherBeat, LoopTypes
    <3> QED
      BY <1>25, <3>1, <3>2, <3>3 DEF WriteUse, LoopTypes
  <2>3. CallTypes'
    <3>1. got' \subseteq Gens
      BY <1>25 DEF WriteUse, CallTypes, ConnTypes
    <3>2. crashed' \in BOOLEAN
      BY <1>25 DEF WriteUse, CallTypes
    <3> QED
      BY <1>25, <3>1, <3>2 DEF WriteUse, CallTypes
  <2> QED
    BY <1>25, <2>1, <2>2, <2>3 DEF WriteUse, RunTypes, runVars, ConnTypes, connVars
<1>26. ASSUME NEW g \in Gens, Break(g) PROVE TypeOK'
  <2>1. ConnTypes'
    BY <1>26 DEF Break, ConnTypes, connVars
  <2>2. CallTypes'
    BY <1>26 DEF Break, CallTypes
  <2> QED
    BY <1>26, <2>1, <2>2 DEF Break, RunTypes, runVars, ChanTypes, chanVars, LoopTypes, loopVars
<1>27. CASE Cancel
  <2>1. RunTypes'
    BY <1>27 DEF Cancel, RunTypes, runVars
  <2>2. CallTypes'
    BY <1>27 DEF Cancel, CallTypes
  <2> QED
    BY <1>27, <2>1, <2>2 DEF Cancel, ConnTypes, connVars, ChanTypes, chanVars, LoopTypes, loopVars
<1>28. CASE UNCHANGED vars
  BY <1>28 DEF vars, runVars, connVars, chanVars, loopVars, RunTypes, ConnTypes, ChanTypes, LoopTypes,
     CallTypes
<1> QED
  BY <1>1, <1>2, <1>3, <1>4, <1>5, <1>6, <1>7, <1>8, <1>9, <1>10, <1>11,
     <1>12, <1>13, <1>14, <1>15, <1>16, <1>17, <1>18, <1>19, <1>20, <1>21,
     <1>22, <1>23, <1>24, <1>25, <1>26, <1>27, <1>28
  DEF Next, RunStep, CloseStep, CallerStep, ReaderStep, SenderStep, Outside,
      Halted
(***************************************************************************)
(* The part of the invariant that speaks of Run, Close and the connection. *)
(***************************************************************************)
CoreInv ==
  /\ GenStarted /\ LockInv /\ ConnInv /\ ClosedInv /\ RunInv
  /\ RetryInv /\ UpInv

core == <<runVars, connVars, op>>

(***************************************************************************)
(* The loops of the generations and the callers' Reset leave that part of  *)
(* the state alone.                                                        *)
(***************************************************************************)
LEMMA LoopsKeepCore ==
  /\ Reset => UNCHANGED core
  /\ \A g \in Gens :
       /\ ReaderStep(g) \/ ReadMsg(g) \/ PingTick(g) => UNCHANGED core
       /\ \A k \in Kinds : SenderStep(k, g) => UNCHANGED core
BY DEF Reset, ReaderStep, ReadBegin, ReadErr, ReadMsg, PingTick, SenderStep,
       SenderEnd, WriterTake, WriteLock, WriteUse, core, runVars, connVars

LEMMA CoreStep == TypeOK /\ CoreInv /\ [Next]_vars => CoreInv'
<1> SUFFICES ASSUME TypeOK, CoreInv, [Next]_vars PROVE CoreInv'
  OBVIOUS
<1> USE UsersAssumption, BoundsAssumption, ConfigAssumption
    DEF TypeOK, RunTypes, ConnTypes, CallTypes, CoreInv, GenStarted, LockInv,
        ConnInv, ClosedInv, RunInv, RetryInv, UpInv, Gens, Closers, Down,
        RunPcs, GiveUp, runVars, connVars
<1>1. CASE RunTop
  BY <1>1 DEF RunTop
<1>2. CASE DialOk
  BY <1>2 DEF DialOk
<1>3. CASE DialFail
  BY <1>3 DEF DialFail
<1>4. CASE RunBackoff
  BY <1>4 DEF RunBackoff
<1>5. CASE StoreAlive
  BY <1>5 DEF StoreAlive
<1>6. CASE StoreClosed
  BY <1>6 DEF StoreClosed
<1>7. CASE OpenAndSpawn
  BY <1>7 DEF OpenAndSpawn
<1>8. CASE RunSelect
  BY <1>8 DEF RunSelect, SelectCtx, SelectCtrl, SelectErr
<1>9. CASE RunClosed
  BY <1>9 DEF RunClosed
<1>10. CASE RunDelay
  BY <1>10 DEF RunDelay
<1>11. ASSUME NEW p \in Closers, CloseBegin(p) PROVE CoreInv'
  BY <1>11 DEF CloseBegin
<1>12. ASSUME NEW p \in Closers, CloseFrame(p) PROVE CoreInv'
  BY <1>12 DEF CloseFrame
<1>13. ASSUME NEW p \in Closers, CloseConn(p) PROVE CoreInv'
  BY <1>13 DEF CloseConn
<1>14. ASSUME NEW u \in Users, CallClose(u) PROVE CoreInv'
  BY <1>14 DEF CallClose
<1>15. ASSUME NEW u \in Users, CallSend(u) PROVE CoreInv'
  BY <1>15 DEF CallSend
<1>16. ASSUME NEW u \in Users, SendPush(u) PROVE CoreInv'
  BY <1>16 DEF SendPush
<1>17. ASSUME NEW g \in Gens, Break(g) PROVE CoreInv'
  BY <1>17 DEF Break
<1>18. CASE Cancel
  BY <1>18 DEF Cancel
<1>20. CASE UNCHANGED core
  BY <1>20 DEF core
<1> QED
  BY <1>1, <1>2, <1>3, <1>4, <1>5, <1>6, <1>7, <1>8, <1>9, <1>10,
     <1>11, <1>12, <1>13, <1>14, <1>15, <1>16, <1>17, <1>18, <1>20, LoopsKeepCore
  DEF Next, RunStep, CloseStep, CallerStep, Outside, Halted, vars, core

(***************************************************************************)
(* A step that leaves the queue, the writers and the history alone keeps   *)
(* the subscription where it is.                                           *)
(***************************************************************************)
LEMMA CarriedFrame ==
  ASSUME UNCHANGED <<sendCh, got, refused, sender, held>>, NEW c, Carried(c)
  PROVE  Carried(c)'
BY DEF Carried

LEMMA SubscriptionStep ==
  TypeOK /\ CoreInv /\ SubscriptionNotLost /\ [Next]_vars => SubscriptionNotLost'
<1> SUFFICES ASSUME TypeOK, CoreInv, SubscriptionNotLost, [Next]_vars,
                    runPc' = "select", conn' # 0, sock'[conn'] = "open",
                    mu' = "free"
             PROVE  Carried(conn)'
  BY DEF SubscriptionNotLost
<1> USE UsersAssumption, BoundsAssumption, ConfigAssumption
<1>0. conn \in 0..MaxGen /\ gen \in 0..MaxGen /\ sendCh \in Seq(0..MaxGen)
  BY DEF TypeOK, ConnTypes, RunTypes, ChanTypes
<1>1. ~RunStep \/ OpenAndSpawn
  BY DEF RunStep, RunTop, DialOk, DialFail, RunBackoff, StoreAlive, StoreClosed,
         RunSelect, SelectCtx, SelectCtrl, SelectErr, RunClosed, RunDelay
<1>2. CASE OpenAndSpawn
  <2>1. conn = gen /\ conn # 0 /\ alive /\ conn' = conn
    BY <1>2 DEF OpenAndSpawn, CoreInv, ConnInv, UpInv, connVars
  <2>2. CASE Len(sendCh) < SendCap
    <3>1. sendCh' = Append(sendCh, conn)
      BY <1>2, <2>1, <2>2 DEF OpenAndSpawn, Queued
    <3>2. Len(sendCh) + 1 \in 1..Len(sendCh') /\ sendCh'[Len(sendCh) + 1] = conn
      BY <3>1, <1>0
    <3> QED
      BY <2>1, <3>2 DEF Carried
  <2>3. CASE ~(Len(sendCh) < SendCap)
    BY <1>2, <2>1, <2>3 DEF OpenAndSpawn, Carried
  <2> QED
    BY <2>2, <2>3
<1>3. ASSUME NEW p \in Closers, CloseStep(p) PROVE Carried(conn)'
  <2>1. UNCHANGED <<runPc, conn, sock, sendCh, got, refused, sender, held>>
    BY <1>3 DEF CloseStep, CloseBegin, CloseFrame, CloseConn, runVars, connVars,
                chanVars, loopVars
  <2>2. mu = "free"
    BY <1>3, <2>1 DEF CloseStep, CloseBegin, CloseFrame, CloseConn, connVars
  <2> QED
    BY <2>1, <2>2, CarriedFrame DEF SubscriptionNotLost
<1>4. ASSUME UNCHANGED <<runPc, conn, mu, sendCh, got, refused, sender, held>>,
             sock[conn] = "open"
      PROVE  Carried(conn)'
  BY <1>4, CarriedFrame DEF SubscriptionNotLost
<1>5. ASSUME NEW u \in Users, SendPush(u) PROVE Carried(conn)'
  <2>1. UNCHANGED <<runPc, conn, mu, sock, got, refused, sender, held>>
    BY <1>5 DEF SendPush, runVars, connVars, loopVars
  <2>2. Carried(conn)
    BY <2>1 DEF SubscriptionNotLost
  <2>3. sendCh' = sendCh \/ sendCh' = Append(sendCh, 0)
    BY <1>5 DEF SendPush, Queued
  <2>4. \A i \in 1..Len(sendCh) : i \in 1..Len(sendCh') /\ sendCh'[i] = sendCh[i]
    BY <2>3, <1>0
  <2> QED
    BY <2>1, <2>2, <2>4 DEF Carried
<1>6. ASSUME NEW g \in Gens, WriterTake(g) PROVE Carried(conn)'
  <2>1. UNCHANGED <<runPc, conn, mu, sock, got, refused>>
    BY <1>6 DEF WriterTake, runVars, connVars
  <2>2. Carried(conn)
    BY <2>1 DEF SubscriptionNotLost
  <2>3. /\ sender'["write"][g] = "lock" /\ held'[g] = sendCh[1]
        /\ \A h \in Gens \ {g} : /\ sender'["write"][h] = sender["write"][h]
                                /\ held'[h] = held[h]
    BY <1>6 DEF WriterTake, TypeOK, LoopTypes, Kinds
  <2>4. \A i \in 1..Len(sendCh) :
          i = 1 \/ (i - 1 \in 1..Len(sendCh') /\ sendCh'[i - 1] = sendCh[i])
    BY <1>6, <1>0 DEF WriterTake
  <2>5. CASE conn \in got \cup refused
    BY <2>1, <2>5 DEF Carried
  <2>6. ASSUME NEW i \in 1..Len(sendCh), sendCh[i] = conn PROVE Carried(conn)'
    BY <2>1, <2>3, <2>4, <2>6 DEF Carried
  <2>7. ASSUME NEW h \in Gens, sender["write"][h] \in {"lock", "use"}, held[h] = conn
        PROVE  Carried(conn)'
    BY <1>6, <2>1, <2>3, <2>7 DEF Carried, WriterTake
  <2> QED
    BY <2>2, <2>5, <2>6, <2>7 DEF Carried
<1>7. ASSUME NEW k \in Kinds, NEW g \in Gens,
             SenderEnd(k, g) \/ WriteLock(k, g) \/ PingTick(g)
      PROVE  Carried(conn)'
  <2>1. UNCHANGED <<runPc, conn, mu, sock, got, refused, held, sendCh>>
    BY <1>7 DEF SenderEnd, WriteLock, PingTick, runVars, connVars, chanVars
  <2>2. Carried(conn)
    BY <2>1 DEF SubscriptionNotLost
  <2>3. \A h \in Gens : sender["write"][h] \in {"lock", "use"}
                          => sender'["write"][h] \in {"lock", "use"}
    BY <1>7, <2>1 DEF SenderEnd, WriteLock, PingTick, TypeOK, LoopTypes, Kinds
  <2> QED
    BY <2>1, <2>2, <2>3 DEF Carried
<1>8. ASSUME NEW k \in Kinds, NEW g \in Gens, WriteUse(k, g)
      PROVE  Carried(conn)'
  <2>1. UNCHANGED <<runPc, conn, mu, sock, refused, sendCh>>
    BY <1>8 DEF WriteUse, runVars, connVars
  <2>2. Carried(conn) /\ sock[conn] = "open"
    BY <2>1 DEF SubscriptionNotLost
  <2>3. /\ got \subseteq got'
        /\ k = "write" /\ held[g] = conn => conn \in got'
    BY <1>8, <2>1, <2>2 DEF WriteUse
  <2>4. \A h \in Gens : k = "ping" \/ h # g
          => sender'["write"][h] = sender["write"][h] /\ held'[h] = held[h]
    BY <1>8, <2>1, <2>2 DEF WriteUse, TypeOK, LoopTypes, Kinds
  <2> QED
    BY <2>1, <2>2, <2>3, <2>4 DEF Carried, Kinds
<1>9. CASE \/ UNCHANGED vars \/ Reset \/ Cancel
           \/ \E u \in Users : CallClose(u) \/ CallSend(u)
           \/ \E g \in Gens : ReaderStep(g) \/ ReadMsg(g)
  <2>1. UNCHANGED <<runPc, conn, mu, sock, sendCh, got, refused, sender, held>>
    BY <1>9 DEF vars, Reset, Cancel, CallClose, CallSend, ReaderStep, ReadBegin,
                ReadErr, ReadMsg, runVars, connVars, chanVars, loopVars
  <2> QED
    BY <2>1, <1>4
<1>10. ASSUME NEW g \in Gens, Break(g) PROVE Carried(conn)'
  <2>1. UNCHANGED <<runPc, conn, mu, sendCh, got, refused, sender, held>>
    BY <1>10 DEF Break, runVars, chanVars, loopVars
  <2>2. sock[conn] = "open"
    BY <1>10, <1>0, <2>1 DEF Break, TypeOK, ConnTypes, Gens
  <2> QED
    BY <2>1, <2>2, <1>4
<1>11. "ping" \in Kinds
  BY DEF Kinds
<1> QED
  BY <1>1, <1>2, <1>3, <1>5, <1>6, <1>7, <1>8, <1>9, <1>10, <1>11
  DEF Next, CallerStep, SenderStep, Outside, Halted

-----------------------------------------------------------------------------
(***************************************************************************)
(* IInv holds initially and is kept by every step.                         *)
(***************************************************************************)
THEOREM Invariance == Spec => []IInv
<1>1. Init => IInv
  <2> SUFFICES ASSUME Init PROVE IInv
    OBVIOUS
  <2> USE UsersAssumption, BoundsAssumption, ConfigAssumption DEF Init
  <2>1. TypeOK
    <3>0. /\ ctxDone \in BOOLEAN /\ alive \in BOOLEAN /\ closed \in BOOLEAN
          /\ ctrlCh \in BOOLEAN
      BY Zenon
    <3>1. RunTypes
      BY <3>0 DEF RunTypes, RunPcs
    <3>2. ConnTypes
      BY <3>0 DEF ConnTypes
    <3>3. ChanTypes
      <4>1. <<>> \in Seq(0..MaxGen) /\ Len(<<>>) = 0
        OBVIOUS
      <4> QED
        BY <3>0, <4>1 DEF ChanTypes
    <3>4. LoopTypes
      BY DEF LoopTypes, ReaderPcs, SenderPcs
    <3>5. CallTypes
      BY DEF CallTypes
    <3> QED
      BY <3>1, <3>2, <3>3, <3>4, <3>5 DEF TypeOK
  <2>2. GenStarted /\ ConnInv /\ ClosedInv /\ UpInv /\ SubscriptionNotLost
    BY DEF GenStarted, ConnInv, ClosedInv, UpInv, SubscriptionNotLost
  <2>3. LockInv /\ RunInv
    BY DEF LockInv, RunInv, Closers, Down
  <2>4. RetryInv
    BY DEF RetryInv
  <2> QED
    BY <2>1, <2>2, <2>3, <2>4 DEF IInv
<1>2. IInv /\ [Next]_vars => IInv'
  BY TypeOKStep, CoreStep, SubscriptionStep DEF IInv, CoreInv
<1> QED
  BY <1>1, <1>2, PTL DEF Spec

(***************************************************************************)
(* The variables keep their types and sendCh its capacity.                 *)
(***************************************************************************)
THEOREM TypeCorrect == Spec => []TypeOK
<1>1. IInv => TypeOK
  BY DEF IInv
<1> QED
  BY <1>1, Invariance, PTL

(***************************************************************************)
(* Run never dials, sleeps or returns with a socket still open, and no     *)
(* socket is ever left without a reference (Run, connect, Close).          *)
(***************************************************************************)
THEOREM SocketsAreClosed == Spec => []NoLeakedSocket
<1>1. IInv => NoLeakedSocket
  <2> SUFFICES ASSUME IInv, NEW g \in Gens, sock[g] \in {"open", "broken"}
               PROVE  conn = g /\ runPc \notin Down
    BY DEF NoLeakedSocket
  <2>1. conn = g /\ g # 0
    BY DEF IInv, ConnInv, Gens
  <2> QED
    BY <2>1 DEF IInv, RunInv
<1> QED
  BY <1>1, Invariance, PTL

(***************************************************************************)
(* IsAlive is false whenever Run has no connection (Run, Close, Send).     *)
(***************************************************************************)
THEOREM AliveMeansConnected == Spec => []DownIsNotAlive
<1>1. IInv => DownIsNotAlive
  BY DEF IInv, RunInv, DownIsNotAlive
<1> QED
  BY <1>1, Invariance, PTL

(***************************************************************************)
(* Run gives up only after the configured number of failed dials in a row. *)
(***************************************************************************)
THEOREM GivingUp == Spec => []GivesUpOnlyAfterRetries
<1>1. IInv => GivesUpOnlyAfterRetries
  BY ConfigAssumption
  DEF IInv, TypeOK, RunTypes, RetryInv, GiveUp, GivesUpOnlyAfterRetries
<1> QED
  BY <1>1, Invariance, PTL

(***************************************************************************)
(* The subscription of an open connection is never lost between OnOpen or  *)
(* OnReconnect and the socket, whichever generation's writeLoop takes it,  *)
(* unless sendCh was full when it was queued.                              *)
(***************************************************************************)
THEOREM SubscriptionsSurvive == Spec => []SubscriptionNotLost
<1>1. IInv => SubscriptionNotLost
  BY DEF IInv
<1> QED
  BY <1>1, Invariance, PTL
=============================================================================
