--------------------------- MODULE TradeFeedProofs ---------------------------
(***************************************************************************)
(* Proofs about received messages (WSMessages) and the events made of them *)
(* (TradeFeed), for any number of generations, workers and messages and    *)
(* any capacity of the two channels.                                       *)
(***************************************************************************)
EXTENDS TradeFeed, TLAPS

(***************************************************************************)
(* A generation that Run has not started has neither reader nor workers.   *)
(* A worker holds a message exactly while it is in OnMessage.              *)
(***************************************************************************)
WorkInv ==
  /\ \A g \in Gens : g > gen => reader[g] = "off"
  /\ \A w \in Workers : w[1] > gen => worker[w] = "off"
  /\ \A w \in Workers : job[w] # 0 <=> worker[w] = "busy"
  /\ \A w \in Workers : job[w] # 0 => job[w] \in Range(taken)
  /\ \A v, w \in Workers : job[v] = job[w] /\ job[v] # 0 => v = w

(***************************************************************************)
(* Messages of one reader are queued in the order in which they came, the  *)
(* one in its hand is the newest.  A reader that has made room finds the   *)
(* queue full only if another reader has filled it.                        *)
(***************************************************************************)
Ascending(q) ==
  \A i, j \in 1..Len(q) : i < j /\ source[q[i]] = source[q[j]] => q[i] < q[j]

OrderInv ==
  /\ \A m \in 1..received : source[m] \in Gens
  /\ \A g \in Gens : hand[g] # 0 =>
       source[hand[g]] = g /\ \A m \in InQueue : source[m] = g => m < hand[g]
  /\ Ascending(msgCh)
  /\ \A g \in Gens : reader[g] = "repush" /\ ~Room => \E m \in InQueue : source[m] # g

MessagesInv == TypeOK /\ EachMessageInOnePlace /\ WorkInv /\ OrderInv

(***************************************************************************)
(* The events, with what is lost among what is handled.                    *)
(***************************************************************************)
EventRecords == [msg : Messages, type : {"trade", "order", "unknown"}, parsed : BOOLEAN]

EventsInv ==
  /\ kindOf \in [Messages -> MsgKinds]
  /\ eventCh \in Seq(EventRecords) /\ Len(eventCh) <= EventCap /\ consumed \in Seq(EventRecords)
  /\ lostEvents \subseteq Handled
  /\ EventsComplete

FeedInv == MessagesInv /\ EventsInv

-----------------------------------------------------------------------------
(***************************************************************************)
(* Sequences.                                                              *)
(***************************************************************************)
Distinct(s) == \A i, j \in 1..Len(s) : s[i] = s[j] => i = j

LEMMA AppendFacts ==
  ASSUME NEW S, NEW s \in Seq(S), NEW m \in S
  PROVE  /\ Append(s, m) \in Seq(S) /\ Len(s) \in Nat /\ Len(Append(s, m)) = Len(s) + 1
         /\ \A i \in 1..Len(s) : Append(s, m)[i] = s[i]
         /\ Append(s, m)[Len(s) + 1] = m
         /\ \A i \in 1..Len(Append(s, m)) : i \in 1..Len(s) \/ i = Len(s) + 1
         /\ Range(Append(s, m)) = Range(s) \cup {m}
         /\ Distinct(s) /\ m \notin Range(s) => Distinct(Append(s, m))
<1> DEFINE t == Append(s, m)
<1>1. /\ t \in Seq(S) /\ Len(s) \in Nat /\ Len(t) = Len(s) + 1
      /\ \A i \in 1..Len(s) : t[i] = s[i]
      /\ t[Len(s) + 1] = m
  OBVIOUS
<1> HIDE DEF t
<1>2. /\ \A i \in 1..Len(t) : i \in 1..Len(s) \/ i = Len(s) + 1
      /\ \A i \in 1..Len(s) : i \in 1..Len(t)
      /\ Len(s) + 1 \in 1..Len(t)
  BY <1>1
<1>3. Range(t) \subseteq Range(s) \cup {m}
  BY <1>1, <1>2 DEF Range
<1>4. Range(s) \cup {m} \subseteq Range(t)
  BY <1>1, <1>2 DEF Range
<1>5. Distinct(s) /\ m \notin Range(s) => Distinct(t)
  <2> SUFFICES ASSUME Distinct(s), m \notin Range(s), NEW i \in 1..Len(t), NEW j \in 1..Len(t), t[i] = t[j]
               PROVE  i = j
    BY DEF Distinct
  <2>1. \A k \in 1..Len(s) : t[k] # m
    BY <1>1 DEF Range
  <2>2. QED
    BY <1>1, <1>2, <2>1 DEF Distinct
<1>6. QED
  BY <1>1, <1>2, <1>3, <1>4, <1>5 DEF t

LEMMA TailFacts ==
  ASSUME NEW S, NEW s \in Seq(S), s # <<>>
  PROVE  /\ Tail(s) \in Seq(S) /\ Len(s) \in Nat /\ Len(Tail(s)) = Len(s) - 1 /\ Len(s) >= 1
         /\ \A i \in 1..Len(Tail(s)) : Tail(s)[i] = s[i + 1] /\ i + 1 \in 1..Len(s)
         /\ Head(s) = s[1] /\ 1 \in 1..Len(s) /\ Head(s) \in S /\ Head(s) \in Range(s)
         /\ Range(Tail(s)) \subseteq Range(s)
         /\ Distinct(s) => Distinct(Tail(s)) /\ Range(Tail(s)) = Range(s) \ {Head(s)}
         /\ Ascending(s) => Ascending(Tail(s))
<1> DEFINE t == Tail(s)
<1>1. /\ t \in Seq(S) /\ Len(s) \in Nat /\ Len(t) = Len(s) - 1 /\ Len(s) >= 1
      /\ \A i \in 1..Len(t) : t[i] = s[i + 1]
      /\ Head(s) = s[1] /\ Head(s) \in S
  OBVIOUS
<1> HIDE DEF t
<1>2. /\ \A i \in 1..Len(t) : i + 1 \in 1..Len(s)
      /\ \A i \in 1..Len(s) : i # 1 => i - 1 \in 1..Len(t) /\ t[i - 1] = s[i]
      /\ 1 \in 1..Len(s) /\ \A i \in 1..Len(t) : i + 1 # 1
  BY <1>1
<1>3. Range(t) \subseteq Range(s) /\ Head(s) \in Range(s)
  BY <1>1, <1>2 DEF Range
<1>4. ASSUME Distinct(s)
      PROVE  Distinct(t) /\ Range(t) = Range(s) \ {Head(s)}
  <2>1. Distinct(t)
    BY <1>1, <1>2, <1>4 DEF Distinct
  <2>2. Head(s) \notin Range(t)
    <3> SUFFICES ASSUME NEW i \in 1..Len(t), t[i] = s[1]
                 PROVE  FALSE
      BY <1>1 DEF Range
    <3>1. i + 1 = 1
      BY <1>1, <1>2, <1>4 DEF Distinct
    <3>2. QED
      BY <3>1
  <2>3. Range(s) \subseteq Range(t) \cup {Head(s)}
    <3> SUFFICES ASSUME NEW i \in 1..Len(s), i # 1
                 PROVE  s[i] \in Range(t)
      BY <1>1 DEF Range
    <3>1. QED
      BY <1>2 DEF Range
  <2>4. QED
    BY <1>3, <2>1, <2>2, <2>3
<1>5. ASSUME Ascending(s)
      PROVE  Ascending(t)
  <2> SUFFICES ASSUME NEW i \in 1..Len(t), NEW j \in 1..Len(t), i < j, source[t[i]] = source[t[j]]
               PROVE  t[i] < t[j]
    BY DEF Ascending
  <2>1. i + 1 < j + 1 /\ t[i] = s[i + 1] /\ t[j] = s[j + 1] /\ i + 1 \in 1..Len(s) /\ j + 1 \in 1..Len(s)
    BY <1>1, <1>2
  <2>2. QED
    BY <1>5, <2>1 DEF Ascending
<1>6. QED
  BY <1>1, <1>2, <1>3, <1>4, <1>5 DEF t

-----------------------------------------------------------------------------
LEMMA ConstFacts ==
  /\ MaxGen \in Nat \ {0} /\ WorkerNum \in Nat \ {0} /\ MsgCap \in Nat \ {0} /\ MaxMsgs \in Nat
  /\ Gens = 1..MaxGen /\ Messages = 1..MaxMsgs /\ 0 \notin Messages /\ 0 \notin Gens
  /\ \A w \in Workers : w[1] \in Gens
BY BoundsAssumption DEF Gens, Messages, Workers

LEMMA PlaceTypes ==
  ASSUME TypeOK
  PROVE  /\ InHand \subseteq Messages /\ InQueue \subseteq Messages /\ Range(taken) \subseteq Messages
         /\ \A g \in Gens : hand[g] # 0 => hand[g] \in Messages
<1>1. \A g \in Gens : hand[g] # 0 => hand[g] \in Messages
  BY ConstFacts DEF TypeOK
<1>2. InQueue \subseteq Messages /\ Range(taken) \subseteq Messages
  BY DEF TypeOK, InQueue, Range
<1>3. QED
  BY <1>1, <1>2 DEF InHand

(***************************************************************************)
(* Steps that move no message.                                             *)
(***************************************************************************)
LEMMA OneKept ==
  ASSUME EachMessageInOnePlace, UNCHANGED <<hand, msgCh, taken, received, dropped, abandoned>>
  PROVE  EachMessageInOnePlace'
<1>1. InHand' = InHand /\ InQueue' = InQueue /\ Range(taken)' = Range(taken)
  BY DEF InHand, InQueue, Range
<1>2. QED
  BY <1>1 DEF EachMessageInOnePlace

LEMMA OrderKept ==
  ASSUME OrderInv, UNCHANGED <<hand, msgCh, received, source>>,
         \A g \in Gens : reader'[g] = "repush" => reader[g] = "repush"
  PROVE  OrderInv'
BY DEF OrderInv, InQueue, Range, Ascending, Room

LEMMA RunInv ==
  ASSUME MessagesInv, RunStep
  PROVE  MessagesInv'
<1>1. TypeOK /\ EachMessageInOnePlace /\ WorkInv /\ OrderInv
  BY DEF MessagesInv
<1>2. UNCHANGED <<rconn, hand, msgCh, job, taken, received, source, dropped, abandoned>>
  BY DEF RunStep, StartGeneration, CloseConn, CancelGeneration, ContextEnds, readVars, workVars, arrivals, lost
<1>3. CASE StartGeneration
  <2>1. /\ gen + 1 \in Gens /\ gen \in Nat /\ gen' = gen + 1 /\ conn' = gen + 1
        /\ reader[gen + 1] = "off" /\ reader' = [reader EXCEPT ![gen + 1] = "top"]
        /\ \A w \in Workers : w[1] = gen + 1 => worker[w] = "off"
        /\ \A w \in Workers : worker'[w] = IF w[1] = gen + 1 THEN "select" ELSE worker[w]
        /\ worker' = [w \in Workers |-> worker'[w]]
        /\ UNCHANGED <<ctxDone, cancelled>>
    <3>1. /\ gen < MaxGen /\ gen' = gen + 1 /\ conn' = gen + 1
          /\ reader' = [reader EXCEPT ![gen + 1] = "top"]
          /\ worker' = [w \in Workers |-> IF w[1] = gen + 1 THEN "select" ELSE worker[w]]
          /\ UNCHANGED <<ctxDone, cancelled>>
      BY <1>3 DEF StartGeneration
    <3>2. gen \in Nat /\ gen + 1 \in Gens /\ gen + 1 > gen
      BY <1>1, <3>1, ConstFacts DEF TypeOK
    <3>3. reader[gen + 1] = "off" /\ \A w \in Workers : w[1] = gen + 1 => worker[w] = "off"
      BY <1>1, <3>2 DEF WorkInv
    <3>4. QED
      BY <3>1, <3>2, <3>3
  <2>2. TypeOK'
    <3>1. gen' \in 0..MaxGen /\ conn' \in 0..gen'
      BY <2>1, ConstFacts
    <3>2. /\ reader' \in [Gens -> {"off", "top", "reading", "push", "drop", "repush", "done"}]
          /\ \A g \in Gens : (hand[g] # 0) <=> (reader'[g] \in {"push", "drop", "repush"})
      BY <1>1, <2>1 DEF TypeOK
    <3>3. worker' \in [Workers -> {"off", "select", "busy", "done"}]
      BY <1>1, <2>1 DEF TypeOK
    <3>4. QED
      BY <1>1, <1>2, <2>1, <3>1, <3>2, <3>3 DEF TypeOK
  <2>3. WorkInv'
    <3>1. \A g \in Gens : g > gen' => reader'[g] = "off"
      <4>1. ASSUME NEW g \in Gens, g > gen'
            PROVE  reader'[g] = "off"
        <5>1. g > gen /\ g # gen + 1
          BY <2>1, <4>1, ConstFacts
        <5>2. QED
          BY <1>1, <2>1, <5>1 DEF WorkInv, TypeOK
      <4>2. QED
        BY <4>1
    <3>2. \A w \in Workers : w[1] > gen' => worker'[w] = "off"
      BY <1>1, <2>1, ConstFacts DEF WorkInv
    <3>3. \A w \in Workers : job[w] # 0 <=> worker'[w] = "busy"
      BY <1>1, <2>1 DEF WorkInv
    <3>4. QED
      BY <1>1, <1>2, <3>1, <3>2, <3>3 DEF WorkInv
  <2>4. \A g \in Gens : reader'[g] = "repush" => reader[g] = "repush"
    BY <1>1, <2>1 DEF TypeOK
  <2>5. QED
    BY <1>1, <1>2, <2>2, <2>3, <2>4, OneKept, OrderKept DEF MessagesInv
<1>4. CASE CloseConn \/ CancelGeneration \/ ContextEnds
  <2>1. UNCHANGED <<gen, reader, worker>>
    BY <1>4 DEF CloseConn, CancelGeneration, ContextEnds, readVars, workVars
  <2>2. conn' \in 0..gen /\ ctxDone' \in BOOLEAN /\ cancelled' \subseteq Gens
    <3>1. gen \in Nat /\ conn \in 0..gen /\ (gen > 0 => gen \in Gens) /\ ctxDone \in BOOLEAN /\ cancelled \subseteq Gens
      BY <1>1, ConstFacts DEF TypeOK
    <3>2. CASE CloseConn
      BY <3>1, <3>2 DEF CloseConn
    <3>3. CASE CancelGeneration
      BY <3>1, <3>3 DEF CancelGeneration
    <3>4. CASE ContextEnds
      BY <3>1, <3>4 DEF ContextEnds
    <3>5. QED
      BY <1>4, <3>2, <3>3, <3>4
  <2>3. TypeOK'
    BY <1>1, <1>2, <2>1, <2>2 DEF TypeOK
  <2>4. WorkInv'
    BY <1>1, <1>2, <2>1 DEF WorkInv
  <2>5. QED
    BY <1>1, <1>2, <2>1, <2>3, <2>4, OneKept, OrderKept DEF MessagesInv
<1>5. QED
  BY <1>3, <1>4 DEF RunStep

(***************************************************************************)
(* A reader goes on without a message.                                     *)
(***************************************************************************)
LEMMA ReaderMovesInv ==
  ASSUME MessagesInv, NEW g \in Gens, ReadBegin(g) \/ ReadErr(g) \/ Overflow(g)
  PROVE  MessagesInv'
<1>1. TypeOK /\ EachMessageInOnePlace /\ WorkInv /\ OrderInv
  BY DEF MessagesInv
<1>2. UNCHANGED <<gen, conn, ctxDone, cancelled, hand, msgCh, worker, job, taken, received, source, dropped, abandoned>>
  BY DEF ReadBegin, ReadErr, Overflow, runVars, workVars, arrivals, lost
<1>3. PICK k \in {"reading", "done", "drop"} :
        /\ reader' = [reader EXCEPT ![g] = k] /\ reader[g] \in {"top", "reading", "push"}
        /\ reader[g] = "push" <=> k = "drop"
  BY DEF ReadBegin, ReadErr, Overflow
<1>4. rconn' \in [Gens -> 0..MaxGen]
  <2>1. conn \in 0..MaxGen /\ 0 \in 0..MaxGen /\ rconn \in [Gens -> 0..MaxGen]
    BY <1>1, ConstFacts DEF TypeOK
  <2>2. QED
    BY <2>1 DEF ReadBegin, ReadErr, Overflow
<1>5. /\ reader' \in [Gens -> {"off", "top", "reading", "push", "drop", "repush", "done"}]
      /\ \A f \in Gens : (hand[f] # 0) <=> (reader'[f] \in {"push", "drop", "repush"})
      /\ \A f \in Gens : reader'[f] = "repush" => reader[f] = "repush"
      /\ \A f \in Gens : reader[f] = "off" => reader'[f] = "off"
  BY <1>1, <1>3 DEF TypeOK
<1>6. TypeOK'
  BY <1>1, <1>2, <1>4, <1>5 DEF TypeOK
<1>7. WorkInv'
  BY <1>1, <1>2, <1>5 DEF WorkInv
<1>8. QED
  BY <1>1, <1>2, <1>5, <1>6, <1>7, OneKept, OrderKept DEF MessagesInv

(***************************************************************************)
(* ReadMessage returns.                                                    *)
(***************************************************************************)
LEMMA ReadMsgInv ==
  ASSUME MessagesInv, NEW g \in Gens, ReadMsg(g)
  PROVE  MessagesInv'
<1> DEFINE m == received + 1
<1>1. TypeOK /\ EachMessageInOnePlace /\ WorkInv /\ OrderInv
  BY DEF MessagesInv
<1>2. /\ reader[g] = "reading" /\ received < MaxMsgs /\ received' = m
      /\ source' = [source EXCEPT ![m] = g] /\ hand' = [hand EXCEPT ![g] = m]
      /\ reader' = [reader EXCEPT ![g] = "push"]
      /\ rconn' = [rconn EXCEPT ![g] = 0]
      /\ UNCHANGED <<gen, conn, ctxDone, cancelled, msgCh, worker, job, taken, dropped, abandoned>>
  BY DEF ReadMsg, runVars, workVars, lost
<1>3. received \in Nat /\ m \in Messages /\ hand[g] = 0 /\ m \notin 1..received /\ m # 0
  <2>1. received \in Nat
    BY <1>1 DEF TypeOK
  <2>2. hand[g] = 0
    BY <1>1, <1>2 DEF TypeOK
  <2>3. QED
    BY <1>2, <2>1, <2>2, ConstFacts
<1>4. /\ hand'[g] = m /\ \A f \in Gens : f # g => hand'[f] = hand[f]
      /\ source'[m] = g /\ \A n \in 1..received : source'[n] = source[n]
      /\ 1..m = 1..received \cup {m}
  <2>1. hand'[g] = m /\ \A f \in Gens : f # g => hand'[f] = hand[f]
    BY <1>1, <1>2 DEF TypeOK
  <2>2. source'[m] = g /\ \A n \in Messages : n # m => source'[n] = source[n]
    BY <1>1, <1>2, <1>3 DEF TypeOK
  <2>3. \A n \in 1..received : n \in Messages /\ n # m
    BY <1>2, <1>3, ConstFacts
  <2>4. 1..m = 1..received \cup {m}
    BY <1>3
  <2>5. QED
    BY <2>1, <2>2, <2>3, <2>4
<1>5. /\ InQueue' = InQueue /\ Range(taken)' = Range(taken) /\ InHand' = InHand \cup {m}
      /\ InHand \subseteq 1..received /\ InQueue \subseteq 1..received /\ Range(taken) \subseteq 1..received
      /\ dropped \subseteq 1..received /\ abandoned \subseteq 1..received
  <2>1. InQueue' = InQueue /\ Range(taken)' = Range(taken)
    BY <1>2 DEF InQueue, Range
  <2>2. InHand' = InHand \cup {m}
    BY <1>3, <1>4 DEF InHand
  <2>3. QED
    BY <1>1, <2>1, <2>2 DEF EachMessageInOnePlace
<1>6. TypeOK'
  <2>1. /\ reader' \in [Gens -> {"off", "top", "reading", "push", "drop", "repush", "done"}]
        /\ \A f \in Gens : (hand'[f] # 0) <=> (reader'[f] \in {"push", "drop", "repush"})
    BY <1>1, <1>2, <1>3, <1>4 DEF TypeOK
  <2>2. hand' \in [Gens -> 0..MaxMsgs] /\ rconn' \in [Gens -> 0..MaxGen] /\ received' \in 0..MaxMsgs
    <3>1. m \in 0..MaxMsgs /\ received' = m
      BY <1>2, <1>3, ConstFacts
    <3>2. hand \in [Gens -> 0..MaxMsgs] /\ rconn \in [Gens -> 0..MaxGen]
      BY <1>1 DEF TypeOK
    <3> HIDE DEF m
    <3>3. hand' \in [Gens -> 0..MaxMsgs]
      BY <1>2, <3>1, <3>2
    <3>4. 0 \in 0..MaxGen
      BY ConstFacts
    <3>5. rconn' \in [Gens -> 0..MaxGen]
      BY <1>2, <3>2, <3>4
    <3>6. QED
      BY <3>1, <3>3, <3>5, Zenon
  <2>3. source' \in [Messages -> 0..MaxGen]
    BY <1>1, <1>2, ConstFacts DEF TypeOK
  <2>4. QED
    BY <1>1, <1>2, <2>1, <2>2, <2>3 DEF TypeOK
<1>7. EachMessageInOnePlace'
  <2>1. \A e, f \in Gens : hand'[e] = hand'[f] /\ hand'[e] # 0 => e = f
    <3>1. \A f \in Gens : f # g => hand[f] # m
      BY <1>3, <1>5 DEF InHand
    <3>2. QED
      BY <1>1, <1>4, <3>1 DEF EachMessageInOnePlace
  <2>2. (InHand \cup {m}) \cup InQueue \cup Range(taken) \cup dropped \cup abandoned = 1..m
    BY <1>1, <1>4 DEF EachMessageInOnePlace
  <2>3. (InHand \cup {m}) \cap (InQueue \cup Range(taken) \cup dropped \cup abandoned) = {}
    BY <1>1, <1>3, <1>5 DEF EachMessageInOnePlace
  <2>4. QED
    BY <1>1, <1>2, <1>5, <2>1, <2>2, <2>3 DEF EachMessageInOnePlace
<1>8. WorkInv'
  <2>1. \A f \in Gens : f > gen => reader'[f] = "off"
    BY <1>1, <1>2 DEF WorkInv, TypeOK
  <2>2. QED
    BY <1>1, <1>2, <1>5, <2>1 DEF WorkInv
<1>9. OrderInv'
  <2>1. \A n \in 1..received' : source'[n] \in Gens
    BY <1>1, <1>2, <1>4 DEF OrderInv
  <2>2. \A n \in InQueue : source'[n] = source[n] /\ n < m
    BY <1>3, <1>4, <1>5
  <2>3. \A f \in Gens : hand'[f] # 0 =>
          source'[hand'[f]] = f /\ \A n \in InQueue : source'[n] = f => n < hand'[f]
    <3> SUFFICES ASSUME NEW f \in Gens, hand'[f] # 0
                 PROVE  source'[hand'[f]] = f /\ \A n \in InQueue : source'[n] = f => n < hand'[f]
      OBVIOUS
    <3>1. CASE f = g
      BY <1>4, <2>2, <3>1
    <3>2. CASE f # g
      <4>1. hand'[f] = hand[f] /\ hand[f] \in InHand
        BY <1>4, <3>2 DEF InHand
      <4>2. source'[hand[f]] = source[hand[f]]
        BY <1>4, <1>5, <4>1
      <4>3. QED
        BY <1>1, <2>2, <4>1, <4>2 DEF OrderInv
    <3>3. QED
      BY <3>1, <3>2
  <2>4. Ascending(msgCh)'
    <3>1. \A i \in 1..Len(msgCh) : source'[msgCh[i]] = source[msgCh[i]]
      BY <2>2 DEF InQueue, Range
    <3>2. QED
      BY <1>1, <1>2, <3>1 DEF OrderInv, Ascending
  <2>5. \A f \in Gens : reader'[f] = "repush" => reader[f] = "repush"
    BY <1>1, <1>2 DEF TypeOK
  <2>6. QED
    BY <1>1, <1>2, <1>5, <2>1, <2>2, <2>3, <2>4, <2>5 DEF OrderInv, Room
<1>10. QED
  BY <1>6, <1>7, <1>8, <1>9 DEF MessagesInv

(***************************************************************************)
(* The message in a reader's hand leaves it.                               *)
(***************************************************************************)
LEMMA HandFacts ==
  ASSUME TypeOK, EachMessageInOnePlace, NEW g \in Gens, NEW k \in {"top", "done"},
         reader[g] \in {"push", "drop", "repush"},
         hand' = [hand EXCEPT ![g] = 0], reader' = [reader EXCEPT ![g] = k]
  PROVE  /\ hand[g] \in Messages /\ hand[g] \in InHand /\ InHand' = InHand \ {hand[g]}
         /\ hand'[g] = 0 /\ \A f \in Gens : f # g => hand'[f] = hand[f] /\ reader'[f] = reader[f]
         /\ \A e, f \in Gens : hand'[e] = hand'[f] /\ hand'[e] # 0 => e = f
         /\ hand' \in [Gens -> 0..MaxMsgs]
         /\ reader' \in [Gens -> {"off", "top", "reading", "push", "drop", "repush", "done"}]
         /\ \A f \in Gens : (hand'[f] # 0) <=> (reader'[f] \in {"push", "drop", "repush"})
         /\ \A f \in Gens : reader'[f] = "repush" => reader[f] = "repush" /\ f # g
         /\ \A f \in Gens : reader[f] = "off" => reader'[f] = "off"
<1>1. hand[g] # 0 /\ hand[g] \in Messages /\ hand[g] \in InHand
  <2>1. hand[g] # 0
    BY DEF TypeOK
  <2>2. QED
    BY <2>1, PlaceTypes DEF InHand
<1>2. hand'[g] = 0 /\ \A f \in Gens : f # g => hand'[f] = hand[f] /\ reader'[f] = reader[f]
  BY DEF TypeOK
<1>3. reader'[g] = k
  BY DEF TypeOK
<1>4. InHand' = InHand \ {hand[g]}
  <2>1. \A f \in Gens : f # g => hand[f] # hand[g]
    BY <1>1 DEF EachMessageInOnePlace
  <2>2. QED
    BY <1>1, <1>2, <2>1 DEF InHand
<1>5. \A e, f \in Gens : hand'[e] = hand'[f] /\ hand'[e] # 0 => e = f
  BY <1>2 DEF EachMessageInOnePlace
<1>6. hand' \in [Gens -> 0..MaxMsgs]
  BY ConstFacts DEF TypeOK
<1>7. reader' \in [Gens -> {"off", "top", "reading", "push", "drop", "repush", "done"}]
  BY DEF TypeOK
<1>8. \A f \in Gens : (hand'[f] # 0) <=> (reader'[f] \in {"push", "drop", "repush"})
  BY <1>2, <1>3 DEF TypeOK
<1>9. QED
  BY <1>1, <1>2, <1>3, <1>4, <1>5, <1>6, <1>7, <1>8

LEMMA EnqueueInv ==
  ASSUME MessagesInv, NEW g \in Gens, reader[g] \in {"push", "repush"}, Room, Enqueue(g, "top"),
         UNCHANGED <<runVars, rconn, workVars, arrivals>>
  PROVE  MessagesInv'
<1> DEFINE m == hand[g]
<1>1. TypeOK /\ EachMessageInOnePlace /\ WorkInv /\ OrderInv
  BY DEF MessagesInv
<1>2. /\ msgCh' = Append(msgCh, m) /\ hand' = [hand EXCEPT ![g] = 0] /\ reader' = [reader EXCEPT ![g] = "top"]
      /\ UNCHANGED <<gen, conn, ctxDone, cancelled, rconn, worker, job, taken, received, source, dropped, abandoned>>
  BY DEF Enqueue, runVars, workVars, arrivals, lost
<1>3. /\ m \in Messages /\ m \in InHand /\ InHand' = InHand \ {m}
      /\ hand'[g] = 0 /\ \A f \in Gens : f # g => hand'[f] = hand[f] /\ reader'[f] = reader[f]
      /\ \A e, f \in Gens : hand'[e] = hand'[f] /\ hand'[e] # 0 => e = f
      /\ hand' \in [Gens -> 0..MaxMsgs]
      /\ reader' \in [Gens -> {"off", "top", "reading", "push", "drop", "repush", "done"}]
      /\ \A f \in Gens : (hand'[f] # 0) <=> (reader'[f] \in {"push", "drop", "repush"})
      /\ \A f \in Gens : reader'[f] = "repush" => reader[f] = "repush" /\ f # g
      /\ \A f \in Gens : reader[f] = "off" => reader'[f] = "off"
  BY <1>1, <1>2, HandFacts
<1>4. m \notin InQueue /\ msgCh \in Seq(Messages) /\ Distinct(msgCh) /\ source[m] = g /\ m # 0
  BY <1>1, <1>3, ConstFacts DEF EachMessageInOnePlace, OrderInv, TypeOK, Distinct
<1> HIDE DEF m
<1>5. /\ msgCh' \in Seq(Messages) /\ Len(msgCh) \in Nat /\ Len(msgCh') = Len(msgCh) + 1
      /\ \A i \in 1..Len(msgCh) : msgCh'[i] = msgCh[i]
      /\ msgCh'[Len(msgCh) + 1] = m
      /\ \A i \in 1..Len(msgCh') : i \in 1..Len(msgCh) \/ i = Len(msgCh) + 1
      /\ InQueue' = InQueue \cup {m} /\ Distinct(msgCh)'
  <2>1. m \notin Range(msgCh)
    BY <1>4 DEF InQueue
  <2>2. Range(msgCh') = Range(msgCh) \cup {m} /\ Distinct(msgCh')
    BY <1>2, <1>3, <1>4, <2>1, AppendFacts
  <2>3. InQueue' = InQueue \cup {m} /\ Distinct(msgCh)'
    BY <2>2 DEF InQueue, Range, Distinct
  <2>4. QED
    BY <1>2, <1>3, <1>4, <2>3, AppendFacts
<1>6. Range(taken)' = Range(taken)
  BY <1>2 DEF Range
<1>7. TypeOK'
  <2>1. Len(msgCh') <= MsgCap
    BY <1>5, ConstFacts DEF Room
  <2>2. QED
    BY <1>1, <1>2, <1>3, <1>5, <2>1 DEF TypeOK
<1>8. EachMessageInOnePlace'
  BY <1>1, <1>2, <1>3, <1>5, <1>6 DEF EachMessageInOnePlace, Distinct
<1>9. WorkInv'
  BY <1>1, <1>2, <1>3, <1>6 DEF WorkInv
<1>10. OrderInv'
  <2>1. Ascending(msgCh)'
    <3> SUFFICES ASSUME NEW i \in 1..Len(msgCh'), NEW j \in 1..Len(msgCh'), i < j,
                        source[msgCh'[i]] = source[msgCh'[j]]
                 PROVE  msgCh'[i] < msgCh'[j]
      BY <1>2 DEF Ascending
    <3>1. i \in 1..Len(msgCh) /\ msgCh'[i] = msgCh[i] /\ msgCh[i] \in InQueue
      BY <1>5 DEF InQueue, Range
    <3>2. CASE j \in 1..Len(msgCh)
      BY <1>1, <1>5, <3>1, <3>2 DEF OrderInv, Ascending
    <3>3. CASE j = Len(msgCh) + 1
      BY <1>1, <1>4, <1>5, <3>1, <3>3 DEF OrderInv, m
    <3>4. QED
      BY <1>5, <3>2, <3>3
  <2>2. \A f \in Gens : hand'[f] # 0 =>
          source[hand'[f]] = f /\ \A n \in InQueue' : source[n] = f => n < hand'[f]
    BY <1>1, <1>3, <1>4, <1>5 DEF OrderInv
  <2>3. \A f \in Gens : reader'[f] = "repush" => m \in InQueue' /\ source[m] # f
    BY <1>3, <1>4, <1>5
  <2>4. QED
    BY <1>1, <1>2, <2>1, <2>2, <2>3 DEF OrderInv
<1>11. QED
  BY <1>7, <1>8, <1>9, <1>10 DEF MessagesInv

LEMMA LoseHandInv ==
  ASSUME MessagesInv, NEW g \in Gens, NEW k \in {"top", "done"}, reader[g] \in {"push", "repush"},
         hand' = [hand EXCEPT ![g] = 0], reader' = [reader EXCEPT ![g] = k],
         \/ dropped' = dropped \cup {hand[g]} /\ UNCHANGED abandoned
         \/ abandoned' = abandoned \cup {hand[g]} /\ UNCHANGED dropped,
         UNCHANGED <<runVars, rconn, msgCh, workVars, arrivals>>
  PROVE  MessagesInv'
<1> DEFINE m == hand[g]
<1>1. TypeOK /\ EachMessageInOnePlace /\ WorkInv /\ OrderInv
  BY DEF MessagesInv
<1>2. UNCHANGED <<gen, conn, ctxDone, cancelled, rconn, msgCh, worker, job, taken, received, source>>
  BY DEF runVars, workVars, arrivals
<1>3. /\ m \in Messages /\ m \in InHand /\ InHand' = InHand \ {m}
      /\ hand'[g] = 0 /\ \A f \in Gens : f # g => hand'[f] = hand[f] /\ reader'[f] = reader[f]
      /\ \A e, f \in Gens : hand'[e] = hand'[f] /\ hand'[e] # 0 => e = f
      /\ hand' \in [Gens -> 0..MaxMsgs]
      /\ reader' \in [Gens -> {"off", "top", "reading", "push", "drop", "repush", "done"}]
      /\ \A f \in Gens : (hand'[f] # 0) <=> (reader'[f] \in {"push", "drop", "repush"})
      /\ \A f \in Gens : reader'[f] = "repush" => reader[f] = "repush" /\ f # g
      /\ \A f \in Gens : reader[f] = "off" => reader'[f] = "off"
  BY <1>1, HandFacts
<1>4. InQueue' = InQueue /\ Range(taken)' = Range(taken)
  BY <1>2 DEF InQueue, Range
<1>5. TypeOK'
  BY <1>1, <1>2, <1>3 DEF TypeOK
<1>6. EachMessageInOnePlace'
  <2>1. CASE dropped' = dropped \cup {m} /\ UNCHANGED abandoned
    BY <1>1, <1>2, <1>3, <1>4, <2>1 DEF EachMessageInOnePlace
  <2>2. CASE abandoned' = abandoned \cup {m} /\ UNCHANGED dropped
    BY <1>1, <1>2, <1>3, <1>4, <2>2 DEF EachMessageInOnePlace
  <2>3. QED
    BY <2>1, <2>2
<1>7. WorkInv'
  BY <1>1, <1>2, <1>3, <1>4 DEF WorkInv
<1>8. OrderInv'
  BY <1>1, <1>2, <1>3, <1>4 DEF OrderInv, Ascending, Room
<1>9. QED
  BY <1>5, <1>6, <1>7, <1>8 DEF MessagesInv

(***************************************************************************)
(* The oldest message leaves the queue: to a worker, or on overflow.       *)
(***************************************************************************)
LEMMA HeadFacts ==
  ASSUME TypeOK, EachMessageInOnePlace, OrderInv, msgCh # <<>>, msgCh' = Tail(msgCh),
         UNCHANGED <<hand, received, source>>
  PROVE  /\ Head(msgCh) \in Messages /\ Head(msgCh) \in InQueue /\ InQueue' = InQueue \ {Head(msgCh)}
         /\ msgCh' \in Seq(Messages) /\ Len(msgCh') <= MsgCap /\ Room'
         /\ \A i, j \in 1..Len(msgCh') : msgCh'[i] = msgCh'[j] => i = j
         /\ OrderInv'
         /\ \A n \in InQueue : source[n] = source[Head(msgCh)] => Head(msgCh) <= n
<1>1. msgCh \in Seq(Messages) /\ Distinct(msgCh) /\ Ascending(msgCh) /\ Len(msgCh) <= MsgCap
  BY DEF TypeOK, EachMessageInOnePlace, OrderInv, Distinct
<1>2. /\ msgCh' \in Seq(Messages) /\ Len(msgCh) \in Nat /\ Len(msgCh') = Len(msgCh) - 1 /\ Len(msgCh) >= 1
      /\ Head(msgCh) = msgCh[1] /\ 1 \in 1..Len(msgCh) /\ Head(msgCh) \in Messages
      /\ Head(msgCh) \in Range(msgCh)
      /\ Distinct(msgCh') /\ Range(msgCh') = Range(msgCh) \ {Head(msgCh)}
      /\ Ascending(Tail(msgCh))
  BY <1>1, TailFacts
<1>3. Len(msgCh') <= MsgCap /\ Room'
  BY <1>1, <1>2, ConstFacts DEF Room
<1>4. InQueue' = InQueue \ {Head(msgCh)} /\ Head(msgCh) \in InQueue
  BY <1>2 DEF InQueue, Range
<1>5. Ascending(msgCh)'
  BY <1>2 DEF Ascending
<1>6. OrderInv'
  BY <1>3, <1>4, <1>5 DEF OrderInv
<1>7. \A n \in InQueue : source[n] = source[Head(msgCh)] => Head(msgCh) <= n
  <2> SUFFICES ASSUME NEW i \in 1..Len(msgCh), source[msgCh[i]] = source[msgCh[1]]
               PROVE  msgCh[1] <= msgCh[i]
    BY <1>2 DEF InQueue, Range
  <2>1. msgCh[1] \in Int /\ msgCh[i] \in Int
    BY <1>1, <1>2, ConstFacts
  <2>2. CASE i = 1
    BY <2>1, <2>2
  <2>3. CASE i # 1
    BY <1>1, <1>2, <2>1, <2>3 DEF Ascending
  <2>4. QED
    BY <2>2, <2>3
<1>8. QED
  BY <1>2, <1>3, <1>4, <1>6, <1>7 DEF Distinct

LEMMA DropOldInv ==
  ASSUME MessagesInv, NEW g \in Gens, DropOld(g)
  PROVE  MessagesInv'
<1>1. TypeOK /\ EachMessageInOnePlace /\ WorkInv /\ OrderInv
  BY DEF MessagesInv
<1>2. /\ reader[g] = "drop" /\ reader' = [reader EXCEPT ![g] = "repush"] /\ DropHead
      /\ UNCHANGED <<gen, conn, ctxDone, cancelled, rconn, hand, worker, job, taken, received, source, abandoned>>
  BY DEF DropOld, runVars, workVars, arrivals
<1>3. /\ reader' \in [Gens -> {"off", "top", "reading", "push", "drop", "repush", "done"}]
      /\ \A f \in Gens : (hand[f] # 0) <=> (reader'[f] \in {"push", "drop", "repush"})
      /\ \A f \in Gens : reader'[f] = "repush" => reader[f] = "repush" \/ f = g
      /\ \A f \in Gens : reader[f] = "off" => reader'[f] = "off"
  BY <1>1, <1>2 DEF TypeOK
<1>4. Range(taken)' = Range(taken) /\ InHand' = InHand
  BY <1>2 DEF Range, InHand
<1>5. WorkInv'
  BY <1>1, <1>2, <1>3, <1>4 DEF WorkInv
<1>6. CASE msgCh = <<>>
  <2>1. UNCHANGED <<msgCh, dropped>>
    BY <1>2, <1>6 DEF DropHead
  <2>2. TypeOK'
    BY <1>1, <1>2, <1>3, <2>1 DEF TypeOK
  <2>3. Room'
    BY <1>6, <2>1, ConstFacts DEF Room
  <2>4. InQueue' = InQueue
    BY <2>1 DEF InQueue, Range
  <2>5. OrderInv'
    BY <1>1, <1>2, <2>1, <2>3, <2>4 DEF OrderInv, Ascending
  <2>6. QED
    BY <1>1, <1>2, <1>5, <2>1, <2>2, <2>5, OneKept DEF MessagesInv
<1>7. CASE msgCh # <<>>
  <2>1. msgCh' = Tail(msgCh) /\ dropped' = dropped \cup {Head(msgCh)}
    BY <1>2, <1>7 DEF DropHead
  <2>2. /\ Head(msgCh) \in Messages /\ Head(msgCh) \in InQueue /\ InQueue' = InQueue \ {Head(msgCh)}
        /\ msgCh' \in Seq(Messages) /\ Len(msgCh') <= MsgCap
        /\ \A i, j \in 1..Len(msgCh') : msgCh'[i] = msgCh'[j] => i = j
        /\ OrderInv'
    BY <1>1, <1>2, <1>7, <2>1, HeadFacts
  <2>3. TypeOK'
    BY <1>1, <1>2, <1>3, <2>1, <2>2 DEF TypeOK
  <2>4. EachMessageInOnePlace'
    BY <1>1, <1>2, <1>4, <2>1, <2>2 DEF EachMessageInOnePlace
  <2>5. QED
    BY <1>5, <2>2, <2>3, <2>4 DEF MessagesInv
<1>8. QED
  BY <1>6, <1>7

LEMMA TakeFacts ==
  ASSUME TypeOK, EachMessageInOnePlace, msgCh # <<>>, taken' = Append(taken, Head(msgCh))
  PROVE  /\ taken' \in Seq(Messages) /\ Range(taken)' = Range(taken) \cup {Head(msgCh)}
         /\ \A i, j \in 1..Len(taken') : taken'[i] = taken'[j] => i = j
<1>1. /\ taken \in Seq(Messages) /\ Distinct(taken)
      /\ msgCh \in Seq(Messages)
  BY DEF TypeOK, EachMessageInOnePlace, Distinct
<1>2. Head(msgCh) \in Messages /\ Head(msgCh) \in InQueue
  BY <1>1, TailFacts DEF InQueue
<1>3. Head(msgCh) \notin Range(taken)
  BY <1>2 DEF EachMessageInOnePlace
<1>4. taken' \in Seq(Messages) /\ Range(taken') = Range(taken) \cup {Head(msgCh)} /\ Distinct(taken')
  BY <1>1, <1>2, <1>3, AppendFacts
<1>5. QED
  BY <1>4 DEF Distinct, Range

LEMMA TakeInv ==
  ASSUME MessagesInv, NEW w \in Workers, Take(w)
  PROVE  MessagesInv'
<1>1. TypeOK /\ EachMessageInOnePlace /\ WorkInv /\ OrderInv
  BY DEF MessagesInv
<1>2. /\ worker[w] = "select" /\ msgCh # <<>> /\ job' = [job EXCEPT ![w] = Head(msgCh)]
      /\ taken' = Append(taken, Head(msgCh)) /\ msgCh' = Tail(msgCh)
      /\ worker' = [worker EXCEPT ![w] = "busy"]
      /\ UNCHANGED <<gen, conn, ctxDone, cancelled, reader, rconn, hand, received, source, dropped, abandoned>>
  BY DEF Take, runVars, readVars, arrivals, lost
<1>3. /\ Head(msgCh) \in Messages /\ Head(msgCh) \in InQueue /\ InQueue' = InQueue \ {Head(msgCh)}
      /\ msgCh' \in Seq(Messages) /\ Len(msgCh') <= MsgCap
      /\ \A i, j \in 1..Len(msgCh') : msgCh'[i] = msgCh'[j] => i = j
      /\ OrderInv'
  BY <1>1, <1>2, HeadFacts
<1>4. /\ taken' \in Seq(Messages) /\ Range(taken)' = Range(taken) \cup {Head(msgCh)}
      /\ \A i, j \in 1..Len(taken') : taken'[i] = taken'[j] => i = j
      /\ InHand' = InHand
  BY <1>1, <1>2, TakeFacts DEF InHand
<1>5. /\ job'[w] = Head(msgCh) /\ worker'[w] = "busy"
      /\ \A v \in Workers : v # w => job'[v] = job[v] /\ worker'[v] = worker[v]
  BY <1>1, <1>2 DEF TypeOK
<1>6. TypeOK'
  <2>1. Head(msgCh) \in 0..MaxMsgs
    BY <1>3, ConstFacts
  <2>2. job' \in [Workers -> 0..MaxMsgs]
    BY <1>1, <1>2, <2>1 DEF TypeOK
  <2>3. worker' \in [Workers -> {"off", "select", "busy", "done"}]
    BY <1>1, <1>2 DEF TypeOK
  <2>4. QED
    BY <1>1, <1>2, <1>3, <1>4, <2>2, <2>3 DEF TypeOK
<1>7. EachMessageInOnePlace'
  BY <1>1, <1>2, <1>3, <1>4 DEF EachMessageInOnePlace
<1>8. WorkInv'
  <2>1. Head(msgCh) # 0 /\ Head(msgCh) \notin Range(taken)
    BY <1>1, <1>3, ConstFacts DEF EachMessageInOnePlace
  <2>2. \A v \in Workers : v[1] > gen => worker'[v] = "off"
    BY <1>1, <1>2, <1>5 DEF WorkInv
  <2>3. \A v \in Workers : job'[v] # 0 <=> worker'[v] = "busy"
    BY <1>1, <1>5, <2>1 DEF WorkInv
  <2>4. \A v \in Workers : job'[v] # 0 => job'[v] \in Range(taken)'
    BY <1>1, <1>4, <1>5 DEF WorkInv
  <2>5. \A u, v \in Workers : job'[u] = job'[v] /\ job'[u] # 0 => u = v
    BY <1>1, <1>5, <2>1 DEF WorkInv
  <2>6. QED
    BY <1>1, <1>2, <2>2, <2>3, <2>4, <2>5 DEF WorkInv
<1>9. QED
  BY <1>3, <1>6, <1>7, <1>8 DEF MessagesInv

LEMMA WorkerInv ==
  ASSUME MessagesInv, NEW w \in Workers, OnMessageReturns(w) \/ WorkerEnd(w)
  PROVE  MessagesInv'
<1>1. TypeOK /\ EachMessageInOnePlace /\ WorkInv /\ OrderInv
  BY DEF MessagesInv
<1>2. UNCHANGED <<gen, conn, ctxDone, cancelled, reader, rconn, hand, msgCh, taken, received, source, dropped, abandoned>>
  BY DEF OnMessageReturns, WorkerEnd, runVars, readVars, arrivals, lost
<1>3. /\ job'[w] = 0 /\ worker'[w] \in {"select", "done"} /\ worker[w] # "off"
      /\ \A v \in Workers : v # w => job'[v] = job[v] /\ worker'[v] = worker[v]
      /\ job' \in [Workers -> 0..MaxMsgs] /\ worker' \in [Workers -> {"off", "select", "busy", "done"}]
  <2>1. 0 \in 0..MaxMsgs
    BY ConstFacts
  <2>2. job \in [Workers -> 0..MaxMsgs] /\ worker \in [Workers -> {"off", "select", "busy", "done"}]
    BY <1>1 DEF TypeOK
  <2>3. CASE OnMessageReturns(w)
    BY <2>1, <2>2, <2>3 DEF OnMessageReturns, WorkerReturns
  <2>4. CASE WorkerEnd(w)
    <3>1. job[w] = 0 /\ job' = job
      BY <1>1, <2>4 DEF WorkerEnd, WorkInv
    <3>2. QED
      BY <2>2, <2>4, <3>1 DEF WorkerEnd
  <2>5. QED
    BY <2>3, <2>4
<1>4. TypeOK'
  BY <1>1, <1>2, <1>3 DEF TypeOK
<1>5. Range(taken)' = Range(taken)
  BY <1>2 DEF Range
<1>6. WorkInv'
  BY <1>1, <1>2, <1>3, <1>5 DEF WorkInv
<1>7. QED
  BY <1>1, <1>2, <1>4, <1>6, OneKept, OrderKept DEF MessagesInv

LEMMA MessagesStep ==
  ASSUME MessagesInv, [Next]_vars
  PROVE  MessagesInv'
<1>1. ASSUME NEW g \in Gens, Push(g)
      PROVE  MessagesInv'
  BY <1>1, EnqueueInv DEF Push
<1>2. ASSUME NEW g \in Gens, GiveUp(g)
      PROVE  MessagesInv'
  BY <1>2, LoseHandInv DEF GiveUp
<1>3. ASSUME NEW g \in Gens, Repush(g)
      PROVE  MessagesInv'
  <2>1. CASE Room
    BY <1>3, <2>1, EnqueueInv DEF Repush
  <2>2. CASE ~Room
    BY <1>3, <2>2, LoseHandInv DEF Repush
  <2>3. QED
    BY <2>1, <2>2
<1>4. CASE UNCHANGED vars
  <2>1. UNCHANGED <<gen, conn, ctxDone, cancelled, reader, rconn, hand, msgCh, worker, job, taken, received, source, dropped, abandoned>>
    BY <1>4 DEF vars, runVars, readVars, workVars, arrivals, lost
  <2>2. TypeOK'
    BY <2>1 DEF MessagesInv, TypeOK
  <2>3. WorkInv'
    BY <2>1 DEF MessagesInv, WorkInv, Range
  <2>4. QED
    BY <2>1, <2>2, <2>3, OneKept, OrderKept DEF MessagesInv
<1>5. QED
  BY <1>1, <1>2, <1>3, <1>4, RunInv, ReaderMovesInv, ReadMsgInv, DropOldInv, TakeInv, WorkerInv
     DEF Next, ReaderStep, WorkerStep

LEMMA MessagesInit ==
  ASSUME Init
  PROVE  MessagesInv
<1>1. /\ msgCh = <<>> /\ taken = <<>> /\ Range(msgCh) = {} /\ Range(taken) = {} /\ InHand = {}
      /\ msgCh \in Seq(Messages) /\ Len(msgCh) <= MsgCap /\ taken \in Seq(Messages) /\ Len(taken) = 0 /\ Len(msgCh) = 0
  BY ConstFacts DEF Init, Range, InHand
<1>2. TypeOK
  <2>1. /\ gen \in 0..MaxGen /\ conn \in 0..gen /\ received \in 0..MaxMsgs
        /\ source \in [Messages -> 0..MaxGen] /\ job \in [Workers -> 0..MaxMsgs]
        /\ rconn \in [Gens -> 0..MaxGen] /\ hand \in [Gens -> 0..MaxMsgs]
    BY ConstFacts DEF Init
  <2>2. QED
    BY <1>1, <2>1 DEF Init, TypeOK
<1>3. EachMessageInOnePlace
  BY <1>1 DEF Init, EachMessageInOnePlace, InQueue
<1>4. WorkInv
  BY DEF Init, WorkInv
<1>5. OrderInv
  BY <1>1 DEF Init, OrderInv, Ascending
<1>6. QED
  BY <1>2, <1>3, <1>4, <1>5 DEF MessagesInv

-----------------------------------------------------------------------------
(***************************************************************************)
(* TradeMonitor adds to the messages and changes nothing about them: its   *)
(* steps are steps of the WebSocket client or leave it alone.              *)
(***************************************************************************)
LEMMA FeedStep ==
  ASSUME [FeedNext]_feedVars
  PROVE  [Next]_vars
<1>1. CASE UNCHANGED feedVars
  BY <1>1 DEF feedVars
<1>2. ASSUME NEW w \in Workers, OnMessage(w)
      PROVE  Next
  BY <1>2 DEF OnMessage, Next, WorkerStep
<1>3. CASE Consume
  BY <1>3 DEF Consume
<1>4. QED
  BY <1>1, <1>2, <1>3 DEF FeedNext, Next, WorkerStep

(***************************************************************************)
(* Every behaviour of the trade monitor is one of the WebSocket client     *)
(* below it, so what holds of the client's messages holds here.            *)
(***************************************************************************)
THEOREM FeedIsClient == FeedSpec => Spec
<1>1. FeedInit => Init
  BY DEF FeedInit
<1>2. [FeedNext]_feedVars => [Next]_vars
  BY FeedStep
<1>3. QED
  BY <1>1, <1>2, PTL DEF FeedSpec, Spec

(***************************************************************************)
(* The inductive invariant of the client's messages: where each one is,    *)
(* who works on it, and the order within the queue (readLoop, messageLoop).*)
(***************************************************************************)
THEOREM MessagesAccounted == Spec => []MessagesInv
<1>1. Init => MessagesInv
  BY MessagesInit
<1>2. MessagesInv /\ [Next]_vars => MessagesInv'
  BY MessagesStep
<1>3. QED
  BY <1>1, <1>2, PTL DEF Spec

-----------------------------------------------------------------------------
(***************************************************************************)
(* The queue keeps the promise of DropOldest: each step of the client is a *)
(* step of it or leaves it alone.                                          *)
(***************************************************************************)
LEMMA PendingKept ==
  ASSUME UNCHANGED <<hand, msgCh, source>>
  PROVE  [f \in Gens |-> Pending(f)]' = [f \in Gens |-> Pending(f)]
<1>1. InQueue' = InQueue
  BY DEF InQueue, Range
<1>2. \A f \in Gens : Pending(f)' = Pending(f)
  BY <1>1 DEF Pending
<1>3. QED
  BY <1>2

LEMMA PendingRemoved ==
  ASSUME NEW g \in Gens, NEW m, m \in Pending(g), Pending(g)' = Pending(g) \ {m},
         \A f \in Gens : f # g => Pending(f)' = Pending(f)
  PROVE  Abstract!Remove(g, m)
BY DEF Abstract!Remove

LEMMA QueueSources ==
  ASSUME MessagesInv
  PROVE  /\ \A m \in InQueue : source[m] \in Gens /\ m \in Nat /\ m # 0 /\ m \in Pending(source[m])
         /\ \A g \in Gens : hand[g] # 0 =>
              hand[g] \in Nat /\ hand[g] \in Pending(g) /\ hand[g] \notin InQueue
              /\ \A n \in Pending(g) : n <= hand[g]
<1>1. TypeOK /\ EachMessageInOnePlace /\ OrderInv
  BY DEF MessagesInv
<1>2. InQueue \subseteq Messages /\ \A g \in Gens : hand[g] # 0 => hand[g] \in Messages
  BY <1>1, PlaceTypes
<1>3. InQueue \subseteq 1..received
  BY <1>1 DEF EachMessageInOnePlace
<1>4. \A m \in Messages : m \in Nat /\ m # 0
  BY ConstFacts
<1>5. \A m \in InQueue : source[m] \in Gens /\ m \in Nat /\ m # 0 /\ m \in Pending(source[m])
  BY <1>1, <1>2, <1>3, <1>4 DEF OrderInv, Pending
<1>6. ASSUME NEW g \in Gens, hand[g] # 0
      PROVE  /\ hand[g] \in Nat /\ hand[g] \in Pending(g) /\ hand[g] \notin InQueue
             /\ \A n \in Pending(g) : n <= hand[g]
  <2>1. hand[g] \in Nat /\ hand[g] \in Pending(g)
    BY <1>2, <1>4, <1>6 DEF Pending
  <2>2. hand[g] \in InHand
    BY <1>6 DEF InHand
  <2>3. hand[g] \notin InQueue
    BY <1>1, <2>2 DEF EachMessageInOnePlace
  <2>4. \A n \in InQueue : source[n] = g => n < hand[g]
    BY <1>1, <1>6 DEF OrderInv
  <2>5. \A n \in Pending(g) : n <= hand[g]
    BY <1>5, <2>1, <2>4 DEF Pending
  <2>6. QED
    BY <2>1, <2>3, <2>5
<1>7. QED
  BY <1>5, <1>6

LEMMA ArriveStep ==
  ASSUME MessagesInv, NEW g \in Gens, ReadMsg(g)
  PROVE  Abstract!Arrive(g)
<1> DEFINE m == received + 1
<1>1. TypeOK /\ EachMessageInOnePlace
  BY DEF MessagesInv
<1>2. /\ reader[g] = "reading" /\ received' = m /\ received < MaxMsgs
      /\ source' = [source EXCEPT ![m] = g] /\ hand' = [hand EXCEPT ![g] = m]
      /\ UNCHANGED <<cancelled, msgCh, taken>>
  BY DEF ReadMsg, runVars, workVars, lost
<1>3. received \in Nat /\ hand[g] = 0
  <2>1. received \in Nat
    BY <1>1 DEF TypeOK
  <2>2. QED
    BY <1>1, <1>2, <2>1 DEF TypeOK
<1>4. InQueue' = InQueue /\ InQueue \subseteq 1..received
  BY <1>1, <1>2 DEF InQueue, Range, EachMessageInOnePlace
<1>5. m # 0 /\ m \notin 1..received
  BY <1>3
<1>6. \A n \in InQueue : source'[n] = source[n]
  <2>1. \A n \in InQueue : n \in Messages /\ n # m
    BY <1>1, <1>4, <1>5, PlaceTypes
  <2>2. QED
    BY <1>1, <1>2, <2>1 DEF TypeOK
<1>7. hand'[g] = m /\ \A f \in Gens : f # g => hand'[f] = hand[f]
  BY <1>1, <1>2 DEF TypeOK
<1> HIDE DEF m
<1>8. Pending(g)' = Pending(g) \cup {m} /\ \A f \in Gens : f # g => Pending(f)' = Pending(f)
  BY <1>3, <1>4, <1>5, <1>6, <1>7 DEF Pending
<1>9. [f \in Gens |-> Pending(f)]' = [[f \in Gens |-> Pending(f)] EXCEPT ![g] = @ \cup {m}]
  BY <1>8
<1>10. QED
  BY <1>2, <1>9 DEF Abstract!Arrive, m

LEMMA EnqueueStep ==
  ASSUME MessagesInv, NEW g \in Gens, reader[g] \in {"push", "repush"}, Room, Enqueue(g, "top"),
         UNCHANGED <<runVars, rconn, workVars, arrivals>>
  PROVE  UNCHANGED Abstract!vars
<1>1. TypeOK /\ EachMessageInOnePlace /\ OrderInv
  BY DEF MessagesInv
<1>2. /\ msgCh' = Append(msgCh, hand[g]) /\ hand' = [hand EXCEPT ![g] = 0] /\ reader' = [reader EXCEPT ![g] = "top"]
      /\ UNCHANGED <<cancelled, taken, received, source>>
  BY DEF Enqueue, runVars, workVars, arrivals, lost
<1>3. /\ hand[g] \in Messages /\ hand[g] # 0 /\ source[hand[g]] = g
      /\ hand'[g] = 0 /\ \A f \in Gens : f # g => hand'[f] = hand[f]
  <2>1. /\ hand[g] \in Messages
        /\ hand'[g] = 0 /\ \A f \in Gens : f # g => hand'[f] = hand[f]
    BY <1>1, <1>2, HandFacts
  <2>2. hand[g] # 0
    BY <2>1, ConstFacts
  <2>3. QED
    BY <1>1, <2>1, <2>2 DEF OrderInv
<1>4. InQueue' = InQueue \cup {hand[g]}
  <2>1. msgCh \in Seq(Messages)
    BY <1>1 DEF TypeOK
  <2>2. Range(msgCh') = Range(msgCh) \cup {hand[g]}
    BY <1>2, <1>3, <2>1, AppendFacts
  <2>3. QED
    BY <2>2 DEF InQueue, Range
<1>5. \A f \in Gens : Pending(f)' = Pending(f)
  BY <1>2, <1>3, <1>4 DEF Pending
<1>6. QED
  BY <1>2, <1>5 DEF Abstract!vars

(***************************************************************************)
(* The message in the hand is the newest one of its reader.                *)
(***************************************************************************)
LEMMA HandStep ==
  ASSUME MessagesInv, NEW g \in Gens, NEW k \in {"top", "done"}, reader[g] \in {"push", "repush"},
         hand' = [hand EXCEPT ![g] = 0], reader' = [reader EXCEPT ![g] = k],
         UNCHANGED <<msgCh, source>>
  PROVE  hand[g] \in Pending(g) /\ Abstract!Newest(g, hand[g]) /\ Abstract!Remove(g, hand[g])
<1>1. TypeOK /\ EachMessageInOnePlace
  BY DEF MessagesInv
<1>2. /\ hand[g] \in Messages /\ hand[g] # 0
      /\ hand'[g] = 0 /\ \A f \in Gens : f # g => hand'[f] = hand[f]
  <2>1. /\ hand[g] \in Messages
        /\ hand'[g] = 0 /\ \A f \in Gens : f # g => hand'[f] = hand[f]
    BY <1>1, HandFacts
  <2>2. QED
    BY <2>1, ConstFacts
<1>3. /\ hand[g] \in Pending(g) /\ hand[g] \notin InQueue
      /\ \A n \in Pending(g) : n <= hand[g]
  BY <1>2, QueueSources
<1>4. InQueue' = InQueue
  BY DEF InQueue, Range
<1>5. Pending(g)' = Pending(g) \ {hand[g]} /\ \A f \in Gens : f # g => Pending(f)' = Pending(f)
  BY <1>2, <1>3, <1>4 DEF Pending
<1>6. Abstract!Remove(g, hand[g])
  BY <1>3, <1>5, PendingRemoved
<1>7. QED
  BY <1>3, <1>6 DEF Abstract!Newest

(***************************************************************************)
(* The head of the queue is the oldest one of its reader.                  *)
(***************************************************************************)
LEMMA HeadStep ==
  ASSUME MessagesInv, msgCh # <<>>, msgCh' = Tail(msgCh), UNCHANGED <<hand, received, source>>,
         NEW m, m = Head(msgCh), NEW r, r = source[m]
  PROVE  r \in Gens /\ m \in Pending(r) /\ Abstract!Oldest(r, m) /\ Abstract!Remove(r, m)
<1>1. TypeOK /\ EachMessageInOnePlace /\ OrderInv
  BY DEF MessagesInv
<1>2. /\ m \in InQueue /\ InQueue' = InQueue \ {m}
      /\ \A n \in InQueue : source[n] = r => m <= n
  BY <1>1, HeadFacts
<1>3. r \in Gens /\ m \in Pending(r) /\ m \in Nat /\ m # 0
  BY <1>2, QueueSources
<1>4. \A f \in Gens : hand[f] # 0 => hand[f] # m /\ hand[f] \in Nat /\ \A n \in Pending(f) : n <= hand[f]
  BY <1>2, QueueSources
<1>5. \A n \in Pending(r) : m <= n
  <2> SUFFICES ASSUME NEW n \in Pending(r)
               PROVE  m <= n
    OBVIOUS
  <2>1. CASE n \in InQueue /\ source[n] = r
    BY <1>2, <2>1
  <2>2. CASE n = hand[r] /\ hand[r] # 0
    BY <1>3, <1>4, <2>2
  <2>3. QED
    BY <2>1, <2>2 DEF Pending
<1>6. Pending(r)' = Pending(r) \ {m} /\ \A f \in Gens : f # r => Pending(f)' = Pending(f)
  BY <1>2, <1>3, <1>4 DEF Pending
<1>7. Abstract!Remove(r, m)
  BY <1>3, <1>6, PendingRemoved
<1>8. QED
  BY <1>3, <1>5, <1>7 DEF Abstract!Oldest
LEMMA GiveUpStep ==
  ASSUME MessagesInv, NEW g \in Gens, GiveUp(g)
  PROVE  Abstract!Next
<1>1. /\ reader[g] = "push" /\ g \in cancelled
      /\ hand' = [hand EXCEPT ![g] = 0] /\ reader' = [reader EXCEPT ![g] = "done"]
      /\ UNCHANGED <<received, source, msgCh, taken, cancelled>>
  BY DEF GiveUp, runVars, workVars, arrivals
<1>2. hand[g] \in Pending(g) /\ Abstract!Newest(g, hand[g]) /\ Abstract!Remove(g, hand[g])
  BY <1>1, HandStep
<1>3. Abstract!Abandon(g)
  BY <1>1, <1>2 DEF Abstract!Abandon
<1>4. QED
  BY <1>3 DEF Abstract!Next

LEMMA RepushStep ==
  ASSUME MessagesInv, NEW g \in Gens, Repush(g), ~Room
  PROVE  Abstract!Next
<1>1. /\ reader[g] = "repush"
      /\ hand' = [hand EXCEPT ![g] = 0] /\ reader' = [reader EXCEPT ![g] = "top"]
      /\ UNCHANGED <<received, source, msgCh, taken, cancelled>>
  BY DEF Repush, runVars, workVars, arrivals
<1>2. hand[g] \in Pending(g) /\ Abstract!Newest(g, hand[g]) /\ Abstract!Remove(g, hand[g])
  BY <1>1, HandStep
<1>3. PICK m \in InQueue : source[m] # g
  BY <1>1 DEF MessagesInv, OrderInv
<1>4. source[m] \in Gens \ {g} /\ Pending(source[m]) # {}
  BY <1>3, QueueSources
<1>5. Abstract!Others(g)
  BY <1>4 DEF Abstract!Others
<1>6. Abstract!Drop(g)
  BY <1>1, <1>2, <1>5 DEF Abstract!Drop
<1>7. QED
  BY <1>6 DEF Abstract!Next

LEMMA DropOldStep ==
  ASSUME MessagesInv, NEW g \in Gens, DropOld(g)
  PROVE  [Abstract!Next]_(Abstract!vars)
<1>1. /\ reader[g] = "drop" /\ DropHead
      /\ UNCHANGED <<hand, received, source, taken, cancelled>>
  BY DEF DropOld, runVars, workVars, arrivals
<1>2. CASE msgCh = <<>>
  <2>1. UNCHANGED msgCh
    BY <1>1, <1>2 DEF DropHead
  <2>2. QED
    BY <1>1, <2>1, PendingKept DEF Abstract!vars
<1>3. CASE msgCh # <<>>
  <2> DEFINE m == Head(msgCh)
             r == source[m]
  <2>1. msgCh' = Tail(msgCh)
    BY <1>1, <1>3 DEF DropHead
  <2>2. r \in Gens /\ m \in Pending(r) /\ Abstract!Oldest(r, m) /\ Abstract!Remove(r, m)
    BY <1>1, <1>3, <2>1, HeadStep
  <2>3. hand[g] # 0
    BY <1>1 DEF MessagesInv, TypeOK
  <2>4. hand[g] \in Nat /\ hand[g] \in Pending(g) /\ hand[g] \notin InQueue
    BY <2>3, QueueSources
  <2>5. m \in InQueue /\ m \in Nat
    <3>1. m \in InQueue
      BY <1>1, <1>3, <2>1, HeadFacts DEF MessagesInv
    <3>2. QED
      BY <3>1, QueueSources
  <2> HIDE DEF m, r
  <2>6. Abstract!Others(r) \/ ~Abstract!Newest(r, m)
    <3>1. CASE r = g
      <4>1. m <= hand[g] /\ m # hand[g]
        BY <2>2, <2>4, <2>5, <3>1 DEF Abstract!Oldest
      <4>2. ~(hand[g] <= m)
        BY <2>4, <2>5, <4>1
      <4>3. QED
        BY <2>4, <3>1, <4>2 DEF Abstract!Newest
    <3>2. CASE r # g
      BY <2>2, <2>4, <3>2 DEF Abstract!Others
    <3>3. QED
      BY <3>1, <3>2
  <2>7. Abstract!Drop(r)
    BY <1>1, <2>2, <2>6 DEF Abstract!Drop
  <2>8. QED
    BY <2>2, <2>7 DEF Abstract!Next
<1>4. QED
  BY <1>2, <1>3

LEMMA TakeStep ==
  ASSUME MessagesInv, NEW w \in Workers, Take(w)
  PROVE  Abstract!Next
<1> DEFINE m == Head(msgCh)
           r == source[m]
<1>1. /\ msgCh # <<>> /\ msgCh' = Tail(msgCh) /\ taken' = Append(taken, m)
      /\ UNCHANGED <<hand, received, source, cancelled>>
  BY DEF Take, runVars, readVars, arrivals
<1>2. r \in Gens /\ m \in Pending(r) /\ Abstract!Oldest(r, m) /\ Abstract!Remove(r, m)
  BY <1>1, HeadStep
<1> HIDE DEF m, r
<1>3. Abstract!Deliver(r)
  BY <1>1, <1>2 DEF Abstract!Deliver
<1>4. QED
  BY <1>2, <1>3 DEF Abstract!Next

LEMMA CloseStep ==
  ASSUME MessagesInv, CancelGeneration \/ ContextEnds
  PROVE  Abstract!Next
<1>1. /\ gen > 0 /\ cancelled' = cancelled \cup {gen}
      /\ UNCHANGED <<hand, msgCh, source, received, taken>>
  BY DEF CancelGeneration, ContextEnds, readVars, workVars, arrivals
<1>2. gen \in Gens
  BY <1>1, ConstFacts DEF MessagesInv, TypeOK
<1>3. Abstract!Close(gen)
  BY <1>1, PendingKept DEF Abstract!Close
<1>4. QED
  BY <1>2, <1>3 DEF Abstract!Next

LEMMA QueueStep ==
  ASSUME MessagesInv, [Next]_vars
  PROVE  [Abstract!Next]_(Abstract!vars)
<1>1. ASSUME UNCHANGED <<hand, msgCh, source, received, taken, cancelled>>
      PROVE  UNCHANGED Abstract!vars
  BY <1>1, PendingKept DEF Abstract!vars
<1>2. CASE UNCHANGED vars
  BY <1>1, <1>2 DEF vars, runVars, readVars, workVars, arrivals
<1>3. CASE RunStep
  <2>1. CASE StartGeneration \/ CloseConn
    BY <1>1, <2>1 DEF StartGeneration, CloseConn, readVars, workVars, arrivals
  <2>2. QED
    BY <1>3, <2>1, CloseStep DEF RunStep
<1>4. ASSUME NEW g \in Gens, ReaderStep(g)
      PROVE  [Abstract!Next]_(Abstract!vars)
  <2>1. CASE ReadBegin(g) \/ ReadErr(g) \/ Overflow(g)
    BY <1>1, <2>1 DEF ReadBegin, ReadErr, Overflow, runVars, workVars, arrivals
  <2>2. CASE ReadMsg(g)
    BY <2>2, ArriveStep DEF Abstract!Next
  <2>3. CASE Push(g)
    BY <2>3, EnqueueStep DEF Push
  <2>4. CASE Repush(g)
    <3>1. CASE Room
      BY <2>4, <3>1, EnqueueStep DEF Repush
    <3>2. CASE ~Room
      BY <2>4, <3>2, RepushStep
    <3>3. QED
      BY <3>1, <3>2
  <2>5. QED
    BY <1>4, <2>1, <2>2, <2>3, <2>4, GiveUpStep, DropOldStep DEF ReaderStep
<1>5. ASSUME NEW w \in Workers, WorkerStep(w)
      PROVE  [Abstract!Next]_(Abstract!vars)
  <2>1. CASE OnMessageReturns(w) \/ WorkerEnd(w)
    BY <1>1, <2>1 DEF OnMessageReturns, WorkerEnd, runVars, readVars, arrivals
  <2>2. QED
    BY <1>5, <2>1, TakeStep DEF WorkerStep
<1>6. QED
  BY <1>2, <1>3, <1>4, <1>5 DEF Next

(***************************************************************************)
(* The queue of the client implements DropOldest (the comment on overflow  *)
(* in readLoop): what one reader read is handled in order, the newest      *)
(* message is dropped only for one of another reader, and given up only by *)
(* a reader whose context has ended.                                       *)
(***************************************************************************)
THEOREM RefinesDropOldest == FeedSpec => ImplementsDropOldest
<1>1. Init => Abstract!Init
  <2> SUFFICES ASSUME Init
               PROVE  Abstract!Init
    OBVIOUS
  <2>1. InQueue = {}
    BY DEF Init, InQueue, Range
  <2>2. \A f \in Gens : Pending(f) = {}
    BY <2>1 DEF Init, Pending
  <2>3. QED
    BY <2>2 DEF Init, Abstract!Init
<1>2. MessagesInv /\ [Next]_vars => [Abstract!Next]_(Abstract!vars)
  BY QueueStep
<1>3. QED
  BY <1>1, <1>2, FeedIsClient, MessagesAccounted, PTL DEF Spec, ImplementsDropOldest, Abstract!Spec
-----------------------------------------------------------------------------
(***************************************************************************)
(* Events: sent at the end of eventCh, moved from its front to what the    *)
(* consumer has read.                                                      *)
(***************************************************************************)
LEMMA ConcatFacts ==
  ASSUME NEW S, NEW s \in Seq(S), NEW t \in Seq(S)
  PROVE  /\ s \o t \in Seq(S) /\ Len(s) \in Nat /\ Len(t) \in Nat /\ Len(s \o t) = Len(s) + Len(t)
         /\ \A i \in 1..Len(s) : (s \o t)[i] = s[i]
         /\ \A i \in 1..Len(t) : (s \o t)[Len(s) + i] = t[i]
OBVIOUS

LEMMA EventSent ==
  ASSUME NEW S, NEW s \in Seq(S), NEW t \in Seq(S), NEW e \in S
  PROVE  /\ Len(s \o t) \in Nat /\ Len(s \o Append(t, e)) = Len(s \o t) + 1
         /\ \A i \in 1..Len(s \o t) : (s \o Append(t, e))[i] = (s \o t)[i]
         /\ (s \o Append(t, e))[Len(s \o t) + 1] = e
<1> DEFINE u == Append(t, e)
           a == s \o t
           b == s \o u
<1>1. /\ u \in Seq(S) /\ Len(u) = Len(t) + 1 /\ u[Len(t) + 1] = e
      /\ \A i \in 1..Len(t) : u[i] = t[i]
  BY AppendFacts
<1>2. /\ Len(s) \in Nat /\ Len(t) \in Nat /\ Len(a) = Len(s) + Len(t)
      /\ \A i \in 1..Len(s) : a[i] = s[i]
      /\ \A i \in 1..Len(t) : a[Len(s) + i] = t[i]
  BY ConcatFacts
<1> HIDE DEF u
<1>3. /\ Len(b) = Len(s) + Len(u)
      /\ \A i \in 1..Len(s) : b[i] = s[i]
      /\ \A i \in 1..Len(u) : b[Len(s) + i] = u[i]
  <2>1. u \in Seq(S)
    BY <1>1
  <2>2. QED
    BY ONLY <2>1, s \in Seq(S), ConcatFacts
<1> HIDE DEF a, b
<1>4. b[Len(a) + 1] = e
  <2>1. Len(t) + 1 \in 1..Len(u) /\ Len(a) + 1 = Len(s) + (Len(t) + 1)
    BY <1>1, <1>2
  <2>2. QED
    BY <1>1, <1>3, <2>1
<1>5. ASSUME NEW i \in 1..Len(a)
      PROVE  b[i] = a[i]
  <2>1. CASE i <= Len(s)
    BY <1>2, <1>3, <2>1
  <2>2. CASE i > Len(s)
    <3>1. i - Len(s) \in 1..Len(t) /\ i - Len(s) \in 1..Len(u) /\ i = Len(s) + (i - Len(s))
      BY <1>1, <1>2, <2>2
    <3>2. QED
      BY <1>1, <1>2, <1>3, <3>1
  <2>3. QED
    BY <1>2, <2>1, <2>2
<1>6. QED
  BY <1>1, <1>2, <1>3, <1>4, <1>5 DEF a, b, u

LEMMA EventRead ==
  ASSUME NEW S, NEW s \in Seq(S), NEW t \in Seq(S), t # <<>>
  PROVE  /\ Len(Append(s, Head(t)) \o Tail(t)) = Len(s \o t)
         /\ \A i \in 1..Len(s \o t) : (Append(s, Head(t)) \o Tail(t))[i] = (s \o t)[i]
<1> DEFINE u == Append(s, Head(t))
           v == Tail(t)
           a == s \o t
           b == u \o v
<1>1. /\ Len(t) >= 1 /\ v \in Seq(S) /\ Len(v) = Len(t) - 1 /\ Head(t) \in S /\ Head(t) = t[1]
      /\ \A i \in 1..Len(v) : v[i] = t[i + 1]
  BY TailFacts
<1>2. /\ Len(s) \in Nat /\ Len(t) \in Nat /\ Len(a) = Len(s) + Len(t)
      /\ \A i \in 1..Len(s) : a[i] = s[i]
      /\ \A i \in 1..Len(t) : a[Len(s) + i] = t[i]
  BY ConcatFacts
<1>3. /\ u \in Seq(S) /\ Len(u) = Len(s) + 1 /\ u[Len(s) + 1] = Head(t)
      /\ \A i \in 1..Len(s) : u[i] = s[i]
  BY <1>1, AppendFacts
<1> HIDE DEF u, v
<1>4. /\ Len(b) = Len(u) + Len(v)
      /\ \A i \in 1..Len(u) : b[i] = u[i]
      /\ \A i \in 1..Len(v) : b[Len(u) + i] = v[i]
  <2>1. u \in Seq(S) /\ v \in Seq(S)
    BY <1>1, <1>3
  <2>2. QED
    BY ONLY <2>1, ConcatFacts
<1> HIDE DEF a, b
<1>5. ASSUME NEW i \in 1..Len(a)
      PROVE  b[i] = a[i]
  <2>1. CASE i <= Len(s)
    BY <1>2, <1>3, <1>4, <2>1
  <2>2. CASE i = Len(s) + 1
    <3>1. i \in 1..Len(u) /\ 1 \in 1..Len(t)
      BY <1>1, <1>2, <1>3, <2>2
    <3>2. QED
      BY <1>1, <1>2, <1>3, <1>4, <2>2, <3>1
  <2>3. CASE i > Len(s) + 1
    <3> DEFINE k == i - Len(u)
    <3>1. /\ k \in 1..Len(v) /\ k + 1 \in 1..Len(t) /\ i = Len(u) + k /\ i = Len(s) + (k + 1)
      BY <1>1, <1>2, <1>3, <2>3
    <3> HIDE DEF k
    <3>2. b[i] = v[k] /\ a[i] = t[k + 1] /\ v[k] = t[k + 1]
      BY <1>1, <1>2, <1>4, <3>1
    <3>3. QED
      BY <3>2
  <2>4. QED
    BY <1>2, <2>1, <2>2, <2>3
<1>6. QED
  BY <1>1, <1>2, <1>3, <1>4, <1>5 DEF a, b, u, v
(***************************************************************************)
(* What is handled grows by the message OnMessage returns from, and by     *)
(* nothing else: a message taken is in its worker's hands until then.      *)
(***************************************************************************)
LEMMA HandledTake ==
  ASSUME MessagesInv, NEW w \in Workers, Take(w)
  PROVE  Handled' = Handled
<1>1. TypeOK /\ EachMessageInOnePlace /\ WorkInv /\ OrderInv
  BY DEF MessagesInv
<1>2. /\ worker[w] = "select" /\ msgCh # <<>> /\ job' = [job EXCEPT ![w] = Head(msgCh)]
      /\ taken' = Append(taken, Head(msgCh)) /\ msgCh' = Tail(msgCh)
      /\ UNCHANGED <<hand, received, source>>
  BY DEF Take, readVars, arrivals
<1>3. Head(msgCh) \in InQueue
  BY <1>1, <1>2, HeadFacts
<1>4. Head(msgCh) \notin Range(taken)
  BY <1>1, <1>3 DEF EachMessageInOnePlace
<1>5. Range(taken)' = Range(taken) \cup {Head(msgCh)}
  BY <1>1, <1>2, TakeFacts
<1>6. /\ job'[w] = Head(msgCh) /\ \A v \in Workers : v # w => job'[v] = job[v]
      /\ job[w] = 0
  BY <1>1, <1>2 DEF TypeOK, WorkInv
<1>7. 0 \notin Range(taken)
  BY <1>1, PlaceTypes, ConstFacts
<1>8. QED
  BY <1>4, <1>5, <1>6, <1>7 DEF Handled

LEMMA HandledOnMessage ==
  ASSUME MessagesInv, NEW w \in Workers, OnMessageReturns(w)
  PROVE  /\ job[w] \in Messages /\ job[w] \notin Handled /\ Handled' = Handled \cup {job[w]}
<1>1. TypeOK /\ WorkInv
  BY DEF MessagesInv
<1>2. worker[w] = "busy" /\ job' = [job EXCEPT ![w] = 0] /\ UNCHANGED taken
  BY DEF OnMessageReturns, WorkerReturns
<1>3. job[w] # 0 /\ job[w] \in Range(taken) /\ \A v \in Workers : v # w => job[v] # job[w]
  BY <1>1, <1>2 DEF WorkInv
<1>4. job'[w] = 0 /\ \A v \in Workers : v # w => job'[v] = job[v]
  BY <1>1, <1>2 DEF TypeOK
<1>5. Range(taken)' = Range(taken) /\ 0 \notin Range(taken) /\ Range(taken) \subseteq Messages
  <2>1. Range(taken)' = Range(taken)
    BY <1>2 DEF Range
  <2>2. QED
    BY <1>1, <2>1, PlaceTypes, ConstFacts
<1>6. QED
  BY <1>3, <1>4, <1>5 DEF Handled

LEMMA EventsKept ==
  ASSUME EventsInv, Handled' = Handled, UNCHANGED <<kindOf, eventCh, consumed, lostEvents>>
  PROVE  EventsInv'
<1>1. Events' = Events /\ \A m : EventType(m)' = EventType(m)
  BY DEF Events, EventType
<1>2. EventsComplete'
  BY <1>1 DEF EventsInv, EventsComplete
<1>3. QED
  BY <1>2 DEF EventsInv

LEMMA ConsumeInv ==
  ASSUME EventsInv, Consume
  PROVE  EventsInv'
<1>1. /\ eventCh # <<>> /\ eventCh' = Tail(eventCh) /\ consumed' = Append(consumed, Head(eventCh))
      /\ UNCHANGED <<taken, job, kindOf, lostEvents>>
  BY DEF Consume, vars, workVars
<1>2. Handled' = Handled /\ \A m : EventType(m)' = EventType(m)
  BY <1>1 DEF Handled, Range, EventType
<1>3. eventCh \in Seq(EventRecords) /\ consumed \in Seq(EventRecords)
  BY DEF EventsInv
<1>4. eventCh' \in Seq(EventRecords) /\ Len(eventCh') <= EventCap /\ consumed' \in Seq(EventRecords)
  <2>1. /\ Tail(eventCh) \in Seq(EventRecords) /\ Len(eventCh) \in Nat /\ Len(Tail(eventCh)) = Len(eventCh) - 1
        /\ Head(eventCh) \in EventRecords
    BY <1>1, <1>3, TailFacts
  <2>2. consumed' \in Seq(EventRecords)
    BY <1>1, <1>3, <2>1, AppendFacts
  <2>3. QED
    BY <1>1, <2>1, <2>2, EventCapAssumption DEF EventsInv
<1>5. Len(Events') = Len(Events) /\ \A i \in 1..Len(Events) : Events'[i] = Events[i]
  BY <1>1, <1>3, EventRead DEF Events
<1>6. EventsComplete'
  <2>1. /\ {Events'[i].msg : i \in 1..Len(Events')} = {Events[i].msg : i \in 1..Len(Events)}
        /\ \A i \in 1..Len(Events') : Events'[i] = Events[i]
    BY <1>5
  <2>2. \A i \in 1..Len(Events') : EventType(Events[i].msg)' = EventType(Events[i].msg)
    BY <1>1, <1>5 DEF EventType
  <2>3. {m \in Handled' : kindOf'[m] # "heartbeat"} \ lostEvents' = {m \in Handled : kindOf[m] # "heartbeat"} \ lostEvents
    BY <1>1, <1>2
  <2>4. QED
    BY <1>1, <1>5, <2>1, <2>2, <2>3 DEF EventsInv, EventsComplete
<1>7. QED
  BY <1>1, <1>2, <1>4, <1>6 DEF EventsInv

LEMMA OnMessageEvents ==
  ASSUME MessagesInv, EventsInv, NEW w \in Workers, OnMessage(w)
  PROVE  EventsInv'
<1> DEFINE m == job[w]
<1>1. OnMessageReturns(w) /\ UNCHANGED <<kindOf, consumed>>
  BY DEF OnMessage
<1>2. m \in Messages /\ m \notin Handled /\ Handled' = Handled \cup {m}
  BY <1>1, HandledOnMessage
<1>3. /\ eventCh \in Seq(EventRecords) /\ consumed \in Seq(EventRecords) /\ Len(eventCh) \in Nat
      /\ lostEvents \subseteq Handled /\ kindOf \in [Messages -> MsgKinds] /\ EventsComplete
      /\ Len(eventCh) <= EventCap
  BY DEF EventsInv
<1>4. \A n : EventType(n)' = EventType(n)
  BY <1>1 DEF EventType
<1>5. CASE kindOf[m] = "heartbeat"
  <2>1. UNCHANGED <<eventCh, lostEvents>>
    BY <1>5 DEF OnMessage, isHeartbeatMessage
  <2>2. Events' = Events
    BY <1>1, <2>1 DEF Events
  <2>3. {n \in Handled' : kindOf[n] # "heartbeat"} = {n \in Handled : kindOf[n] # "heartbeat"}
    BY <1>2, <1>5
  <2>4. EventsComplete'
    BY <1>1, <1>3, <1>4, <2>1, <2>2, <2>3 DEF EventsComplete
  <2>5. QED
    BY <1>1, <1>2, <1>3, <2>1, <2>4 DEF EventsInv
<1>6. CASE kindOf[m] # "heartbeat"
  <2>1. PICK ev \in EventRecords :
          /\ emitEvent(ev)
          /\ ev.msg = m /\ ev.type = EventType(m) /\ (ev.parsed <=> kindOf[m] \in {"trade", "order"})
    <3> DEFINE p == kindOf[m] \in {"trade", "order"}
               e == Event(m, EventType(m), p)
    <3>1. /\ e \in EventRecords /\ e.msg = m /\ e.type = EventType(m) /\ (e.parsed <=> p)
      <4>1. EventType(m) \in {"trade", "order", "unknown"}
        BY DEF EventType
      <4>2. p \in BOOLEAN
        OBVIOUS
      <4> HIDE DEF p
      <4>3. QED
        BY <1>2, <4>1, <4>2 DEF Event, EventRecords
    <3>2. handleMessage(m)
      BY <1>6 DEF OnMessage, isHeartbeatMessage
    <3>3. kindOf[m] \in MsgKinds
      BY <1>2, <1>3
    <3>4. emitEvent(e)
      <4>1. CASE kindOf[m] \in {"trade", "badTrade"}
        <5>1. EventType(m) = "trade" /\ p = (kindOf[m] = "trade")
          BY <4>1 DEF EventType
        <5>2. procTrade(m)
          BY <3>2, <4>1 DEF handleMessage
        <5>3. QED
          BY <5>1, <5>2 DEF procTrade
      <4>2. CASE kindOf[m] \in {"order", "badOrder"}
        <5>1. EventType(m) = "order" /\ p = (kindOf[m] = "order")
          BY <4>2 DEF EventType
        <5>2. procOrder(m)
          BY <3>2, <4>2 DEF handleMessage
        <5>3. QED
          BY <5>1, <5>2 DEF procOrder
      <4>3. CASE kindOf[m] \notin {"trade", "badTrade", "order", "badOrder"}
        <5>1. EventType(m) = "unknown" /\ p = FALSE
          BY <4>3 DEF EventType
        <5>2. emitEvent(Event(m, "unknown", FALSE))
          BY <3>2, <4>3 DEF handleMessage
        <5>3. QED
          BY <5>1, <5>2
      <4>4. QED
        BY <4>1, <4>2, <4>3
    <3>5. QED
      BY <3>1, <3>4
  <2>2. {n \in Handled' : kindOf[n] # "heartbeat"} = {n \in Handled : kindOf[n] # "heartbeat"} \cup {m}
    BY <1>2, <1>6
  <2>3. CASE ~(Len(eventCh) < EventCap)
    <3>1. lostEvents' = lostEvents \cup {m} /\ UNCHANGED eventCh
      BY <2>1, <2>3 DEF emitEvent
    <3>2. Events' = Events
      BY <1>1, <3>1 DEF Events
    <3>3. {n \in Handled' : kindOf[n] # "heartbeat"} \ lostEvents'
            = {n \in Handled : kindOf[n] # "heartbeat"} \ lostEvents
      BY <1>2, <2>2, <3>1
    <3>4. EventsComplete'
      BY <1>1, <1>3, <1>4, <3>2, <3>3 DEF EventsComplete
    <3>5. QED
      BY <1>1, <1>2, <1>3, <3>1, <3>4 DEF EventsInv
  <2>4. CASE Len(eventCh) < EventCap
    <3>1. eventCh' = Append(eventCh, ev) /\ UNCHANGED lostEvents
      BY <2>1, <2>4 DEF emitEvent
    <3>2. eventCh' \in Seq(EventRecords) /\ Len(eventCh') <= EventCap
      <4>1. eventCh' \in Seq(EventRecords) /\ Len(eventCh') = Len(eventCh) + 1
        BY <1>3, <3>1, AppendFacts
      <4>2. QED
        BY <1>3, <2>4, <4>1, EventCapAssumption
    <3>3. /\ Len(Events) \in Nat /\ Len(Events') = Len(Events) + 1
          /\ \A i \in 1..Len(Events) : Events'[i] = Events[i]
          /\ Events'[Len(Events) + 1] = ev
      BY <1>1, <1>3, <3>1, EventSent DEF Events
    <3> DEFINE k == Len(Events) + 1
    <3>4. /\ \A i \in 1..Len(Events') : i \in 1..Len(Events) \/ i = k
          /\ \A i \in 1..Len(Events) : i \in 1..Len(Events')
          /\ k \in 1..Len(Events')
      BY <3>3
    <3>5. m \notin lostEvents /\ \A i \in 1..Len(Events) : Events[i].msg # m
      BY <1>2, <1>3 DEF EventsComplete
    <3> HIDE DEF k
    <3>6. \A i, j \in 1..Len(Events') : Events'[i].msg = Events'[j].msg => i = j
      BY <1>3, <2>1, <3>3, <3>4, <3>5 DEF EventsComplete, k
    <3>7. \A i \in 1..Len(Events') :
            /\ Events'[i].type = EventType(Events'[i].msg)
            /\ Events'[i].parsed <=> kindOf[Events'[i].msg] \in {"trade", "order"}
      BY <1>3, <2>1, <3>3, <3>4 DEF EventsComplete, k
    <3>8. {Events'[i].msg : i \in 1..Len(Events')} = {Events[i].msg : i \in 1..Len(Events)} \cup {m}
      BY <2>1, <3>3, <3>4 DEF k
    <3>9. {n \in Handled' : kindOf[n] # "heartbeat"} \ lostEvents'
            = ({n \in Handled : kindOf[n] # "heartbeat"} \ lostEvents) \cup {m}
      BY <1>2, <2>2, <3>1, <3>5
    <3>10. EventsComplete'
      <4>1. \A i \in 1..Len(Events') : EventType(Events[i].msg)' = EventType(Events'[i].msg)
        BY <1>1 DEF EventType
      <4>2. QED
        BY <1>1, <1>3, <3>6, <3>7, <3>8, <3>9, <4>1 DEF EventsComplete
    <3>11. QED
      BY <1>1, <1>2, <1>3, <3>1, <3>2, <3>10 DEF EventsInv
  <2>5. QED
    BY <2>3, <2>4
<1>7. QED
  BY <1>5, <1>6
LEMMA EventsStep ==
  ASSUME FeedInv, [FeedNext]_feedVars
  PROVE  FeedInv'
<1>1. MessagesInv /\ EventsInv
  BY DEF FeedInv
<1>2. MessagesInv'
  BY <1>1, FeedStep, MessagesStep
<1>3. ASSUME UNCHANGED <<taken, job, kindOf, eventVars>>
      PROVE  EventsInv'
  <2>1. Handled' = Handled
    BY <1>3 DEF Handled, Range
  <2>2. QED
    BY <1>1, <1>3, <2>1, EventsKept DEF eventVars
<1>4. ASSUME UNCHANGED feedVars
      PROVE  EventsInv'
  BY <1>3, <1>4 DEF feedVars, vars, workVars
<1>5. ASSUME RunStep, UNCHANGED <<kindOf, eventVars>>
      PROVE  EventsInv'
  BY <1>3, <1>5 DEF RunStep, StartGeneration, CloseConn, CancelGeneration, ContextEnds, workVars
<1>6. ASSUME NEW g \in Gens, ReaderStep(g), UNCHANGED <<kindOf, eventVars>>
      PROVE  EventsInv'
  <2>1. UNCHANGED workVars
    BY <1>6 DEF ReaderStep, ReadBegin, ReadMsg, ReadErr, Push, GiveUp, Overflow, DropOld, Repush
  <2>2. QED
    BY <1>3, <1>6, <2>1 DEF workVars
<1>7. ASSUME NEW w \in Workers, Take(w), UNCHANGED <<kindOf, eventVars>>
      PROVE  EventsInv'
  BY <1>1, <1>7, HandledTake, EventsKept DEF eventVars
<1>8. ASSUME NEW w \in Workers, WorkerEnd(w), UNCHANGED <<kindOf, eventVars>>
      PROVE  EventsInv'
  BY <1>3, <1>8 DEF WorkerEnd
<1>9. ASSUME NEW w \in Workers, OnMessage(w)
      PROVE  EventsInv'
  BY <1>1, <1>9, OnMessageEvents
<1>10. ASSUME Consume
      PROVE  EventsInv'
  BY <1>1, <1>10, ConsumeInv
<1>11. EventsInv'
  BY <1>4, <1>5, <1>6, <1>7, <1>8, <1>9, <1>10 DEF FeedNext
<1>12. QED
  BY <1>2, <1>11 DEF FeedInv

LEMMA EventsInit ==
  ASSUME FeedInit
  PROVE  FeedInv
<1>1. MessagesInv
  BY MessagesInit DEF FeedInit
<1>2. eventCh = <<>> /\ consumed = <<>> /\ lostEvents = {} /\ kindOf \in [Messages -> MsgKinds]
  BY FeedsAssumption DEF FeedInit
<1>3. Events = <<>> /\ Len(Events) = 0
  BY <1>2 DEF Events
<1>4. Handled = {}
  BY DEF FeedInit, Init, Handled, Range
<1>5. EventsComplete
  BY <1>2, <1>3, <1>4 DEF EventsComplete
<1>6. eventCh \in Seq(EventRecords) /\ Len(eventCh) <= EventCap /\ consumed \in Seq(EventRecords)
  BY <1>2, EventCapAssumption
<1>7. QED
  BY <1>1, <1>2, <1>5, <1>6 DEF FeedInv, EventsInv

(***************************************************************************)
(* Everything but heartbeats is passed on (the comment on TradeMonitor):   *)
(* one event of its type for each handled message, whichever worker of     *)
(* whichever generation handled it, unless eventCh was full.               *)
(***************************************************************************)
THEOREM NoEventMissing == FeedSpec => []EventsComplete
<1>1. FeedInit => FeedInv
  BY EventsInit
<1>2. FeedInv /\ [FeedNext]_feedVars => FeedInv'
  BY EventsStep
<1>3. FeedInv => EventsComplete
  BY DEF FeedInv, EventsInv
<1>4. QED
  BY <1>1, <1>2, <1>3, PTL DEF FeedSpec
=============================================================================
