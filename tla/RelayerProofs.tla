---------------------------- MODULE RelayerProofs ----------------------------
(***************************************************************************)
(* Proofs about the relayer client, for any number of goroutines, calls    *)
(* and arguments.                                                          *)
(***************************************************************************)
EXTENDS Relayer, TLAPS

(***************************************************************************)
(* Where the request of call i is.                                         *)
(***************************************************************************)
Travels(i) == \E r \in net \cup pool : r.id = i
Executed(i) == \E k \in 1..Len(executed) : executed[k].id = i
Out(i) == Travels(i) \/ Executed(i)

(***************************************************************************)
(* A goroutine in a call carries what its call asked for, alone, and has   *)
(* sent nothing before it submits.                                         *)
(***************************************************************************)
CallsInv ==
  /\ \A i \in Ids : i > calls => report[i] = "none"
  /\ \A c \in Callers : pc[c] # "idle" =>
       /\ call[c] \in DOMAIN asked /\ report[call[c]] = "none"
       /\ txns[c] \in Bundles /\ Flatten(txns[c]) = asked[call[c]]
  /\ \A c, d \in Callers : pc[c] # "idle" /\ pc[d] # "idle" /\ call[c] = call[d] => c = d
  /\ \A c \in Callers : pc[c] \in {"deployed", "nonce", "submit"} => ~Out(call[c]) /\ call[c] \notin refused

(***************************************************************************)
(* A request carries what its call asked for and is in one place.  What    *)
(* was refused is nowhere.                                                 *)
(***************************************************************************)
RequestsInv ==
  /\ \A r \in net \cup pool : r.id \in DOMAIN asked /\ r.data = asked[r.id]
  /\ \A r, s \in net \cup pool : r.id = s.id => r = s
  /\ net \cap pool = {}
  /\ \A r \in net \cup pool : ~Executed(r.id)
  /\ \A i \in Ids : i \in refused => ~Out(i)
  /\ \A k \in 1..Len(executed) : executed[k].id \in DOMAIN asked
  /\ refused \subseteq DOMAIN asked

(***************************************************************************)
(* Of two calls that are unsettled together the later one knows the other. *)
(* A request, or a fetched nonce, is overtaken by such a call only.        *)
(***************************************************************************)
Rivals(i, j) == i \in rivals[j] \/ j \in rivals[i]
Overtaken(i, n) == n < nonce => Rivals(executed[n + 1].id, i)

RacesInv ==
  /\ \A i, j \in Unsettled : i # j => Rivals(i, j)
  /\ \A r \in net \cup pool : Overtaken(r.id, r.nonce)
  /\ \A c \in Callers : pc[c] = "submit" => Overtaken(call[c], fetched[c])

RelayerInv == TypeOK /\ CallsInv /\ RequestsInv /\ RacesInv

-----------------------------------------------------------------------------
(***************************************************************************)
(* AggregateTransaction leaves nothing out and keeps the order: the data   *)
(* of the request is the list of contract calls of the operation, whether  *)
(* it goes through the multisend contract or not.                          *)
(***************************************************************************)
LEMMA PackedOne ==
  ASSUME NEW txs, NEW x, DOMAIN txs = 1..1, txs[1] = [operation |-> "call", data |-> <<x>>]
  PROVE  txs[1].data = Flatten(txs)
<1>1. Flatten(txs) = [k \in 1..1 |-> x]
  BY DEF Flatten
<1>2. <<x>> = [k \in 1..1 |-> x]
  OBVIOUS
<1>3. QED
  BY <1>1, <1>2

LEMMA OneCall ==
  ASSUME NEW to, NEW method, NEW arg, NEW amount
  PROVE  \E x : SafeTransaction(to, method, arg, amount) = [operation |-> "call", data |-> <<x>>]
BY DEF SafeTransaction

LEMMA OneTransaction ==
  ASSUME NEW txs, NEW to, NEW method, NEW arg, NEW amount,
         txs = <<SafeTransaction(to, method, arg, amount)>>
  PROVE  DOMAIN txs = 1..1 /\ \E x : txs[1] = [operation |-> "call", data |-> <<x>>]
<1>1. DOMAIN txs = 1..1 /\ txs[1] = SafeTransaction(to, method, arg, amount)
  OBVIOUS
<1>2. QED
  BY <1>1, OneCall

LEMMA PackedWhole ==
  ASSUME NEW txs \in Bundles
  PROVE  /\ AggregateTransaction(txs).data = Flatten(txs)
         /\ AggregateTransaction(txs).operation \in {"call", "delegatecall"}
<1>0. PICK i \in Ids : \E a \in Arguments[i] : ArgumentsOk(a) /\ txs = TransactionsOf(a)
  BY DEF Bundles
<1>1. PICK a \in Arguments[i] : ArgumentsOk(a) /\ txs = TransactionsOf(a)
  BY <1>0
<1>2. a.op \in Operations
  BY <1>1, ArgumentsAssumption
<1>3. CASE Len(txs) # 1
  BY <1>3 DEF AggregateTransaction, CreateSafeMultisendTransaction
<1>4. CASE Len(txs) = 1
  <2>1. DOMAIN txs = 1..1 /\ \E x : txs[1] = [operation |-> "call", data |-> <<x>>]
    <3>1. CASE a.op = "RedeemBatch"
      <4>1. txs = [k \in 1..Len(a.conditionIds) |-> RedeemTx(a, k)] /\ Len(a.conditionIds) \in Nat
        BY <1>1, <3>1, ArgumentsAssumption DEF TransactionsOf, RedeemBatch
      <4>2. txs \in Seq({RedeemTx(a, k) : k \in 1..Len(a.conditionIds)})
        BY <4>1
      <4>3. Len(txs) = Len(a.conditionIds)
        BY <4>1, <4>2
      <4>4. DOMAIN txs = 1..1 /\ 1 \in 1..1
        <5>1. Len(a.conditionIds) = 1
          BY <1>4, <4>3
        <5>2. QED
          BY <4>1, <5>1
      <4>5. txs[1] = RedeemTx(a, 1)
        BY <4>1, <4>4
      <4>6. QED
        BY <4>4, <4>5, OneCall DEF RedeemTx
    <3>2. CASE a.op = "SplitTokens"
      <4>1. txs = SplitTokens(a)
        BY <1>1, <3>2 DEF TransactionsOf
      <4>2. QED
        BY <4>1, OneTransaction DEF SplitTokens
    <3>3. CASE a.op = "MergeTokens"
      <4>1. txs = MergeTokens(a)
        BY <1>1, <3>3 DEF TransactionsOf
      <4>2. QED
        BY <4>1, OneTransaction DEF MergeTokens
    <3>4. CASE a.op = "Transfer"
      <4>1. txs = Transfer(a)
        BY <1>1, <3>4 DEF TransactionsOf
      <4>2. QED
        BY <4>1, OneTransaction DEF Transfer
    <3>5. CASE a.op = "Approve"
      <4>1. txs = Approve(a)
        BY <1>1, <3>5 DEF TransactionsOf
      <4>2. QED
        BY <4>1, OneTransaction DEF Approve
    <3>6. QED
      BY <1>2, <3>1, <3>2, <3>3, <3>4, <3>5 DEF Operations
  <2>2. QED
    BY <1>4, <2>1, PackedOne DEF AggregateTransaction
<1>5. QED
  BY <1>3, <1>4

LEMMA RequestFacts ==
  ASSUME NEW i \in Ids, NEW txs \in Bundles, NEW n \in 0..MaxCalls
  PROVE  /\ BuildSafeTransactionRequest(i, txs, n) \in Requests
         /\ BuildSafeTransactionRequest(i, txs, n).id = i
         /\ BuildSafeTransactionRequest(i, txs, n).nonce = n
         /\ BuildSafeTransactionRequest(i, txs, n).data = Flatten(txs)
<1>1. Flatten(txs) \in Lists
  BY DEF Lists
<1>2. QED
  BY <1>1, PackedWhole DEF BuildSafeTransactionRequest, Requests

-----------------------------------------------------------------------------
LEMMA IdFacts ==
  /\ MaxCalls \in Nat /\ Ids = 1..MaxCalls
  /\ TypeOK => /\ calls \in Nat /\ nonce \in Nat /\ DOMAIN asked \subseteq Ids
               /\ \A r \in net \cup pool : r.id \in Ids /\ r.nonce \in Nat /\ r.nonce <= MaxCalls
               /\ \A k \in 1..Len(executed) : executed[k] \in Requests /\ executed[k].id \in Ids
<1>1. MaxCalls \in Nat /\ Ids = 1..MaxCalls
  BY BoundsAssumption DEF Ids
<1>2. ASSUME TypeOK
      PROVE  /\ calls \in Nat /\ nonce \in Nat /\ DOMAIN asked \subseteq Ids
             /\ \A r \in net \cup pool : r.id \in Ids /\ r.nonce \in Nat /\ r.nonce <= MaxCalls
             /\ \A k \in 1..Len(executed) : executed[k] \in Requests /\ executed[k].id \in Ids
  <2>1. calls \in Nat /\ nonce \in Nat /\ DOMAIN asked \subseteq Ids
    BY <1>1, <1>2 DEF TypeOK
  <2>2. \A r \in Requests : r.id \in Ids /\ r.nonce \in Nat /\ r.nonce <= MaxCalls
    BY <1>1 DEF Requests
  <2>3. \A k \in 1..Len(executed) : executed[k] \in Requests
    BY <1>2 DEF TypeOK
  <2>4. QED
    BY <1>2, <2>1, <2>2, <2>3 DEF TypeOK
<1>3. QED
  BY <1>1, <1>2

LEMMA OutSame ==
  ASSUME UNCHANGED <<net, pool, executed>>, NEW i
  PROVE  (Travels(i)' <=> Travels(i)) /\ (Executed(i)' <=> Executed(i)) /\ (Out(i)' <=> Out(i))
BY DEF Travels, Executed, Out

(***************************************************************************)
(* A new call.                                                             *)
(***************************************************************************)
LEMMA NewCallInv ==
  ASSUME RelayerInv, NEW c \in Callers, NewCall(c)
  PROVE  RelayerInv'
<1> DEFINE i == calls + 1
<1>1. PICK a \in Arguments[i] : Operation(c, i, a)
  BY DEF NewCall
<1>2. /\ i \in Ids /\ calls \in Nat /\ i \notin DOMAIN asked /\ MaxCalls \in Nat
      /\ TypeOK /\ CallsInv /\ RequestsInv /\ RacesInv
  <2>1. TypeOK /\ CallsInv /\ RequestsInv /\ RacesInv
    BY DEF RelayerInv
  <2>2. calls < MaxCalls /\ calls \in Nat /\ DOMAIN asked \subseteq 1..calls /\ MaxCalls \in Nat
    BY <2>1, IdFacts DEF NewCall, TypeOK
  <2>3. QED
    BY <2>1, <2>2, IdFacts
<1>3. pc[c] = "idle" /\ calls' = i /\ UNCHANGED <<deployed, nonce, executed, pool, net, accepted, refused, fetched>>
  BY <1>1 DEF Operation, chain, relayer
<1>4. \A j : (Travels(j)' <=> Travels(j)) /\ (Executed(j)' <=> Executed(j)) /\ (Out(j)' <=> Out(j))
  BY <1>3, OutSame
<1>5. ~Out(i)
  BY <1>2 DEF Out, Travels, Executed, RequestsInv
<1>6. CASE ~ArgumentsOk(a)
  <2>1. report' = [report EXCEPT ![i] = "error"] /\ UNCHANGED <<pc, call, txns, asked, rivals>>
    BY <1>1, <1>6 DEF Operation, history
  <2>2. TypeOK'
    <3>1. call' \in [Callers -> 0..calls'] /\ calls' \in 0..MaxCalls /\ DOMAIN asked' \subseteq 1..calls'
      BY <1>2, <1>3, <2>1, IdFacts DEF TypeOK
    <3>2. report' \in [Ids -> {"none", "ok", "error"}]
      BY <1>2, <2>1 DEF TypeOK
    <3>3. QED
      BY <1>2, <1>3, <2>1, <3>1, <3>2 DEF TypeOK
  <2>3. CallsInv'
    <3>1. \A j \in DOMAIN asked : report'[j] = report[j]
      BY <1>2, <2>1, IdFacts DEF TypeOK
    <3>2. \A j \in Ids : j > i => report'[j] = "none"
      BY <1>2, <2>1, IdFacts DEF TypeOK, CallsInv
    <3>3. QED
      BY <1>2, <1>3, <1>4, <2>1, <3>1, <3>2 DEF CallsInv
  <2>4. RequestsInv'
    BY <1>2, <1>3, <1>4, <1>5, <2>1 DEF RequestsInv, TypeOK
  <2>5. RacesInv'
    BY <1>2, <1>3, <2>1 DEF RacesInv, Overtaken, Rivals, Unsettled
  <2>6. QED
    BY <2>2, <2>3, <2>4, <2>5 DEF RelayerInv
<1>7. CASE ArgumentsOk(a)
  <2>1. /\ pc' = [pc EXCEPT ![c] = "deployed"]
        /\ call' = [call EXCEPT ![c] = i]
        /\ txns' = [txns EXCEPT ![c] = TransactionsOf(a)]
        /\ asked' = [j \in DOMAIN asked \cup {i} |-> IF j = i THEN Flatten(TransactionsOf(a)) ELSE asked[j]]
        /\ rivals' = [rivals EXCEPT ![i] = Unsettled]
        /\ UNCHANGED report
    BY <1>1, <1>7 DEF Operation
  <2>2. TransactionsOf(a) \in Bundles /\ Flatten(TransactionsOf(a)) \in Lists
    BY <1>2, <1>7 DEF Bundles, Lists
  <2>3. /\ DOMAIN asked' = DOMAIN asked \cup {i} /\ asked'[i] = Flatten(TransactionsOf(a))
        /\ \A j \in DOMAIN asked : asked'[j] = asked[j]
    BY <1>2, <2>1
  <2>4. /\ pc'[c] = "deployed" /\ call'[c] = i /\ txns'[c] = TransactionsOf(a)
        /\ \A d \in Callers : d # c => pc'[d] = pc[d] /\ call'[d] = call[d] /\ txns'[d] = txns[d]
    BY <1>2, <2>1 DEF TypeOK
  <2>5. Unsettled \subseteq DOMAIN asked /\ Unsettled' = Unsettled \cup {i}
    BY <1>2, <1>3, <2>4 DEF Unsettled, CallsInv, RequestsInv
  <2>6. /\ rivals'[i] = Unsettled
        /\ \A j \in DOMAIN asked : rivals'[j] = rivals[j]
    BY <1>2, <2>1, IdFacts DEF TypeOK
  <2>7. TypeOK'
    <3>1. DOMAIN asked \subseteq Ids /\ Unsettled \subseteq Ids
      BY <1>2, <2>5, IdFacts
    <3>2. rivals' \in [Ids -> SUBSET Ids]
      BY <1>2, <2>1, <3>1 DEF TypeOK
    <3>3. asked' \in [DOMAIN asked' -> Lists] /\ DOMAIN asked' \subseteq 1..calls'
      BY <1>2, <1>3, <2>1, <2>2, <2>3 DEF TypeOK
    <3>4. call' \in [Callers -> 0..calls'] /\ txns' \in [Callers -> Bundles \cup {<<>>}]
      BY <1>2, <1>3, <2>1, <2>2 DEF TypeOK
    <3>5. calls' \in 0..MaxCalls /\ pc' \in [Callers -> {"idle", "deployed", "nonce", "submit", "sent"}]
      BY <1>2, <1>3, <2>1, IdFacts DEF TypeOK
    <3>6. QED
      BY <1>2, <1>3, <2>1, <3>2, <3>3, <3>4, <3>5 DEF TypeOK
  <2>8. CallsInv'
    <3>1. report[i] = "none" /\ \A d \in Callers : pc[d] # "idle" => call[d] # i
      BY <1>2 DEF CallsInv
    <3>2. \A j \in Ids : j > calls' => report'[j] = "none"
      BY <1>2, <1>3, <2>1, IdFacts DEF CallsInv
    <3>3. \A d \in Callers : pc'[d] # "idle" =>
            /\ call'[d] \in DOMAIN asked' /\ report'[call'[d]] = "none"
            /\ txns'[d] \in Bundles /\ Flatten(txns'[d]) = asked'[call'[d]]
      BY <1>2, <2>1, <2>2, <2>3, <2>4, <3>1 DEF CallsInv
    <3>4. \A d, e \in Callers : pc'[d] # "idle" /\ pc'[e] # "idle" /\ call'[d] = call'[e] => d = e
      BY <1>2, <2>4, <3>1 DEF CallsInv
    <3>5. \A d \in Callers : pc'[d] \in {"deployed", "nonce", "submit"} => ~Out(call'[d]) /\ call'[d] \notin refused
      BY <1>2, <1>5, <2>4 DEF CallsInv, RequestsInv
    <3>6. QED
      BY <1>3, <1>4, <3>2, <3>3, <3>4, <3>5 DEF CallsInv
  <2>9. RequestsInv'
    BY <1>2, <1>3, <1>4, <2>1, <2>3 DEF RequestsInv
  <2>10. RacesInv'
    <3>1. \A j, k \in Unsettled' : j # k => Rivals(j, k)'
      BY <1>2, <2>5, <2>6 DEF RacesInv, Rivals
    <3>2. \A j \in DOMAIN asked, n \in Nat : Overtaken(j, n) => Overtaken(j, n)'
      <4>1. \A n \in Nat : n < nonce => executed[n + 1].id \in DOMAIN asked
        BY <1>2, IdFacts DEF TypeOK, RequestsInv
      <4>2. QED
        BY <1>3, <2>6, <4>1 DEF Overtaken, Rivals
    <3>3. \A r \in net' \cup pool' : Overtaken(r.id, r.nonce)'
      BY <1>2, <1>3, <3>2, IdFacts DEF RacesInv, RequestsInv
    <3>4. \A d \in Callers : pc'[d] = "submit" => Overtaken(call[d], fetched[d])'
      <4> SUFFICES ASSUME NEW d \in Callers, pc'[d] = "submit"
                   PROVE  Overtaken(call[d], fetched[d])'
        OBVIOUS
      <4>1. /\ d # c /\ pc[d] = "submit" /\ call'[d] = call[d] /\ fetched'[d] = fetched[d]
            /\ call[d] \in DOMAIN asked /\ fetched[d] \in Nat
        BY <1>2, <1>3, <2>4, IdFacts DEF CallsInv, TypeOK
      <4>2. Overtaken(call[d], fetched[d])
        BY <1>2, <4>1 DEF RacesInv
      <4>3. QED
        BY <3>2, <4>1, <4>2 DEF Overtaken, Rivals
    <3>5. QED
      BY <3>1, <3>3, <3>4 DEF RacesInv
  <2>11. QED
    BY <2>7, <2>8, <2>9, <2>10 DEF RelayerInv
<1>8. QED
  BY <1>6, <1>7

(***************************************************************************)
(* The end of a call.                                                      *)
(***************************************************************************)
LEMMA ReturnInv ==
  ASSUME RelayerInv, NEW c \in Callers, NEW r \in {"ok", "error"}, Return(c, r),
         pc[c] # "idle"
  PROVE  RelayerInv'
<1>1. TypeOK /\ CallsInv /\ RequestsInv /\ RacesInv
  BY DEF RelayerInv
<1>2. /\ report' = [report EXCEPT ![call[c]] = r]
      /\ pc' = [pc EXCEPT ![c] = "idle"]
      /\ call' = [call EXCEPT ![c] = 0]
      /\ txns' = [txns EXCEPT ![c] = <<>>]
      /\ fetched' = [fetched EXCEPT ![c] = 0]
      /\ UNCHANGED <<deployed, nonce, executed, pool, net, accepted, refused, calls, asked, rivals>>
  BY DEF Return, chain, relayer, history
<1>3. call[c] \in DOMAIN asked /\ call[c] \in Ids /\ call[c] <= calls
  BY <1>1, IdFacts DEF CallsInv, TypeOK
<1>4. /\ pc'[c] = "idle" /\ report'[call[c]] = r
      /\ \A d \in Callers : d # c => /\ pc'[d] = pc[d] /\ call'[d] = call[d]
                                     /\ txns'[d] = txns[d] /\ fetched'[d] = fetched[d]
      /\ \A j \in Ids : j # call[c] => report'[j] = report[j]
  BY <1>1, <1>2, <1>3 DEF TypeOK
<1>5. \A j : (Travels(j)' <=> Travels(j)) /\ (Executed(j)' <=> Executed(j)) /\ (Out(j)' <=> Out(j))
  BY <1>2, OutSame
<1>6. TypeOK'
  <2>1. /\ call' \in [Callers -> 0..calls'] /\ fetched' \in [Callers -> 0..MaxCalls]
        /\ txns' \in [Callers -> Bundles \cup {<<>>}]
        /\ pc' \in [Callers -> {"idle", "deployed", "nonce", "submit", "sent"}]
    BY <1>1, <1>2, IdFacts DEF TypeOK
  <2>2. report' \in [Ids -> {"none", "ok", "error"}]
    BY <1>1, <1>2 DEF TypeOK
  <2>3. QED
    BY <1>1, <1>2, <2>1, <2>2 DEF TypeOK
<1>7. CallsInv'
  <2>1. \A j \in Ids : j > calls' => report'[j] = "none"
    BY <1>1, <1>2, <1>3, <1>4, IdFacts DEF CallsInv
  <2>2. \A d \in Callers : pc'[d] # "idle" => d # c /\ pc[d] # "idle" /\ call[d] # call[c] /\ call[d] \in Ids
    BY <1>1, <1>4, IdFacts DEF CallsInv
  <2>3. \A d \in Callers : pc'[d] # "idle" =>
          /\ call'[d] \in DOMAIN asked' /\ report'[call'[d]] = "none"
          /\ txns'[d] \in Bundles /\ Flatten(txns'[d]) = asked'[call'[d]]
    BY <1>1, <1>2, <1>4, <2>2 DEF CallsInv
  <2>4. \A d, e \in Callers : pc'[d] # "idle" /\ pc'[e] # "idle" /\ call'[d] = call'[e] => d = e
    BY <1>1, <1>4, <2>2 DEF CallsInv
  <2>5. \A d \in Callers : pc'[d] \in {"deployed", "nonce", "submit"} => ~Out(call'[d]) /\ call'[d] \notin refused
    BY <1>1, <1>4, <2>2 DEF CallsInv
  <2>6. QED
    BY <1>2, <1>5, <2>1, <2>3, <2>4, <2>5 DEF CallsInv
<1>8. RequestsInv'
  <2>1. \A j \in Ids : j \in refused' => ~Out(j)
    BY <1>1, <1>2, <1>4 DEF RequestsInv
  <2>2. QED
    BY <1>1, <1>2, <1>5, <2>1 DEF RequestsInv
<1>9. RacesInv'
  <2>1. Unsettled' \subseteq Unsettled
    BY <1>2, <1>4 DEF Unsettled
  <2>2. QED
    BY <1>1, <1>2, <1>4, <2>1 DEF RacesInv, Overtaken, Rivals
<1>10. QED
  BY <1>6, <1>7, <1>8, <1>9 DEF RelayerInv

(***************************************************************************)
(* GetDeployed and GetNonce go on.  The nonce is not below the Safe's.     *)
(***************************************************************************)
LEMMA ProceedInv ==
  ASSUME RelayerInv, NEW c \in Callers, NEW k \in {"nonce", "submit"}, NEW n \in 0..MaxCalls,
         pc[c] \in {"deployed", "nonce"}, pc' = [pc EXCEPT ![c] = k],
         fetched' = [fetched EXCEPT ![c] = n], k = "submit" => n >= nonce,
         UNCHANGED <<chain, relayer, call, txns, calls, report, history>>
  PROVE  RelayerInv'
<1>1. TypeOK /\ CallsInv /\ RequestsInv /\ RacesInv
  BY DEF RelayerInv
<1>2. UNCHANGED <<deployed, nonce, executed, pool, net, accepted, refused, call, txns, calls, report, asked, rivals>>
  BY DEF chain, relayer, history
<1>3. /\ pc'[c] = k /\ fetched'[c] = n
      /\ \A d \in Callers : d # c => pc'[d] = pc[d] /\ fetched'[d] = fetched[d]
  BY <1>1 DEF TypeOK
<1>4. \A j : (Travels(j)' <=> Travels(j)) /\ (Executed(j)' <=> Executed(j)) /\ (Out(j)' <=> Out(j))
  BY <1>2, OutSame
<1>5. TypeOK'
  BY <1>1, <1>2 DEF TypeOK
<1>6. CallsInv'
  BY <1>1, <1>2, <1>3, <1>4 DEF CallsInv
<1>7. RequestsInv'
  BY <1>1, <1>2, <1>4 DEF RequestsInv
<1>8. RacesInv'
  <2>1. Unsettled' = Unsettled
    BY <1>2, <1>3 DEF Unsettled
  <2>2. k = "submit" => Overtaken(call[c], fetched[c])'
    BY <1>1, <1>2, <1>3, IdFacts DEF Overtaken
  <2>3. \A d \in Callers : pc'[d] = "submit" => Overtaken(call[d], fetched[d])'
    BY <1>1, <1>2, <1>3, <2>2 DEF RacesInv, Overtaken, Rivals
  <2>4. QED
    BY <1>1, <1>2, <2>1, <2>3 DEF RacesInv, Overtaken, Rivals
<1>9. QED
  BY <1>5, <1>6, <1>7, <1>8 DEF RelayerInv

LEMMA GetNonceInv ==
  ASSUME RelayerInv, NEW c \in Callers, GetNonce(c)
  PROVE  RelayerInv'
<1>1. nonce \in Nat /\ \A r \in pool : r.nonce \in Nat
  BY IdFacts DEF RelayerInv
<1>2. PICK n \in FetchedNonce(c) : fetched' = [fetched EXCEPT ![c] = n]
  BY DEF GetNonce
<1>3. n \in 0..MaxCalls /\ n >= nonce
  BY <1>1, <1>2, IdFacts DEF FetchedNonce, NonceAnswers
<1>4. QED
  BY <1>2, <1>3, ProceedInv DEF GetNonce

(***************************************************************************)
(* The submission.                                                         *)
(***************************************************************************)
LEMMA SubmitInv ==
  ASSUME RelayerInv, NEW c \in Callers, Submit(c)
  PROVE  RelayerInv'
<1> DEFINE q == BuildSafeTransactionRequest(call[c], txns[c], fetched[c])
<1>1. TypeOK /\ CallsInv /\ RequestsInv /\ RacesInv
  BY DEF RelayerInv
<1>2. /\ pc[c] = "submit" /\ net' = net \cup {q} /\ pc' = [pc EXCEPT ![c] = "sent"]
      /\ UNCHANGED <<deployed, nonce, executed, pool, accepted, refused, call, txns, fetched, calls, report, asked, rivals>>
  BY DEF Submit, chain, history
<1>3. /\ call[c] \in DOMAIN asked /\ call[c] \in Ids /\ txns[c] \in Bundles
      /\ fetched[c] \in 0..MaxCalls /\ report[call[c]] = "none" /\ Flatten(txns[c]) = asked[call[c]]
      /\ ~Out(call[c]) /\ call[c] \notin refused
  BY <1>1, <1>2, IdFacts DEF CallsInv, TypeOK
<1>4. q \in Requests /\ q.id = call[c] /\ q.nonce = fetched[c] /\ q.data = asked[call[c]]
  BY <1>3, RequestFacts
<1> HIDE DEF q
<1>5. pc'[c] = "sent" /\ \A d \in Callers : d # c => pc'[d] = pc[d]
  BY <1>1, <1>2 DEF TypeOK
<1>6. \A j : (Executed(j)' <=> Executed(j)) /\ (Travels(j)' <=> Travels(j) \/ j = call[c])
  BY <1>2, <1>4 DEF Executed, Travels
<1>7. TypeOK'
  BY <1>1, <1>2, <1>4 DEF TypeOK
<1>8. CallsInv'
  <2>1. \A d \in Callers : pc'[d] \in {"deployed", "nonce", "submit"} => d # c /\ call[d] # call[c] /\ ~Out(call[d])
    BY <1>1, <1>2, <1>5 DEF CallsInv
  <2>2. \A d \in Callers : pc'[d] \in {"deployed", "nonce", "submit"} => ~Out(call[d])'
    BY <1>2, <1>6, <2>1 DEF Out, Executed, Travels
  <2>3. QED
    BY <1>1, <1>2, <1>5, <2>2 DEF CallsInv
<1>9. RequestsInv'
  <2>1. ~Travels(call[c]) /\ ~Executed(call[c])
    BY <1>3 DEF Out
  <2>2. \A r \in net \cup pool : r.id # q.id
    BY <1>4, <2>1 DEF Travels
  <2>3. q \notin net \cup pool
    BY <2>2
  <2>4. \A j \in Ids : j \in refused' => ~Out(j)'
    <3> SUFFICES ASSUME NEW j \in Ids, j \in refused
                 PROVE  ~Out(j)'
      BY <1>2
    <3>1. ~Out(j)
      BY <1>1 DEF RequestsInv
    <3>2. j # call[c]
      BY <1>3
    <3>3. QED
      BY <1>6, <3>1, <3>2 DEF Out
  <2>5. QED
    BY <1>1, <1>2, <1>3, <1>4, <1>6, <2>1, <2>2, <2>3, <2>4 DEF RequestsInv
<1>10. RacesInv'
  <2>1. Unsettled' = Unsettled
    BY <1>2, <1>4, <1>5 DEF Unsettled
  <2>2. Overtaken(call[c], fetched[c])
    BY <1>1, <1>2 DEF RacesInv
  <2>3. \A r \in net' \cup pool' : Overtaken(r.id, r.nonce)'
    BY <1>1, <1>2, <1>4, <2>2 DEF RacesInv, Overtaken, Rivals
  <2>4. \A d \in Callers : pc'[d] = "submit" => Overtaken(call[d], fetched[d])'
    BY <1>1, <1>2, <1>5 DEF RacesInv, Overtaken, Rivals
  <2>5. QED
    BY <1>1, <1>2, <2>1, <2>3, <2>4 DEF RacesInv, Rivals
<1>11. QED
  BY <1>7, <1>8, <1>9, <1>10 DEF RelayerInv

-----------------------------------------------------------------------------
(***************************************************************************)
(* The relayer and the Safe: a request moves on or disappears.             *)
(***************************************************************************)
LEMMA SettleInv ==
  ASSUME RelayerInv, NEW r \in net \cup pool, Accept(r) \/ Refuse(r) \/ GiveUp(r)
  PROVE  RelayerInv'
<1>1. TypeOK /\ CallsInv /\ RequestsInv /\ RacesInv
  BY DEF RelayerInv
<1>2. UNCHANGED <<deployed, nonce, executed, pc, call, txns, fetched, calls, report, asked, rivals>>
  BY DEF Accept, Refuse, GiveUp, chain, job, history
<1>3. /\ net' \cup pool' \subseteq net \cup pool /\ net' \cap pool' = {}
      /\ accepted' \subseteq accepted \cup {r.id}
      /\ refused' \subseteq refused \cup {r.id}
      /\ r.id \in refused' => r.id \in refused \/ r \notin net' \cup pool'
  BY <1>1 DEF Accept, Refuse, GiveUp, RequestsInv
<1>4. \A j : (Executed(j)' <=> Executed(j)) /\ (Travels(j)' => Travels(j)) /\ (Out(j)' => Out(j))
  BY <1>2, <1>3 DEF Executed, Travels, Out
<1>5. r.id \in Ids /\ r.id \in DOMAIN asked /\ Travels(r.id)
  BY <1>1, IdFacts DEF RequestsInv, Travels
<1>6. TypeOK'
  BY <1>1, <1>2, <1>3, <1>5 DEF TypeOK
<1>7. CallsInv'
  <2>1. \A d \in Callers : pc[d] \in {"deployed", "nonce", "submit"} => ~Out(call[d]) /\ call[d] # r.id
    BY <1>1, <1>5 DEF CallsInv, Out
  <2>2. \A d \in Callers : pc[d] \in {"deployed", "nonce", "submit"} => ~Out(call[d])' /\ call[d] \notin refused'
    BY <1>1, <1>2, <1>3, <1>4, <2>1 DEF CallsInv, Out, Executed, Travels
  <2>3. QED
    BY <1>1, <1>2, <2>2 DEF CallsInv
<1>8. RequestsInv'
  <2>1. r.id \in refused' => ~Out(r.id)'
    <3>1. CASE r.id \in refused
      BY <1>1, <1>5, <3>1 DEF RequestsInv, Out
    <3>2. CASE r \notin net' \cup pool'
      BY <1>1, <1>3, <1>4, <3>2 DEF RequestsInv, Out, Travels
    <3>3. QED
      BY <1>3, <3>1, <3>2
  <2>2. \A j \in Ids : j \in refused' => ~Out(j)'
    BY <1>1, <1>2, <1>3, <1>4, <2>1 DEF RequestsInv
  <2>3. QED
    BY <1>1, <1>2, <1>3, <1>4, <1>5, <2>2 DEF RequestsInv
<1>9. RacesInv'
  <2>1. Unsettled' \subseteq Unsettled
    BY <1>2, <1>3 DEF Unsettled
  <2>2. QED
    BY <1>1, <1>2, <1>3, <2>1 DEF RacesInv, Overtaken, Rivals
<1>10. QED
  BY <1>6, <1>7, <1>8, <1>9 DEF RelayerInv

LEMMA ExecuteFacts ==
  ASSUME TypeOK, NEW r \in pool, Execute(r)
  PROVE  /\ executed' \in Seq(Requests) /\ Len(executed') = Len(executed) + 1 /\ Len(executed) \in Nat
         /\ executed'[Len(executed) + 1] = r
         /\ \A k \in 1..Len(executed) : executed'[k] = executed[k]
         /\ \A k \in 1..Len(executed') : k \in 1..Len(executed) \/ k = Len(executed) + 1
<1>1. executed \in Seq(Requests) /\ r \in Requests /\ executed' = Append(executed, r)
  BY DEF TypeOK, Execute
<1>2. QED
  BY <1>1

LEMMA ExecuteInv ==
  ASSUME RelayerInv, NEW r \in pool, Execute(r)
  PROVE  RelayerInv'
<1>1. TypeOK /\ CallsInv /\ RequestsInv /\ RacesInv
  BY DEF RelayerInv
<1>2. /\ r.nonce = nonce /\ nonce' = nonce + 1 /\ pool' = pool \ {r}
      /\ UNCHANGED <<deployed, net, accepted, refused, pc, call, txns, fetched, calls, report, asked, rivals>>
  BY DEF Execute, job, history
<1>3. nonce = Len(executed) /\ nonce \in Nat /\ r.id \in Ids /\ r.id \in DOMAIN asked /\ r.nonce \in Nat
  BY <1>1, IdFacts DEF TypeOK, RequestsInv
<1>4. /\ executed' \in Seq(Requests) /\ Len(executed') = nonce + 1
      /\ executed'[nonce + 1] = r
      /\ \A k \in 1..nonce : executed'[k] = executed[k]
      /\ \A k \in 1..Len(executed') : k \in 1..nonce \/ k = nonce + 1
  BY <1>1, <1>3, ExecuteFacts
<1>5. /\ \A j : Executed(j)' <=> Executed(j) \/ j = r.id
      /\ \A j : Travels(j)' => Travels(j)
      /\ \A j : Out(j)' => Out(j)
  <2>1. \A j : Executed(j)' <=> Executed(j) \/ j = r.id
    <3>1. \A j : Executed(j)' => Executed(j) \/ j = r.id
      BY <1>3, <1>4 DEF Executed
    <3>2. nonce + 1 \in 1..Len(executed') /\ \A k \in 1..nonce : k \in 1..Len(executed')
      BY <1>3, <1>4
    <3>3. \A j : Executed(j) \/ j = r.id => Executed(j)'
      BY <1>3, <1>4, <3>2 DEF Executed
    <3>4. QED
      BY <3>1, <3>3
  <2>2. \A j : Travels(j)' => Travels(j)
    BY <1>2 DEF Travels
  <2>3. QED
    BY <2>1, <2>2 DEF Out, Travels
<1>6. /\ r \notin net' \cup pool' /\ net' \cup pool' \subseteq net \cup pool
      /\ \A s \in net' \cup pool' : s.id # r.id
  BY <1>1, <1>2 DEF RequestsInv
<1>7. TypeOK'
  <2>1. \A k \in 1..nonce' : executed'[k].nonce = k - 1
    <3>1. \A k \in 1..nonce : executed[k].nonce = k - 1
      BY <1>1 DEF TypeOK
    <3>2. \A k \in 1..nonce' : k \in 1..nonce \/ k = nonce + 1
      BY <1>2, <1>3
    <3>3. executed'[nonce + 1].nonce = (nonce + 1) - 1
      BY <1>2, <1>3, <1>4
    <3>4. QED
      BY <1>4, <3>1, <3>2, <3>3
  <2>2. QED
    BY <1>1, <1>2, <1>4, <1>6, <2>1 DEF TypeOK
<1>8. CallsInv'
  <2>1. \A d \in Callers : pc[d] \in {"deployed", "nonce", "submit"} => ~Out(call[d])'
    <3>1. \A d \in Callers : pc[d] \in {"deployed", "nonce", "submit"} => ~Out(call[d])
      BY <1>1 DEF CallsInv
    <3>2. \A d \in Callers : call'[d] = call[d]
      BY <1>2
    <3>3. \A d \in Callers : Out(call[d])' => Out(call[d])
      BY <1>5, <3>2 DEF Out, Executed, Travels
    <3>4. QED
      BY <3>1, <3>3
  <2>2. QED
    BY <1>1, <1>2, <2>1 DEF CallsInv
<1>9. RequestsInv'
  <2>1. \A s \in net' \cup pool' : ~Executed(s.id)'
    BY <1>1, <1>5, <1>6 DEF RequestsInv
  <2>2. \A k \in 1..Len(executed') : executed'[k].id \in DOMAIN asked
    BY <1>1, <1>3, <1>4 DEF RequestsInv
  <2>3. \A j \in Ids : j \in refused' => ~Out(j)'
    BY <1>1, <1>2, <1>5 DEF RequestsInv
  <2>4. QED
    BY <1>1, <1>2, <1>6, <2>1, <2>2, <2>3 DEF RequestsInv
<1>10. RacesInv'
  <2>1. Unsettled' \subseteq Unsettled /\ r.id \in Unsettled
    BY <1>2 DEF Unsettled
  <2>2. \A j \in Unsettled, n \in Nat : j # r.id /\ Overtaken(j, n) => Overtaken(j, n)'
    <3> SUFFICES ASSUME NEW j \in Unsettled, NEW n \in Nat, j # r.id, Overtaken(j, n), n < nonce'
                 PROVE  Rivals(executed[n + 1].id, j)'
      BY DEF Overtaken
    <3>1. CASE n < nonce
      BY <1>2, <1>3, <1>4, <3>1 DEF Overtaken, Rivals
    <3>2. CASE n = nonce
      BY <1>1, <1>2, <1>4, <2>1, <3>2 DEF RacesInv, Rivals
    <3>3. QED
      BY <1>2, <1>3, <3>1, <3>2
  <2>3. \A s \in net' \cup pool' : Overtaken(s.id, s.nonce)'
    <3> SUFFICES ASSUME NEW s \in net' \cup pool'
                 PROVE  Overtaken(s.id, s.nonce)'
      OBVIOUS
    <3>1. s.id \in Unsettled /\ s.nonce \in Nat /\ Overtaken(s.id, s.nonce) /\ s.id # r.id
      BY <1>1, <1>6, IdFacts DEF Unsettled, RacesInv
    <3>2. QED
      BY <2>2, <3>1
  <2>4. \A d \in Callers : pc'[d] = "submit" => Overtaken(call[d], fetched[d])'
    <3> SUFFICES ASSUME NEW d \in Callers, pc[d] = "submit"
                 PROVE  Overtaken(call[d], fetched[d])'
      BY <1>2
    <3>1. call[d] \in Unsettled /\ fetched[d] \in Nat /\ Overtaken(call[d], fetched[d])
      BY <1>1, IdFacts DEF Unsettled, RacesInv, TypeOK
    <3>2. call[d] # r.id
      BY <1>1 DEF CallsInv, Out, Travels
    <3>3. QED
      BY <1>2, <2>2, <3>1, <3>2 DEF Overtaken, Rivals
  <2>5. QED
    BY <1>1, <1>2, <2>1, <2>3, <2>4 DEF RacesInv, Rivals
<1>11. QED
  BY <1>7, <1>8, <1>9, <1>10 DEF RelayerInv

LEMMA IdleInv ==
  ASSUME RelayerInv, UNCHANGED <<nonce, executed, relayer, job, calls, report, history>>, deployed' \in BOOLEAN
  PROVE  RelayerInv'
<1>1. /\ UNCHANGED <<nonce, executed, pool, net, accepted, refused, pc, call, txns, fetched, calls, report, asked, rivals>>
      /\ TypeOK /\ CallsInv /\ RequestsInv /\ RacesInv
  BY DEF relayer, job, history, RelayerInv
<1>2. \A j : (Travels(j)' <=> Travels(j)) /\ (Executed(j)' <=> Executed(j)) /\ (Out(j)' <=> Out(j))
  BY <1>1, OutSame
<1>3. TypeOK'
  BY <1>1 DEF TypeOK
<1>4. CallsInv' /\ RequestsInv'
  BY <1>1, <1>2 DEF CallsInv, RequestsInv
<1>5. RacesInv'
  BY <1>1 DEF RacesInv, Overtaken, Rivals, Unsettled
<1>6. QED
  BY <1>3, <1>4, <1>5 DEF RelayerInv

LEMMA ReturnFacts ==
  ASSUME RelayerInv, NEW c \in Callers, GetDeployed(c) \/ QueryFails(c) \/ PostReturns(c) \/ TransportError(c)
  PROVE  \/ /\ pc[c] # "idle"
            /\ \E r \in {"ok", "error"} : Return(c, r)
         \/ /\ pc[c] = "deployed" /\ pc' = [pc EXCEPT ![c] = "nonce"]
            /\ UNCHANGED <<chain, relayer, call, txns, fetched, calls, report, history>>
<1>1. PostResult(call[c]) \in {"ok", "error", "none"}
  BY DEF PostResult
<1>2. CASE GetDeployed(c) \/ QueryFails(c)
  BY <1>2 DEF GetDeployed, QueryFails
<1>3. CASE PostReturns(c)
  BY <1>1, <1>3 DEF PostReturns
<1>4. CASE TransportError(c)
  BY <1>4 DEF TransportError
<1>5. QED
  BY <1>2, <1>3, <1>4

(***************************************************************************)
(* RelayerInv is inductive.                                                *)
(***************************************************************************)
LEMMA Inductive ==
  ASSUME RelayerInv, [Next]_vars
  PROVE  RelayerInv'
<1>1. ASSUME NEW c \in Callers, GetDeployed(c) \/ QueryFails(c) \/ PostReturns(c) \/ TransportError(c)
      PROVE  RelayerInv'
  <2>1. CASE /\ pc[c] # "idle"
             /\ \E r \in {"ok", "error"} : Return(c, r)
    BY <2>1, ReturnInv
  <2>2. CASE /\ pc[c] = "deployed" /\ pc' = [pc EXCEPT ![c] = "nonce"]
             /\ UNCHANGED <<chain, relayer, call, txns, fetched, calls, report, history>>
    <3>1. fetched[c] \in 0..MaxCalls /\ fetched' = [fetched EXCEPT ![c] = fetched[c]]
      BY <2>2 DEF RelayerInv, TypeOK
    <3>2. QED
      BY <2>2, <3>1, ProceedInv
  <2>3. QED
    BY <1>1, <2>1, <2>2, ReturnFacts
<1>2. ASSUME Deploy
      PROVE  RelayerInv'
  BY <1>2, IdleInv DEF Deploy
<1>3. ASSUME UNCHANGED vars
      PROVE  RelayerInv'
  BY <1>3, IdleInv DEF vars, chain, RelayerInv, TypeOK
<1>4. QED
  BY <1>1, <1>2, <1>3, NewCallInv, GetNonceInv, SubmitInv, SettleInv, ExecuteInv DEF Next

LEMMA Initially ==
  ASSUME Init
  PROVE  RelayerInv
<1>1. /\ executed = <<>> /\ executed \in Seq(Requests) /\ Len(executed) = 0 /\ 1..0 = {}
      /\ asked = [i \in {} |-> <<>>] /\ DOMAIN asked = {} /\ asked \in [DOMAIN asked -> Lists]
  BY DEF Init
<1>2. TypeOK
  <2>1. /\ calls \in 0..MaxCalls /\ call \in [Callers -> 0..calls] /\ fetched \in [Callers -> 0..MaxCalls]
        /\ DOMAIN asked \subseteq 1..calls
    BY <1>1, IdFacts DEF Init
  <2>2. \A k \in 1..nonce : executed[k].nonce = k - 1
    BY <1>1 DEF Init
  <2>3. QED
    BY <1>1, <2>1, <2>2 DEF Init, TypeOK
<1>3. CallsInv
  BY DEF Init, CallsInv
<1>4. RequestsInv
  BY <1>1 DEF Init, RequestsInv
<1>5. RacesInv
  BY DEF Init, RacesInv, Unsettled
<1>6. QED
  BY <1>2, <1>3, <1>4, <1>5 DEF RelayerInv

-----------------------------------------------------------------------------
(***************************************************************************)
(* Every request is in one place and carries what its call asked for, and  *)
(* of two calls that are under way together one began while the other was. *)
(***************************************************************************)
THEOREM RequestsAccounted == Spec => []RelayerInv
<1>1. Init => RelayerInv
  BY Initially
<1>2. RelayerInv /\ [Next]_vars => RelayerInv'
  BY Inductive
<1>3. QED
  BY <1>1, <1>2, PTL DEF Spec

(***************************************************************************)
(* Types; the Safe's nonce counts what it has executed.                    *)
(***************************************************************************)
THEOREM RelayerTyped == Spec => []TypeOK
<1>1. RelayerInv => TypeOK
  BY DEF RelayerInv
<1>2. QED
  BY <1>1, RequestsAccounted, PTL

(***************************************************************************)
(* Only a call that was unsettled together with it takes the nonce of a    *)
(* submitted transaction (GetNonce is asked anew by every call).           *)
(***************************************************************************)
THEOREM LostOnlyToARival == Spec => []OvertakenOnlyIfRaced
<1>1. RelayerInv => OvertakenOnlyIfRaced
  BY DEF RelayerInv, RacesInv, Overtaken, Rivals, OvertakenOnlyIfRaced
<1>2. QED
  BY <1>1, RequestsAccounted, PTL

-----------------------------------------------------------------------------
(***************************************************************************)
(* The steps of the detailed specification are steps of SafeLedger.        *)
(***************************************************************************)
Mapped == [k \in 1..Len(executed) |-> [id |-> executed[k].id, calls |-> executed[k].data]]

LEMMA MappedFacts ==
  ASSUME TypeOK
  PROVE  /\ Mapped \in Seq([id : Ids, calls : Lists]) /\ Len(Mapped) = Len(executed)
         /\ \A i : Ledger!InLedger(i) <=> Executed(i)
<1>1. Len(executed) \in Nat /\ \A k \in 1..Len(executed) : executed[k] \in Requests
  BY DEF TypeOK
<1>2. \A k \in 1..Len(executed) : Mapped[k] \in [id : Ids, calls : Lists] /\ Mapped[k].id = executed[k].id
  BY <1>1 DEF Mapped, Requests
<1>3. Mapped \in Seq([id : Ids, calls : Lists]) /\ Len(Mapped) = Len(executed)
  <2>1. Mapped = [k \in 1..Len(executed) |-> Mapped[k]]
    BY DEF Mapped
  <2>2. QED
    BY <1>1, <1>2, <2>1
<1>4. \A i : Ledger!InLedger(i) <=> \E k \in 1..Len(Mapped) : Mapped[k].id = i
  BY DEF Ledger!InLedger, Mapped
<1>5. QED
  BY <1>2, <1>3, <1>4 DEF Executed

LEMMA AskStep ==
  ASSUME RelayerInv, NEW c \in Callers, NewCall(c)
  PROVE  Ledger!LedgerNext
<1> DEFINE i == calls + 1
<1>1. PICK a \in Arguments[i] : Operation(c, i, a)
  BY DEF NewCall
<1>2. /\ i \in Ids /\ i \notin DOMAIN asked /\ report[i] = "none" /\ TypeOK
  <2>1. TypeOK /\ CallsInv /\ calls < MaxCalls
    BY DEF RelayerInv, NewCall
  <2>2. calls \in Nat /\ MaxCalls \in Nat /\ Ids = 1..MaxCalls /\ DOMAIN asked \subseteq 1..calls
    BY <2>1, IdFacts DEF TypeOK
  <2>3. i \in Ids /\ i \notin DOMAIN asked /\ i > calls
    BY <2>1, <2>2
  <2>4. QED
    BY <2>1, <2>3 DEF CallsInv
<1>3. Mapped' = Mapped
  BY <1>1 DEF Operation, chain, Mapped
<1>4. CASE ~ArgumentsOk(a)
  <2>1. report' = [report EXCEPT ![i] = "error"] /\ asked' = asked
    BY <1>1, <1>4 DEF Operation, history
  <2>2. Ledger!Report(i, "error")
    BY <1>2, <1>3, <2>1 DEF Ledger!Report, Mapped
  <2>3. QED
    BY <1>2, <2>2 DEF Ledger!LedgerNext
<1>5. CASE ArgumentsOk(a)
  <2>1. Flatten(TransactionsOf(a)) \in Lists
    BY <1>2, <1>5 DEF Bundles, Lists
  <2>2. /\ asked' = [j \in DOMAIN asked \cup {i} |-> IF j = i THEN Flatten(TransactionsOf(a)) ELSE asked[j]]
        /\ UNCHANGED report
    BY <1>1, <1>5 DEF Operation
  <2>3. Ledger!Ask(i, Flatten(TransactionsOf(a)))
    BY <1>2, <1>3, <2>2 DEF Ledger!Ask, Mapped
  <2>4. QED
    BY <1>2, <2>1, <2>3 DEF Ledger!LedgerNext
<1>6. QED
  BY <1>4, <1>5

LEMMA ReportStep ==
  ASSUME RelayerInv, NEW c \in Callers, NEW r \in {"ok", "error"}, Return(c, r),
         pc[c] # "idle"
  PROVE  Ledger!LedgerNext
<1>1. /\ call[c] \in DOMAIN asked /\ call[c] \in Ids /\ report[call[c]] = "none" /\ TypeOK
  BY IdFacts DEF RelayerInv, CallsInv
<1>2. /\ report' = [report EXCEPT ![call[c]] = r] /\ asked' = asked /\ Mapped' = Mapped
  BY DEF Return, chain, history, Mapped
<1>3. Ledger!Report(call[c], r)
  BY <1>1, <1>2 DEF Ledger!Report, Mapped
<1>4. QED
  BY <1>1, <1>3 DEF Ledger!LedgerNext

LEMMA SettleStep ==
  ASSUME RelayerInv, NEW r \in pool, Execute(r)
  PROVE  Ledger!LedgerNext
<1>1. /\ r.id \in DOMAIN asked /\ r.id \in Ids /\ ~Executed(r.id) /\ r.data = asked[r.id] /\ TypeOK
      /\ r \in Requests
  BY IdFacts DEF RelayerInv, RequestsInv, TypeOK
<1>2. /\ Len(executed') = Len(executed) + 1 /\ Len(executed) \in Nat
      /\ executed'[Len(executed) + 1] = r
      /\ \A k \in 1..Len(executed) : executed'[k] = executed[k]
      /\ \A k \in 1..Len(executed') : k \in 1..Len(executed) \/ k = Len(executed) + 1
  BY <1>1, ExecuteFacts
<1> DEFINE e == [id |-> r.id, calls |-> asked[r.id]]
<1>3. Mapped' = Append(Mapped, e)
  <2>1. /\ Mapped \in Seq([id : Ids, calls : Lists]) /\ Len(Mapped) = Len(executed)
        /\ e \in [id : Ids, calls : Lists]
    BY <1>1, MappedFacts DEF Requests
  <2>2. Append(Mapped, e) = [k \in 1..(Len(executed) + 1) |-> IF k = Len(executed) + 1 THEN e ELSE Mapped[k]]
    BY <1>2, <2>1
  <2>3. Mapped' = [k \in 1..(Len(executed) + 1) |-> [id |-> executed'[k].id, calls |-> executed'[k].data]]
    BY <1>2 DEF Mapped
  <2>4. \A k \in 1..(Len(executed) + 1) :
          [id |-> executed'[k].id, calls |-> executed'[k].data] = IF k = Len(executed) + 1 THEN e ELSE Mapped[k]
    BY <1>1, <1>2 DEF Mapped
  <2>5. QED
    BY <2>2, <2>3, <2>4
<1>4. ~Ledger!InLedger(r.id)
  BY <1>1, MappedFacts
<1>5. UNCHANGED <<asked, report>>
  BY DEF Execute, history
<1>6. Ledger!Settle(r.id)
  BY <1>1, <1>3, <1>4, <1>5 DEF Ledger!Settle, Mapped
<1>7. QED
  BY <1>1, <1>6 DEF Ledger!LedgerNext

LEMMA LedgerStep ==
  ASSUME RelayerInv, [Next]_vars
  PROVE  [Ledger!LedgerNext]_(Ledger!ledgerVars)
<1>1. ASSUME UNCHANGED <<executed, asked, report>>
      PROVE  UNCHANGED Ledger!ledgerVars
  BY <1>1 DEF Ledger!ledgerVars
<1>2. ASSUME NEW c \in Callers, GetDeployed(c) \/ QueryFails(c) \/ PostReturns(c) \/ TransportError(c)
      PROVE  [Ledger!LedgerNext]_(Ledger!ledgerVars)
  <2>1. CASE /\ pc[c] # "idle"
             /\ \E r \in {"ok", "error"} : Return(c, r)
    BY <2>1, ReportStep
  <2>2. CASE UNCHANGED <<chain, relayer, call, txns, fetched, calls, report, history>>
    BY <1>1, <2>2 DEF chain, history
  <2>3. QED
    BY <1>2, <2>1, <2>2, ReturnFacts
<1>3. ASSUME NEW c \in Callers, GetNonce(c) \/ Submit(c)
      PROVE  UNCHANGED Ledger!ledgerVars
  BY <1>1, <1>3 DEF GetNonce, Submit, chain, history
<1>4. ASSUME NEW r, Accept(r) \/ Refuse(r) \/ GiveUp(r)
      PROVE  UNCHANGED Ledger!ledgerVars
  BY <1>1, <1>4 DEF Accept, Refuse, GiveUp, chain, history
<1>5. ASSUME Deploy \/ UNCHANGED vars
      PROVE  UNCHANGED Ledger!ledgerVars
  BY <1>1, <1>5 DEF Deploy, vars, chain, history
<1>6. QED
  BY <1>2, <1>3, <1>4, <1>5, AskStep, SettleStep DEF Next

(***************************************************************************)
(* EexecuteSafeTransactions implements SafeLedger: the Safe executes the   *)
(* list of a call as a whole and at most once, however requests and        *)
(* answers are lost, and nothing for a call that failed its checks.        *)
(***************************************************************************)
THEOREM RefinesLedger == Spec => ImplementsLedger
<1>1. Init => Ledger!LedgerInit
  BY DEF Init, Ledger!LedgerInit
<1>2. RelayerInv /\ [Next]_vars => [Ledger!LedgerNext]_(Ledger!ledgerVars)
  BY LedgerStep
<1>3. QED
  BY <1>1, <1>2, RequestsAccounted, PTL DEF Spec, ImplementsLedger, Ledger!LedgerSpec
=============================================================================
