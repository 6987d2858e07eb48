------------------------------ MODULE Relayer ------------------------------
(***************************************************************************)
(* The relayer client (relayer/relay_client.go, relayer/safe.go): every    *)
(* operation builds the transactions it needs; EexecuteSafeTransactions    *)
(* checks that the Safe is deployed, fetches its nonce, signs the          *)
(* transactions as one and submits them.  Several goroutines share the     *)
(* client and the Safe; nothing orders their calls.                        *)
(*                                                                         *)
(* The relayer and the Safe contract are external: the relayer accepts or  *)
(* refuses a request, possibly long after its sender has given up on it;   *)
(* the Safe executes a transaction only with its current nonce.  A         *)
(* contract call is the record of its target, method, condition and        *)
(* amount; calldata, hashes and headers are left out.                      *)
(***************************************************************************)
EXTENDS Integers, Sequences, FiniteSets

CONSTANTS
  Callers,     \* goroutines that share the client
  Arguments,   \* bound: Arguments[i], the operations the i-th call may be, with arguments
  Decimals,    \* decimals of the collateral token
  MaxCalls     \* bound: calls of all callers together

ASSUME BoundsAssumption == MaxCalls \in Nat /\ Decimals \in Nat

Ids == 1..MaxCalls

Operations == {"RedeemBatch", "SplitTokens", "MergeTokens", "Transfer", "Approve"}

ASSUME ArgumentsAssumption ==
  \A i \in Ids : \A a \in Arguments[i] :
    /\ a.op \in Operations
    /\ a.op = "RedeemBatch" =>
         Len(a.conditionIds) \in Nat /\ DOMAIN a.conditionIds = 1..Len(a.conditionIds)

VARIABLES
  deployed,   \* the Safe exists
  nonce,      \* the Safe's nonce
  executed,   \* requests the Safe has executed, in order
  pool,       \* requests the relayer has accepted and not settled
  net,        \* requests on their way to the relayer
  accepted, refused,  \* calls whose request the relayer has answered
  pc, call,   \* where each caller is, and the number of its call
  txns,       \* transactions of the call
  fetched,    \* the nonce the call has fetched
  calls,      \* number of calls made
  report,     \* report[i]: what call i returned
  asked,      \* history: what each call that passed its checks asked for
  rivals      \* history: rivals[i], the calls unsettled when call i began

chain == <<deployed, nonce, executed>>
relayer == <<pool, net, accepted, refused>>
job == <<pc, call, txns, fetched>>
history == <<asked, rivals>>
vars == <<chain, relayer, job, calls, report, history>>

-----------------------------------------------------------------------------
(***************************************************************************)
(* An amount is a decimal number: the digits m with s of them behind the   *)
(* point; <<>> is a string that is no number.  ParseUnits cuts off what is *)
(* finer than the unit.                                                    *)
(***************************************************************************)
ParseUnits(a, decimals) ==
  IF a[2] <= decimals THEN a[1] * 10^(decimals - a[2]) ELSE a[1] \div 10^(a[2] - decimals)

IsNumber(a) == a # <<>>

(***************************************************************************)
(* A transaction is an operation and the contract calls in its data.       *)
(***************************************************************************)
SafeTransaction(to, method, arg, amount) ==
  [operation |-> "call",
   data |-> <<[to |-> to, method |-> method, arg |-> arg, amount |-> amount]>>]

Adapter(negRisk) == IF negRisk THEN "negRiskAdapter" ELSE "ctfAdapter"

(***************************************************************************)
(* RedeemBatch: one transaction per condition; only the adapter for        *)
(* negative-risk markets is told the amounts.                              *)
(***************************************************************************)
RedeemTx(a, i) ==
  SafeTransaction(Adapter(a.negRisks[i]), "redeemPositions", a.conditionIds[i],
                  IF a.negRisks[i] THEN a.amounts[i] ELSE 0)

RedeemBatch(a) == [i \in DOMAIN a.conditionIds |-> RedeemTx(a, i)]

SplitTokens(a) ==
  <<SafeTransaction(Adapter(a.negRisk), "splitPosition", a.conditionId, ParseUnits(a.amount, Decimals))>>

MergeTokens(a) ==
  <<SafeTransaction(Adapter(a.negRisk), "mergePositions", a.conditionId, ParseUnits(a.amount, Decimals))>>

Transfer(a) == <<SafeTransaction(a.erc20, "transfer", a.to, ParseUnits(a.amount, a.decimals))>>

Approve(a) == <<SafeTransaction(a.erc20, "approve", a.to, ParseUnits(a.amount, a.decimals))>>

TransactionsOf(a) ==
  CASE a.op = "RedeemBatch" -> RedeemBatch(a)
    [] a.op = "SplitTokens" -> SplitTokens(a)
    [] a.op = "MergeTokens" -> MergeTokens(a)
    [] a.op = "Transfer" -> Transfer(a)
    [] a.op = "Approve" -> Approve(a)

(***************************************************************************)
(* The checks an operation makes before anything is sent.                  *)
(***************************************************************************)
ArgumentsOk(a) ==
  CASE a.op = "RedeemBatch" ->
         ~a.isNil /\ Len(a.negRisks) = Len(a.conditionIds) /\ Len(a.amounts) = Len(a.conditionIds)
    [] a.op \in {"SplitTokens", "MergeTokens"} -> a.conditionId # "" /\ IsNumber(a.amount)
    [] a.op \in {"Transfer", "Approve"} -> IsNumber(a.amount)

(***************************************************************************)
(* One transaction is executed as it is, none or several through the       *)
(* multisend contract, in the order of the list.                           *)
(***************************************************************************)
Flatten(txs) == [i \in DOMAIN txs |-> txs[i].data[1]]

CreateSafeMultisendTransaction(txs) == [operation |-> "delegatecall", data |-> Flatten(txs)]

AggregateTransaction(txs) == IF Len(txs) = 1 THEN txs[1] ELSE CreateSafeMultisendTransaction(txs)

BuildSafeTransactionRequest(i, txs, n) ==
  LET tx == AggregateTransaction(txs) IN
  [id |-> i, nonce |-> n, operation |-> tx.operation, data |-> tx.data]

Bundles == {TransactionsOf(a) : a \in {b \in UNION {Arguments[i] : i \in Ids} : ArgumentsOk(b)}}

Lists == {Flatten(txs) : txs \in Bundles}

Requests ==
  [id : Ids, nonce : 0..MaxCalls, operation : {"call", "delegatecall"}, data : Lists]

TypeOK ==
  /\ deployed \in BOOLEAN
  /\ executed \in Seq(Requests) /\ nonce = Len(executed)
  /\ \A k \in 1..nonce : executed[k].nonce = k - 1
  /\ pool \subseteq Requests /\ net \subseteq Requests
  /\ accepted \subseteq Ids /\ refused \subseteq Ids
  /\ calls \in 0..MaxCalls
  /\ pc \in [Callers -> {"idle", "deployed", "nonce", "submit", "sent"}]
  /\ call \in [Callers -> 0..calls]
  /\ txns \in [Callers -> Bundles \cup {<<>>}]
  /\ fetched \in [Callers -> 0..MaxCalls]
  /\ report \in [Ids -> {"none", "ok", "error"}]
  /\ asked \in [DOMAIN asked -> Lists] /\ DOMAIN asked \subseteq 1..calls
  /\ rivals \in [Ids -> SUBSET Ids]

Init ==
  /\ deployed = FALSE /\ nonce = 0 /\ executed = <<>>
  /\ pool = {} /\ net = {} /\ accepted = {} /\ refused = {}
  /\ pc = [c \in Callers |-> "idle"]
  /\ call = [c \in Callers |-> 0]
  /\ txns = [c \in Callers |-> <<>>]
  /\ fetched = [c \in Callers |-> 0]
  /\ calls = 0
  /\ report = [i \in Ids |-> "none"]
  /\ asked = [i \in {} |-> <<>>]
  /\ rivals = [i \in Ids |-> {}]

-----------------------------------------------------------------------------
Unsettled ==
  {call[c] : c \in {d \in Callers : pc[d] # "idle"}} \cup {r.id : r \in net \cup pool}

(***************************************************************************)
(* RedeemBatch, SplitTokens, MergeTokens, Transfer and Approve check and   *)
(* pack their arguments, or report what is wrong with them.                *)
(***************************************************************************)
Operation(c, i, a) ==
  /\ pc[c] = "idle"
  /\ calls' = i
  /\ IF ArgumentsOk(a)
     THEN /\ pc' = [pc EXCEPT ![c] = "deployed"]
          /\ call' = [call EXCEPT ![c] = i]
          /\ txns' = [txns EXCEPT ![c] = TransactionsOf(a)]
          /\ asked' = [j \in DOMAIN asked \cup {i} |-> IF j = i THEN Flatten(TransactionsOf(a)) ELSE asked[j]]
          /\ rivals' = [rivals EXCEPT ![i] = Unsettled]
          /\ UNCHANGED report
     ELSE /\ report' = [report EXCEPT ![i] = "error"]
          /\ UNCHANGED <<pc, call, txns, history>>
  /\ UNCHANGED <<chain, relayer, fetched>>

Return(c, r) ==
  /\ report' = [report EXCEPT ![call[c]] = r]
  /\ pc' = [pc EXCEPT ![c] = "idle"]
  /\ call' = [call EXCEPT ![c] = 0]
  /\ txns' = [txns EXCEPT ![c] = <<>>]
  /\ fetched' = [fetched EXCEPT ![c] = 0]
  /\ UNCHANGED <<chain, relayer, calls, history>>

(***************************************************************************)
(* EexecuteSafeTransactions: GetDeployed, GetNonce and the submission.  A  *)
(* failed request ends the call.                                           *)
(***************************************************************************)
GetDeployed(c) ==
  /\ pc[c] = "deployed"
  /\ IF deployed
     THEN /\ pc' = [pc EXCEPT ![c] = "nonce"]
          /\ UNCHANGED <<chain, relayer, call, txns, fetched, calls, report, history>>
     ELSE Return(c, "error")

(***************************************************************************)
(* The relayer may or may not count what it has accepted already and can   *)
(* still be executed; what it answers is not below the Safe's nonce.       *)
(***************************************************************************)
NonceAnswers == {nonce} \cup {r.nonce + 1 : r \in {q \in pool : q.nonce >= nonce}}

FetchedNonce_Remembered(c) == {0}

FetchedNonce(c) == {n \in NonceAnswers : n <= MaxCalls}

GetNonce(c) ==
  /\ pc[c] = "nonce"
  /\ \E n \in FetchedNonce(c) : fetched' = [fetched EXCEPT ![c] = n]
  /\ pc' = [pc EXCEPT ![c] = "submit"]
  /\ UNCHANGED <<chain, relayer, call, txns, calls, report, history>>

QueryFails(c) == pc[c] \in {"deployed", "nonce"} /\ Return(c, "error")

Submit(c) ==
  /\ pc[c] = "submit"
  /\ net' = net \cup {BuildSafeTransactionRequest(call[c], txns[c], fetched[c])}
  /\ pc' = [pc EXCEPT ![c] = "sent"]
  /\ UNCHANGED <<chain, pool, accepted, refused, call, txns, fetched, calls, report, history>>

(***************************************************************************)
(* What Post makes of the answer.  A transport error can come at any time  *)
(* and leaves open what happens to the request; the caller gets a plain    *)
(* error, as for a refusal or a failed check.                              *)
(***************************************************************************)
PostResult(i) ==
  IF i \in accepted THEN "ok" ELSE IF i \in refused THEN "error" ELSE "none"

PostReturns(c) ==
  /\ pc[c] = "sent" /\ PostResult(call[c]) # "none"
  /\ Return(c, PostResult(call[c]))

TransportError_Retries(c) ==
  /\ pc[c] = "sent" /\ pc' = [pc EXCEPT ![c] = "nonce"]
  /\ UNCHANGED <<chain, relayer, call, txns, fetched, calls, report, history>>

TransportError(c) == pc[c] = "sent" /\ Return(c, "error")

-----------------------------------------------------------------------------
(***************************************************************************)
(* The relayer and the Safe.  The relayer gives up a transaction that      *)
(* reverts or has the wrong nonce.                                         *)
(***************************************************************************)
Deploy ==
  /\ ~deployed /\ deployed' = TRUE
  /\ UNCHANGED <<nonce, executed, relayer, job, calls, report, history>>

Accept(r) ==
  /\ r \in net
  /\ net' = net \ {r}
  /\ pool' = pool \cup {r} /\ accepted' = accepted \cup {r.id}
  /\ UNCHANGED <<chain, refused, job, calls, report, history>>

Refuse(r) ==
  /\ r \in net
  /\ net' = net \ {r}
  /\ refused' = refused \cup {r.id}
  /\ UNCHANGED <<chain, pool, accepted, job, calls, report, history>>

Execute(r) ==
  /\ r \in pool /\ r.nonce = nonce
  /\ executed' = Append(executed, r) /\ nonce' = nonce + 1
  /\ pool' = pool \ {r}
  /\ UNCHANGED <<deployed, net, accepted, refused, job, calls, report, history>>

GiveUp(r) ==
  /\ r \in pool
  /\ pool' = pool \ {r}
  /\ UNCHANGED <<chain, net, accepted, refused, job, calls, report, history>>

-----------------------------------------------------------------------------
NewCall(c) == calls < MaxCalls /\ \E a \in Arguments[calls + 1] : Operation(c, calls + 1, a)

Next ==
  \/ \E c \in Callers :
       \/ NewCall(c) \/ GetDeployed(c) \/ GetNonce(c) \/ QueryFails(c)
       \/ Submit(c) \/ PostReturns(c) \/ TransportError(c)
  \/ Deploy
  \/ \E r \in net : Accept(r) \/ Refuse(r)
  \/ \E r \in pool : Execute(r) \/ GiveUp(r)

Spec == Init /\ [][Next]_vars

-----------------------------------------------------------------------------
(***************************************************************************)
(* Every call executes as a whole, in the order of its list and at most    *)
(* once, however its answer is lost, and a call that failed its checks not *)
(* at all (EexecuteSafeTransactions, AggregateTransaction, RedeemBatch).   *)
(***************************************************************************)
Ledger ==
  INSTANCE SafeLedger WITH
    Calls <- Ids,
    ledger <- [k \in 1..Len(executed) |-> [id |-> executed[k].id, calls |-> executed[k].data]]

ImplementsLedger == Ledger!LedgerSpec

(***************************************************************************)
(* A submitted transaction is overtaken, that is, another one takes its    *)
(* nonce, only by a call that was unsettled while it was: a caller that    *)
(* waits for each transaction to settle loses none (GetNonce is asked      *)
(* anew by every call).                                                    *)
(***************************************************************************)
OvertakenOnlyIfRaced ==
  \A r \in net \cup pool :
    r.nonce < nonce =>
      LET e == executed[r.nonce + 1] IN e.id \in rivals[r.id] \/ r.id \in rivals[e.id]
=============================================================================
