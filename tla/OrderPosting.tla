---------------------------- MODULE OrderPosting ----------------------------
(***************************************************************************)
(* Posting and cancelling orders (polymarket/polymarket.go) while another  *)
(* goroutine walks the open orders or the positions (module Paging).  A    *)
(* request may be lost, may be answered after its sender has stopped       *)
(* waiting, and may arrive that late; the caller then posts the same       *)
(* signed order again or cancels it.                                       *)
(*                                                                         *)
(* The exchange is external: it checks the signature of an order,          *)
(* identifies it by its signed content and takes it once.  Of the content  *)
(* the salt, the addresses, the signature type and the expiration are      *)
(* kept; hashes are what they are computed from, a signature is the key    *)
(* and the signed hash.                                                    *)
(***************************************************************************)
EXTENDS Paging, FiniteSets

Types == {"EOA", "POLY_PROXY", "POLY_GNOSIS_SAFE", "POLY_1271"}
NoType == "nil"
NoFunder == ""
Own == "own"   \* the address of the client's key
Wallets == {"proxy", "safe", "contract"}   \* the wallets that key owns

CONSTANTS
  Callers,      \* goroutines that post and cancel
  Orders,       \* signed orders
  Standing,     \* Standing[api]: the orders and positions there are from the start
  Batches,      \* bound: lists of orders that a call posts or cancels
  MarketOrders, \* the orders of the market that CancelMarketOrders is called for
  Configs,      \* configurations: signature type, FunderAddress, CLOB credentials or not
  Options,      \* Options[o]: signature type, expiration and exchange asked for with o
  Salt,         \* Salt[o]: what the generator drew when o was built
  MaxCalls,     \* bound: calls that post or cancel
  MaxWalkCalls, \* bound: those of them that come before a walk or during it
  MaxTrades     \* bound: orders filled and positions closed

ASSUME OrdersAssumption ==
  /\ MarketOrders \subseteq Orders
  /\ Standing \in [Apis -> Seq(Orders)] /\ Batches \subseteq Seq(Orders)
  /\ \A a \in Apis : IsInjective(Standing[a])
  /\ ToSet(Standing["orders"]) \cap ToSet(Standing["positions"]) = {}
ASSUME SigningAssumption ==
  /\ Configs \subseteq [signatureType : Types, funder : Wallets \cup {Own, NoFunder}, hasCLOBAuth : BOOLEAN]
  /\ Salt \in [Orders -> Nat]
  /\ Options \in [Orders -> [signatureType : Types \cup {NoType}, expiration : Nat, negRisk : BOOLEAN]]
ASSUME CallsAssumption ==
  MaxCalls \in Nat /\ MaxWalkCalls \in 0..MaxCalls /\ MaxTrades \in Nat

VARIABLES
  cfg,              \* the client's configuration
  net,              \* requests on their way to the exchange
  taken,            \* identities the exchange has taken orders under
  placed,           \* history: how often the exchange has taken each order
  answers,          \* number of the call -> the orders its answer confirms
  pc, call, kind,   \* where each caller is, its call and what that asks for
  acked, gone,      \* orders confirmed to a caller as taken, as cancelled
  panicked,         \* a panic ended the program
  calls, trades     \* counters for the bounds

exchange == <<net, taken, placed, answers>>
knowledge == <<acked, gone>>
postVars == <<cfg, exchange, pc, call, kind, knowledge, panicked, calls, trades>>
vars == <<lists, walkVars, postVars>>

Kinds == {"post", "cancel"}
NoKind == "none"

ListsOK ==
  /\ lists \in [Apis -> Seq(Orders)] /\ \A a \in Apis : IsInjective(lists[a])
  /\ ToSet(lists["orders"]) \cap ToSet(lists["positions"]) = {}

WalkOK ==
  /\ walk \in {"before", "caller", "loop", "sent", "done", "refused"}
  /\ pageSize \in Nat \ {0} /\ api \in Apis /\ onlyFirstPage \in BOOLEAN
  /\ nextCursor \in Int /\ cursor \in Int /\ fails \in 0..MaxFails
  /\ items \in Seq(Orders) /\ collected \in Seq(Orders) /\ expected \in Seq(Orders)
  /\ changed \in BOOLEAN /\ shrank \in BOOLEAN

CallsOK ==
  /\ \A m \in net : m.id \in 1..calls /\ m.kind \in Kinds /\ m.id \notin DOMAIN answers
  /\ \A i \in DOMAIN answers : i \in 1..calls /\ answers[i] \subseteq Orders
  /\ pc \in [Callers -> {"idle", "sent"}]
  /\ call \in [Callers -> 0..calls] /\ kind \in [Callers -> Kinds \cup {NoKind}]
  /\ \A c \in Callers : pc[c] = "sent" => call[c] # 0 /\ kind[c] \in Kinds
  /\ acked \subseteq Orders /\ gone \subseteq Orders /\ panicked \in BOOLEAN
  /\ placed \in [Orders -> Nat]
  /\ calls \in 0..MaxCalls /\ trades \in 0..MaxTrades

TypeOK == ListsOK /\ WalkOK /\ CallsOK

Init ==
  /\ cfg \in Configs
  /\ lists = Standing /\ WalkInit
  /\ net = {}
  /\ taken = {[order |-> o, salt |-> Salt[o]] : o \in UNION {ToSet(Standing[a]) : a \in Apis}}
  /\ placed = [o \in Orders |-> IF \E a \in Apis : o \in ToSet(Standing[a]) THEN 1 ELSE 0]
  /\ answers = [i \in {} |-> {}]
  /\ pc = [c \in Callers |-> "idle"]
  /\ call = [c \in Callers |-> 0]
  /\ kind = [c \in Callers |-> NoKind]
  /\ acked = {} /\ gone = {}
  /\ panicked = FALSE
  /\ calls = 0 /\ trades = 0

-----------------------------------------------------------------------------
(***************************************************************************)
(* CreateOrder: who makes and who signs an order.  A contract wallet signs *)
(* for itself, with the key of its owner.                                  *)
(***************************************************************************)
TypeOf(o) == IF Options[o].signatureType = NoType THEN cfg.signatureType ELSE Options[o].signatureType

Maker == IF cfg.funder # NoFunder THEN cfg.funder ELSE Own

SignerForOrder_Own(type) == Own

SignerForOrder(type) == IF type = "POLY_1271" THEN Maker ELSE Own

VerifyingContract(o) == IF Options[o].negRisk THEN "NegRiskCTFExchange" ELSE "CTFExchange"

BuildOrder(o, salt) ==
  [order |-> o, salt |-> salt, maker |-> Maker, signer |-> SignerForOrder(TypeOf(o)),
   signatureType |-> TypeOf(o), expiration |-> Options[o].expiration]

(***************************************************************************)
(* The hash covers everything but the expiration, and the contract.        *)
(***************************************************************************)
BuildOrderHash(order, contract) ==
  [contents |-> <<order.order, order.salt, order.maker, order.signer, order.signatureType>>,
   contract |-> contract]

(***************************************************************************)
(* The signature of a contract wallet is for the hash wrapped in that      *)
(* wallet's own domain.                                                    *)
(***************************************************************************)
BuildOrderSignature(order, contract) ==
  [key |-> Own, hash |-> BuildOrderHash(order, contract),
   wallet |-> IF order.signatureType = "POLY_1271" THEN order.signer ELSE "none"]

BuildSignedOrder(o, salt) ==
  LET order == BuildOrder(o, salt) IN
  [order |-> order, signature |-> BuildOrderSignature(order, VerifyingContract(o))]

(***************************************************************************)
(* The order as it is posted: the expiration is always "0", the salt is    *)
(* the one it was signed with.                                             *)
(***************************************************************************)
OrderToDTO(signed) ==
  [order |-> [signed.order EXCEPT !.expiration = 0], signature |-> signed.signature]

Payload_Rebuilt(os) == [k \in DOMAIN os |-> OrderToDTO(BuildSignedOrder(os[k], Salt[os[k]] + calls))]

Payload(os) == [k \in DOMAIN os |-> OrderToDTO(BuildSignedOrder(os[k], Salt[os[k]]))]

(***************************************************************************)
(* PostOrder, PostOrders, CancelOrder and CancelOrders need credentials    *)
(* and send one request; without them they fail at once.                   *)
(***************************************************************************)
SendRequest(c, k, content) ==
  /\ net' = net \cup {[id |-> calls + 1, kind |-> k, content |-> content]}
  /\ pc' = [pc EXCEPT ![c] = "sent"]
  /\ call' = [call EXCEPT ![c] = calls + 1]
  /\ kind' = [kind EXCEPT ![c] = k]

NewCall(c) ==
  /\ pc[c] = "idle" /\ calls < IF walk = "before" THEN MaxCalls ELSE MaxWalkCalls
  /\ calls' = calls + 1
  /\ UNCHANGED <<lists, walkVars, cfg, taken, placed, answers, knowledge, trades>>

PostOrders(c, os) ==
  /\ NewCall(c)
  /\ cfg.hasCLOBAuth /\ SendRequest(c, "post", Payload(os))
  /\ UNCHANGED panicked

CancelOrders(c, os) ==
  /\ NewCall(c)
  /\ cfg.hasCLOBAuth /\ SendRequest(c, "cancel", ToSet(os))
  /\ UNCHANGED panicked

NoCredentials(c) ==
  /\ NewCall(c)
  /\ ~cfg.hasCLOBAuth
  /\ UNCHANGED <<net, pc, call, kind, panicked>>

(***************************************************************************)
(* CancelMarketOrders does not look at the credentials; CreateL2Headers    *)
(* panics without them.                                                    *)
(***************************************************************************)
CancelMarketOrders(c) ==
  /\ NewCall(c)
  /\ IF cfg.hasCLOBAuth
     THEN SendRequest(c, "cancel", MarketOrders) /\ UNCHANGED panicked
     ELSE panicked' = TRUE /\ UNCHANGED <<net, pc, call, kind>>

-----------------------------------------------------------------------------
(***************************************************************************)
(* The exchange.  It takes what it pleases of a post, but no identity that *)
(* it took before; where it lists new orders is its business.  An answer   *)
(* goes to the caller if it still waits.                                   *)
(***************************************************************************)
Identity(dto) == [order |-> dto.order.order, salt |-> dto.order.salt]

(***************************************************************************)
(* The signature is checked against the content that arrived, for the      *)
(* exchange of the market: by the key of the signer, or by the contract    *)
(* wallet, which is the maker and has the client's key as its owner.  A    *)
(* key signs for itself, for its proxy wallet, for its safe or for its     *)
(* contract wallet, each with a signature type of its own.                 *)
(***************************************************************************)
MakerFor ==
  [type \in Types |->
     CASE type = "EOA" -> Own [] type = "POLY_PROXY" -> "proxy"
       [] type = "POLY_GNOSIS_SAFE" -> "safe" [] type = "POLY_1271" -> "contract"]

Verifies(dto) ==
  /\ dto.order.maker = MakerFor[dto.order.signatureType]
  /\ dto.signature.hash = BuildOrderHash(dto.order, VerifyingContract(dto.order.order))
  /\ IF dto.order.signatureType = "POLY_1271"
     THEN dto.order.signer = dto.order.maker /\ dto.signature.wallet = dto.order.maker
     ELSE dto.signature.key = dto.order.signer /\ dto.signature.wallet = "none"

Answer(m, confirmed) ==
  /\ net' = net \ {m}
  /\ answers' = IF \E c \in Callers : pc[c] = "sent" /\ call[c] = m.id
                THEN [i \in DOMAIN answers \cup {m.id} |-> IF i = m.id THEN confirmed ELSE answers[i]]
                ELSE answers
  /\ UNCHANGED <<cfg, pc, call, kind, knowledge, panicked, calls, trades>>

TakeOrders(m) ==
  /\ m \in net /\ m.kind = "post"
  /\ \E new \in SUBSET {Identity(dto) : dto \in {d \in ToSet(m.content) : Verifies(d)}}, front \in BOOLEAN :
       LET os == {d.order : d \in new} IN
       /\ new \cap taken = {} /\ taken' = taken \cup new
       /\ placed' = [o \in Orders |-> placed[o] + Cardinality({d \in new : d.order = o})]
       /\ \E s \in SetToSeqs(os) :
            ListsBecome([lists EXCEPT !["orders"] = IF front THEN s \o @ ELSE @ \o s])
       /\ Answer(m, os)

(***************************************************************************)
(* The items of s that are not in drop, in the order of s.                 *)
(***************************************************************************)
Without(s, drop) ==
  LET kept[k \in 0..Len(s)] ==
        IF k = 0 THEN <<>> ELSE IF s[k] \in drop THEN kept[k - 1] ELSE Append(kept[k - 1], s[k])
  IN kept[Len(s)]

DropOrders(m) ==
  /\ m \in net /\ m.kind = "cancel"
  /\ ListsBecome([lists EXCEPT !["orders"] = Without(@, m.content)])
  /\ Answer(m, m.content \cap ToSet(lists["orders"]))
  /\ UNCHANGED <<taken, placed>>

(***************************************************************************)
(* An order is filled and becomes a position; a position is closed.        *)
(***************************************************************************)
Fill(o) ==
  /\ o \in ToSet(lists["orders"]) /\ trades < MaxTrades
  /\ trades' = trades + 1
  /\ \E front \in BOOLEAN :
       ListsBecome([lists EXCEPT !["orders"] = Without(@, {o}),
                                 !["positions"] = IF front THEN <<o>> \o @ ELSE Append(@, o)])
  /\ UNCHANGED <<cfg, exchange, pc, call, kind, knowledge, panicked, calls>>

ClosePosition(o) ==
  /\ o \in ToSet(lists["positions"]) /\ trades < MaxTrades
  /\ trades' = trades + 1
  /\ ListsBecome([lists EXCEPT !["positions"] = Without(@, {o})])
  /\ UNCHANGED <<cfg, exchange, pc, call, kind, knowledge, panicked, calls>>

-----------------------------------------------------------------------------
(***************************************************************************)
(* Post and Del return the answer, or an error when the HTTP timeout ends  *)
(* the wait.                                                               *)
(***************************************************************************)
Return(c) ==
  /\ pc[c] = "sent"
  /\ pc' = [pc EXCEPT ![c] = "idle"]
  /\ call' = [call EXCEPT ![c] = 0]
  /\ kind' = [kind EXCEPT ![c] = NoKind]
  /\ answers' = [i \in DOMAIN answers \ {call[c]} |-> answers[i]]
  /\ UNCHANGED <<lists, walkVars, cfg, net, taken, placed, panicked, calls, trades>>

Confirmed(c) ==
  /\ Return(c)
  /\ call[c] \in DOMAIN answers
  /\ acked' = IF kind[c] = "post" THEN acked \cup answers[call[c]] ELSE acked
  /\ gone' = IF kind[c] = "cancel" THEN gone \cup answers[call[c]] ELSE gone

TimedOut(c) == Return(c) /\ UNCHANGED knowledge

-----------------------------------------------------------------------------
Walk ==
  /\ calls <= MaxWalkCalls
  /\ BeginWalk(cfg.hasCLOBAuth) \/ WalkStep
  /\ UNCHANGED <<lists, postVars>>

(***************************************************************************)
(* The walk does not influence the other goroutines: the model stops when  *)
(* it is over, and what they do without a walk is in the behaviours in     *)
(* which none begins.                                                      *)
(***************************************************************************)
Next ==
  /\ ~panicked /\ walk \notin {"done", "refused"}
  /\ \/ \E c \in Callers :
          \/ \E os \in Batches : PostOrders(c, os) \/ CancelOrders(c, os)
          \/ CancelMarketOrders(c) \/ NoCredentials(c)
          \/ Confirmed(c) \/ TimedOut(c)
     \/ \E m \in net : TakeOrders(m) \/ DropOrders(m)
     \/ \E o \in Orders : Fill(o) \/ ClosePosition(o)
     \/ Walk

(***************************************************************************)
(* A walk that has begun goes on while it can; the server or the HTTP      *)
(* timeout answers its requests.                                           *)
(***************************************************************************)
Spec == Init /\ [][Next]_vars /\ WF_vars(~panicked /\ WalkStep /\ UNCHANGED <<lists, postVars>>)

-----------------------------------------------------------------------------
(***************************************************************************)
(* However often a signed order is posted, alone or in a batch, and        *)
(* whatever was lost or late, the exchange places it at most once: every   *)
(* post carries the salt that was drawn when the order was built           *)
(* (BuildOrder, PostOrder, PostOrders, OrderToDTO).                        *)
(***************************************************************************)
TakenOnce == \A o \in Orders : placed[o] <= 1

(***************************************************************************)
(* An order that was reported as cancelled is not open again, even if a    *)
(* post of it that was given up arrives later (CancelOrder, CancelOrders). *)
(***************************************************************************)
CancelledStaysGone == gone \cap ToSet(lists["orders"]) = {}

(***************************************************************************)
(* A walk that has begun ends: the end mark of each API stops its loop.    *)
(***************************************************************************)
WalkEnds == Walking ~> (~Walking \/ panicked)

(***************************************************************************)
(* What arrives at the exchange is what was signed, by the signer it       *)
(* names: for every signature type, from the configuration or from the     *)
(* options, and through every conversion up to the request.  Only an order *)
(* whose signature type is not for the configured wallet fails, which      *)
(* CreateOrder does not look at (CreateOrder, BuildSignedOrder,            *)
(* OrderToDTO).                                                            *)
(***************************************************************************)
PostedOrdersVerify ==
  \A m \in net :
    m.kind = "post" =>
      \A dto \in ToSet(m.content) :
        Verifies(dto) \/ MakerFor[dto.order.signatureType] # Maker

(***************************************************************************)
(* CreateOrder signs only what its configured wallet can sign, as the      *)
(* comments on the signature types describe them (POLY_GNOSIS_SAFE:        *)
(* "signed by EOAs that own Polymarket Gnosis safes").  It does not hold.  *)
(***************************************************************************)
WalletFitsType ==
  \A m \in net : m.kind = "post" => \A dto \in ToSet(m.content) : Verifies(dto)

(***************************************************************************)
(* An order is posted with the expiration its user asked for               *)
(* (UserOrder.Expiration).                                                 *)
(***************************************************************************)
ExpirationSent ==
  \A m \in net :
    m.kind = "post" =>
      \A dto \in ToSet(m.content) : dto.order.expiration = Options[dto.order.order].expiration

(***************************************************************************)
(* Missing credentials are an error that is returned (HasCLOBAuth).        *)
(***************************************************************************)
NoPanic == ~panicked

=============================================================================
