------------------------- MODULE OrderPostingProofs -------------------------
(***************************************************************************)
(* Proofs about posting and cancelling orders (OrderPosting) and walking   *)
(* the lists meanwhile (Paging), for any number of callers, orders, calls  *)
(* and pages.                                                              *)
(***************************************************************************)
EXTENDS OrderPosting, FiniteSetTheorems, SequenceTheorems, TLAPS

(***************************************************************************)
(* What the exchange knows: it has placed each order once, under its one   *)
(* signed identity, and lists only orders it has taken.                    *)
(***************************************************************************)
Known == {d.order : d \in taken}

TakenInv ==
  /\ \A d \in taken : d = [order |-> d.order, salt |-> Salt[d.order]] /\ d.order \in Orders
  /\ \A o \in Orders : placed[o] = IF o \in Known THEN 1 ELSE 0
  /\ \A a \in Apis : ToSet(lists[a]) \subseteq Known

(***************************************************************************)
(* A request carries what its caller asked for; a post the signed orders.  *)
(***************************************************************************)
Posts == {Payload(os) : os \in Seq(Orders)}

RequestsInv ==
  /\ \A m \in net : m.kind = "post" => m.content \in Posts
  /\ \A m \in net : m.kind = "cancel" => m.content \subseteq Orders
  /\ \A m \in net, c \in Callers : pc[c] = "sent" /\ call[c] = m.id => kind[c] = m.kind
  /\ \A m, n \in net : m.id = n.id => m = n

(***************************************************************************)
(* What was cancelled, or is about to be reported as cancelled, was taken  *)
(* before and is not open.                                                 *)
(***************************************************************************)
Cancelled == Known \ ToSet(lists["orders"])

GoneInv ==
  /\ gone \subseteq Cancelled
  /\ \A c \in Callers :
       pc[c] = "sent" /\ kind[c] = "cancel" /\ call[c] \in DOMAIN answers => answers[call[c]] \subseteq Cancelled

(***************************************************************************)
(* The walk: what was collected, followed by what the list holds from the  *)
(* cursor on, is what there was to collect.                                *)
(***************************************************************************)
First(c) == IF c = NoCursor THEN 1 ELSE c + 1

From(s, c) == IF c = LastCursor THEN <<>> ELSE SubSeq(s, First(c), Len(s))

Rest(c) == From(list, c)

CursorOK(c) ==
  \/ c \in Nat
  \/ c = LastCursor /\ api = "orders"
  \/ c = NoCursor /\ api = "positions"

Collects(all, c) ==
  /\ CursorOK(c)
  /\ ~changed => all \o Rest(c) = expected
  /\ ~shrank => ToSet(expected) \subseteq ToSet(all) \cup ToSet(Rest(c))

CollectsInv ==
  /\ Walking => nextCursor # LastCursor /\ Collects(collected, nextCursor)
  /\ walk \in {"loop", "sent"} => Collects(collected \o items, cursor)
  /\ walk = "sent" => request = Params /\ cursor # LastCursor

(***************************************************************************)
(* A single page of open orders: the request is for the first page, and    *)
(* what the loop leaves with is that page, or nothing from elsewhere.      *)
(***************************************************************************)
OnePageInv ==
  /\ Walking => /\ collected = <<>> /\ nextCursor \in Nat
                /\ ~changed => expected = AskedFor("orders", TRUE, nextCursor)
  /\ walk = "loop" => \/ cursor = nextCursor /\ items = <<>>
                      \/ cursor # FirstCursor /\ (~changed => items = expected)
  /\ walk = "sent" => /\ request = Params /\ cursor = FirstCursor
                      /\ nextCursor = FirstCursor /\ items = <<>>

WalkInv ==
  /\ walk = "before" => collected = <<>>
  /\ IF OneOrdersPage THEN OnePageInv ELSE CollectsInv
  /\ WalkComplete

PostingInv == TypeOK /\ TakenInv /\ RequestsInv /\ GoneInv /\ WalkInv
-----------------------------------------------------------------------------
(***************************************************************************)
(* Induction over numbers, stated with a set instead of a predicate.       *)
(***************************************************************************)
LEMMA LeastNumber ==
  ASSUME NEW T \in SUBSET Nat, T # {}
  PROVE  \E n \in T : \A m \in T : n <= m
<1>1. IsWellFoundedOn(OpToRel(<, Nat), Nat)
  BY NatLessThanWellFounded, Zenon
<1>2. PICK n \in T : \A m \in T : ~(<<m, n>> \in OpToRel(<, Nat))
  BY <1>1, WFMin, Zenon
<1>3. \A m \in T : ~(m < n)
  BY <1>2 DEF OpToRel
<1>4. QED
  BY <1>3

LEMMA InductionUpTo ==
  ASSUME NEW N \in Nat, NEW T, 0 \in T, \A n \in 1..N : n - 1 \in T => n \in T
  PROVE  \A n \in 0..N : n \in T
<1> DEFINE U == (0..N) \ T
<1>1. SUFFICES ASSUME U # {} PROVE FALSE
  OBVIOUS
<1>2. U \in SUBSET Nat
  OBVIOUS
<1>3. PICK n \in U : \A m \in U : n <= m
  BY <1>1, <1>2, LeastNumber
<1>4. n \in 1..N /\ n - 1 \in 0..N
  BY <1>3
<1>5. n - 1 \in T
  BY <1>3, <1>4
<1>6. QED
  BY <1>3, <1>4, <1>5

(***************************************************************************)
(* The recursion of Without, up to item n.                                 *)
(***************************************************************************)
Keeps(s, drop, f, k) ==
  f[k] = IF k = 0 THEN <<>> ELSE IF s[k] \in drop THEN f[k - 1] ELSE Append(f[k - 1], s[k])

KeptUpTo(S, s, drop, n) == \E f \in [0..n -> Seq(S)] : \A k \in 0..n : Keeps(s, drop, f, k)

LEMMA KeptExists ==
  ASSUME NEW S, NEW s \in Seq(S), NEW drop
  PROVE  KeptUpTo(S, s, drop, Len(s))
<1> DEFINE N == Len(s)
           T == {n \in 0..N : KeptUpTo(S, s, drop, n)}
<1>1. N \in Nat
  OBVIOUS
<1>2. KeptUpTo(S, s, drop, 0)
  <2> DEFINE f == [k \in 0..0 |-> <<>>]
  <2>1. f \in [0..0 -> Seq(S)] /\ \A k \in 0..0 : Keeps(s, drop, f, k)
    BY DEF Keeps
  <2>2. QED
    BY <2>1 DEF KeptUpTo
<1>3. ASSUME NEW n \in 1..N, KeptUpTo(S, s, drop, n - 1)
      PROVE  KeptUpTo(S, s, drop, n)
  <2>1. PICK f \in [0..(n - 1) -> Seq(S)] : \A k \in 0..(n - 1) : Keeps(s, drop, f, k)
    BY <1>3 DEF KeptUpTo
  <2> DEFINE x == IF s[n] \in drop THEN f[n - 1] ELSE Append(f[n - 1], s[n])
             g == [k \in 0..n |-> IF k = n THEN x ELSE f[k]]
  <2>2. x \in Seq(S)
    <3>1. s[n] \in S /\ f[n - 1] \in Seq(S)
      BY <1>1
    <3>2. QED
      BY <3>1
  <2>3. g \in [0..n -> Seq(S)]
    BY <2>2
  <2>4. ASSUME NEW k \in 0..n
        PROVE  Keeps(s, drop, g, k)
    <3>1. CASE k = n
      <4>1. g[n] = x /\ g[n - 1] = f[n - 1] /\ n # 0
        OBVIOUS
      <4>2. QED
        BY <3>1, <4>1 DEF Keeps
    <3>2. CASE k # n
      <4>1. k \in 0..(n - 1) /\ g[k] = f[k] /\ (k # 0 => g[k - 1] = f[k - 1])
        BY <3>2
      <4>2. QED
        BY <2>1, <4>1 DEF Keeps
    <3>3. QED
      BY <3>1, <3>2
  <2> HIDE DEF g
  <2>5. QED
    BY <2>3, <2>4 DEF KeptUpTo
<1>4. 0 \in T
  BY <1>1, <1>2
<1>5. ASSUME NEW n \in 1..N, n - 1 \in T
      PROVE  n \in T
  BY <1>1, <1>3, <1>5
<1> HIDE DEF T
<1>6. N \in T
  <2>1. \A n \in 0..N : n \in T
    BY <1>1, <1>4, <1>5, InductionUpTo
  <2>2. QED
    BY <1>1, <2>1
<1>7. QED
  BY <1>6 DEF T

LEMMA WithoutKeeps ==
  ASSUME NEW S, NEW s \in Seq(S), NEW drop
  PROVE  \E f : Without(s, drop) = f[Len(s)] /\ \A k \in 0..Len(s) : Keeps(s, drop, f, k)
<1> DEFINE D(f) == [k \in 0..Len(s) |->
                      IF k = 0 THEN <<>> ELSE IF s[k] \in drop THEN f[k - 1] ELSE Append(f[k - 1], s[k])]
           C == CHOOSE f : f = D(f)
<1>1. PICK f \in [0..Len(s) -> Seq(S)] : \A k \in 0..Len(s) : Keeps(s, drop, f, k)
  BY KeptExists DEF KeptUpTo
<1>2. f = D(f)
  BY <1>1 DEF Keeps
<1>3. Without(s, drop) = C[Len(s)]
  BY DEF Without
<1>4. C = D(C)
  <2> HIDE DEF D
  <2>1. QED
    BY <1>2
<1> HIDE DEF C
<1>5. \A k \in 0..Len(s) : Keeps(s, drop, C, k)
  BY <1>4 DEF Keeps
<1>6. QED
  BY <1>3, <1>5
(***************************************************************************)
(* Without drops what it should, keeps the rest once each, and leaves a    *)
(* list alone that holds nothing to drop.                                  *)
(***************************************************************************)
Filtered(S, s, drop, k, t) ==
  /\ t \in Seq(S)
  /\ \A x : x \in ToSet(t) <=> x \notin drop /\ \E j \in 1..k : s[j] = x
  /\ IsInjective(s) => IsInjective(t)
  /\ (\A j \in 1..k : s[j] \notin drop) => t = SubSeq(s, 1, k)

LEMMA WithoutFacts ==
  ASSUME NEW S, NEW s \in Seq(S), NEW drop
  PROVE  /\ Without(s, drop) \in Seq(S)
         /\ ToSet(Without(s, drop)) = ToSet(s) \ drop
         /\ IsInjective(s) => IsInjective(Without(s, drop))
         /\ ToSet(s) \cap drop = {} => Without(s, drop) = s
<1> DEFINE N == Len(s)
<1>1. N \in Nat
  OBVIOUS
<1>2. PICK f : Without(s, drop) = f[N] /\ \A k \in 0..N : Keeps(s, drop, f, k)
  BY WithoutKeeps
<1> DEFINE T == {n \in 0..N : Filtered(S, s, drop, n, f[n])}
<1>3. 0 \in T
  <2>1. f[0] = <<>>
    BY <1>1, <1>2 DEF Keeps
  <2>2. ToSet(<<>>) = {} /\ IsInjective(<<>>) /\ SubSeq(s, 1, 0) = <<>>
    BY DEF ToSet, IsInjective
  <2>3. \A x : ~(\E j \in 1..0 : s[j] = x)
    OBVIOUS
  <2>4. Filtered(S, s, drop, 0, <<>>)
    BY <2>2, <2>3 DEF Filtered
  <2>5. QED
    BY <1>1, <2>1, <2>4
<1>4. ASSUME NEW n \in 1..N, n - 1 \in T
      PROVE  n \in T
  <2> DEFINE t == f[n - 1]
  <2>1. Filtered(S, s, drop, n - 1, t)
    BY <1>4
  <2>2. t \in Seq(S) /\ s[n] \in S
    BY <1>1, <2>1 DEF Filtered
  <2>3. Keeps(s, drop, f, n) /\ n # 0
    BY <1>1, <1>2
  <2>4. CASE s[n] \in drop
    <3>1. f[n] = t
      BY <2>3, <2>4 DEF Keeps
    <3>2. \A x : x \notin drop /\ (\E j \in 1..n : s[j] = x) <=> x \notin drop /\ (\E j \in 1..(n - 1) : s[j] = x)
      BY <2>4
    <3>3. n \in 1..n /\ ~(\A j \in 1..n : s[j] \notin drop)
      BY <2>4
    <3>4. Filtered(S, s, drop, n, f[n])
      BY <2>1, <3>1, <3>2, <3>3 DEF Filtered
    <3>5. QED
      BY <3>4
  <2>5. CASE s[n] \notin drop
    <3>1. f[n] = Append(t, s[n])
      BY <2>3, <2>5 DEF Keeps
    <3> HIDE DEF t
    <3> DEFINE u == Append(t, s[n])
    <3>2. /\ u \in Seq(S) /\ Len(u) = Len(t) + 1 /\ DOMAIN u = 1..(Len(t) + 1) /\ DOMAIN t = 1..Len(t)
          /\ u[Len(t) + 1] = s[n] /\ \A j \in 1..Len(t) : u[j] = t[j]
      BY <2>2
    <3>3. ToSet(u) = ToSet(t) \cup {s[n]}
      BY <2>2, <3>2 DEF ToSet
    <3>4. ASSUME NEW x
          PROVE  x \in ToSet(u) <=> x \notin drop /\ \E j \in 1..n : s[j] = x
      <4>1. x \in ToSet(t) <=> x \notin drop /\ \E j \in 1..(n - 1) : s[j] = x
        BY <2>1 DEF Filtered
      <4>2. (\E j \in 1..n : s[j] = x) <=> (x = s[n] \/ \E j \in 1..(n - 1) : s[j] = x)
        OBVIOUS
      <4>3. QED
        BY <2>5, <3>3, <4>1, <4>2
    <3>5. ASSUME IsInjective(s)
          PROVE  IsInjective(u)
      <4>1. s[n] \notin ToSet(t)
        <5>1. \A j \in 1..(n - 1) : s[j] # s[n]
          BY <1>1, <3>5 DEF IsInjective
        <5>2. QED
          BY <2>1, <5>1 DEF Filtered
      <4>2. \A j \in 1..Len(t) : t[j] # s[n]
        BY <3>2, <4>1 DEF ToSet
      <4>3. IsInjective(t)
        BY <2>1, <3>5 DEF Filtered
      <4>4. QED
        BY <2>2, <3>2, <4>2, <4>3 DEF IsInjective
    <3>6. ASSUME \A j \in 1..n : s[j] \notin drop
          PROVE  u = SubSeq(s, 1, n)
      <4>1. t = SubSeq(s, 1, n - 1)
        BY <2>1, <3>6 DEF Filtered
      <4>2. QED
        BY <1>1, <4>1
    <3> HIDE DEF u
    <3>7. Filtered(S, s, drop, n, u)
      BY <3>2, <3>4, <3>5, <3>6 DEF Filtered
    <3>8. f[n] = u /\ n \in 0..N
      BY <1>1, <3>1 DEF u
    <3>9. QED
      BY <3>7, <3>8
  <2>6. QED
    BY <2>4, <2>5
<1> HIDE DEF T
<1>5. N \in T
  <2>1. \A n \in 0..N : n \in T
    BY <1>1, <1>3, <1>4, InductionUpTo
  <2>2. QED
    BY <1>1, <2>1
<1>6. Filtered(S, s, drop, N, Without(s, drop))
  BY <1>2, <1>5 DEF T
<1>7. SubSeq(s, 1, N) = s
  OBVIOUS
<1>8. \A x : x \in ToSet(s) <=> \E j \in 1..N : s[j] = x
  BY DEF ToSet
<1>9. QED
  BY <1>6, <1>7, <1>8 DEF Filtered
-----------------------------------------------------------------------------
(***************************************************************************)
(* A signed order as it is posted.                                         *)
(***************************************************************************)
Posted(o) == OrderToDTO(BuildSignedOrder(o, Salt[o]))

LEMMA PostedFacts ==
  ASSUME NEW o \in Orders
  PROVE  /\ Posted(o).order.order = o /\ Identity(Posted(o)) = [order |-> o, salt |-> Salt[o]]
         /\ Verifies(Posted(o)) \/ MakerFor[Posted(o).order.signatureType] # Maker
<1> DEFINE t == TypeOf(o)
           unsent == BuildOrder(o, Salt[o])
           dto == Posted(o)
<1>1. unsent = [order |-> o, salt |-> Salt[o], maker |-> Maker, signer |-> SignerForOrder(t),
                signatureType |-> t, expiration |-> Options[o].expiration]
  BY DEF BuildOrder
<1>2. dto = [order |-> [unsent EXCEPT !.expiration = 0],
             signature |-> BuildOrderSignature(unsent, VerifyingContract(o))]
  BY DEF Posted, OrderToDTO, BuildSignedOrder
<1> HIDE DEF unsent, dto, t
<1>3. /\ dto.order.order = o /\ dto.order.salt = Salt[o] /\ dto.order.maker = Maker
      /\ dto.order.signer = SignerForOrder(t) /\ dto.order.signatureType = t
  BY <1>1, <1>2
<1>4. dto.signature = BuildOrderSignature(unsent, VerifyingContract(o))
  BY <1>2
<1>5. dto.signature.hash = BuildOrderHash(dto.order, VerifyingContract(dto.order.order))
  BY <1>1, <1>3, <1>4 DEF BuildOrderSignature, BuildOrderHash
<1>6. dto.signature.key = Own /\ dto.signature.wallet = (IF t = "POLY_1271" THEN SignerForOrder(t) ELSE "none")
  BY <1>1, <1>4 DEF BuildOrderSignature
<1>7. MakerFor[t] = Maker => Verifies(dto)
  BY <1>3, <1>5, <1>6 DEF Verifies, SignerForOrder
<1>8. Identity(dto) = [order |-> o, salt |-> Salt[o]]
  BY <1>3 DEF Identity
<1>9. QED
  BY <1>3, <1>7, <1>8 DEF dto

LEMMA PayloadFacts ==
  ASSUME NEW os \in Seq(Orders)
  PROVE  ToSet(Payload(os)) = {Posted(os[k]) : k \in DOMAIN os}
BY DEF Payload, Posted, ToSet

LEMMA RequestsVerify == RequestsInv => PostedOrdersVerify
<1> SUFFICES ASSUME RequestsInv, NEW m \in net, m.kind = "post", NEW dto \in ToSet(m.content)
             PROVE  Verifies(dto) \/ MakerFor[dto.order.signatureType] # Maker
  BY DEF PostedOrdersVerify
<1>1. PICK os \in Seq(Orders) : m.content = Payload(os)
  BY DEF RequestsInv, Posts
<1>2. PICK k \in DOMAIN os : dto = Posted(os[k])
  BY <1>1, PayloadFacts
<1>3. os[k] \in Orders
  BY <1>2
<1>4. QED
  BY <1>2, <1>3, PostedFacts

(***************************************************************************)
(* A new call: its number is new, and with credentials so is its request.  *)
(***************************************************************************)
CallsInv == CallsOK /\ TakenInv /\ RequestsInv /\ GoneInv

LEMMA PostsUnchanged ==
  ASSUME cfg' = cfg
  PROVE  Posts' = Posts
BY DEF Posts, Payload, OrderToDTO, BuildSignedOrder, BuildOrder, BuildOrderSignature, BuildOrderHash,
       VerifyingContract, TypeOf, Maker, SignerForOrder

LEMMA CallsUnchanged ==
  ASSUME CallsInv, UNCHANGED <<lists, postVars>>
  PROVE  CallsInv'
<1>1. Posts' = Posts
  BY PostsUnchanged DEF postVars
<1>2. UNCHANGED <<lists, net, taken, placed, answers, pc, call, kind, acked, gone, panicked, calls, trades>>
  BY DEF postVars, exchange, knowledge
<1>3. CallsOK' /\ TakenInv' /\ GoneInv'
  BY <1>2 DEF CallsInv, CallsOK, TakenInv, GoneInv, Known, Cancelled
<1>4. RequestsInv'
  BY <1>1, <1>2 DEF CallsInv, RequestsInv
<1>5. QED
  BY <1>3, <1>4 DEF CallsInv

LEMMA SendInv ==
  ASSUME CallsInv, NEW c \in Callers, NEW k \in Kinds, NEW content, NewCall(c), SendRequest(c, k, content),
         panicked' = panicked, calls < MaxCalls,
         k = "post" => content \in Posts,
         k = "cancel" => content \subseteq Orders
  PROVE  CallsInv'
<1> DEFINE new == [id |-> calls + 1, kind |-> k, content |-> content]
<1>1. CallsOK /\ TakenInv /\ RequestsInv /\ GoneInv
  BY DEF CallsInv
<1>2. /\ pc[c] = "idle" /\ calls' = calls + 1 /\ net' = net \cup {new}
      /\ pc' = [pc EXCEPT ![c] = "sent"] /\ call' = [call EXCEPT ![c] = calls + 1] /\ kind' = [kind EXCEPT ![c] = k]
      /\ UNCHANGED <<lists, cfg, taken, placed, answers, acked, gone, trades, panicked>>
  BY DEF NewCall, SendRequest, knowledge
<1>3. calls \in Nat /\ calls + 1 \in 1..(calls + 1) /\ 1..calls \subseteq 1..(calls + 1) /\ calls + 1 \notin 1..calls
  BY <1>1 DEF CallsOK
<1>4. new.id = calls + 1 /\ new.kind = k /\ new.content = content
  OBVIOUS
<1> HIDE DEF new
<1>5. calls + 1 \notin DOMAIN answers
  BY <1>1, <1>3 DEF CallsOK
<1>6. /\ pc'[c] = "sent" /\ call'[c] = calls + 1 /\ kind'[c] = k
      /\ \A e \in Callers : e # c => pc'[e] = pc[e] /\ call'[e] = call[e] /\ kind'[e] = kind[e]
  BY <1>1, <1>2 DEF CallsOK
<1>7. CallsOK'
  <2>1. \A m \in net' : m.id \in 1..calls' /\ m.kind \in Kinds /\ m.id \notin DOMAIN answers'
    BY <1>1, <1>2, <1>3, <1>4, <1>5 DEF CallsOK
  <2>2. \A i \in DOMAIN answers' : i \in 1..calls' /\ answers'[i] \subseteq Orders
    BY <1>1, <1>2, <1>3 DEF CallsOK
  <2>3. /\ pc' \in [Callers -> {"idle", "sent"}] /\ kind' \in [Callers -> Kinds \cup {NoKind}]
    BY <1>1, <1>2 DEF CallsOK
  <2>4. call' \in [Callers -> 0..calls']
    <3>1. call \in [Callers -> 0..(calls + 1)] /\ calls + 1 \in 0..(calls + 1)
      BY <1>1, <1>3 DEF CallsOK
    <3>2. QED
      BY <1>2, <3>1
  <2>5. \A e \in Callers : pc'[e] = "sent" => call'[e] # 0 /\ kind'[e] \in Kinds
    BY <1>1, <1>3, <1>6 DEF CallsOK
  <2>6. calls' \in 0..MaxCalls
    BY <1>2, <1>3, CallsAssumption
  <2>7. QED
    BY <1>1, <1>2, <2>1, <2>2, <2>3, <2>4, <2>5, <2>6 DEF CallsOK
<1>8. TakenInv'
  BY <1>1, <1>2 DEF TakenInv, Known
<1>9. RequestsInv'
  <2>1. Posts' = Posts
    BY <1>2, PostsUnchanged
  <2>2. \A m \in net' : m.kind = "cancel" => m.content \subseteq Orders
    BY <1>1, <1>2, <1>4 DEF RequestsInv
  <2>3. ASSUME NEW m \in net', NEW e \in Callers, pc'[e] = "sent", call'[e] = m.id
        PROVE  kind'[e] = m.kind
    <3>1. CASE m = new
      <4>1. e = c
        <5>1. call[e] \in 0..calls
          BY <1>1 DEF CallsOK
        <5>2. QED
          BY <1>3, <1>4, <1>6, <2>3, <3>1, <5>1
      <4>2. QED
        BY <1>4, <1>6, <3>1, <4>1
    <3>2. CASE m \in net
      <4>1. m.id \in 1..calls
        BY <1>1, <3>2 DEF CallsOK
      <4>2. e # c
        BY <1>3, <1>6, <2>3, <4>1
      <4>3. QED
        BY <1>1, <1>6, <2>3, <3>2, <4>2 DEF RequestsInv
    <3>3. QED
      BY <1>2, <3>1, <3>2
  <2>4. \A m \in net' : m.kind = "post" => m.content \in Posts'
    BY <1>1, <1>2, <1>4, <2>1 DEF RequestsInv
  <2>5. \A m, n \in net' : m.id = n.id => m = n
    <3>1. \A m \in net : m.id # new.id
      BY <1>1, <1>3, <1>4 DEF CallsOK
    <3>2. QED
      BY <1>1, <1>2, <3>1 DEF RequestsInv
  <2>6. QED
    BY <2>2, <2>3, <2>4, <2>5 DEF RequestsInv
<1>10. GoneInv'
  <2>1. Cancelled' = Cancelled
    BY <1>2 DEF Cancelled, Known
  <2>2. QED
    BY <1>1, <1>2, <1>5, <1>6, <2>1 DEF GoneInv
<1>11. QED
  BY <1>7, <1>8, <1>9, <1>10 DEF CallsInv
LEMMA NewCalls ==
  ASSUME CallsInv, NEW c \in Callers,
         \/ \E os \in Batches : PostOrders(c, os) \/ CancelOrders(c, os)
         \/ CancelMarketOrders(c) \/ NoCredentials(c)
  PROVE  CallsInv' /\ UNCHANGED <<lists, walkVars>>
<1>1. NewCall(c)
  BY DEF PostOrders, CancelOrders, CancelMarketOrders, NoCredentials
<1>2. UNCHANGED <<lists, walkVars>>
  BY <1>1 DEF NewCall
<1>3. calls < MaxCalls
  BY <1>1, CallsAssumption DEF NewCall, CallsInv, CallsOK
<1>4. "post" \in Kinds /\ "cancel" \in Kinds
  BY DEF Kinds
<1>5. ASSUME NEW os \in Batches, PostOrders(c, os)
      PROVE  CallsInv'
  <2>1. os \in Seq(Orders) /\ SendRequest(c, "post", Payload(os)) /\ panicked' = panicked
    BY <1>5, OrdersAssumption DEF PostOrders
  <2>2. Payload(os) \in Posts
    BY <2>1 DEF Posts
  <2>3. QED
    BY <1>1, <1>3, <1>4, <2>1, <2>2, SendInv
<1>6. ASSUME NEW os \in Batches, CancelOrders(c, os)
      PROVE  CallsInv'
  <2>1. os \in Seq(Orders) /\ SendRequest(c, "cancel", ToSet(os)) /\ panicked' = panicked
    BY <1>6, OrdersAssumption DEF CancelOrders
  <2>2. ToSet(os) \subseteq Orders
    BY <2>1 DEF ToSet
  <2>3. QED
    BY <1>1, <1>3, <1>4, <2>1, <2>2, SendInv
<1>7. ASSUME SendRequest(c, "cancel", MarketOrders), panicked' = panicked
      PROVE  CallsInv'
  BY <1>1, <1>3, <1>4, <1>7, SendInv, OrdersAssumption
<1>8. ASSUME UNCHANGED <<net, pc, call, kind>>, panicked' \in BOOLEAN
      PROVE  CallsInv'
  <2>1. UNCHANGED <<lists, cfg, taken, placed, answers, acked, gone, trades, net, pc, call, kind>> /\ calls' = calls + 1
    BY <1>1, <1>8 DEF NewCall, knowledge
  <2>2. CallsOK /\ TakenInv /\ RequestsInv /\ GoneInv
    BY DEF CallsInv
  <2>3. calls \in Nat /\ calls' \in 0..MaxCalls /\ 1..calls \subseteq 1..calls' /\ 0..calls \subseteq 0..calls'
    BY <1>3, <2>1, <2>2, CallsAssumption DEF CallsOK
  <2>4. CallsOK'
    <3>1. call' \in [Callers -> 0..calls']
      BY <2>1, <2>2, <2>3 DEF CallsOK
    <3>2. QED
      BY <1>8, <2>1, <2>2, <2>3, <3>1 DEF CallsOK
  <2>5. TakenInv' /\ GoneInv'
    BY <2>1, <2>2 DEF TakenInv, GoneInv, Cancelled, Known
  <2>6. RequestsInv'
    BY <2>1, <2>2, PostsUnchanged DEF RequestsInv
  <2>7. QED
    BY <2>4, <2>5, <2>6 DEF CallsInv
<1>9. CASE CancelMarketOrders(c)
  <2>1. CASE cfg.hasCLOBAuth
    BY <1>2, <1>7, <1>9, <2>1 DEF CancelMarketOrders
  <2>2. CASE ~cfg.hasCLOBAuth
    <3>1. UNCHANGED <<net, pc, call, kind>> /\ panicked' = TRUE
      BY <1>9, <2>2 DEF CancelMarketOrders
    <3>2. QED
      BY <1>2, <1>8, <3>1
  <2>3. QED
    BY <2>1, <2>2
<1>10. CASE NoCredentials(c)
  <2>1. UNCHANGED <<net, pc, call, kind>> /\ panicked' = panicked
    BY <1>10 DEF NoCredentials
  <2>2. panicked \in BOOLEAN
    BY DEF CallsInv, CallsOK
  <2>3. QED
    BY <1>2, <1>8, <2>1, <2>2
<1>11. QED
  BY <1>2, <1>5, <1>6, <1>9, <1>10

(***************************************************************************)
(* The end of a call.  What it reports as cancelled is gone.               *)
(***************************************************************************)
LEMMA Returns ==
  ASSUME CallsInv, NEW c \in Callers, Confirmed(c) \/ TimedOut(c)
  PROVE  CallsInv' /\ UNCHANGED <<lists, walkVars>>
<1>1. CallsOK /\ TakenInv /\ RequestsInv /\ GoneInv
  BY DEF CallsInv
<1>2. /\ pc[c] = "sent" /\ pc' = [pc EXCEPT ![c] = "idle"] /\ call' = [call EXCEPT ![c] = 0]
      /\ kind' = [kind EXCEPT ![c] = NoKind] /\ answers' = [i \in DOMAIN answers \ {call[c]} |-> answers[i]]
      /\ UNCHANGED <<lists, walkVars, cfg, net, taken, placed, panicked, calls, trades>>
  BY DEF Confirmed, TimedOut, Return
<1>3. acked' \subseteq Orders /\ gone' \subseteq Orders /\ gone' \subseteq Cancelled
  <2>1. CASE Confirmed(c)
    <3>1. call[c] \in DOMAIN answers /\ answers[call[c]] \subseteq Orders
      BY <1>1, <2>1 DEF Confirmed, CallsOK
    <3>2. kind[c] = "cancel" => answers[call[c]] \subseteq Cancelled
      BY <1>1, <1>2, <3>1 DEF GoneInv
    <3>3. QED
      BY <1>1, <2>1, <3>1, <3>2 DEF Confirmed, CallsOK, GoneInv
  <2>2. CASE TimedOut(c)
    BY <1>1, <2>2 DEF TimedOut, knowledge, CallsOK, GoneInv
  <2>3. QED
    BY <2>1, <2>2
<1>4. /\ pc'[c] = "idle" /\ DOMAIN answers' \subseteq DOMAIN answers /\ \A i \in DOMAIN answers' : answers'[i] = answers[i]
      /\ \A e \in Callers : e # c => pc'[e] = pc[e] /\ call'[e] = call[e] /\ kind'[e] = kind[e]
  BY <1>1, <1>2 DEF CallsOK
<1>5. CallsOK'
  <2>1. pc' \in [Callers -> {"idle", "sent"}] /\ kind' \in [Callers -> Kinds \cup {NoKind}]
    BY <1>1, <1>2 DEF CallsOK
  <2>2. call' \in [Callers -> 0..calls]
    <3>1. 0 \in 0..calls
      BY <1>1 DEF CallsOK
    <3>2. QED
      BY <1>1, <1>2, <3>1 DEF CallsOK
  <2>3. \A m \in net' : m.id \in 1..calls' /\ m.kind \in Kinds /\ m.id \notin DOMAIN answers'
    BY <1>1, <1>2, <1>4 DEF CallsOK
  <2>4. \A i \in DOMAIN answers' : i \in 1..calls' /\ answers'[i] \subseteq Orders
    BY <1>1, <1>2, <1>4 DEF CallsOK
  <2>5. \A e \in Callers : pc'[e] = "sent" => call'[e] # 0 /\ kind'[e] \in Kinds
    BY <1>1, <1>4 DEF CallsOK
  <2>6. QED
    BY <1>1, <1>2, <1>3, <2>1, <2>2, <2>3, <2>4, <2>5 DEF CallsOK
<1>6. TakenInv'
  BY <1>1, <1>2 DEF TakenInv, Known
<1>7. RequestsInv'
  <2>1. \A m \in net', e \in Callers : pc'[e] = "sent" /\ call'[e] = m.id => kind'[e] = m.kind
    BY <1>1, <1>2, <1>4 DEF RequestsInv
  <2>2. QED
    BY <1>1, <1>2, <2>1, PostsUnchanged DEF RequestsInv
<1>8. GoneInv'
  <2>1. Cancelled' = Cancelled
    BY <1>2 DEF Cancelled, Known
  <2>2. QED
    BY <1>1, <1>3, <1>4, <2>1 DEF GoneInv
<1>9. QED
  BY <1>2, <1>5, <1>6, <1>7, <1>8 DEF CallsInv

(***************************************************************************)
(* An answer: it confirms to a caller that cancels only what is gone.      *)
(***************************************************************************)
LEMMA AnswerInv ==
  ASSUME CallsInv, NEW m \in net, NEW confirmed \in SUBSET Orders, Answer(m, confirmed),
         Cancelled \subseteq Cancelled', m.kind = "cancel" => confirmed \subseteq Cancelled',
         placed' \in [Orders -> Nat]
  PROVE  CallsOK' /\ RequestsInv' /\ GoneInv'
<1>1. CallsOK /\ RequestsInv /\ GoneInv
  BY DEF CallsInv
<1>2. net' = net \ {m} /\ UNCHANGED <<cfg, pc, call, kind, acked, gone, panicked, calls, trades>>
  BY DEF Answer, knowledge
<1>3. /\ DOMAIN answers' \subseteq DOMAIN answers \cup {m.id}
      /\ \A i \in DOMAIN answers' : answers'[i] = IF i = m.id THEN confirmed ELSE answers[i]
  <2>1. m.id \notin DOMAIN answers
    BY <1>1 DEF CallsOK
  <2>2. CASE answers' = answers
    BY <2>1, <2>2
  <2>3. CASE answers' = [i \in DOMAIN answers \cup {m.id} |-> IF i = m.id THEN confirmed ELSE answers[i]]
    BY <2>3
  <2>4. QED
    BY <2>2, <2>3 DEF Answer
<1>4. CallsOK'
  <2>1. \A i \in DOMAIN answers' : i \in 1..calls' /\ answers'[i] \subseteq Orders
    BY <1>1, <1>2, <1>3 DEF CallsOK
  <2>2. \A k \in net' : k.id \in 1..calls' /\ k.kind \in Kinds /\ k.id \notin DOMAIN answers'
    BY <1>1, <1>2, <1>3 DEF CallsOK, RequestsInv
  <2>3. QED
    BY <1>1, <1>2, <2>1, <2>2 DEF CallsOK
<1>5. RequestsInv'
  BY <1>1, <1>2, PostsUnchanged DEF RequestsInv
<1>6. GoneInv'
  <2>1. ASSUME NEW c \in Callers, pc[c] = "sent", kind[c] = "cancel", call[c] \in DOMAIN answers'
        PROVE  answers'[call[c]] \subseteq Cancelled'
    <3>1. CASE call[c] = m.id
      <4>1. m.kind = "cancel"
        BY <1>1, <2>1, <3>1 DEF RequestsInv
      <4>2. QED
        BY <1>3, <2>1, <3>1, <4>1
    <3>2. CASE call[c] # m.id
      BY <1>1, <1>3, <2>1, <3>2 DEF GoneInv
    <3>3. QED
      BY <3>1, <3>2
  <2>2. QED
    BY <1>1, <1>2, <2>1 DEF GoneInv
<1>7. QED
  BY <1>4, <1>5, <1>6
-----------------------------------------------------------------------------
(***************************************************************************)
(* How a step of the exchange changes a list: it adds items to one of its  *)
(* ends or drops some.                                                     *)
(***************************************************************************)
Shifts(old, new) ==
  \/ new = old
  \/ \E s \in Seq(Orders) : new = s \o old \/ new = old \o s
  \/ \E drop : new = Without(old, drop)

ListsShift == \E new \in [Apis -> Seq(Orders)] : ListsBecome(new) /\ \A a \in Apis : Shifts(lists[a], new[a])

LEMMA Joined ==
  ASSUME NEW S, NEW s \in Seq(S), NEW t \in Seq(S)
  PROVE  /\ s \o t \in Seq(S) /\ ToSet(s \o t) = ToSet(s) \cup ToSet(t)
         /\ IsInjective(s) /\ IsInjective(t) /\ ToSet(s) \cap ToSet(t) = {} => IsInjective(s \o t)
<1>1. /\ s \o t \in Seq(S) /\ DOMAIN (s \o t) = 1..(Len(s) + Len(t)) /\ Len(s) \in Nat /\ Len(t) \in Nat
      /\ DOMAIN s = 1..Len(s) /\ DOMAIN t = 1..Len(t)
      /\ \A k \in 1..(Len(s) + Len(t)) : (s \o t)[k] = IF k <= Len(s) THEN s[k] ELSE t[k - Len(s)]
  OBVIOUS
<1> DEFINE u == s \o t
<1> HIDE DEF u
<1>2. \A k \in 1..Len(t) : Len(s) + k \in 1..(Len(s) + Len(t)) /\ u[Len(s) + k] = t[k]
  BY <1>1 DEF u
<1>3. \A k \in 1..Len(s) : k \in 1..(Len(s) + Len(t)) /\ u[k] = s[k]
  BY <1>1 DEF u
<1>4. ToSet(u) = ToSet(s) \cup ToSet(t)
  <2>1. ToSet(s) \cup ToSet(t) \subseteq ToSet(u)
    <3>1. DOMAIN u = 1..(Len(s) + Len(t))
      BY <1>1 DEF u
    <3>2. \A k \in 1..Len(s) : s[k] \in ToSet(u)
      BY <1>3, <3>1 DEF ToSet
    <3>3. \A k \in 1..Len(t) : t[k] \in ToSet(u)
      BY <1>2, <3>1 DEF ToSet
    <3>4. ToSet(s) = {s[k] : k \in 1..Len(s)} /\ ToSet(t) = {t[k] : k \in 1..Len(t)}
      BY <1>1 DEF ToSet
    <3>5. QED
      BY <3>2, <3>3, <3>4
  <2>2. ASSUME NEW k \in 1..(Len(s) + Len(t))
        PROVE  u[k] \in ToSet(s) \cup ToSet(t)
    <3>1. CASE k <= Len(s)
      BY <1>1, <3>1 DEF ToSet, u
    <3>2. CASE k > Len(s)
      <4>1. k - Len(s) \in 1..Len(t) /\ u[k] = t[k - Len(s)]
        BY <1>1, <3>2 DEF u
      <4>2. QED
        BY <1>1, <4>1 DEF ToSet
    <3>3. QED
      BY <1>1, <3>1, <3>2
  <2>3. QED
    BY <1>1, <2>1, <2>2 DEF ToSet, u
<1>5. ASSUME IsInjective(s), IsInjective(t), ToSet(s) \cap ToSet(t) = {}
      PROVE  IsInjective(u)
  <2>1. \A j \in 1..Len(s), k \in 1..Len(t) : s[j] # t[k]
    BY <1>1, <1>5 DEF ToSet
  <2>2. ASSUME NEW j \in 1..(Len(s) + Len(t)), NEW k \in 1..(Len(s) + Len(t)), u[j] = u[k]
        PROVE  j = k
    <3>1. CASE j <= Len(s) /\ k <= Len(s)
      BY <1>1, <1>5, <2>2, <3>1 DEF IsInjective, u
    <3>2. CASE j > Len(s) /\ k > Len(s)
      <4>1. j - Len(s) \in 1..Len(t) /\ k - Len(s) \in 1..Len(t) /\ t[j - Len(s)] = t[k - Len(s)]
        BY <1>1, <2>2, <3>2 DEF u
      <4>2. j - Len(s) = k - Len(s)
        BY <1>1, <1>5, <4>1 DEF IsInjective
      <4>3. QED
        BY <1>1, <4>2
    <3>3. CASE j <= Len(s) /\ k > Len(s)
      <4>1. j \in 1..Len(s) /\ k - Len(s) \in 1..Len(t) /\ s[j] = t[k - Len(s)]
        BY <1>1, <2>2, <3>3 DEF u
      <4>2. QED
        BY <2>1, <4>1
    <3>4. CASE j > Len(s) /\ k <= Len(s)
      <4>1. k \in 1..Len(s) /\ j - Len(s) \in 1..Len(t) /\ s[k] = t[j - Len(s)]
        BY <1>1, <2>2, <3>4 DEF u
      <4>2. QED
        BY <2>1, <4>1
    <3>5. QED
      BY <1>1, <3>1, <3>2, <3>3, <3>4
  <2>3. DOMAIN u = 1..(Len(s) + Len(t))
    BY <1>1 DEF u
  <2>4. QED
    BY <2>2, <2>3 DEF IsInjective
<1>6. QED
  BY <1>1, <1>4, <1>5 DEF u

(***************************************************************************)
(* What the exchange takes of a post are orders it did not know.           *)
(***************************************************************************)
LEMMA NewOrders ==
  ASSUME TakenInv, RequestsInv, NEW m \in net, m.kind = "post",
         NEW new \in SUBSET {Identity(dto) : dto \in {e \in ToSet(m.content) : Verifies(e)}},
         new \cap taken = {}
  PROVE  LET os == {e.order : e \in new}
         IN  /\ os \subseteq Orders /\ os \cap Known = {} /\ IsFiniteSet(os)
             /\ \A e \in new : e = [order |-> e.order, salt |-> Salt[e.order]]
<1> DEFINE os == {e.order : e \in new}
<1>1. PICK b \in Seq(Orders) : m.content = Payload(b)
  BY DEF RequestsInv, Posts
<1>2. ASSUME NEW e \in new
      PROVE  \E k \in DOMAIN b : e = [order |-> b[k], salt |-> Salt[b[k]]] /\ b[k] \in Orders
  <2>1. PICK dto \in ToSet(m.content) : e = Identity(dto)
    OBVIOUS
  <2>2. PICK k \in DOMAIN b : dto = Posted(b[k])
    BY <1>1, <2>1, PayloadFacts
  <2>3. b[k] \in Orders
    BY <2>2
  <2>4. QED
    BY <2>1, <2>2, <2>3, PostedFacts
<1>3. \A e \in new : e = [order |-> e.order, salt |-> Salt[e.order]] /\ e.order \in Orders
  BY <1>2
<1>4. os \subseteq Orders
  BY <1>3
<1>5. os \cap Known = {}
  <2>1. ASSUME NEW e \in new, NEW f \in taken, e.order = f.order
        PROVE  FALSE
    <3>1. e = [order |-> e.order, salt |-> Salt[e.order]] /\ f = [order |-> f.order, salt |-> Salt[f.order]]
      BY <1>3 DEF TakenInv
    <3>2. e = f
      BY <2>1, <3>1
    <3>3. QED
      BY <3>2
  <2>2. QED
    BY <2>1 DEF Known
<1>6. IsFiniteSet(os)
  <2> DEFINE D == {k \in 1..Len(b) : b[k] \in os}
             f == [k \in D |-> b[k]]
  <2>1. IsFiniteSet(D)
    <3>1. IsFiniteSet(1..Len(b))
      BY FS_Interval
    <3>2. QED
      BY <3>1, FS_Subset
  <2>2. f \in Surjection(D, os)
    <3>1. \A o \in os : \E k \in D : b[k] = o
      BY <1>2
    <3>2. QED
      BY <3>1 DEF Surjection
  <2>3. QED
    BY <2>1, <2>2, FS_Surjection
<1>7. QED
  BY <1>3, <1>4, <1>5, <1>6
LEMMA TakeInv ==
  ASSUME ListsOK, CallsInv, NEW m \in net, TakeOrders(m)
  PROVE  ListsOK' /\ CallsInv' /\ ListsShift
<1>1. TakenInv /\ RequestsInv
  BY DEF CallsInv
<1>2. PICK new \in SUBSET {Identity(dto) : dto \in {e \in ToSet(m.content) : Verifies(e)}}, front \in BOOLEAN :
        LET os == {e.order : e \in new} IN
        /\ new \cap taken = {} /\ taken' = taken \cup new
        /\ placed' = [o \in Orders |-> placed[o] + Cardinality({d \in new : d.order = o})]
        /\ \E s \in SetToSeqs(os) :
             ListsBecome([lists EXCEPT !["orders"] = IF front THEN s \o @ ELSE @ \o s])
        /\ Answer(m, os)
  BY DEF TakeOrders
<1> DEFINE os == {e.order : e \in new}
<1>3. /\ m.kind = "post" /\ new \cap taken = {} /\ taken' = taken \cup new /\ Answer(m, os)
      /\ placed' = [o \in Orders |-> placed[o] + Cardinality({d \in new : d.order = o})]
  BY <1>2 DEF TakeOrders
<1>4. os \subseteq Orders /\ os \cap Known = {} /\ IsFiniteSet(os) /\ \A e \in new : e = [order |-> e.order, salt |-> Salt[e.order]]
  BY <1>1, <1>3, NewOrders
<1>5. PICK s \in SetToSeqs(os) : ListsBecome([lists EXCEPT !["orders"] = IF front THEN s \o @ ELSE @ \o s])
  BY <1>2
<1>6. Known' = Known \cup os
  BY <1>3 DEF Known
<1>7. \A e \in new : e.order \in Orders
  BY <1>4
<1>21. ASSUME NEW o \in Orders
      PROVE  placed'[o] = IF o \in Known' THEN 1 ELSE 0
  <2> DEFINE same == {d \in new : d.order = o}
             one == [order |-> o, salt |-> Salt[o]]
  <2>1. placed'[o] = placed[o] + Cardinality(same) /\ placed[o] = IF o \in Known THEN 1 ELSE 0
    BY <1>1, <1>3 DEF TakenInv
  <2>2. CASE o \in os
    <3>1. same = {one}
      BY <1>4, <2>2
    <3>2. Cardinality({one}) = 1
      BY FS_Singleton
    <3>3. o \notin Known /\ o \in Known'
      BY <1>4, <1>6, <2>2
    <3> HIDE DEF same, one
    <3>4. QED
      BY <2>1, <3>1, <3>2, <3>3
  <2>3. CASE o \notin os
    <3>1. same = {}
      BY <2>3
    <3>2. Cardinality({}) = 0
      BY FS_EmptySet
    <3>3. o \in Known' <=> o \in Known
      BY <1>6, <2>3
    <3> HIDE DEF same, os
    <3>4. QED
      BY <2>1, <3>1, <3>2, <3>3
  <2>4. QED
    BY <2>2, <2>3
<1> HIDE DEF os
<1>8. s \in Seq(Orders) /\ IsInjective(s) /\ ToSet(s) \subseteq os
  <2>1. Cardinality(os) \in Nat
    BY <1>4, FS_CardinalityType
  <2>2. s \in [1..Cardinality(os) -> os] /\ \A j, k \in 1..Cardinality(os) : j # k => s[j] # s[k]
    BY <1>5 DEF SetToSeqs
  <2>3. s \in Seq(os)
    BY <2>1, <2>2
  <2>4. DOMAIN s = 1..Cardinality(os)
    BY <2>2
  <2>5. IsInjective(s)
    BY <2>2, <2>4 DEF IsInjective
  <2>6. ToSet(s) \subseteq os
    BY <2>2, <2>4 DEF ToSet
  <2>7. s \in Seq(Orders)
    BY <1>4, <2>1, <2>2
  <2>8. QED
    BY <2>5, <2>6, <2>7
<1> DEFINE old == lists["orders"]
           t == IF front THEN s \o old ELSE old \o s
           after == [lists EXCEPT !["orders"] = t]
<1>9. "orders" \in Apis /\ "positions" \in Apis /\ \A a \in Apis : a = "orders" \/ a = "positions"
  BY DEF Apis
<1>10. /\ old \in Seq(Orders) /\ IsInjective(old) /\ lists["positions"] \in Seq(Orders) /\ IsInjective(lists["positions"])
       /\ lists \in [Apis -> Seq(Orders)] /\ ToSet(old) \cap ToSet(lists["positions"]) = {}
       /\ ToSet(old) \subseteq Known /\ ToSet(lists["positions"]) \subseteq Known
  BY <1>1, <1>9 DEF ListsOK, TakenInv
<1>11. ListsBecome(after) /\ lists' = after
  BY <1>5 DEF ListsBecome
<1>12. t \in Seq(Orders) /\ ToSet(t) = ToSet(old) \cup ToSet(s) /\ IsInjective(t)
  <2>1. ToSet(s) \cap ToSet(old) = {} /\ ToSet(old) \cap ToSet(s) = {}
    BY <1>4, <1>8, <1>10
  <2> HIDE DEF old
  <2>2. s \o old \in Seq(Orders) /\ ToSet(s \o old) = ToSet(s) \cup ToSet(old) /\ IsInjective(s \o old)
    BY <1>8, <1>10, <2>1, Joined
  <2>3. old \o s \in Seq(Orders) /\ ToSet(old \o s) = ToSet(old) \cup ToSet(s) /\ IsInjective(old \o s)
    BY <1>8, <1>10, <2>1, Joined
  <2>4. QED
    BY <2>2, <2>3
<1>13. Shifts(old, t)
  BY <1>8 DEF Shifts
<1> HIDE DEF t
<1>14. after["orders"] = t /\ after["positions"] = lists["positions"] /\ after \in [Apis -> Seq(Orders)]
  BY <1>9, <1>10, <1>12
<1>15. ListsShift
  <2>1. \A a \in Apis : Shifts(lists[a], after[a])
    BY <1>9, <1>13, <1>14 DEF Shifts
  <2>2. QED
    BY <1>11, <1>14, <2>1 DEF ListsShift
<1> HIDE DEF after
<1>16. ListsOK'
  <2>1. ToSet(t) \cap ToSet(lists["positions"]) = {}
    BY <1>4, <1>8, <1>10, <1>12
  <2>2. QED
    BY <1>9, <1>10, <1>11, <1>12, <1>14, <2>1 DEF ListsOK
<1>17. TakenInv'
  <2>1. \A e \in taken' : e = [order |-> e.order, salt |-> Salt[e.order]] /\ e.order \in Orders
    BY <1>1, <1>3, <1>4, <1>7 DEF TakenInv
  <2>2. \A a \in Apis : ToSet(lists'[a]) \subseteq Known'
    BY <1>6, <1>8, <1>9, <1>10, <1>11, <1>12, <1>14
  <2>3. QED
    BY <1>21, <2>1, <2>2 DEF TakenInv
<1>18. Cancelled \subseteq Cancelled'
  BY <1>4, <1>6, <1>8, <1>11, <1>12, <1>14 DEF Cancelled
<1>19. CallsOK' /\ RequestsInv' /\ GoneInv'
  <2>1. placed' \in [Orders -> Nat]
    BY <1>3, <1>21
  <2>2. QED
    BY <1>3, <1>4, <1>18, <2>1, AnswerInv
<1>20. QED
  BY <1>15, <1>16, <1>17, <1>19 DEF CallsInv
LEMMA DropInv ==
  ASSUME ListsOK, CallsInv, NEW m \in net, DropOrders(m)
  PROVE  ListsOK' /\ CallsInv' /\ ListsShift
<1> DEFINE old == lists["orders"]
           t == Without(old, m.content)
           after == [lists EXCEPT !["orders"] = t]
<1>1. TakenInv /\ RequestsInv
  BY DEF CallsInv
<1>2. ListsBecome(after) /\ lists' = after /\ m.kind = "cancel" /\ Answer(m, m.content \cap ToSet(old)) /\ taken' = taken /\ placed' = placed
  BY DEF DropOrders, ListsBecome
<1>3. "orders" \in Apis /\ "positions" \in Apis /\ \A a \in Apis : a = "orders" \/ a = "positions"
  BY DEF Apis
<1>4. /\ old \in Seq(Orders) /\ IsInjective(old) /\ lists["positions"] \in Seq(Orders) /\ IsInjective(lists["positions"])
      /\ lists \in [Apis -> Seq(Orders)] /\ ToSet(old) \cap ToSet(lists["positions"]) = {}
      /\ ToSet(old) \subseteq Known /\ ToSet(lists["positions"]) \subseteq Known
  BY <1>1, <1>3 DEF ListsOK, TakenInv
<1>5. t \in Seq(Orders) /\ ToSet(t) = ToSet(old) \ m.content /\ IsInjective(t)
  BY <1>4, WithoutFacts
<1>6. Shifts(old, t)
  BY DEF Shifts
<1> HIDE DEF t
<1>7. after["orders"] = t /\ after["positions"] = lists["positions"] /\ after \in [Apis -> Seq(Orders)]
  BY <1>3, <1>4, <1>5
<1>8. ListsShift
  <2>1. \A a \in Apis : Shifts(lists[a], after[a])
    BY <1>3, <1>6, <1>7 DEF Shifts
  <2>2. QED
    BY <1>2, <1>7, <2>1 DEF ListsShift
<1> HIDE DEF after
<1>9. ListsOK'
  <2>1. ToSet(t) \cap ToSet(lists["positions"]) = {}
    BY <1>4, <1>5
  <2>2. QED
    BY <1>2, <1>3, <1>4, <1>5, <1>7, <2>1 DEF ListsOK
<1>10. Known' = Known
  BY <1>2 DEF Known
<1>11. TakenInv'
  <2>1. \A a \in Apis : ToSet(lists'[a]) \subseteq Known'
    BY <1>2, <1>3, <1>4, <1>5, <1>7, <1>10
  <2>2. QED
    BY <1>1, <1>2, <1>10, <2>1 DEF TakenInv
<1>12. Cancelled \subseteq Cancelled' /\ m.content \cap ToSet(old) \subseteq Cancelled'
  BY <1>2, <1>4, <1>5, <1>7, <1>10 DEF Cancelled
<1>13. m.content \subseteq Orders
  BY <1>1, <1>2 DEF RequestsInv
<1>14. m.content \cap ToSet(old) \in SUBSET Orders
  BY <1>13
<1>15. CallsOK' /\ RequestsInv' /\ GoneInv'
  <2>1. placed' \in [Orders -> Nat]
    BY <1>2 DEF CallsInv, CallsOK
  <2>2. QED
    BY <1>2, <1>12, <1>14, <2>1, AnswerInv
<1>16. QED
  BY <1>8, <1>9, <1>11, <1>15 DEF CallsInv

(***************************************************************************)
(* Fills and closed positions: an order that is not open any more does not *)
(* come back.                                                              *)
(***************************************************************************)
LEMMA TradeInv ==
  ASSUME CallsInv, trades < MaxTrades, trades' = trades + 1, Cancelled \subseteq Cancelled',
         \A a \in Apis : ToSet(lists'[a]) \subseteq Known,
         UNCHANGED <<cfg, exchange, pc, call, kind, knowledge, panicked, calls>>
  PROVE  CallsInv'
<1>1. CallsOK /\ TakenInv /\ RequestsInv /\ GoneInv
  BY DEF CallsInv
<1>2. UNCHANGED <<cfg, net, taken, placed, answers, pc, call, kind, acked, gone, panicked, calls>>
  BY DEF exchange, knowledge
<1>3. trades' \in 0..MaxTrades
  BY <1>1, CallsAssumption DEF CallsOK
<1>4. CallsOK'
  BY <1>1, <1>2, <1>3 DEF CallsOK
<1>5. TakenInv'
  BY <1>1, <1>2 DEF TakenInv, Known
<1>6. RequestsInv'
  BY <1>1, <1>2, PostsUnchanged DEF RequestsInv
<1>7. GoneInv'
  BY <1>1, <1>2 DEF GoneInv
<1>8. QED
  BY <1>4, <1>5, <1>6, <1>7 DEF CallsInv

LEMMA FillInv ==
  ASSUME ListsOK, CallsInv, NEW o \in Orders, Fill(o)
  PROVE  ListsOK' /\ CallsInv' /\ ListsShift
<1> DEFINE old == lists["orders"]
           held == lists["positions"]
           t == Without(old, {o})
<1>1. TakenInv
  BY DEF CallsInv
<1>2. PICK front \in BOOLEAN :
        ListsBecome([lists EXCEPT !["orders"] = Without(@, {o}),
                                  !["positions"] = IF front THEN <<o>> \o @ ELSE Append(@, o)])
  BY DEF Fill
<1> DEFINE p == IF front THEN <<o>> \o held ELSE Append(held, o)
           after == [lists EXCEPT !["orders"] = t, !["positions"] = p]
<1>3. "orders" \in Apis /\ "positions" \in Apis /\ \A a \in Apis : a = "orders" \/ a = "positions"
  BY DEF Apis
<1>4. /\ old \in Seq(Orders) /\ IsInjective(old) /\ held \in Seq(Orders) /\ IsInjective(held)
      /\ lists \in [Apis -> Seq(Orders)] /\ ToSet(old) \cap ToSet(held) = {}
      /\ ToSet(old) \subseteq Known /\ ToSet(held) \subseteq Known
  BY <1>1, <1>3 DEF ListsOK, TakenInv
<1>5. ListsBecome(after) /\ lists' = after
  BY <1>2, <1>3, <1>4 DEF ListsBecome
<1>6. o \in ToSet(old) /\ trades < MaxTrades /\ trades' = trades + 1
      /\ UNCHANGED <<cfg, exchange, pc, call, kind, knowledge, panicked, calls>>
  BY DEF Fill
<1>7. t \in Seq(Orders) /\ ToSet(t) = ToSet(old) \ {o} /\ IsInjective(t)
  BY <1>4, WithoutFacts
<1>8. <<o>> \in Seq(Orders) /\ ToSet(<<o>>) = {o} /\ IsInjective(<<o>>)
  BY DEF ToSet, IsInjective
<1>9. p \in Seq(Orders) /\ ToSet(p) = ToSet(held) \cup {o} /\ IsInjective(p)
  <2> DEFINE one == <<o>>
  <2>1. Append(held, o) = held \o one
    BY <1>4
  <2>2. one \in Seq(Orders) /\ ToSet(one) = {o} /\ IsInjective(one)
    BY <1>8
  <2>3. ToSet(one) \cap ToSet(held) = {} /\ ToSet(held) \cap ToSet(one) = {}
    BY <1>4, <1>6, <2>2
  <2> HIDE DEF held, one
  <2>4. one \o held \in Seq(Orders) /\ ToSet(one \o held) = ToSet(one) \cup ToSet(held) /\ IsInjective(one \o held)
    BY <1>4, <2>2, <2>3, Joined
  <2>5. held \o one \in Seq(Orders) /\ ToSet(held \o one) = ToSet(held) \cup ToSet(one) /\ IsInjective(held \o one)
    BY <1>4, <2>2, <2>3, Joined
  <2>6. p = one \o held \/ p = held \o one
    BY <2>1 DEF one
  <2> HIDE DEF p
  <2>7. QED
    BY <2>2, <2>4, <2>5, <2>6
<1>10. Shifts(old, t)
  BY DEF Shifts
<1>11. Shifts(held, p)
  <2>1. p = <<o>> \o held \/ p = held \o <<o>>
    BY <1>4
  <2>2. QED
    BY <1>8, <2>1 DEF Shifts
<1> HIDE DEF t, p
<1>12. after["orders"] = t /\ after["positions"] = p /\ after \in [Apis -> Seq(Orders)]
  BY <1>3, <1>4, <1>7, <1>9
<1>13. ListsShift
  <2>1. \A a \in Apis : Shifts(lists[a], after[a])
    BY <1>3, <1>10, <1>11, <1>12
  <2>2. QED
    BY <1>5, <1>12, <2>1 DEF ListsShift
<1> HIDE DEF after
<1>14. ListsOK'
  <2>1. ToSet(t) \cap ToSet(p) = {}
    BY <1>4, <1>7, <1>9
  <2>2. QED
    BY <1>3, <1>5, <1>7, <1>9, <1>12, <2>1 DEF ListsOK
<1>15. \A a \in Apis : ToSet(lists'[a]) \subseteq Known
  BY <1>3, <1>4, <1>5, <1>6, <1>7, <1>9, <1>12
<1>16. Cancelled \subseteq Cancelled'
  <2>1. Known' = Known
    BY <1>6 DEF Known, exchange
  <2>2. QED
    BY <1>5, <1>7, <1>12, <2>1 DEF Cancelled
<1>17. CallsInv'
  BY <1>6, <1>15, <1>16, TradeInv
<1>18. QED
  BY <1>13, <1>14, <1>17

LEMMA CloseInv ==
  ASSUME ListsOK, CallsInv, NEW o \in Orders, ClosePosition(o)
  PROVE  ListsOK' /\ CallsInv' /\ ListsShift
<1> DEFINE old == lists["orders"]
           held == lists["positions"]
           t == Without(held, {o})
           after == [lists EXCEPT !["positions"] = t]
<1>1. TakenInv
  BY DEF CallsInv
<1>2. ListsBecome(after) /\ lists' = after
  BY DEF ClosePosition, ListsBecome
<1>3. "orders" \in Apis /\ "positions" \in Apis /\ \A a \in Apis : a = "orders" \/ a = "positions"
  BY DEF Apis
<1>4. /\ old \in Seq(Orders) /\ IsInjective(old) /\ held \in Seq(Orders) /\ IsInjective(held)
      /\ lists \in [Apis -> Seq(Orders)] /\ ToSet(old) \cap ToSet(held) = {}
      /\ ToSet(old) \subseteq Known /\ ToSet(held) \subseteq Known
  BY <1>1, <1>3 DEF ListsOK, TakenInv
<1>5. trades < MaxTrades /\ trades' = trades + 1
      /\ UNCHANGED <<cfg, exchange, pc, call, kind, knowledge, panicked, calls>>
  BY DEF ClosePosition
<1>6. t \in Seq(Orders) /\ ToSet(t) = ToSet(held) \ {o} /\ IsInjective(t)
  BY <1>4, WithoutFacts
<1>7. Shifts(held, t)
  BY DEF Shifts
<1> HIDE DEF t
<1>8. after["positions"] = t /\ after["orders"] = old /\ after \in [Apis -> Seq(Orders)]
  BY <1>3, <1>4, <1>6
<1>9. ListsShift
  <2>1. \A a \in Apis : Shifts(lists[a], after[a])
    BY <1>3, <1>7, <1>8 DEF Shifts
  <2>2. QED
    BY <1>2, <1>8, <2>1 DEF ListsShift
<1> HIDE DEF after
<1>10. ListsOK'
  <2>1. ToSet(old) \cap ToSet(t) = {}
    BY <1>4, <1>6
  <2>2. QED
    BY <1>2, <1>3, <1>4, <1>6, <1>8, <2>1 DEF ListsOK
<1>11. \A a \in Apis : ToSet(lists'[a]) \subseteq Known
  BY <1>2, <1>3, <1>4, <1>6, <1>8
<1>12. Cancelled \subseteq Cancelled'
  BY <1>2, <1>5, <1>8 DEF Cancelled, Known, exchange
<1>13. CallsInv'
  BY <1>5, <1>11, <1>12, TradeInv
<1>14. QED
  BY <1>9, <1>10, <1>13
-----------------------------------------------------------------------------
(***************************************************************************)
(* The walk, while the lists change: from its cursor on a list that has    *)
(* lost nothing still holds what it held.                                  *)
(***************************************************************************)
Cursors == Nat \cup {LastCursor, NoCursor}

LEMMA FromFacts ==
  ASSUME NEW s \in Seq(Orders), NEW c \in Cursors
  PROVE  /\ From(s, c) \in Seq(Orders)
         /\ c # LastCursor => First(c) \in Nat \ {0} /\ ToSet(From(s, c)) = {s[k] : k \in First(c)..Len(s)}
<1>1. CASE c = LastCursor
  BY <1>1 DEF From
<1>2. CASE c # LastCursor
  <2>1. First(c) \in Nat \ {0} /\ From(s, c) = SubSeq(s, First(c), Len(s)) /\ Len(s) \in Nat
    BY <1>2 DEF Cursors, First, From, NoCursor, LastCursor
  <2> DEFINE f == First(c)
             t == SubSeq(s, f, Len(s))
  <2> HIDE DEF f
  <2>2. f \in Nat \ {0}
    BY <2>1 DEF f
  <2>3. t \in Seq(Orders) /\ DOMAIN t = 1..Len(t)
    BY <2>2
  <2>4. Len(t) = IF f <= Len(s) THEN Len(s) - f + 1 ELSE 0
    BY <2>2
  <2>5. \A k \in 1..Len(t) : t[k] = s[f + k - 1] /\ f + k - 1 \in f..Len(s)
    BY <2>2, <2>4
  <2>6. \A k \in f..Len(s) : k - f + 1 \in 1..Len(t) /\ t[k - f + 1] = s[k]
    BY <2>2, <2>4
  <2>7. ToSet(t) = {s[k] : k \in f..Len(s)}
    <3> HIDE DEF t
    <3>1. ToSet(t) = {t[k] : k \in 1..Len(t)}
      BY <2>3 DEF ToSet
    <3>2. \A k \in 1..Len(t) : t[k] \in {s[j] : j \in f..Len(s)}
      BY <2>5
    <3>3. \A k \in f..Len(s) : s[k] \in {t[j] : j \in 1..Len(t)}
      BY <2>6
    <3>4. QED
      BY <3>1, <3>2, <3>3
  <2>8. QED
    BY <1>2, <2>1, <2>2, <2>3, <2>7 DEF f
<1>3. QED
  BY <1>1, <1>2

LEMMA FromShifts ==
  ASSUME NEW old \in Seq(Orders), NEW new \in Seq(Orders), Shifts(old, new), NEW c \in Cursors,
         ToSet(old) \subseteq ToSet(new)
  PROVE  ToSet(From(old, c)) \subseteq ToSet(From(new, c))
<1>1. CASE c = LastCursor
  BY <1>1 DEF From
<1>2. CASE c # LastCursor
  <2> DEFINE f == First(c)
  <2>1. f \in Nat \ {0} /\ ToSet(From(old, c)) = {old[k] : k \in f..Len(old)}
        /\ ToSet(From(new, c)) = {new[k] : k \in f..Len(new)}
    BY <1>2, FromFacts
  <2> HIDE DEF f
  <2>2. SUFFICES ASSUME NEW k \in f..Len(old) PROVE \E j \in f..Len(new) : new[j] = old[k]
    BY <2>1
  <2>3. k \in Nat /\ k \in 1..Len(old) /\ f <= k
    BY <2>1
  <2>4. CASE new = old
    BY <2>4
  <2>5. ASSUME NEW s \in Seq(Orders), new = s \o old
        PROVE  \E j \in f..Len(new) : new[j] = old[k]
    <3>1. Len(new) = Len(s) + Len(old) /\ new[Len(s) + k] = old[k] /\ Len(s) + k \in f..Len(new)
      BY <2>1, <2>3, <2>5
    <3>2. QED
      BY <3>1
  <2>6. ASSUME NEW s \in Seq(Orders), new = old \o s
        PROVE  \E j \in f..Len(new) : new[j] = old[k]
    <3>1. Len(new) = Len(old) + Len(s) /\ new[k] = old[k] /\ k \in f..Len(new)
      BY <2>1, <2>3, <2>6
    <3>2. QED
      BY <3>1
  <2>7. ASSUME NEW drop, new = Without(old, drop)
        PROVE  \E j \in f..Len(new) : new[j] = old[k]
    <3>1. ToSet(new) = ToSet(old) \ drop /\ (ToSet(old) \cap drop = {} => new = old)
      BY <2>7, WithoutFacts
    <3>2. new = old
      BY <3>1
    <3>3. QED
      BY <3>2
  <2>8. QED
    BY <2>4, <2>5, <2>6, <2>7 DEF Shifts
<1>3. QED
  BY <1>1, <1>2

LEMMA ListsWalk ==
  ASSUME ListsOK, WalkOK, WalkInv, ListsShift
  PROVE  WalkOK' /\ WalkInv'
<1>1. PICK new \in [Apis -> Seq(Orders)] : ListsBecome(new) /\ \A a \in Apis : Shifts(lists[a], new[a])
  BY DEF ListsShift
<1>2. /\ lists' = new /\ UNCHANGED <<pageSize, api, onlyFirstPage, walk, nextCursor, cursor, request, items, collected, fails, expected>>
      /\ changed' = (changed \/ (Walking /\ new[api] # lists[api]))
      /\ shrank' = (shrank \/ (Walking /\ ~(ToSet(lists[api]) \subseteq ToSet(new[api]))))
  BY <1>1 DEF ListsBecome, arguments, callVars, list
<1>3. changed' \in BOOLEAN /\ shrank' \in BOOLEAN
  BY <1>2 DEF WalkOK
<1>4. WalkOK'
  BY <1>2, <1>3 DEF WalkOK
<1>5. ASSUME Walking, NEW all, NEW c, Collects(all, c)
      PROVE  /\ CursorOK(c)
             /\ ~changed' => all \o From(lists'[api], c) = expected
             /\ ~shrank' => ToSet(expected) \subseteq ToSet(all) \cup ToSet(From(lists'[api], c))
  <2>1. CursorOK(c) /\ c \in Cursors
    BY <1>5 DEF Collects, CursorOK, Cursors
  <2>2. ASSUME ~changed'
        PROVE  all \o From(lists'[api], c) = expected
    <3>1. ~changed /\ lists'[api] = lists[api]
      BY <1>2, <1>5, <2>2
    <3>2. QED
      BY <1>5, <3>1 DEF Collects, Rest, list
  <2>3. ASSUME ~shrank'
        PROVE  ToSet(expected) \subseteq ToSet(all) \cup ToSet(From(lists'[api], c))
    <3>1. ~shrank /\ ToSet(lists[api]) \subseteq ToSet(lists'[api])
      BY <1>2, <1>5, <2>3
    <3>2. lists[api] \in Seq(Orders) /\ lists'[api] \in Seq(Orders) /\ Shifts(lists[api], lists'[api])
      BY <1>1, <1>2 DEF ListsOK, WalkOK
    <3>3. ToSet(From(lists[api], c)) \subseteq ToSet(From(lists'[api], c))
      BY <2>1, <3>1, <3>2, FromShifts
    <3>4. QED
      BY <1>5, <3>1, <3>3 DEF Collects, Rest, list
  <2>4. QED
    BY <2>1, <2>2, <2>3
<1>6. ASSUME ~OneOrdersPage, Walking'
      PROVE  nextCursor' # LastCursor /\ Collects(collected, nextCursor)'
  <2>1. Walking /\ Collects(collected, nextCursor) /\ nextCursor # LastCursor
    BY <1>2, <1>6 DEF WalkInv, CollectsInv, Walking
  <2>2. QED
    BY <1>2, <1>5, <2>1 DEF Collects, CursorOK, Rest, list
<1>7. ASSUME ~OneOrdersPage, walk' \in {"loop", "sent"}
      PROVE  Collects(collected \o items, cursor)'
  <2>1. Walking /\ Collects(collected \o items, cursor)
    BY <1>2, <1>7 DEF WalkInv, CollectsInv, Walking
  <2>2. QED
    BY <1>2, <1>5, <2>1 DEF Collects, CursorOK, Rest, list
<1>8. ASSUME ~OneOrdersPage
      PROVE  (walk = "sent" => request = Params /\ cursor # LastCursor)'
  BY <1>2, <1>8 DEF WalkInv, CollectsInv, Params
<1>9. WalkComplete'
  <2>1. walk = "done" => changed' = changed /\ shrank' = shrank
    BY <1>2 DEF Walking, WalkOK
  <2>2. QED
    BY <1>2, <2>1 DEF WalkInv, WalkComplete, OneOrdersPage
<1>10. OneOrdersPage' = OneOrdersPage /\ (walk = "before" => collected = <<>>)'
  BY <1>2 DEF WalkInv, OneOrdersPage
<1>11. CASE ~OneOrdersPage
  <2>1. CollectsInv'
    BY <1>6, <1>7, <1>8, <1>11 DEF CollectsInv
  <2>2. QED
    BY <1>4, <1>9, <1>10, <1>11, <2>1 DEF WalkInv
<1>12. CASE OneOrdersPage
  <2>1. OnePageInv /\ api = "orders"
    BY <1>12 DEF WalkInv, OneOrdersPage
  <2>2. Walking /\ ~changed' => ~changed /\ lists'["orders"] = lists["orders"]
    BY <1>2, <2>1
  <2>3. ASSUME Walking, ~changed'
        PROVE  expected' = AskedFor("orders", TRUE, nextCursor)'
    BY <1>2, <2>1, <2>2, <2>3 DEF OnePageInv, AskedFor, FirstPage
  <2>4. OnePageInv'
    BY <1>2, <2>1, <2>2, <2>3 DEF OnePageInv, Walking, Params
  <2>5. QED
    BY <1>4, <1>9, <1>10, <1>12, <2>4 DEF WalkInv
<1>13. QED
  BY <1>11, <1>12
-----------------------------------------------------------------------------
(***************************************************************************)
(* A page and what follows it is what there was from the cursor on.        *)
(***************************************************************************)
LEMMA MinOfTwo ==
  ASSUME NEW m \in Int, NEW n \in Int
  PROVE  Min({m, n}) = IF m <= n THEN m ELSE n
<1> DEFINE x == IF m <= n THEN m ELSE n
<1>1. x \in {m, n} /\ \A y \in {m, n} : x <= y
  OBVIOUS
<1>2. \A z \in {m, n} : (\A y \in {m, n} : z <= y) => z = x
  OBVIOUS
<1> HIDE DEF x
<1>3. Min({m, n}) = x
  BY <1>1, <1>2 DEF Min
<1>4. QED
  BY <1>3 DEF x

LEMMA Split ==
  ASSUME NEW s \in Seq(Orders), NEW k \in Nat, NEW n \in Nat \ {0}
  PROVE  LET page == SubSeq(s, k + 1, Min({k + n, Len(s)}))
             rest == IF k + n < Len(s) THEN SubSeq(s, k + n + 1, Len(s)) ELSE <<>>
         IN  page \in Seq(Orders) /\ page \o rest = SubSeq(s, k + 1, Len(s))
<1>1. Len(s) \in Nat /\ Min({k + n, Len(s)}) = IF k + n <= Len(s) THEN k + n ELSE Len(s)
  BY MinOfTwo
<1>2. CASE k + n < Len(s)
  <2> DEFINE p == SubSeq(s, k + 1, k + n)
             r == SubSeq(s, k + n + 1, Len(s))
             w == SubSeq(s, k + 1, Len(s))
  <2>1. p \in Seq(Orders) /\ Len(p) = n /\ \A j \in 1..n : p[j] = s[k + j]
    BY <1>1, <1>2
  <2>2. r \in Seq(Orders) /\ Len(r) = Len(s) - (k + n) /\ \A j \in 1..(Len(s) - (k + n)) : r[j] = s[k + n + j]
    BY <1>1, <1>2
  <2>3. w \in Seq(Orders) /\ Len(w) = Len(s) - k /\ \A j \in 1..(Len(s) - k) : w[j] = s[k + j]
    BY <1>1, <1>2
  <2> DEFINE u == p \o r
  <2> HIDE DEF p, r, w
  <2>4. /\ u \in Seq(Orders) /\ Len(u) = Len(p) + Len(r)
        /\ \A j \in 1..(Len(p) + Len(r)) : u[j] = IF j <= Len(p) THEN p[j] ELSE r[j - Len(p)]
    <3>1. p \in Seq(Orders) /\ r \in Seq(Orders)
      BY <2>1, <2>2
    <3>2. QED
      BY <3>1, ConcatProperties
  <2> HIDE DEF u
  <2>5. Len(u) = Len(w) /\ Len(p) + Len(r) = Len(w)
    BY <1>1, <2>1, <2>2, <2>3, <2>4
  <2>6. ASSUME NEW j \in 1..Len(u)
        PROVE  u[j] = w[j]
    <3>1. j \in 1..(Len(s) - k) /\ w[j] = s[k + j] /\ u[j] = IF j <= n THEN p[j] ELSE r[j - n]
      BY <1>1, <2>1, <2>3, <2>4, <2>5
    <3>2. CASE j <= n
      BY <1>1, <2>1, <3>1, <3>2
    <3>3. CASE j > n
      <4>1. j - n \in 1..(Len(s) - (k + n)) /\ k + n + (j - n) = k + j
        BY <1>1, <3>1, <3>3
      <4>2. r[j - n] = s[k + n + (j - n)]
        BY <2>2, <4>1
      <4>3. QED
        BY <3>1, <3>3, <4>1, <4>2
    <3>4. j \in Nat /\ n \in Nat
      OBVIOUS
    <3>5. QED
      BY <3>2, <3>3, <3>4
  <2>7. u = w
    BY <2>3, <2>4, <2>5, <2>6, SeqEqual
  <2>8. Min({k + n, Len(s)}) = k + n
    BY <1>1, <1>2
  <2>9. QED
    BY <1>2, <2>1, <2>7, <2>8 DEF p, r, w, u
<1>3. CASE ~(k + n < Len(s))
  <2>1. Min({k + n, Len(s)}) = Len(s)
    BY <1>1, <1>3
  <2>2. SubSeq(s, k + 1, Len(s)) \in Seq(Orders)
    BY <1>1
  <2>3. SubSeq(s, k + 1, Len(s)) \o <<>> = SubSeq(s, k + 1, Len(s))
    BY <2>2
  <2>4. QED
    BY <1>3, <2>1, <2>2, <2>3
<1>4. QED
  BY <1>2, <1>3

LEMMA PageFacts ==
  ASSUME ListsOK, WalkOK, WalkInv, ~OneOrdersPage, walk = "sent"
  PROVE  LET next == NextOf(request) IN
         /\ Page(request) \in Seq(Orders)
         /\ \/ next \in Nat /\ Page(request) \o Rest(next) = Rest(cursor)
            \/ next = (IF api = "orders" THEN LastCursor ELSE NoCursor) /\ Page(request) = Rest(cursor)
<1> DEFINE s == lists[api]
           k == Offset(request)
<1>1. s \in Seq(Orders) /\ pageSize \in Nat \ {0} /\ (api = "orders" \/ api = "positions")
  BY DEF ListsOK, WalkOK, Apis
<1>2. request = Params /\ cursor # LastCursor /\ CursorOK(cursor)
  BY DEF WalkInv, CollectsInv, Collects
<1>3. request.cursor = cursor /\ request.anchor /\ (request.filters <=> api = "orders" \/ cursor = NoCursor)
  BY <1>2 DEF Params
<1>4. Found(request)
  BY <1>1, <1>3 DEF Found
<1>5. k \in Nat /\ First(cursor) = k + 1
  BY <1>2, <1>3 DEF Offset, First, CursorOK, FirstCursor, NoCursor, LastCursor
<1>6. Rest(cursor) = SubSeq(s, k + 1, Len(s))
  BY <1>2, <1>5 DEF Rest, From, list
<1>7. Page(request) = SubSeq(s, k + 1, Min({k + pageSize, Len(s)}))
  BY <1>4 DEF Page, list
<1>8. NextOf(request) = IF k + pageSize < Len(s) THEN k + pageSize ELSE IF api = "orders" THEN LastCursor ELSE NoCursor
  BY <1>4 DEF NextOf, list
<1> HIDE DEF k
<1>9. CASE k + pageSize < Len(s)
  <2>1. k + pageSize \in Nat
    BY <1>1, <1>5
  <2>2. Rest(k + pageSize) = SubSeq(s, k + pageSize + 1, Len(s))
    <3>1. k + pageSize # LastCursor /\ k + pageSize # NoCursor
      BY <2>1 DEF LastCursor, NoCursor
    <3>2. First(k + pageSize) = k + pageSize + 1
      BY <3>1 DEF First
    <3>3. QED
      BY <3>1, <3>2, Zenon DEF Rest, From, list
  <2>3. Page(request) \in Seq(Orders) /\ Page(request) \o SubSeq(s, k + pageSize + 1, Len(s)) = SubSeq(s, k + 1, Len(s))
    <3> HIDE DEF s
    <3>1. QED
      BY <1>1, <1>5, <1>7, <1>9, Split
  <2>4. NextOf(request) = k + pageSize
    BY <1>8, <1>9
  <2>5. Page(request) \o Rest(NextOf(request)) = Rest(cursor)
    BY <1>6, <2>2, <2>3, <2>4
  <2>6. QED
    BY <2>1, <2>3, <2>4, <2>5
<1>10. CASE ~(k + pageSize < Len(s))
  <2>1. Page(request) \in Seq(Orders) /\ Page(request) \o <<>> = Rest(cursor)
    BY <1>1, <1>5, <1>6, <1>7, <1>10, Split
  <2>2. Page(request) = Rest(cursor)
    BY <2>1
  <2>3. QED
    BY <1>8, <1>10, <2>1, <2>2
<1>11. QED
  BY <1>9, <1>10
LEMMA PageCollected ==
  ASSUME ListsOK, WalkOK, WalkInv, ~OneOrdersPage, walk = "sent"
  PROVE  LET next == NextOf(request)
             all == collected \o (items \o Page(request))
         IN  /\ Page(request) \in Seq(Orders) /\ all = (collected \o items) \o Page(request)
             /\ \/ (next \in Nat \/ (next = LastCursor /\ api = "orders")) /\ Collects(all, next)
                \/ /\ next = NoCursor /\ api = "positions"
                   /\ ~changed => all = expected
                   /\ ~shrank => ToSet(expected) \subseteq ToSet(all)
<1> DEFINE next == NextOf(request)
           page == Page(request)
           had == collected \o items
           all == collected \o (items \o page)
           rest == Rest(cursor)
<1>1. /\ page \in Seq(Orders)
      /\ \/ next \in Nat /\ page \o Rest(next) = rest
         \/ next = (IF api = "orders" THEN LastCursor ELSE NoCursor) /\ page = rest
  BY PageFacts
<1>2. lists[api] \in Seq(Orders) /\ collected \in Seq(Orders) /\ items \in Seq(Orders) /\ (api = "orders" \/ api = "positions")
  BY DEF ListsOK, WalkOK, Apis
<1>3. Collects(had, cursor)
  BY DEF WalkInv, CollectsInv
<1>4. (~changed => had \o rest = expected) /\ (~shrank => ToSet(expected) \subseteq ToSet(had) \cup ToSet(rest))
  BY <1>3 DEF Collects
<1>5. had \in Seq(Orders)
  BY <1>2
<1>6. all = had \o page /\ all \in Seq(Orders)
  <2> HIDE DEF page
  <2>1. QED
    BY <1>1, <1>2
<1> HIDE DEF next, page, had, all, rest
<1>7. ToSet(all) = ToSet(had) \cup ToSet(page)
  BY <1>1, <1>5, <1>6, Joined
<1>8. CASE next \in Nat /\ page \o Rest(next) = rest
  <2> DEFINE more == Rest(next)
  <2>1. more \in Seq(Orders)
    BY <1>2, <1>8, FromFacts DEF Rest, list, Cursors
  <2> HIDE DEF more
  <2>2. rest = page \o more
    BY <1>8 DEF more
  <2>3. all \o more = had \o rest
    <3>1. (had \o page) \o more = had \o (page \o more)
      <4>1. page \in Seq(Orders)
        BY <1>1
      <4>2. QED
        BY <1>5, <2>1, <4>1, ConcatAssociative
    <3>2. QED
      BY <1>6, <2>2, <3>1, Zenon
  <2>4. ToSet(rest) = ToSet(page) \cup ToSet(more)
    BY <1>1, <2>1, <2>2, Joined
  <2>5. ToSet(all) \cup ToSet(more) = ToSet(had) \cup ToSet(rest)
    BY <1>7, <2>4
  <2>6. Collects(all, next)
    BY <1>4, <1>8, <2>3, <2>5 DEF Collects, CursorOK, more
  <2>7. next \in Nat
    BY <1>8
  <2>8. page \in Seq(Orders) /\ all = had \o page
    BY <1>1, <1>6
  <2>9. QED
    BY <2>6, <2>7, <2>8 DEF next, page, had, all
<1>9. CASE next = (IF api = "orders" THEN LastCursor ELSE NoCursor) /\ page = rest
  <2>1. (~changed => all = expected) /\ (~shrank => ToSet(expected) \subseteq ToSet(all))
    BY <1>4, <1>6, <1>7, <1>9
  <2>2. CASE api = "orders"
    <3>1. next = LastCursor /\ Rest(next) = <<>>
      BY <1>9, <2>2 DEF Rest, From
    <3>2. all \o <<>> = all /\ ToSet(<<>>) = {}
      BY <1>6 DEF ToSet
    <3>3. Collects(all, next)
      BY <2>1, <2>2, <3>1, <3>2 DEF Collects, CursorOK
    <3>4. QED
      BY <1>1, <1>6, <2>2, <3>1, <3>3 DEF next, page, had, all
  <2>3. CASE api = "positions"
    <3>1. next = NoCursor
      BY <1>9, <2>3
    <3>2. QED
      BY <1>1, <1>6, <2>1, <2>3, <3>1 DEF next, page, had, all
  <2>4. QED
    BY <1>2, <2>2, <2>3
<1>10. QED
  BY <1>1, <1>8, <1>9 DEF next, page, rest
-----------------------------------------------------------------------------
(***************************************************************************)
(* The steps of the walk.                                                  *)
(***************************************************************************)
LEMMA FirstPageType ==
  ASSUME NEW s \in Seq(Orders), pageSize \in Nat
  PROVE  FirstPage(s) \in Seq(Orders)
<1> DEFINE n == Min({pageSize, Len(s)})
<1>1. Len(s) \in Nat
  OBVIOUS
<1>2. n = IF pageSize <= Len(s) THEN pageSize ELSE Len(s)
  BY <1>1, MinOfTwo
<1> HIDE DEF n
<1>3. n \in 0..Len(s)
  BY <1>1, <1>2
<1>4. SubSeq(s, 1, n) \in Seq(Orders)
  BY <1>3
<1>5. QED
  BY <1>4 DEF FirstPage, n

LEMMA BeginInv ==
  ASSUME ListsOK, WalkOK, WalkInv, BeginWalk(cfg.hasCLOBAuth), lists' = lists
  PROVE  WalkOK' /\ WalkInv'
<1>1. PICK a \in Apis, only \in BOOLEAN :
        /\ api' = a /\ onlyFirstPage' = only
        /\ \E k \in StartsAt(a) : nextCursor' = k /\ expected' = AskedFor(a, only, k)
        /\ walk' = IF a = "orders" /\ ~cfg.hasCLOBAuth THEN "refused" ELSE "caller"
  BY DEF BeginWalk
<1>2. PICK k \in StartsAt(a) : nextCursor' = k /\ expected' = AskedFor(a, only, k)
  BY <1>1
<1>3. walk = "before" /\ UNCHANGED <<pageSize, cursor, request, items, collected, fails, changed, shrank>>
  BY DEF BeginWalk
<1>4. lists[a] \in Seq(Orders) /\ (a = "orders" \/ a = "positions")
  BY <1>1 DEF ListsOK, Apis
<1>5. k \in Nat \/ (k = NoCursor /\ a = "positions")
  BY <1>2, <1>4 DEF StartsAt, FirstCursor
<1>6. k # LastCursor /\ k \in Int /\ k \in Cursors
  BY <1>5 DEF LastCursor, NoCursor, Cursors
<1>7. collected = <<>> /\ collected' = <<>>
  BY <1>3 DEF WalkInv
<1>8. walk' = "caller" \/ walk' = "refused"
  BY <1>1
<1>9. (walk = "before" => collected = <<>>)' /\ WalkComplete'
  BY <1>8 DEF WalkComplete
<1>10. CASE ~(a = "orders" /\ only)
  <2>1. expected' = From(lists[a], k)
    BY <1>2, <1>6, <1>10 DEF From, First, AskedFor
  <2>2. expected' \in Seq(Orders)
    BY <1>4, <1>6, <2>1, FromFacts
  <2>3. WalkOK'
    BY <1>1, <1>2, <1>3, <1>6, <2>2 DEF WalkOK
  <2>4. Collects(collected, nextCursor)'
    <3>1. collected' \o From(lists'[api'], nextCursor') = expected'
      BY <1>1, <1>2, <1>7, <2>1, <2>2
    <3>2. From(lists'[api'], nextCursor') = expected'
      BY <1>1, <1>2, <2>1
    <3>3. ToSet(expected') \subseteq ToSet(collected') \cup ToSet(From(lists'[api'], nextCursor'))
      BY <3>2
    <3>4. CursorOK(nextCursor)'
      BY <1>1, <1>2, <1>5 DEF CursorOK
    <3>5. QED
      BY <3>1, <3>3, <3>4 DEF Collects, Rest, list
  <2>5. CollectsInv'
    BY <1>2, <1>6, <1>8, <2>4 DEF CollectsInv
  <2>6. ~OneOrdersPage'
    BY <1>1, <1>10 DEF OneOrdersPage
  <2>7. QED
    BY <1>9, <2>3, <2>5, <2>6 DEF WalkInv
<1>11. CASE a = "orders" /\ only
  <2>1. k \in Nat
    BY <1>5, <1>11
  <2>2. expected' \in Seq(Orders)
    <3>1. FirstPage(lists[a]) \in Seq(Orders)
      BY <1>4, FirstPageType DEF WalkOK
    <3>2. <<>> \in Seq(Orders)
      OBVIOUS
    <3>3. QED
      BY <1>2, <1>11, <3>1, <3>2 DEF AskedFor
  <2>3. WalkOK'
    BY <1>1, <1>2, <1>3, <1>6, <2>2 DEF WalkOK
  <2>4. expected' = AskedFor("orders", TRUE, nextCursor)'
    BY <1>1, <1>2, <1>3, <1>11 DEF AskedFor, FirstPage
  <2>5. OnePageInv'
    BY <1>2, <1>7, <1>8, <2>1, <2>4 DEF OnePageInv
  <2>6. OneOrdersPage'
    BY <1>1, <1>11 DEF OneOrdersPage
  <2>7. QED
    BY <1>9, <2>3, <2>5, <2>6 DEF WalkInv
<1>12. QED
  BY <1>10, <1>11

LEMMA CallInv ==
  ASSUME ListsOK, WalkOK, WalkInv, ~OneOrdersPage, Call, lists' = lists
  PROVE  WalkOK' /\ WalkInv'
<1>1. /\ walk = "caller" /\ cursor' = nextCursor /\ items' = <<>> /\ walk' = "loop"
      /\ UNCHANGED <<pageSize, api, onlyFirstPage, nextCursor, request, collected, fails, expected, changed, shrank>>
  BY DEF Call, arguments, walkHistory
<1>2. WalkOK'
  BY <1>1 DEF WalkOK
<1>3. nextCursor # LastCursor /\ Collects(collected, nextCursor)
  BY <1>1 DEF WalkInv, CollectsInv, OneOrdersPage, Walking
<1>4. collected \o items' = collected
  BY <1>1 DEF WalkOK
<1>5. Collects(collected, nextCursor)'
  BY <1>1, <1>3 DEF Collects, CursorOK, Rest, list
<1>6. Collects(collected \o items, cursor)'
  BY <1>1, <1>3, <1>4 DEF Collects, CursorOK, Rest, list
<1>7. QED
  BY <1>1, <1>2, <1>3, <1>5, <1>6 DEF WalkInv, CollectsInv, OneOrdersPage, WalkComplete

LEMMA SendPageInv ==
  ASSUME ListsOK, WalkOK, WalkInv, ~OneOrdersPage, Send, lists' = lists
  PROVE  WalkOK' /\ WalkInv'
<1>1. /\ walk = "loop" /\ MorePages /\ request' = Params /\ walk' = "sent"
      /\ UNCHANGED <<pageSize, api, onlyFirstPage, nextCursor, cursor, items, collected, fails, expected, changed, shrank>>
  BY DEF Send, arguments, walkHistory
<1>2. WalkOK'
  BY <1>1 DEF WalkOK
<1>3. nextCursor # LastCursor /\ Collects(collected, nextCursor) /\ Collects(collected \o items, cursor)
  BY <1>1 DEF WalkInv, CollectsInv, OneOrdersPage, Walking
<1>4. cursor # LastCursor
  BY <1>1, <1>3 DEF MorePages, Collects, CursorOK, LastCursor, NoCursor
<1>5. Collects(collected, nextCursor)' /\ Collects(collected \o items, cursor)'
  BY <1>1, <1>3 DEF Collects, CursorOK, Rest, list
<1>6. request' = Params'
  BY <1>1 DEF Params
<1>7. QED
  BY <1>1, <1>2, <1>3, <1>4, <1>5, <1>6 DEF WalkInv, CollectsInv, OneOrdersPage, WalkComplete

LEMMA AnsweredInv ==
  ASSUME ListsOK, WalkOK, WalkInv, ~OneOrdersPage, Answered, lists' = lists
  PROVE  WalkOK' /\ WalkInv'
<1> DEFINE next == NextOf(request)
           page == Page(request)
           all == collected \o (items \o page)
<1>1. walk = "sent" /\ cursor' = next /\ request' = NoRequest
  BY DEF Answered
<1>2. /\ page \in Seq(Orders) /\ all = (collected \o items) \o page
      /\ \/ (next \in Nat \/ (next = LastCursor /\ api = "orders")) /\ Collects(all, next)
         \/ /\ next = NoCursor /\ api = "positions"
            /\ ~changed => all = expected
            /\ ~shrank => ToSet(expected) \subseteq ToSet(all)
  BY <1>1, PageCollected
<1>3. collected \in Seq(Orders) /\ items \in Seq(Orders) /\ (api = "orders" \/ api = "positions")
  BY DEF WalkOK, Apis
<1>4. all \in Seq(Orders) /\ items \o page \in Seq(Orders)
  <2> HIDE DEF page
  <2>1. QED
    BY <1>2, <1>3
<1>5. next \in Int
  BY <1>2 DEF LastCursor, NoCursor
<1>6. /\ ~(api = "orders" /\ onlyFirstPage)
      /\ nextCursor # LastCursor /\ Collects(collected, nextCursor)
  BY <1>1 DEF WalkInv, CollectsInv, OneOrdersPage, Walking
<1>7. CASE api = "positions" /\ (next = NoCursor \/ onlyFirstPage)
  <2>1. Finish(items \o page, next)
    BY <1>7 DEF Answered
  <2>2. /\ collected' = all /\ nextCursor' = next /\ items' = <<>>
        /\ walk' = IF onlyFirstPage /\ next # NoCursor THEN "caller" ELSE "done"
        /\ UNCHANGED <<pageSize, api, onlyFirstPage, fails, expected, changed, shrank>>
    BY <1>7, <2>1 DEF Finish, arguments, walkHistory
  <2> HIDE DEF next, page, all
  <2>3. WalkOK'
    <3>1. walk' \in {"before", "caller", "loop", "sent", "done", "refused"}
      BY <2>2
    <3>2. collected' \in Seq(Orders) /\ items' \in Seq(Orders)
      BY <1>4, <2>2
    <3>3. nextCursor' \in Int /\ cursor' \in Int
      BY <1>1, <1>5, <2>2
    <3>4. QED
      BY <2>2, <3>1, <3>2, <3>3 DEF WalkOK
  <2>4. CASE next = NoCursor
    <3>1. walk' = "done" /\ (~changed => all = expected) /\ (~shrank => ToSet(expected) \subseteq ToSet(all))
      BY <1>2, <2>2, <2>4 DEF NoCursor, LastCursor
    <3>2. WalkComplete'
      BY <2>2, <3>1 DEF WalkComplete
    <3>3. QED
      BY <1>6, <2>2, <2>3, <3>1, <3>2 DEF WalkInv, CollectsInv, OneOrdersPage, Walking
  <2>5. CASE next # NoCursor
    <3>1. walk' = "caller" /\ next \in Nat /\ Collects(all, next)
      BY <1>2, <1>7, <2>2, <2>5
    <3>2. next # LastCursor
      BY <3>1 DEF LastCursor
    <3>3. Collects(collected, nextCursor)'
      BY <2>2, <3>1 DEF Collects, CursorOK, Rest, list
    <3>4. QED
      BY <1>6, <2>2, <2>3, <3>1, <3>2, <3>3 DEF WalkInv, CollectsInv, OneOrdersPage, WalkComplete
  <2>6. QED
    BY <2>4, <2>5
<1>8. CASE ~(api = "positions" /\ (next = NoCursor \/ onlyFirstPage))
  <2>1. /\ items' = items \o page /\ walk' = "loop"
        /\ UNCHANGED <<pageSize, api, onlyFirstPage, nextCursor, collected, fails, expected, changed, shrank>>
    BY <1>8 DEF Answered, arguments, walkHistory
  <2>2. collected' \o items' = all
    BY <2>1
  <2> HIDE DEF next, page, all
  <2>3. WalkOK'
    <3>1. items' \in Seq(Orders) /\ cursor' \in Int
      BY <1>1, <1>4, <1>5, <2>1
    <3>2. QED
      BY <2>1, <3>1 DEF WalkOK
  <2>4. Collects(all, next)
    BY <1>2, <1>8
  <2>5. Collects(collected \o items, cursor)'
    BY <1>1, <2>1, <2>2, <2>4 DEF Collects, CursorOK, Rest, list
  <2>6. Collects(collected, nextCursor)'
    BY <1>6, <2>1 DEF Collects, CursorOK, Rest, list
  <2>7. QED
    BY <1>6, <2>1, <2>3, <2>5, <2>6 DEF WalkInv, CollectsInv, OneOrdersPage, WalkComplete
<1>9. QED
  BY <1>7, <1>8

LEMMA LoopEndsInv ==
  ASSUME ListsOK, WalkOK, WalkInv, ~OneOrdersPage, LoopEnds, lists' = lists
  PROVE  WalkOK' /\ WalkInv'
<1>1. walk = "loop" /\ ~MorePages /\ Finish(items, cursor) /\ UNCHANGED <<cursor, request>>
  BY DEF LoopEnds
<1>2. Collects(collected \o items, cursor) /\ ~(api = "orders" /\ onlyFirstPage)
  BY <1>1 DEF WalkInv, CollectsInv, OneOrdersPage
<1>3. (api = "orders" \/ api = "positions") /\ collected \in Seq(Orders) /\ items \in Seq(Orders)
  BY DEF WalkOK, Apis
<1>4. api = "orders" /\ cursor = LastCursor /\ ~onlyFirstPage
  BY <1>1, <1>2, <1>3 DEF MorePages
<1>5. /\ collected' = collected \o items /\ nextCursor' = nextCursor /\ walk' = "done" /\ items' = <<>>
      /\ UNCHANGED <<pageSize, api, onlyFirstPage, fails, expected, changed, shrank>>
  BY <1>1, <1>4 DEF Finish, arguments, walkHistory
<1>6. collected' \in Seq(Orders) /\ items' \in Seq(Orders)
  BY <1>3, <1>5
<1>7. WalkOK'
  BY <1>1, <1>5, <1>6 DEF WalkOK
<1>8. Rest(cursor) = <<>> /\ ToSet(<<>>) = {} /\ collected' \o <<>> = collected'
  BY <1>4, <1>6 DEF Rest, From, ToSet
<1>9. (~changed => collected' = expected) /\ (~shrank => ToSet(expected) \subseteq ToSet(collected'))
  BY <1>2, <1>5, <1>8 DEF Collects
<1>10. QED
  BY <1>2, <1>5, <1>7, <1>9 DEF WalkInv, CollectsInv, OneOrdersPage, Walking, WalkComplete

LEMMA RequestFailsInv ==
  ASSUME ListsOK, WalkOK, WalkInv, ~OneOrdersPage, RequestFails, lists' = lists
  PROVE  WalkOK' /\ WalkInv'
<1>1. /\ walk = "sent" /\ fails < MaxFails /\ fails' = fails + 1 /\ items' = <<>> /\ walk' = "caller"
      /\ UNCHANGED <<pageSize, api, onlyFirstPage, nextCursor, cursor, collected, expected, changed, shrank>>
  BY DEF RequestFails, arguments, walkHistory
<1>2. fails' \in 0..MaxFails
  BY <1>1, PagesAssumption DEF WalkOK
<1>3. WalkOK'
  BY <1>1, <1>2 DEF WalkOK
<1>4. nextCursor # LastCursor /\ Collects(collected, nextCursor)
  BY <1>1 DEF WalkInv, CollectsInv, OneOrdersPage, Walking
<1>5. Collects(collected, nextCursor)'
  BY <1>1, <1>4 DEF Collects, CursorOK, Rest, list
<1>6. QED
  BY <1>1, <1>3, <1>4, <1>5 DEF WalkInv, CollectsInv, OneOrdersPage, WalkComplete

(***************************************************************************)
(* The same steps for a single page of open orders.                        *)
(***************************************************************************)
LEMMA OnePageSteps ==
  ASSUME ListsOK, WalkOK, WalkInv, OneOrdersPage, WalkStep, lists' = lists
  PROVE  WalkOK' /\ WalkInv'
<1>1. api = "orders" /\ onlyFirstPage /\ OnePageInv /\ WalkComplete
  BY DEF WalkInv, OneOrdersPage
<1>2. UNCHANGED <<pageSize, api, onlyFirstPage, nextCursor, expected, changed, shrank>>
  BY <1>1 DEF WalkStep, Call, Send, Answered, LoopEnds, RequestFails, Finish, arguments, walkHistory
<1>3. OneOrdersPage' /\ AskedFor("orders", TRUE, nextCursor)' = AskedFor("orders", TRUE, nextCursor)
  BY <1>2 DEF OneOrdersPage, AskedFor, FirstPage
<1>4. CASE Call
  <2>1. /\ walk = "caller" /\ cursor' = nextCursor /\ items' = <<>> /\ walk' = "loop"
        /\ UNCHANGED <<request, collected, fails>>
    BY <1>4 DEF Call
  <2>2. WalkOK'
    BY <1>2, <2>1 DEF WalkOK
  <2>3. OnePageInv'
    BY <1>1, <1>2, <1>3, <2>1 DEF OnePageInv, Walking
  <2>4. QED
    BY <1>3, <2>1, <2>2, <2>3 DEF WalkInv, WalkComplete
<1>5. CASE Send
  <2>1. /\ walk = "loop" /\ MorePages /\ request' = Params /\ walk' = "sent"
        /\ UNCHANGED <<cursor, items, collected, fails>>
    BY <1>5 DEF Send
  <2>2. WalkOK'
    BY <1>2, <2>1 DEF WalkOK
  <2>3. cursor = FirstCursor
    BY <1>1, <2>1 DEF MorePages
  <2>4. request' = Params'
    BY <1>2, <2>1 DEF Params
  <2>5. OnePageInv'
    BY <1>1, <1>2, <1>3, <2>1, <2>3, <2>4 DEF OnePageInv, Walking
  <2>6. QED
    BY <1>3, <2>1, <2>2, <2>5 DEF WalkInv, WalkComplete
<1>6. CASE Answered
  <2> DEFINE next == NextOf(request)
             page == Page(request)
  <2>1. /\ walk = "sent" /\ cursor' = next /\ items' = items \o page /\ walk' = "loop"
        /\ UNCHANGED <<collected, fails>>
    BY <1>1, <1>6 DEF Answered
  <2>2. /\ request = Params /\ cursor = FirstCursor /\ items = <<>> /\ nextCursor = FirstCursor
        /\ nextCursor \in Nat /\ (~changed => expected = AskedFor("orders", TRUE, nextCursor))
    BY <1>1, <2>1 DEF OnePageInv, Walking
  <2>3. list = lists["orders"] /\ list \in Seq(Orders) /\ pageSize \in Nat \ {0} /\ Len(list) \in Nat
    BY <1>1 DEF list, ListsOK, WalkOK, Apis
  <2>4. Found(request) /\ Offset(request) = 0
    BY <1>1, <2>2 DEF Found, Offset, Params, FirstCursor
  <2>5. page = FirstPage(list)
    <3>1. Offset(request) + 1 = 1 /\ Offset(request) + pageSize = pageSize
      BY <2>3, <2>4
    <3>2. QED
      BY <2>4, <3>1 DEF Page, FirstPage
  <2>6. page \in Seq(Orders)
    BY <2>3, <2>5, FirstPageType
  <2>7. next \in Int /\ next # FirstCursor
    BY <1>1, <2>3, <2>4 DEF NextOf, LastCursor, FirstCursor
  <2>8. ~changed => page = expected
    BY <2>2, <2>3, <2>5 DEF AskedFor
  <2> HIDE DEF next, page
  <2>9. items' = page
    BY <2>1, <2>2, <2>6
  <2>10. WalkOK'
    BY <1>2, <2>1, <2>6, <2>7, <2>9 DEF WalkOK
  <2>11. OnePageInv'
    BY <1>1, <1>2, <1>3, <2>1, <2>7, <2>8, <2>9 DEF OnePageInv, Walking
  <2>12. QED
    BY <1>3, <2>1, <2>10, <2>11 DEF WalkInv, WalkComplete
<1>7. CASE LoopEnds
  <2>1. /\ walk = "loop" /\ ~MorePages /\ collected' = collected \o items /\ walk' = "done" /\ items' = <<>>
        /\ UNCHANGED <<fails, cursor>>
    BY <1>1, <1>7 DEF LoopEnds, Finish
  <2>2. collected = <<>> /\ items \in Seq(Orders) /\ nextCursor \in Nat
    BY <1>1, <2>1 DEF OnePageInv, Walking, WalkOK
  <2>3. collected' = items
    BY <2>1, <2>2
  <2>4. WalkOK'
    BY <1>2, <2>1, <2>2, <2>3 DEF WalkOK
  <2>5. ~changed => items = expected
    <3>1. CASE cursor = nextCursor /\ items = <<>>
      <4>1. cursor # FirstCursor
        BY <1>1, <2>1, <2>2, <3>1 DEF MorePages, LastCursor
      <4>2. QED
        BY <1>1, <2>1, <3>1, <4>1 DEF OnePageInv, Walking, AskedFor
    <3>2. QED
      BY <1>1, <2>1, <3>1 DEF OnePageInv
  <2>6. WalkComplete'
    BY <1>2, <1>3, <2>3, <2>5 DEF WalkComplete
  <2>7. OnePageInv'
    BY <2>1 DEF OnePageInv, Walking
  <2>8. QED
    BY <1>3, <2>1, <2>4, <2>6, <2>7 DEF WalkInv
<1>8. CASE RequestFails
  <2>1. /\ walk = "sent" /\ fails < MaxFails /\ fails' = fails + 1 /\ items' = <<>> /\ walk' = "caller"
        /\ UNCHANGED <<cursor, collected>>
    BY <1>8 DEF RequestFails
  <2>2. fails' \in 0..MaxFails
    BY <2>1, PagesAssumption DEF WalkOK
  <2>3. WalkOK'
    BY <1>2, <2>1, <2>2 DEF WalkOK
  <2>4. OnePageInv'
    BY <1>1, <1>2, <1>3, <2>1 DEF OnePageInv, Walking
  <2>5. QED
    BY <1>3, <2>1, <2>3, <2>4 DEF WalkInv, WalkComplete
<1>9. QED
  BY <1>4, <1>5, <1>6, <1>7, <1>8 DEF WalkStep

LEMMA WalkUnchanged ==
  ASSUME WalkOK, WalkInv, UNCHANGED <<lists, walkVars>>
  PROVE  WalkOK' /\ WalkInv'
<1>1. UNCHANGED <<lists, pageSize, api, onlyFirstPage, walk, nextCursor, cursor, request, items, collected, fails,
                  expected, changed, shrank>>
  BY DEF walkVars, arguments, callVars, walkHistory
<1>2. WalkOK'
  BY <1>1 DEF WalkOK
<1>3. WalkInv'
  BY <1>1 DEF WalkInv, CollectsInv, OnePageInv, OneOrdersPage, Walking, Collects, CursorOK, Rest, list, Params,
              AskedFor, FirstPage, WalkComplete
<1>4. QED
  BY <1>2, <1>3

-----------------------------------------------------------------------------
(***************************************************************************)
(* The invariant of posting, cancelling and walking.                       *)
(***************************************************************************)
LEMMA InitInv == Init => PostingInv
<1> SUFFICES ASSUME Init PROVE PostingInv
  OBVIOUS
<1>1. /\ lists = Standing /\ net = {} /\ taken = {[order |-> o, salt |-> Salt[o]] : o \in UNION {ToSet(Standing[a]) : a \in Apis}}
      /\ placed = [o \in Orders |-> IF \E a \in Apis : o \in ToSet(Standing[a]) THEN 1 ELSE 0]
      /\ answers = [i \in {} |-> {}] /\ pc = [c \in Callers |-> "idle"] /\ call = [c \in Callers |-> 0]
      /\ kind = [c \in Callers |-> NoKind] /\ acked = {} /\ gone = {} /\ panicked = FALSE /\ calls = 0 /\ trades = 0
  BY DEF Init
<1>2. ListsOK
  BY <1>1, OrdersAssumption DEF ListsOK
<1>3. WalkOK
  <2>1. api \in Apis /\ 0 \in 0..MaxFails /\ <<>> \in Seq(Orders)
    BY PagesAssumption DEF Init, WalkInit, Apis
  <2>2. pageSize \in Nat \ {0}
    BY PagesAssumption DEF Init, WalkInit
  <2>3. walk = "before" /\ onlyFirstPage \in BOOLEAN /\ changed \in BOOLEAN /\ shrank \in BOOLEAN
    BY DEF Init, WalkInit
  <2>4. /\ nextCursor = 0 /\ cursor = 0 /\ fails = 0
        /\ items \in Seq(Orders) /\ collected \in Seq(Orders) /\ expected \in Seq(Orders)
    BY <2>1 DEF Init, WalkInit, FirstCursor
  <2>5. QED
    BY <2>1, <2>2, <2>3, <2>4 DEF WalkOK
<1>4. CallsOK
  <2>1. 0 \in 0..0 /\ 0 \in 0..MaxCalls /\ 0 \in 0..MaxTrades /\ DOMAIN answers = {}
    BY <1>1, CallsAssumption
  <2>2. QED
    BY <1>1, <2>1 DEF CallsOK
<1>5. TakenInv
  <2>1. \A a \in Apis : Standing[a] \in Seq(Orders) /\ ToSet(Standing[a]) \subseteq Orders
    BY OrdersAssumption DEF ToSet
  <2> DEFINE all == UNION {ToSet(Standing[a]) : a \in Apis}
  <2>2. all \subseteq Orders /\ \A a \in Apis : ToSet(Standing[a]) \subseteq all
    BY <2>1
  <2> HIDE DEF all
  <2>3. taken = {[order |-> o, salt |-> Salt[o]] : o \in all} /\ \A o \in Orders : placed[o] = IF o \in all THEN 1 ELSE 0
    BY <1>1 DEF all
  <2>4. Known = all
    <3>1. \A d \in taken : d.order \in all
      BY <2>3
    <3>2. \A o \in all : [order |-> o, salt |-> Salt[o]] \in taken /\ [order |-> o, salt |-> Salt[o]].order = o
      BY <2>3
    <3>3. QED
      BY <3>1, <3>2 DEF Known
  <2>5. QED
    BY <1>1, <2>2, <2>3, <2>4 DEF TakenInv
<1>6. RequestsInv
  BY <1>1 DEF RequestsInv
<1>7. GoneInv
  BY <1>1 DEF GoneInv
<1>8. WalkInv
  BY DEF Init, WalkInit, WalkInv, CollectsInv, OneOrdersPage, Walking, WalkComplete
<1>9. QED
  BY <1>2, <1>3, <1>4, <1>5, <1>6, <1>7, <1>8 DEF PostingInv, TypeOK

LEMMA StepInv == PostingInv /\ [Next]_vars => PostingInv'
<1> SUFFICES ASSUME PostingInv, [Next]_vars PROVE PostingInv'
  OBVIOUS
<1>1. ListsOK /\ WalkOK /\ CallsInv /\ WalkInv
  BY DEF PostingInv, TypeOK, CallsInv
<1>2. SUFFICES ListsOK' /\ WalkOK' /\ CallsInv' /\ WalkInv'
  BY DEF PostingInv, TypeOK, CallsInv
<1>3. lists' = lists => ListsOK'
  BY <1>1 DEF ListsOK
<1>4. ASSUME CallsInv', UNCHANGED <<lists, walkVars>>
      PROVE  ListsOK' /\ WalkOK' /\ CallsInv' /\ WalkInv'
  BY <1>1, <1>3, <1>4, WalkUnchanged
<1>5. ASSUME ListsOK', CallsInv', ListsShift
      PROVE  ListsOK' /\ WalkOK' /\ CallsInv' /\ WalkInv'
  BY <1>1, <1>5, ListsWalk
<1>6. ASSUME NEW c \in Callers,
             \/ \E os \in Batches : PostOrders(c, os) \/ CancelOrders(c, os)
             \/ CancelMarketOrders(c) \/ NoCredentials(c)
      PROVE  ListsOK' /\ WalkOK' /\ CallsInv' /\ WalkInv'
  BY <1>1, <1>4, <1>6, NewCalls
<1>7. ASSUME NEW c \in Callers, Confirmed(c) \/ TimedOut(c)
      PROVE  ListsOK' /\ WalkOK' /\ CallsInv' /\ WalkInv'
  BY <1>1, <1>4, <1>7, Returns
<1>8. ASSUME NEW m \in net, TakeOrders(m) \/ DropOrders(m)
      PROVE  ListsOK' /\ WalkOK' /\ CallsInv' /\ WalkInv'
  BY <1>1, <1>5, <1>8, TakeInv, DropInv
<1>9. ASSUME NEW o \in Orders, Fill(o) \/ ClosePosition(o)
      PROVE  ListsOK' /\ WalkOK' /\ CallsInv' /\ WalkInv'
  BY <1>1, <1>5, <1>9, FillInv, CloseInv
<1>10. CASE Walk
  <2>1. UNCHANGED <<lists, postVars>> /\ lists' = lists
    BY <1>10 DEF Walk
  <2>2. CallsInv' /\ ListsOK'
    BY <1>1, <1>3, <2>1, CallsUnchanged
  <2>3. WalkOK' /\ WalkInv'
    BY <1>1, <1>10, <2>1, BeginInv, CallInv, SendPageInv, AnsweredInv, LoopEndsInv, RequestFailsInv, OnePageSteps
    DEF Walk, WalkStep
  <2>4. QED
    BY <2>2, <2>3
<1>11. CASE UNCHANGED vars
  <2>1. UNCHANGED <<lists, walkVars>> /\ UNCHANGED <<lists, postVars>>
    BY <1>11 DEF vars
  <2>2. QED
    BY <1>1, <1>4, <2>1, CallsUnchanged
<1>12. QED
  BY <1>6, <1>7, <1>8, <1>9, <1>10, <1>11 DEF Next

(***************************************************************************)
(* The exchange's books, the requests on their way, what callers were told *)
(* and the walk agree in every reachable state, for any number of callers, *)
(* orders, batches, calls, losses and fills (PostOrders, CancelOrders,     *)
(* GetOpenOrders, SearchPositions).                                        *)
(***************************************************************************)
THEOREM PostingAgrees == Spec => []PostingInv
<1>1. Init => PostingInv
  BY InitInv
<1>2. PostingInv /\ [Next]_vars => PostingInv'
  BY StepInv
<1>3. QED
  BY <1>1, <1>2, PTL DEF Spec

(***************************************************************************)
(* Type correctness of posting, cancelling and walking.                    *)
(***************************************************************************)
THEOREM PostingTypes == Spec => []TypeOK
<1>1. PostingInv => TypeOK
  BY DEF PostingInv
<1>2. QED
  BY <1>1, PostingAgrees, PTL

(***************************************************************************)
(* However often a signed order is posted and whatever is lost or late,    *)
(* the exchange places it at most once (BuildOrder, PostOrder,             *)
(* PostOrders): it is always sent with the salt it was signed with.        *)
(***************************************************************************)
THEOREM OrdersTakenOnce == Spec => []TakenOnce
<1>1. PostingInv => TakenOnce
  BY DEF PostingInv, TakenInv, TakenOnce
<1>2. QED
  BY <1>1, PostingAgrees, PTL

(***************************************************************************)
(* An order that was reported as cancelled is never open again, not even   *)
(* when an abandoned post of it arrives late (CancelOrder, CancelOrders,   *)
(* CancelMarketOrders): what was cancelled had been taken, and nothing is  *)
(* taken twice.                                                            *)
(***************************************************************************)
THEOREM CancelledOrdersStayGone == Spec => []CancelledStaysGone
<1>1. PostingInv => CancelledStaysGone
  BY DEF PostingInv, GoneInv, Cancelled, CancelledStaysGone
<1>2. QED
  BY <1>1, PostingAgrees, PTL

(***************************************************************************)
(* Every posted order whose signature type is the one for the configured   *)
(* wallet verifies at the exchange, wherever the type comes from, for      *)
(* every configuration, every option and both exchanges (CreateOrder,      *)
(* BuildSignedOrder, OrderToDTO).                                          *)
(***************************************************************************)
THEOREM OrdersVerify == Spec => []PostedOrdersVerify
<1>1. PostingInv => PostedOrdersVerify
  BY RequestsVerify DEF PostingInv
<1>2. QED
  BY <1>1, PostingAgrees, PTL

(***************************************************************************)
(* A finished walk has everything from its first cursor on, once and in    *)
(* order, and misses nothing of a list that only grows, for every page     *)
(* size, every list and any number of failed requests (GetOpenOrders,      *)
(* SearchPositions).                                                       *)
(***************************************************************************)
THEOREM WalksComplete == Spec => []WalkComplete
<1>1. PostingInv => WalkComplete
  BY DEF PostingInv, WalkInv
<1>2. QED
  BY <1>1, PostingAgrees, PTL
=============================================================================
