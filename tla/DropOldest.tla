----------------------------- MODULE DropOldest -----------------------------
(***************************************************************************)
(* What the message queue between the readers and the workers promises     *)
(* (the comment on overflow in utils/websocket_client.go): messages of one *)
(* reader come out in the order in which it read them.  As long as there   *)
(* is a single reader, a message is dropped only if a newer one is         *)
(* pending.  Readers that overlap push each other's messages out, but      *)
(* never the last one pending.  The newest message of a reader is given up *)
(* when its connection ends.  A message is the number of its arrival.      *)
(***************************************************************************)
EXTENDS Naturals, Sequences

CONSTANT Readers

VARIABLES
  arrived,  \* number of messages that came in
  pending,  \* pending[r]: messages of r not yet handed out
  taken,    \* messages handed out, in order
  closing   \* readers whose connection is being torn down

vars == <<arrived, pending, taken, closing>>

Init ==
  /\ arrived = 0 /\ pending = [r \in Readers |-> {}]
  /\ taken = <<>> /\ closing = {}

Oldest(r, m) == \A n \in pending[r] : m <= n
Newest(r, m) == \A n \in pending[r] : n <= m
Others(r) == \E q \in Readers \ {r} : pending[q] # {}

Remove(r, m) == pending' = [pending EXCEPT ![r] = @ \ {m}]

Arrive(r) ==
  /\ arrived' = arrived + 1
  /\ pending' = [pending EXCEPT ![r] = @ \cup {arrived + 1}]
  /\ UNCHANGED <<taken, closing>>

Deliver(r) ==
  \E m \in pending[r] :
    /\ Oldest(r, m) /\ Remove(r, m)
    /\ taken' = Append(taken, m)
    /\ UNCHANGED <<arrived, closing>>

Drop(r) ==
  \E m \in pending[r] :
    /\ \/ Oldest(r, m) /\ (Others(r) \/ ~Newest(r, m))
       \/ Newest(r, m) /\ Others(r)
    /\ Remove(r, m)
    /\ UNCHANGED <<arrived, taken, closing>>

Close(r) ==
  /\ closing' = closing \cup {r}
  /\ UNCHANGED <<arrived, pending, taken>>

Abandon(r) ==
  \E m \in pending[r] :
    /\ r \in closing /\ Newest(r, m)
    /\ Remove(r, m)
    /\ UNCHANGED <<arrived, taken, closing>>

Next == \E r \in Readers : Arrive(r) \/ Deliver(r) \/ Drop(r) \/ Close(r) \/ Abandon(r)

Spec == Init /\ [][Next]_vars
=============================================================================
