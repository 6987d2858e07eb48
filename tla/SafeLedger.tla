----------------------------- MODULE SafeLedger -----------------------------
(***************************************************************************)
(* What a user of the relayer client may rely on, whatever the network and *)
(* the relayer do: every call asks for a list of contract calls, the Safe  *)
(* executes the whole list of a call, at most once, and nothing for a call *)
(* that asked for none.  What a caller is told settles little: after an    *)
(* error the list may still be executed, after an answer it may not be.    *)
(***************************************************************************)
EXTENDS Naturals, Sequences

CONSTANTS Calls,   \* identifiers of calls
          Lists    \* lists of contract calls that can be asked for

VARIABLES asked,   \* call -> what it asked for, for the calls made
          report,  \* call -> what its caller was told
          ledger   \* the executed calls with their lists, in order

ledgerVars == <<asked, report, ledger>>

InLedger(i) == \E k \in 1..Len(ledger) : ledger[k].id = i

LedgerInit ==
  /\ asked = [i \in {} |-> <<>>]
  /\ report = [i \in Calls |-> "none"]
  /\ ledger = <<>>

Ask(i, list) ==
  /\ i \notin DOMAIN asked /\ report[i] = "none"
  /\ asked' = [j \in DOMAIN asked \cup {i} |-> IF j = i THEN list ELSE asked[j]]
  /\ UNCHANGED <<report, ledger>>

Report(i, r) ==
  /\ report[i] = "none"
  /\ r = "ok" => i \in DOMAIN asked
  /\ report' = [report EXCEPT ![i] = r]
  /\ UNCHANGED <<asked, ledger>>

Settle(i) ==
  /\ i \in DOMAIN asked /\ ~InLedger(i)
  /\ ledger' = Append(ledger, [id |-> i, calls |-> asked[i]])
  /\ UNCHANGED <<asked, report>>

LedgerNext ==
  \E i \in Calls :
    \/ Settle(i)
    \/ \E list \in Lists : Ask(i, list)
    \/ \E r \in {"ok", "error"} : Report(i, r)

LedgerSpec == LedgerInit /\ [][LedgerNext]_ledgerVars
=============================================================================
