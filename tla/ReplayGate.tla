----------------------------- MODULE ReplayGate -----------------------------
(***************************************************************************)
(* What the replay ledger promises the coordinator about a signed request, *)
(* without rows, leases or tokens: while the request may still be          *)
(* presented (open), it is handed to a handler at most MaxAttempts times,  *)
(* and never again once it is settled.  The ledger keeps the promise       *)
(* exactly as long as it keeps the row: when the retention is over         *)
(* nothing is promised any more (README.md of the repository, "completed   *)
(* requests stay single-use across restarts ... handler crashes become     *)
(* bounded retryable failures").                                           *)
(***************************************************************************)
EXTENDS Integers

CONSTANTS Keys, MaxAttempts

VARIABLES
  open,      \* the request may still be presented
  used,      \* attempts handed out while it was open
  settled    \* completed, or failed for good

vars == <<open, used, settled>>

Init == /\ open \in [Keys -> BOOLEAN]
        /\ used = [k \in Keys |-> 0]
        /\ settled = [k \in Keys |-> FALSE]

\* One more attempt at an unsettled request.
Grant(k) == /\ open[k] /\ ~settled[k] /\ used[k] < MaxAttempts
            /\ used' = [used EXCEPT ![k] = @ + 1]
            /\ UNCHANGED <<open, settled>>

\* The request is decided for good, after at least one attempt.
Settle(k) == /\ open[k] /\ used[k] > 0
             /\ settled' = [settled EXCEPT ![k] = TRUE]
             /\ UNCHANGED <<open, used>>

\* The retention of the requests in S is over.
Close(S) == /\ \A k \in S : open[k]
            /\ open' = [k \in Keys |-> open[k] /\ k \notin S]
            /\ used' = [k \in Keys |-> IF k \in S THEN 0 ELSE used[k]]
            /\ settled' = [k \in Keys |-> settled[k] /\ k \notin S]

Next == \/ \E k \in Keys : Grant(k) \/ Settle(k)
        \/ \E S \in SUBSET Keys : Close(S)

Spec == Init /\ [][Next]_vars
=============================================================================
