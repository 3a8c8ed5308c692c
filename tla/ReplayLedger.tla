---------------------------- MODULE ReplayLedger ----------------------------
(***************************************************************************)
(* The durable replay ledger (src/src/replay_ledger.py): one SQLite table  *)
(* replay_entries, keyed by replay key.  Every function of the module runs *)
(* one BEGIN IMMEDIATE ... commit transaction, so a call is one atomic     *)
(* function from the table L to a new table.  The time each call works     *)
(* with, now, is read from the wall clock before the transaction is        *)
(* opened: it is a parameter here, and it may be old when the transaction  *)
(* runs.                                                                   *)
(*                                                                         *)
(* The HMAC of a row and the audit columns (owner, delegation,             *)
(* fingerprint, last_error, first_seen_at) are left out: no decision below *)
(* depends on them; a row that fails its HMAC makes the call raise, which  *)
(* the callers model.  max_attempts is the same constant in every row.     *)
(***************************************************************************)
EXTENDS Integers

CONSTANTS
  Keys,         \* replay keys: one per signed request, one per signed result
  Tokens,       \* execution tokens: secrets.token_hex(16), drawn per call
  NoToken,      \* NULL in the column execution_token
  Lease,        \* RUNNING_LEASE_SECONDS, in clock ticks
  MaxAttempts   \* MAX_REQUEST_ATTEMPTS

ASSUME LedgerAssumption ==
  /\ NoToken \notin Tokens
  /\ Lease \in Nat \ {0}
  /\ MaxAttempts \in Nat \ {0}

RowState == {"ABSENT", "RUNNING", "COMPLETED", "RETRYABLE_FAILURE",
             "FINAL_FAILURE", "CONSUMED"}

Row == [state : RowState, attempts : Nat, updated : Nat, expires : Nat,
        token : Tokens \cup {NoToken}]

\* A key that has no row.
NoRow == [state |-> "ABSENT", attempts |-> 0, updated |-> 0, expires |-> 0,
          token |-> NoToken]

-----------------------------------------------------------------------------
(***************************************************************************)
(* Deliberately wrong variants of the definitions below.  No action uses   *)
(* them: each shows that some property notices the bug it stands for.      *)
(***************************************************************************)

\* The purge forgets a request one tick too early.
PurgeEarly(L, now) ==
  [k \in Keys |-> IF L[k].expires <= now + 1 THEN NoRow ELSE L[k]]

\* A completed row may be taken over once its lease time is past.
TakeableIfCompleted(row, now) ==
  /\ row.state # "FINAL_FAILURE"
  /\ row.state \in {"RUNNING", "COMPLETED"} => now - row.updated >= Lease

\* A running row is never taken over.
TakeableNever(row, now) ==
  row.state \notin {"COMPLETED", "FINAL_FAILURE", "RUNNING"}

\* The retry limit lets one attempt too many through.
SpentOffByOne(row) == row.attempts > MaxAttempts

\* A retry keeps the token of the attempt it replaces.
AttemptKeepsToken(row, now, expires, tok) ==
  [state |-> "RUNNING", attempts |-> row.attempts + 1, updated |-> now,
   expires |-> expires,
   token |-> IF row.state = "ABSENT" THEN tok ELSE row.token]

\* The status of the answer is stored instead of the state of the request.
FailureStatus(row) == "FAILED"

\* The kind of the row is stored where its state belongs.
ConsumedRowByKind(now, expires) ==
  [state |-> "RESULT", attempts |-> 1, updated |-> now, expires |-> expires,
   token |-> NoToken]

\* A failure on the last attempt stays retryable.
FailureNeverFinal(row) == "RETRYABLE_FAILURE"

-----------------------------------------------------------------------------
(***************************************************************************)
(* Reading a row                                                           *)
(***************************************************************************)

\* DELETE FROM replay_entries WHERE expires_at <= now: of every key.
Purge(L, now) ==
  [k \in Keys |-> IF L[k].expires <= now THEN NoRow ELSE L[k]]

\* The row does not stand in the way of a new attempt by its state: it is not
\* settled, and if it is running nobody renewed its lease in time.
Takeable(row, now) ==
  /\ row.state \notin {"COMPLETED", "FINAL_FAILURE"}
  /\ row.state = "RUNNING" => now - row.updated >= Lease

\* All attempts the row allows were used.
Spent(row) == row.attempts >= MaxAttempts

\* The token a caller presents may act on the row: it is the row's token, or
\* the row has none (execution_token NULL is not compared with anything).
Fences(row, tok) == row.token = NoToken \/ row.token = tok

Earlier(a, b) == IF a <= b THEN a ELSE b

-----------------------------------------------------------------------------
(***************************************************************************)
(* begin_request_execution: after the purge, grant an attempt, write the   *)
(* final failure of a request that used all its attempts, or refuse.       *)
(***************************************************************************)

\* A row for an attempt: RUNNING under a fresh token, one attempt more.  A
\* retry never extends the retention of the first attempt.
Attempt(row, now, expires, tok) ==
  [state    |-> "RUNNING",
   attempts |-> row.attempts + 1,
   updated  |-> now,
   expires  |-> IF row.state = "ABSENT" THEN expires
                                        ELSE Earlier(row.expires, expires),
   token    |-> tok]

\* The row of a request whose attempts are used up.
Exhausted(row, now, expires) ==
  [row EXCEPT !.state   = "FINAL_FAILURE",
              !.updated = now,
              !.expires = Earlier(row.expires, expires),
              !.token   = NoToken]

BeginGrants(L, k, now) ==
  LET row == Purge(L, now)[k]
  IN  row.state = "ABSENT" \/ (Takeable(row, now) /\ ~Spent(row))

BeginExhausts(L, k, now) ==
  LET row == Purge(L, now)[k]
  IN  row.state # "ABSENT" /\ Takeable(row, now) /\ Spent(row)

AfterGrant(L, k, now, expires, tok) ==
  [Purge(L, now) EXCEPT ![k] = Attempt(@, now, expires, tok)]

AfterExhaust(L, k, now, expires) ==
  [Purge(L, now) EXCEPT ![k] = Exhausted(@, now, expires)]

-----------------------------------------------------------------------------
(***************************************************************************)
(* heartbeat_request_execution and finalize_request_execution: neither     *)
(* purges, neither looks at expires_at, and only the heartbeat looks at    *)
(* the state of the row.  Both return False and change nothing when the    *)
(* row is not theirs.                                                      *)
(***************************************************************************)

HeartbeatHolds(L, k, tok) == L[k].state = "RUNNING" /\ Fences(L[k], tok)

AfterHeartbeat(L, k, now) == [L EXCEPT ![k].updated = now]

FinalizeHolds(L, k, tok) == L[k].state # "ABSENT" /\ Fences(L[k], tok)

\* RETRYABLE_FAILURE becomes FINAL_FAILURE on the last attempt.
FailureState(row) ==
  IF Spent(row) THEN "FINAL_FAILURE" ELSE "RETRYABLE_FAILURE"

\* The token is cleared, so the row no longer knows who ran it last.
Finalized(row, state, now) ==
  [row EXCEPT !.state   = IF state = "RETRYABLE_FAILURE" THEN FailureState(row)
                                                         ELSE state,
              !.updated = now,
              !.token   = NoToken]

AfterFinalize(L, k, state, now) == [L EXCEPT ![k] = Finalized(@, state, now)]

-----------------------------------------------------------------------------
(***************************************************************************)
(* consume_result_replay: after the purge, the first caller stores the     *)
(* result's row, every later one finds it.                                 *)
(***************************************************************************)

ConsumeAccepts(L, k, now) == Purge(L, now)[k].state = "ABSENT"

ConsumedRow(now, expires) ==
  [state |-> "CONSUMED", attempts |-> 1, updated |-> now, expires |-> expires,
   token |-> NoToken]

AfterConsume(L, k, now, expires) ==
  [Purge(L, now) EXCEPT ![k] = ConsumedRow(now, expires)]
=============================================================================
