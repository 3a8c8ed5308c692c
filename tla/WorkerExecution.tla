-------------------------- MODULE WorkerExecution --------------------------
(***************************************************************************)
(* Workers executing delegation requests behind the replay ledger:         *)
(* AgentDelegationNetwork.process_delegation_request                       *)
(* (src/src/agent_delegation_network.py), its heartbeat thread, and the    *)
(* ledger transactions they run.                                           *)
(*                                                                         *)
(* A call is one invocation of process_delegation_request on one signed    *)
(* request.  Calls run in any number of threads and processes over one     *)
(* ledger file; a call draws one execution token, so the token of call c   *)
(* is c itself.  A refused call is given back to its client, who may       *)
(* present the request again (its token was never stored, so the same      *)
(* identity serves for the next presentation).                             *)
(*                                                                         *)
(* What may go wrong is in Mishaps: a process dies ("crash"), a heartbeat  *)
(* raises and its thread ends ("beat"), begin or finalize raises a SQLite  *)
(* or integrity error ("begin", "finalize"), the policy or a missing       *)
(* handler refuses a valid request ("deny").                               *)
(***************************************************************************)
EXTENDS ReplayLedger, FiniteSets

CONSTANTS
  Calls,        \* invocations of process_delegation_request
  RequestOf,    \* the replay key of the request each call was given
  Expiry,       \* min(request.expires_at, receipt.authorization_expires_at)
  ProofExpiry,  \* PROOF_TTL_SECONDS after the gateway signed the receipt
  BeatPeriod,   \* 60 s between two heartbeats, in clock ticks
  Stall,        \* how long a transaction waits for the database, at most
  Timely,       \* whether BeatPeriod and Stall bound the real execution
  Mishaps,      \* what may go wrong
  MaxClock      \* bound of the clock

ASSUME WorkerAssumption ==
  /\ Tokens = Calls
  /\ IsFiniteSet(Calls)
  /\ RequestOf \in [Calls -> Keys]
  /\ Expiry \in [Keys -> Nat] /\ ProofExpiry \in [Keys -> Nat]
  /\ BeatPeriod \in Nat \ {0} /\ Stall \in Nat /\ MaxClock \in Nat
  /\ Timely \in BOOLEAN
  /\ Mishaps \subseteq {"crash", "beat", "begin", "finalize", "deny"}

\* Sixty seconds and two waits for the database fit in a lease.
ASSUME TimelyAssumption == Timely => BeatPeriod + 2 * Stall < Lease

VARIABLES
  ledger,   \* the table replay_entries
  clock,    \* time.time(), the same for every process
  stage,    \* how far each call is
  now,      \* the now_ts of a call whose begin transaction is pending
  beat,     \* its heartbeat thread
  beatAt    \* when that thread started to wait, or the now_ts it writes

vars == <<ledger, clock, stage, now, beat, beatAt>>

\* The calls whose handler was started and that have not answered yet.
ActiveStages == {"handling", "completing", "failing"}

Stages == {"idle", "validated", "begin", "refused", "completed", "failed",
           "lost"} \cup ActiveStages

Beats == {"off", "waiting", "writing", "dead"}

TypeOK == /\ ledger \in [Keys -> Row]
          /\ clock \in Nat
          /\ stage \in [Calls -> Stages]
          /\ now \in [Calls -> Nat]
          /\ beat \in [Calls -> Beats]
          /\ beatAt \in [Calls -> Nat]

Init == /\ ledger = [k \in Keys |-> NoRow]
        /\ clock = 0
        /\ stage = [c \in Calls |-> "idle"]
        /\ now = [c \in Calls |-> 0]
        /\ beat = [c \in Calls |-> "off"]
        /\ beatAt = [c \in Calls |-> 0]

\* Call c moves between two stages.
Moves(c, from, to) == /\ stage[c] = from
                      /\ stage' = [stage EXCEPT ![c] = to]

-----------------------------------------------------------------------------
(***************************************************************************)
(* From the arrival of the request to the transaction of                   *)
(* begin_request_execution                                                 *)
(***************************************************************************)

\* Neither the request, nor the authorization, nor the gateway's signature on
\* it has expired.  (The coordinator can sign its own envelope anew, the
\* gateway's proof is part of the request.)
Presentable(k) == clock <= Expiry[k] /\ clock <= ProofExpiry[k]

\* from_action_request, is_expired, to_agent_id, validate_delegation_request:
\* the request and its receipt are valid.
Validate(c) ==
  /\ Presentable(RequestOf[c])
  /\ Moves(c, "idle", "validated")
  /\ UNCHANGED <<ledger, clock, now, beat, beatAt>>

\* The same checks find one of them expired.
Expired(c) ==
  /\ ~Presentable(RequestOf[c])
  /\ Moves(c, "idle", "refused")
  /\ UNCHANGED <<ledger, clock, now, beat, beatAt>>

\* The policy does not allow the delegation, or no handler is registered.
Deny(c) ==
  /\ "deny" \in Mishaps
  /\ Moves(c, "validated", "refused")
  /\ UNCHANGED <<ledger, clock, now, beat, beatAt>>

\* begin_request_execution reads now_ts, then opens the database and waits
\* for BEGIN IMMEDIATE.
ReadClock(c) ==
  /\ Moves(c, "validated", "begin")
  /\ now' = [now EXCEPT ![c] = clock]
  /\ UNCHANGED <<ledger, clock, beat, beatAt>>

\* The transaction grants the call an attempt; the heartbeat thread starts
\* to wait and the handler starts to run.
BeginGranted(c) ==
  LET k == RequestOf[c] IN
  /\ BeginGrants(ledger, k, now[c])
  /\ Moves(c, "begin", "handling")
  /\ ledger' = AfterGrant(ledger, k, now[c], Expiry[k], c)
  /\ now' = [now EXCEPT ![c] = 0]
  /\ beat' = [beat EXCEPT ![c] = "waiting"]
  /\ beatAt' = [beatAt EXCEPT ![c] = clock]
  /\ UNCHANGED clock

\* The transaction finds the attempts used up and writes the final failure.
BeginExhausted(c) ==
  LET k == RequestOf[c] IN
  /\ BeginExhausts(ledger, k, now[c])
  /\ Moves(c, "begin", "refused")
  /\ ledger' = AfterExhaust(ledger, k, now[c], Expiry[k])
  /\ now' = [now EXCEPT ![c] = 0]
  /\ UNCHANGED <<clock, beat, beatAt>>

\* The request completed, failed for good, or is running: only the purge of
\* the transaction remains.
BeginRefused(c) ==
  LET k == RequestOf[c] IN
  /\ ~BeginGrants(ledger, k, now[c])
  /\ ~BeginExhausts(ledger, k, now[c])
  /\ Moves(c, "begin", "refused")
  /\ ledger' = Purge(ledger, now[c])
  /\ now' = [now EXCEPT ![c] = 0]
  /\ UNCHANGED <<clock, beat, beatAt>>

\* begin raises (the database stays locked, or the row fails its HMAC): the
\* transaction is rolled back, the caller answers with an error result.
BeginRaises(c) ==
  /\ "begin" \in Mishaps
  /\ Moves(c, "begin", "refused")
  /\ now' = [now EXCEPT ![c] = 0]
  /\ UNCHANGED <<ledger, clock, beat, beatAt>>

\* The client presents a refused request again.
Resubmit(c) ==
  /\ Moves(c, "refused", "idle")
  /\ UNCHANGED <<ledger, clock, now, beat, beatAt>>

Begin(c) == BeginGranted(c) \/ BeginExhausted(c) \/ BeginRefused(c)

-----------------------------------------------------------------------------
(***************************************************************************)
(* The heartbeat thread of a call                                          *)
(***************************************************************************)

\* stop_event.wait(60.0) times out; heartbeat_request_execution reads now_ts.
BeatWakes(c) ==
  /\ beat[c] = "waiting" /\ clock >= beatAt[c] + BeatPeriod
  /\ beat' = [beat EXCEPT ![c] = "writing"]
  /\ beatAt' = [beatAt EXCEPT ![c] = clock]
  /\ UNCHANGED <<ledger, clock, stage, now>>

\* Its transaction.  What it returns is ignored: the thread of a call that
\* lost its lease goes on.  It ends when the call has set stop_event.
BeatWrites(c) ==
  LET k == RequestOf[c] IN
  /\ beat[c] = "writing"
  /\ ledger' = IF HeartbeatHolds(ledger, k, c)
               THEN AfterHeartbeat(ledger, k, beatAt[c]) ELSE ledger
  /\ IF stage[c] \in ActiveStages
     THEN /\ beat' = [beat EXCEPT ![c] = "waiting"]
          /\ beatAt' = [beatAt EXCEPT ![c] = clock]
     ELSE /\ beat' = [beat EXCEPT ![c] = "off"]
          /\ beatAt' = [beatAt EXCEPT ![c] = 0]
  /\ UNCHANGED <<clock, stage, now>>

\* The transaction raises; nothing catches it and the thread ends.
BeatDies(c) ==
  /\ "beat" \in Mishaps /\ beat[c] = "writing"
  /\ beat' = [beat EXCEPT ![c] = "dead"]
  /\ beatAt' = [beatAt EXCEPT ![c] = 0]
  /\ UNCHANGED <<ledger, clock, stage, now>>

\* stop_event.set(): a waiting thread ends, a writing one finishes its
\* transaction first (join waits for it one second at most).
StopBeat(c) ==
  IF beat[c] = "writing" THEN UNCHANGED <<beat, beatAt>>
  ELSE /\ beat' = [beat EXCEPT ![c] = "off"]
       /\ beatAt' = [beatAt EXCEPT ![c] = 0]

-----------------------------------------------------------------------------
(***************************************************************************)
(* The handler's outcome and its record                                    *)
(***************************************************************************)

\* Wrong variant of the next: the heartbeat ends with the handler, not after
\* the outcome is recorded.
HandlerReturnsUnbeaten(c) ==
  /\ Moves(c, "handling", "completing") \/ Moves(c, "handling", "failing")
  /\ StopBeat(c)
  /\ UNCHANGED <<ledger, clock, now>>

\* The handler returns, or raises.
HandlerReturns(c) ==
  /\ Moves(c, "handling", "completing") \/ Moves(c, "handling", "failing")
  /\ UNCHANGED <<ledger, clock, now, beat, beatAt>>

\* finalize "COMPLETED".  What it returns is ignored: the call answers
\* COMPLETED also when the row was no longer its own.  (Its now_ts may be old
\* too, but nobody reads the updated_at of a row that is not RUNNING.)
Complete(c) ==
  LET k == RequestOf[c] IN
  /\ Moves(c, "completing", "completed")
  /\ ledger' = IF FinalizeHolds(ledger, k, c)
               THEN AfterFinalize(ledger, k, "COMPLETED", clock) ELSE ledger
  /\ StopBeat(c)
  /\ UNCHANGED <<clock, now>>

\* That finalize raises: the exception handler treats it like a failure of
\* the handler.
CompleteRaises(c) ==
  /\ "finalize" \in Mishaps
  /\ Moves(c, "completing", "failing")
  /\ UNCHANGED <<ledger, clock, now, beat, beatAt>>

\* finalize "RETRYABLE_FAILURE"; the call answers FAILED.
Fail(c) ==
  LET k == RequestOf[c] IN
  /\ Moves(c, "failing", "failed")
  /\ ledger' = IF FinalizeHolds(ledger, k, c)
               THEN AfterFinalize(ledger, k, "RETRYABLE_FAILURE", clock)
               ELSE ledger
  /\ StopBeat(c)
  /\ UNCHANGED <<clock, now>>

\* That finalize raises too: the row stays RUNNING, the call answers FAILED.
FailRaises(c) ==
  /\ "finalize" \in Mishaps
  /\ Moves(c, "failing", "failed")
  /\ StopBeat(c)
  /\ UNCHANGED <<ledger, clock, now>>

\* The process of the call dies, and the daemon heartbeat thread with it.
Crash(c) ==
  /\ "crash" \in Mishaps
  /\ \/ stage[c] \in ActiveStages /\ stage' = [stage EXCEPT ![c] = "lost"]
     \/ /\ stage[c] \in {"validated", "begin"}
        /\ stage' = [stage EXCEPT ![c] = "refused"]
  /\ now' = [now EXCEPT ![c] = 0]
  /\ beat' = [beat EXCEPT ![c] = "off"]
  /\ beatAt' = [beatAt EXCEPT ![c] = 0]
  /\ UNCHANGED <<ledger, clock>>

-----------------------------------------------------------------------------
(***************************************************************************)
(* The rest of the world                                                   *)
(***************************************************************************)

\* A transaction on another key of the same file (consume_result_replay, or
\* begin on behalf of another agent) purges every expired row.
OtherPurge == /\ ledger' = Purge(ledger, clock)
              /\ UNCHANGED <<clock, stage, now, beat, beatAt>>

\* Real-time assumption of Timely runs: no transaction waits longer than
\* Stall, and a heartbeat thread wakes when its wait is over.
NobodyLate ==
  \A c \in Calls :
    /\ stage[c] = "begin" => clock < now[c] + Stall
    /\ beat[c] = "waiting" => clock < beatAt[c] + BeatPeriod
    /\ beat[c] = "writing" => clock < beatAt[c] + Stall

Tick == /\ clock < MaxClock
        /\ Timely => NobodyLate
        /\ clock' = clock + 1
        /\ UNCHANGED <<ledger, stage, now, beat, beatAt>>

CallStep(c) ==
  \/ Validate(c) \/ Expired(c) \/ Deny(c) \/ ReadClock(c)
  \/ BeginGranted(c) \/ BeginExhausted(c) \/ BeginRefused(c)
  \/ BeginRaises(c) \/ Resubmit(c)
  \/ BeatWakes(c) \/ BeatWrites(c) \/ BeatDies(c)
  \/ HandlerReturns(c) \/ Complete(c) \/ CompleteRaises(c)
  \/ Fail(c) \/ FailRaises(c) \/ Crash(c)

Next == (\E c \in Calls : CallStep(c)) \/ OtherPurge \/ Tick

Spec == Init /\ [][Next]_vars

\* Clients keep presenting a refused request, no thread is descheduled for
\* ever, and crashes do not hit every presentation before its transaction.
\* Nothing is assumed of handlers, heartbeats or the clock.
FairSpec ==
  /\ Spec
  /\ \A c \in Calls : /\ WF_vars(Resubmit(c)) /\ WF_vars(Validate(c))
                      /\ SF_vars(ReadClock(c)) /\ SF_vars(Begin(c))

-----------------------------------------------------------------------------
(***************************************************************************)
(* Properties                                                              *)
(***************************************************************************)

\* The request can no longer have been purged by anyone: every now_ts read
\* so far is before its expiry.
Open(k) == clock < Expiry[k]

Active(k) == {c \in Calls : RequestOf[c] = k /\ stage[c] \in ActiveStages}

\* The calls whose handler was started on the request of key k.
Granted(k) == {c \in Calls : /\ RequestOf[c] = k
                             /\ stage[c] \in ActiveStages \cup
                                  {"completed", "failed", "lost"}}

Settled(k) == ledger[k].state \in {"COMPLETED", "FINAL_FAILURE"}

\* A request is handed to a handler at most MAX_REQUEST_ATTEMPTS times before
\* it expires, whatever crashes, stale leases and stale clock readings
\* intervene ("bounded retry", SUBMISSION_REPORT.md).
RetryBudget ==
  \A k \in Keys : Open(k) => Cardinality(Granted(k)) <= MaxAttempts

\* A RUNNING row always carries the token of a call that was granted the
\* request and has not recorded an outcome, so the wildcard of the token
\* check (a NULL token matches every caller) is never met while work runs:
\* no other call can renew or finalize it.
RunningFenced ==
  \A k \in Keys : ledger[k].state = "RUNNING" =>
     /\ ledger[k].token \in Calls
     /\ RequestOf[ledger[k].token] = k
     /\ stage[ledger[k].token] \in ActiveStages \cup {"failed", "lost"}

\* What the ledger promises, as ReplayGate states it: until a request
\* expires, bounded attempts, and none after it is settled.  A settled row
\* can change between its two settled states, but never opens again.
Gate == INSTANCE ReplayGate WITH
  open    <- [k \in Keys |-> Open(k)],
  used    <- [k \in Keys |-> IF Open(k) THEN ledger[k].attempts ELSE 0],
  settled <- [k \in Keys |-> Open(k) /\ Settled(k)]

GateSpec == Gate!Spec

\* With timely heartbeats a request that has not expired is in at most one
\* handler at a time, in whichever process (the lease of process A is never
\* taken over while A works).
Exclusive ==
  \A k \in Keys : Open(k) => Cardinality(Active(k)) <= 1

\* With timely heartbeats a call that answers COMPLETED has its completion in
\* the ledger as long as the request is open, so no later call repeats the
\* work ("completed requests stay single-use", README.md).
CompletionRecorded ==
  \A c \in Calls : stage[c] = "completed" /\ Open(RequestOf[c])
                     => ledger[RequestOf[c]].state = "COMPLETED"

\* With timely heartbeats the coordinator never gets two COMPLETED answers to
\* one request that has not expired.
SingleCompletion ==
  \A c, d \in Calls :
    /\ RequestOf[c] = RequestOf[d] /\ Open(RequestOf[c])
    /\ stage[c] = "completed" /\ stage[d] = "completed"
    => c = d

\* The lease of a call that died, or that could not record its outcome, does
\* not block its request for ever: once it has lapsed, a client that presents
\* the request again takes it over or settles it, unless the request or its
\* proof expires first (as deployed, RUNNING_LEASE_SECONDS equals
\* PROOF_TTL_SECONDS, so for a request with a receipt it always does).
Orphaned(k) ==
  /\ ledger[k].state = "RUNNING"
  /\ clock >= ledger[k].updated + Lease
  /\ stage[ledger[k].token] \in {"failed", "lost"}

OrphanReclaimed ==
  \A k \in Keys :
    Orphaned(k) ~> (~Orphaned(k) \/ ~Open(k) \/ ~Presentable(k))

\* SUBMISSION_REPORT.md: "Completed requests remain single-use across
\* restarts".  Not so across the expiry of the request: see the run
\* completed_again.
CompletedSingleUse ==
  [][\A c, d \in Calls :
       /\ RequestOf[c] = RequestOf[d] /\ stage[d] = "completed"
       => ~(stage[c] = "begin" /\ stage'[c] = "handling")]_vars

\* SUBMISSION_REPORT.md: "running work is fenced by an execution token".  A
\* call whose lease was taken over still overwrites the outcome its successor
\* recorded: see the run stale_finalize.
OutcomeFenced ==
  [][\A k \in Keys : ledger[k].state = "COMPLETED"
       => ledger'[k].state \in {"COMPLETED", "ABSENT"}]_vars
=============================================================================
