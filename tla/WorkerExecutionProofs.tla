----------------------- MODULE WorkerExecutionProofs -----------------------
(***************************************************************************)
(* Theorems about WorkerExecution, for every set of calls and keys, every  *)
(* lease, limit, expiry and clock bound.                                   *)
(***************************************************************************)
EXTENDS WorkerExecution, FiniteSetTheorems, TLAPS

-----------------------------------------------------------------------------
(***************************************************************************)
(* The ledger functions keep the table well typed.                         *)
(***************************************************************************)

LEMMA NoRowType == NoRow \in Row
BY LedgerAssumption DEF NoRow, Row, RowState

LEMMA PurgeType ==
  ASSUME NEW L \in [Keys -> Row], NEW t \in Nat
  PROVE  Purge(L, t) \in [Keys -> Row]
BY NoRowType DEF Purge

LEMMA AfterGrantType ==
  ASSUME NEW L \in [Keys -> Row], NEW k \in Keys, NEW t \in Nat,
         NEW e \in Nat, NEW c \in Tokens
  PROVE  AfterGrant(L, k, t, e, c) \in [Keys -> Row]
<1>1. Purge(L, t) \in [Keys -> Row]
  BY PurgeType
<1>2. Attempt(Purge(L, t)[k], t, e, c) \in Row
  BY <1>1 DEF Attempt, Row, RowState, Earlier
<1> QED
  BY <1>1, <1>2 DEF AfterGrant

LEMMA AfterExhaustType ==
  ASSUME NEW L \in [Keys -> Row], NEW k \in Keys, NEW t \in Nat,
         NEW e \in Nat
  PROVE  AfterExhaust(L, k, t, e) \in [Keys -> Row]
<1>1. Purge(L, t) \in [Keys -> Row]
  BY PurgeType
<1> QED
  BY <1>1 DEF AfterExhaust, Exhausted, Row, RowState, Earlier

LEMMA AfterHeartbeatType ==
  ASSUME NEW L \in [Keys -> Row], NEW k \in Keys, NEW t \in Nat
  PROVE  AfterHeartbeat(L, k, t) \in [Keys -> Row]
BY DEF AfterHeartbeat, Row

LEMMA AfterFinalizeType ==
  ASSUME NEW L \in [Keys -> Row], NEW k \in Keys, NEW t \in Nat,
         NEW st \in {"COMPLETED", "RETRYABLE_FAILURE"}
  PROVE  AfterFinalize(L, k, st, t) \in [Keys -> Row]
BY DEF AfterFinalize, Finalized, FailureState, Row, RowState

\* What a recorded outcome changes in a row, and what it keeps.
LEMMA FinalizedRow ==
  ASSUME NEW row \in Row, NEW t \in Nat,
         NEW st \in {"COMPLETED", "RETRYABLE_FAILURE"}
  PROVE  LET new == Finalized(row, st, t)
         IN  /\ new.state \in {"COMPLETED", "RETRYABLE_FAILURE",
                               "FINAL_FAILURE"}
             /\ st = "COMPLETED" => new.state = "COMPLETED"
             /\ st # "COMPLETED" => new.state = FailureState(row)
             /\ new.attempts = row.attempts
             /\ new.updated = t
             /\ new.expires = row.expires
             /\ new.token = NoToken
BY DEF Finalized, FailureState, Row

-----------------------------------------------------------------------------
(***************************************************************************)
(* Type correctness                                                        *)
(***************************************************************************)

LEMMA InitType == Init => TypeOK
BY NoRowType DEF Init, TypeOK, Stages, Beats, ActiveStages

LEMMA StepType == TypeOK /\ [Next]_vars => TypeOK'
<1> SUFFICES ASSUME TypeOK, [Next]_vars PROVE TypeOK'
  OBVIOUS
<1> USE DEF TypeOK
<1>0. \A k \in Keys : Expiry[k] \in Nat
  BY WorkerAssumption
<1>1. ASSUME NEW c \in Calls, CallStep(c) PROVE TypeOK'
  <2>0. RequestOf[c] \in Keys /\ c \in Tokens /\ now[c] \in Nat
        /\ beatAt[c] \in Nat
    BY WorkerAssumption
  <2>1. CASE Validate(c) \/ Expired(c) \/ Deny(c) \/ Resubmit(c)
             \/ CompleteRaises(c) \/ HandlerReturns(c)
    BY <2>1 DEF Validate, Expired, Deny, Resubmit, CompleteRaises,
                HandlerReturns, Moves, Stages, ActiveStages
  <2>2. CASE ReadClock(c) \/ BeginRaises(c)
    BY <2>2 DEF ReadClock, BeginRaises, Moves, Stages, ActiveStages
  <2>3. CASE BeginGranted(c)
    <3>1. ledger' \in [Keys -> Row]
      BY <2>3, <2>0, <1>0, AfterGrantType DEF BeginGranted
    <3> QED
      BY <2>3, <3>1 DEF BeginGranted, Moves, Stages, ActiveStages, Beats
  <2>4. CASE BeginExhausted(c)
    <3>1. ledger' \in [Keys -> Row]
      BY <2>4, <2>0, <1>0, AfterExhaustType DEF BeginExhausted
    <3> QED
      BY <2>4, <3>1 DEF BeginExhausted, Moves, Stages, ActiveStages
  <2>5. CASE BeginRefused(c)
    <3>1. ledger' \in [Keys -> Row]
      BY <2>5, <2>0, PurgeType DEF BeginRefused
    <3> QED
      BY <2>5, <3>1 DEF BeginRefused, Moves, Stages, ActiveStages
  <2>6. CASE BeatWakes(c) \/ BeatDies(c)
    BY <2>6 DEF BeatWakes, BeatDies, Beats
  <2>7. CASE BeatWrites(c)
    <3>1. ledger' \in [Keys -> Row]
      BY <2>7, <2>0, AfterHeartbeatType DEF BeatWrites
    <3> QED
      BY <2>7, <3>1 DEF BeatWrites, Beats
  <2>8. CASE Complete(c)
    <3>1. ledger' \in [Keys -> Row]
      BY <2>8, <2>0, AfterFinalizeType DEF Complete
    <3> QED
      BY <2>8, <3>1 DEF Complete, StopBeat, Moves, Stages, Beats
  <2>9. CASE Fail(c)
    <3>1. ledger' \in [Keys -> Row]
      BY <2>9, <2>0, AfterFinalizeType DEF Fail
    <3> QED
      BY <2>9, <3>1 DEF Fail, StopBeat, Moves, Stages, Beats
  <2>10. CASE FailRaises(c)
    BY <2>10 DEF FailRaises, StopBeat, Moves, Stages, Beats
  <2>11. CASE Crash(c)
    BY <2>11 DEF Crash, Stages, Beats
  <2> QED
    BY <1>1, <2>1, <2>2, <2>3, <2>4, <2>5, <2>6, <2>7, <2>8, <2>9, <2>10,
       <2>11 DEF CallStep
<1>2. CASE OtherPurge
  BY <1>2, PurgeType DEF OtherPurge
<1>3. CASE Tick
  BY <1>3 DEF Tick
<1>4. CASE UNCHANGED vars
  BY <1>4 DEF vars
<1> QED
  BY <1>1, <1>2, <1>3, <1>4 DEF Next

\* The ledger, the calls and the heartbeat threads keep their types: every
\* transaction of replay_ledger.py writes a well-formed row.
THEOREM TypeCorrect == Spec => []TypeOK
<1>1. Init => TypeOK
  BY InitType
<1>2. TypeOK /\ [Next]_vars => TypeOK'
  BY StepType
<1> QED
  BY <1>1, <1>2, PTL DEF Spec

-----------------------------------------------------------------------------
(***************************************************************************)
(* What one step can do to the row of a request that is still open.  No    *)
(* purge reaches it: every now_ts read so far is before its expiry.        *)
(***************************************************************************)

\* Every pending now_ts was read in the past.
ReadingsPast == \A c \in Calls : now[c] <= clock

\* A row carries the expiry of its request; a missing row is NoRow.
RowFits(k) == IF ledger[k].state = "ABSENT" THEN ledger[k] = NoRow
                                            ELSE ledger[k].expires = Expiry[k]

RowGranted(k, c) ==
  /\ BeginGranted(c) /\ RequestOf[c] = k
  /\ \/ ledger[k].state = "ABSENT"
     \/ Takeable(ledger[k], now[c]) /\ ~Spent(ledger[k])
  /\ ledger'[k] = Attempt(ledger[k], now[c], Expiry[k], c)

RowExhausted(k, c) ==
  /\ BeginExhausted(c) /\ RequestOf[c] = k
  /\ ledger[k].state # "ABSENT"
  /\ Takeable(ledger[k], now[c]) /\ Spent(ledger[k])
  /\ ledger'[k] = Exhausted(ledger[k], now[c], Expiry[k])

RowRenewed(k, c) ==
  /\ BeatWrites(c) /\ RequestOf[c] = k
  /\ HeartbeatHolds(ledger, k, c)
  /\ ledger'[k] = [ledger[k] EXCEPT !.updated = beatAt[c]]

RowFinalized(k, c) ==
  /\ RequestOf[c] = k /\ FinalizeHolds(ledger, k, c)
  /\ \/ /\ Complete(c)
        /\ ledger'[k] = Finalized(ledger[k], "COMPLETED", clock)
     \/ /\ Fail(c)
        /\ ledger'[k] = Finalized(ledger[k], "RETRYABLE_FAILURE", clock)

RowTouched(k, c) == RowGranted(k, c) \/ RowExhausted(k, c)
                      \/ RowRenewed(k, c) \/ RowFinalized(k, c)

LEMMA PurgeSpares ==
  ASSUME TypeOK, NEW k \in Keys, Open(k), RowFits(k),
         NEW t \in Nat, t <= clock
  PROVE  Purge(ledger, t)[k] = ledger[k]
BY WorkerAssumption DEF TypeOK, Open, RowFits, Purge, NoRow, Row

\* A step of call c changes at most the row of its own request.
LEMMA RowStep ==
  ASSUME TypeOK, ReadingsPast, NEW k \in Keys, Open(k), RowFits(k),
         NEW c \in Calls, CallStep(c), ledger'[k] # ledger[k]
  PROVE  RowTouched(k, c)
<1>0. /\ RequestOf[c] \in Keys /\ now[c] \in Nat /\ now[c] <= clock
      /\ Purge(ledger, now[c])[k] = ledger[k]
      /\ ledger \in [Keys -> Row]
  BY WorkerAssumption, PurgeSpares DEF TypeOK, ReadingsPast
<1>p. Purge(ledger, now[c]) \in [Keys -> Row]
  BY <1>0, PurgeType
<1>1. CASE BeginGranted(c)
  <2>1. RequestOf[c] = k
    BY <1>0, <1>p, <1>1 DEF BeginGranted, AfterGrant
  <2>2. RowGranted(k, c)
    BY <1>0, <1>p, <1>1, <2>1 DEF BeginGranted, BeginGrants, AfterGrant,
                                  RowGranted
  <2> QED
    BY <2>2 DEF RowTouched
<1>2. CASE BeginExhausted(c)
  <2>1. RequestOf[c] = k
    BY <1>0, <1>p, <1>2 DEF BeginExhausted, AfterExhaust
  <2>2. RowExhausted(k, c)
    BY <1>0, <1>p, <1>2, <2>1 DEF BeginExhausted, BeginExhausts,
                                  AfterExhaust, RowExhausted
  <2> QED
    BY <2>2 DEF RowTouched
<1>3. CASE BeginRefused(c)
  BY <1>0, <1>3 DEF BeginRefused
<1>4. CASE BeatWrites(c)
  <2>1. RowRenewed(k, c)
    BY <1>0, <1>4 DEF BeatWrites, AfterHeartbeat, RowRenewed
  <2> QED
    BY <2>1 DEF RowTouched
<1>5. CASE Complete(c)
  <2>1. RowFinalized(k, c)
    BY <1>0, <1>5 DEF Complete, AfterFinalize, RowFinalized
  <2> QED
    BY <2>1 DEF RowTouched
<1>6. CASE Fail(c)
  <2>1. RowFinalized(k, c)
    BY <1>0, <1>6 DEF Fail, AfterFinalize, RowFinalized
  <2> QED
    BY <2>1 DEF RowTouched
<1>7. ledger' = ledger \/ BeginGranted(c) \/ BeginExhausted(c)
        \/ BeginRefused(c) \/ BeatWrites(c) \/ Complete(c) \/ Fail(c)
  BY DEF CallStep, Validate, Expired, Deny, ReadClock, BeginRaises,
         Resubmit, BeatWakes, BeatDies, HandlerReturns, CompleteRaises,
         FailRaises, Crash
<1> QED
  BY <1>1, <1>2, <1>3, <1>4, <1>5, <1>6, <1>7

LEMMA RowSteps ==
  ASSUME TypeOK, ReadingsPast, NEW k \in Keys, Open(k), RowFits(k),
         [Next]_vars, ledger'[k] # ledger[k]
  PROVE  \E c \in Calls : RowTouched(k, c)
<1>1. CASE \E c \in Calls : CallStep(c)
  BY <1>1, RowStep
<1>2. CASE OtherPurge
  BY <1>2, PurgeSpares DEF OtherPurge, TypeOK
<1>3. CASE Tick \/ UNCHANGED vars
  BY <1>3 DEF Tick, vars
<1> QED
  BY <1>1, <1>2, <1>3 DEF Next

\* The calls with a started handler grow only by a grant.
LEMMA GrantedSteps ==
  ASSUME TypeOK, NEW k \in Keys, [Next]_vars
  PROVE  \/ Granted(k)' = Granted(k)
         \/ \E c \in Calls : /\ BeginGranted(c) /\ RequestOf[c] = k
                             /\ c \notin Granted(k)
                             /\ Granted(k)' = Granted(k) \cup {c}
<1>1. ASSUME NEW c \in Calls, CallStep(c), ~BeginGranted(c)
      PROVE  Granted(k)' = Granted(k)
  BY <1>1 DEF TypeOK, Granted, ActiveStages, Moves, CallStep, Validate,
              Expired, Deny, ReadClock, BeginExhausted, BeginRefused,
              BeginRaises, Resubmit, BeatWakes, BeatWrites, BeatDies,
              HandlerReturns, Complete, CompleteRaises, Fail, FailRaises,
              Crash
<1>2. ASSUME NEW c \in Calls, BeginGranted(c)
      PROVE  /\ RequestOf[c] = k => /\ c \notin Granted(k)
                                    /\ Granted(k)' = Granted(k) \cup {c}
             /\ RequestOf[c] # k => Granted(k)' = Granted(k)
  BY <1>2 DEF TypeOK, Granted, ActiveStages, Moves, BeginGranted
<1>3. CASE OtherPurge \/ Tick \/ UNCHANGED vars
  BY <1>3 DEF Granted, OtherPurge, Tick, vars
<1> QED
  BY <1>1, <1>2, <1>3 DEF Next

-----------------------------------------------------------------------------
(***************************************************************************)
(* The retry budget                                                        *)
(***************************************************************************)

\* While the request is open its row counts exactly the calls whose handler
\* was started, and never more than MaxAttempts.
Counted(k) == /\ ledger[k].attempts = Cardinality(Granted(k))
              /\ ledger[k].attempts <= MaxAttempts
              /\ ledger[k].state # "ABSENT" => ledger[k].attempts > 0

BudgetInv == /\ ReadingsPast
             /\ \A k \in Keys : Open(k) => RowFits(k) /\ Counted(k)

LEMMA GrantedFinite ==
  ASSUME NEW k \in Keys
  PROVE  IsFiniteSet(Granted(k)) /\ Cardinality(Granted(k)) \in Nat
BY FS_Subset, FS_CardinalityType, WorkerAssumption DEF Granted

LEMMA ReadingsStep ==
  TypeOK /\ ReadingsPast /\ [Next]_vars => ReadingsPast' /\ clock' >= clock
<1> SUFFICES ASSUME TypeOK, ReadingsPast, [Next]_vars
             PROVE  ReadingsPast' /\ clock' >= clock
  OBVIOUS
<1> USE DEF TypeOK, ReadingsPast
<1>1. ASSUME NEW c \in Calls, CallStep(c) PROVE ReadingsPast' /\ clock' = clock
  BY <1>1 DEF CallStep, Validate, Expired, Deny, ReadClock, BeginGranted,
              BeginExhausted, BeginRefused, BeginRaises, Resubmit, BeatWakes,
              BeatWrites, BeatDies, HandlerReturns, Complete, CompleteRaises,
              Fail, FailRaises, Crash
<1>2. CASE Tick
  BY <1>2 DEF Tick
<1>3. CASE OtherPurge \/ UNCHANGED vars
  BY <1>3 DEF OtherPurge, vars
<1> QED
  BY <1>1, <1>2, <1>3 DEF Next

\* A step that touches the row of an open request leaves it well formed.
LEMMA RowFitsStep ==
  ASSUME TypeOK, ReadingsPast, NEW k \in Keys, Open(k), RowFits(k),
         [Next]_vars
  PROVE  RowFits(k)'
<1> USE WorkerAssumption DEF TypeOK, RowFits
<1>0. ledger[k] \in Row /\ clock \in Nat
  OBVIOUS
<1>1. CASE ledger'[k] = ledger[k]
  BY <1>1
<1>2. ASSUME NEW c \in Calls, RowTouched(k, c) PROVE RowFits(k)'
  <2>1. CASE RowGranted(k, c)
    <3>1. ledger'[k].state = "RUNNING"
      BY <2>1 DEF RowGranted, Attempt
    <3>2. ledger'[k].expires = Expiry[k]
      BY <2>1 DEF RowGranted, Attempt, Earlier
    <3> QED
      BY <3>1, <3>2
  <2>2. CASE RowExhausted(k, c)
    BY <2>2 DEF RowExhausted, Exhausted, Earlier, Row
  <2>3. CASE RowRenewed(k, c)
    BY <2>3 DEF RowRenewed, HeartbeatHolds, Row
  <2>4. CASE RowFinalized(k, c)
    <3>1. PICK st \in {"COMPLETED", "RETRYABLE_FAILURE"} :
            ledger'[k] = Finalized(ledger[k], st, clock)
      BY <2>4 DEF RowFinalized
    <3>s. st \in {"COMPLETED", "RETRYABLE_FAILURE"}
      BY <3>1
    <3> DEFINE new == Finalized(ledger[k], st, clock)
    <3>2. new.state # "ABSENT" /\ new.expires = ledger[k].expires
      BY ONLY <1>0, <3>s, FinalizedRow
    <3> HIDE DEF new
    <3>3. ledger[k].state # "ABSENT"
      BY <2>4 DEF RowFinalized, FinalizeHolds
    <3>4. ledger'[k] = new
      BY <3>1 DEF new
    <3> QED
      BY <3>2, <3>3, <3>4
  <2> QED
    BY <1>2, <2>1, <2>2, <2>3, <2>4 DEF RowTouched
<1> QED
  BY <1>1, <1>2, RowSteps

LEMMA CountedStep ==
  ASSUME TypeOK, ReadingsPast, NEW k \in Keys, Open(k), RowFits(k),
         Counted(k), [Next]_vars
  PROVE  Counted(k)'
<1> USE LedgerAssumption, WorkerAssumption
<1>0. Cardinality(Granted(k)) \in Nat /\ IsFiniteSet(Granted(k))
  BY GrantedFinite
<1>1. CASE \E c \in Calls : BeginGranted(c) /\ RequestOf[c] = k
  <2>1. PICK c \in Calls : BeginGranted(c) /\ RequestOf[c] = k
    BY <1>1
  <2>2. /\ c \notin Granted(k)
        /\ Granted(k)' = Granted(k) \cup {c}
    BY <2>1 DEF TypeOK, Granted, ActiveStages, Moves, BeginGranted
  <2>3. Cardinality(Granted(k)') = Cardinality(Granted(k)) + 1
    BY <1>0, <2>2, FS_AddElement
  <2>4. /\ ledger \in [Keys -> Row] /\ now[c] \in Nat /\ now[c] <= clock
        /\ Purge(ledger, now[c])[k] = ledger[k]
    BY PurgeSpares DEF TypeOK, ReadingsPast
  <2>5. Purge(ledger, now[c]) \in [Keys -> Row]
    BY <2>4, PurgeType
  <2>6. /\ ledger'[k] = Attempt(ledger[k], now[c], Expiry[k], c)
        /\ ledger[k].state = "ABSENT" \/ ~Spent(ledger[k])
    BY <2>1, <2>4, <2>5 DEF BeginGranted, BeginGrants, AfterGrant
  <2>7. ledger[k].attempts < MaxAttempts
    BY <2>4, <2>6 DEF Spent, RowFits, NoRow, Row
  <2>8. ledger'[k].attempts = ledger[k].attempts + 1
    BY <2>6 DEF Attempt
  <2>9. ledger[k].attempts \in Nat
    BY <2>4 DEF Row
  <2> QED
    BY <2>3, <2>7, <2>8, <2>9 DEF Counted
<1>2. CASE ~ \E c \in Calls : BeginGranted(c) /\ RequestOf[c] = k
  <2>1. Granted(k)' = Granted(k)
    BY <1>2, GrantedSteps
  <2>2. ledger'[k].attempts = ledger[k].attempts
        /\ (ledger'[k].state # "ABSENT" => ledger[k].state # "ABSENT")
    <3>1. CASE ledger'[k] = ledger[k]
      BY <3>1
    <3>2. ASSUME NEW c \in Calls,
                 RowExhausted(k, c) \/ RowRenewed(k, c) \/ RowFinalized(k, c)
          PROVE  /\ ledger'[k].attempts = ledger[k].attempts
                 /\ ledger[k].state # "ABSENT"
      BY <3>2 DEF TypeOK, Row, RowExhausted, Exhausted, RowRenewed,
                  HeartbeatHolds, RowFinalized, FinalizeHolds, Finalized
    <3> QED
      BY <3>1, <3>2, <1>2, RowSteps DEF RowTouched, RowGranted
  <2> QED
    BY <2>1, <2>2 DEF Counted
<1> QED
  BY <1>1, <1>2

LEMMA BudgetInit == Init => BudgetInv
<1> SUFFICES ASSUME Init PROVE BudgetInv
  OBVIOUS
<1>1. \A k \in Keys : Granted(k) = {}
  BY DEF Init, Granted, ActiveStages
<1>2. ASSUME NEW k \in Keys PROVE RowFits(k) /\ Counted(k)
  <2>1. ledger[k] = NoRow
    BY DEF Init
  <2>2. Cardinality(Granted(k)) = 0
    BY <1>1, FS_EmptySet
  <2> QED
    BY <2>1, <2>2, LedgerAssumption DEF RowFits, Counted, NoRow
<1> QED
  BY <1>2 DEF Init, BudgetInv, ReadingsPast

LEMMA BudgetStep == TypeOK /\ BudgetInv /\ [Next]_vars => BudgetInv'
<1> SUFFICES ASSUME TypeOK, BudgetInv, [Next]_vars PROVE BudgetInv'
  OBVIOUS
<1>1. ReadingsPast' /\ clock' >= clock
  BY ReadingsStep DEF BudgetInv
<1>2. ASSUME NEW k \in Keys, Open(k)' PROVE RowFits(k)' /\ Counted(k)'
  <2>1. TypeOK'
    BY StepType
  <2>2. Open(k)
    BY <1>1, <1>2, <2>1, WorkerAssumption DEF Open, TypeOK
  <2> QED
    BY <2>2, RowFitsStep, CountedStep DEF BudgetInv
<1> QED
  BY <1>1, <1>2 DEF BudgetInv

LEMMA BudgetInvariant == Spec => []BudgetInv
<1>1. Init => BudgetInv
  BY BudgetInit
<1>2. TypeOK /\ BudgetInv /\ [Next]_vars => BudgetInv'
  BY BudgetStep
<1> QED
  BY <1>1, <1>2, TypeCorrect, PTL DEF Spec

\* A request is handed to a handler at most MAX_REQUEST_ATTEMPTS times before
\* it expires: begin_request_execution counts every attempt in the row, and
\* no purge removes the row earlier.
THEOREM BudgetKept == Spec => []RetryBudget
<1>1. BudgetInv => RetryBudget
  BY DEF BudgetInv, RetryBudget, Counted
<1> QED
  BY <1>1, BudgetInvariant, PTL


-----------------------------------------------------------------------------
(***************************************************************************)
(* The fence of a running row                                              *)
(***************************************************************************)

\* Call c finalizes the row of key k, which carries its token.
FinalizesOwn(k, c) == /\ Complete(c) \/ Fail(c)
                      /\ RequestOf[c] = k /\ ledger[k].token = c

\* A row runs after a step because the step granted it, or because it ran
\* before under the same token and the holder of the token did not finish.
LEMMA RunningSource ==
  ASSUME TypeOK, NEW k \in Keys, [Next]_vars, ledger'[k].state = "RUNNING"
  PROVE  \/ \E c \in Calls : /\ BeginGranted(c) /\ RequestOf[c] = k
                             /\ ledger'[k].token = c
         \/ /\ ledger[k].state = "RUNNING"
            /\ ledger'[k].token = ledger[k].token
            /\ \A c \in Calls : ~FinalizesOwn(k, c)
<1> DEFINE Kept == /\ ledger[k].state = "RUNNING"
                   /\ ledger'[k].token = ledger[k].token
<1>p. \A t \in Nat : /\ Purge(ledger, t) \in [Keys -> Row]
                     /\ Purge(ledger, t)[k] \in {ledger[k], NoRow}
  BY PurgeType DEF TypeOK, Purge
<1>n. NoRow.state = "ABSENT"
  BY DEF NoRow
<1>0. ASSUME NEW c \in Calls, FinalizesOwn(k, c) PROVE FALSE
  <2>1. \/ ledger' = AfterFinalize(ledger, k, "COMPLETED", clock)
        \/ ledger' = AfterFinalize(ledger, k, "RETRYABLE_FAILURE", clock)
        \/ ledger[k].state = "ABSENT" /\ ledger' = ledger
    BY <1>0 DEF FinalizesOwn, Complete, Fail, FinalizeHolds, Fences
  <2> QED
    BY <2>1, FinalizedRow DEF TypeOK, AfterFinalize
<1>1. ASSUME NEW c \in Calls, CallStep(c)
      PROVE  Kept \/ /\ BeginGranted(c) /\ RequestOf[c] = k
                     /\ ledger'[k].token = c
  <2>0. /\ RequestOf[c] \in Keys /\ now[c] \in Nat /\ beatAt[c] \in Nat
        /\ ledger \in [Keys -> Row]
    BY WorkerAssumption DEF TypeOK
  <2>f. \A st \in {"COMPLETED", "RETRYABLE_FAILURE"} :
          Finalized(ledger[k], st, clock).state # "RUNNING"
    <3>1. ledger[k] \in Row /\ clock \in Nat
      BY <2>0 DEF TypeOK
    <3> QED
      BY <3>1, FinalizedRow
  <2>1. CASE BeginGranted(c) /\ RequestOf[c] = k
    BY <2>0, <2>1, <1>p DEF BeginGranted, AfterGrant, Attempt
  <2>2. CASE BeginGranted(c) /\ RequestOf[c] # k
    BY <2>0, <2>2, <1>p, <1>n DEF BeginGranted, AfterGrant
  <2>3. CASE BeginExhausted(c)
    <3>1. RequestOf[c] # k
      BY <2>0, <2>3, <1>p DEF BeginExhausted, AfterExhaust, Exhausted
    <3> QED
      BY <2>0, <2>3, <3>1, <1>p, <1>n DEF BeginExhausted, AfterExhaust
  <2>4. CASE BeginRefused(c)
    BY <2>0, <2>4, <1>p, <1>n DEF BeginRefused
  <2>5. CASE BeatWrites(c)
    BY <2>0, <2>5 DEF BeatWrites, AfterHeartbeat
  <2>6. CASE Complete(c)
    <3>1. ledger'[k] = ledger[k]
          \/ ledger'[k] = Finalized(ledger[k], "COMPLETED", clock)
      BY <2>0, <2>6 DEF Complete, AfterFinalize
    <3>2. Finalized(ledger[k], "COMPLETED", clock).state # "RUNNING"
      BY <2>f
    <3> QED
      BY <3>1, <3>2
  <2>7. CASE Fail(c)
    <3>1. ledger'[k] = ledger[k]
          \/ ledger'[k] = Finalized(ledger[k], "RETRYABLE_FAILURE", clock)
      BY <2>0, <2>7 DEF Fail, AfterFinalize
    <3>2. Finalized(ledger[k], "RETRYABLE_FAILURE", clock).state # "RUNNING"
      BY <2>f
    <3> QED
      BY <3>1, <3>2
  <2>8. ledger' = ledger \/ BeginGranted(c) \/ BeginExhausted(c)
          \/ BeginRefused(c) \/ BeatWrites(c) \/ Complete(c) \/ Fail(c)
    BY <1>1 DEF CallStep, Validate, Expired, Deny, ReadClock, BeginRaises,
                Resubmit, BeatWakes, BeatDies, HandlerReturns,
                CompleteRaises, FailRaises, Crash
  <2> QED
    BY <2>1, <2>2, <2>3, <2>4, <2>5, <2>6, <2>7, <2>8
<1>2. OtherPurge => Kept
  BY <1>p, <1>n DEF OtherPurge, TypeOK
<1>3. Tick \/ UNCHANGED vars => Kept
  BY DEF Tick, vars
<1> QED
  BY <1>0, <1>1, <1>2, <1>3 DEF Next

\* A call that holds a token leaves the stages of RunningFenced only by
\* Complete.
LEMMA HolderSteps ==
  ASSUME TypeOK, NEW c \in Calls, [Next]_vars, ~Complete(c),
         stage[c] \in ActiveStages \cup {"failed", "lost"}
  PROVE  stage'[c] \in ActiveStages \cup {"failed", "lost"}
<1>1. ASSUME NEW d \in Calls, CallStep(d)
      PROVE  stage'[c] \in ActiveStages \cup {"failed", "lost"}
  BY <1>1 DEF TypeOK, ActiveStages, Moves, CallStep, Validate, Expired, Deny,
              ReadClock, BeginGranted, BeginExhausted, BeginRefused,
              BeginRaises, Resubmit, BeatWakes, BeatWrites, BeatDies,
              HandlerReturns, Complete, CompleteRaises, Fail, FailRaises,
              Crash
<1>2. CASE OtherPurge \/ Tick \/ UNCHANGED vars
  BY <1>2 DEF OtherPurge, Tick, vars
<1> QED
  BY <1>1, <1>2 DEF Next

LEMMA FenceStep == TypeOK /\ RunningFenced /\ [Next]_vars => RunningFenced'
<1> SUFFICES ASSUME TypeOK, RunningFenced, [Next]_vars,
                    NEW k \in Keys, ledger'[k].state = "RUNNING"
             PROVE  /\ ledger'[k].token \in Calls
                    /\ RequestOf[ledger'[k].token] = k
                    /\ stage'[ledger'[k].token]
                         \in ActiveStages \cup {"failed", "lost"}
  BY DEF RunningFenced
<1>1. CASE \E c \in Calls : /\ BeginGranted(c) /\ RequestOf[c] = k
                            /\ ledger'[k].token = c
  BY <1>1 DEF TypeOK, BeginGranted, Moves, ActiveStages
<1>2. CASE /\ ledger[k].state = "RUNNING"
           /\ ledger'[k].token = ledger[k].token
           /\ \A c \in Calls : ~FinalizesOwn(k, c)
  <2>1. /\ ledger[k].token \in Calls /\ RequestOf[ledger[k].token] = k
        /\ stage[ledger[k].token] \in ActiveStages \cup {"failed", "lost"}
    BY <1>2 DEF RunningFenced
  <2>2. ~Complete(ledger[k].token)
    BY <1>2, <2>1 DEF FinalizesOwn
  <2> QED
    BY <1>2, <2>1, <2>2, HolderSteps
<1> QED
  BY <1>1, <1>2, RunningSource

\* While work runs its row is fenced by the token of one call that was
\* granted the request, so the NULL token that matches every caller in
\* finalize_request_execution is only met in rows nobody is running.
THEOREM FenceKept == Spec => []RunningFenced
<1>1. Init => RunningFenced
  BY DEF Init, RunningFenced, NoRow
<1>2. TypeOK /\ RunningFenced /\ [Next]_vars => RunningFenced'
  BY FenceStep
<1> QED
  BY <1>1, <1>2, TypeCorrect, PTL DEF Spec

-----------------------------------------------------------------------------
(***************************************************************************)
(* What timely heartbeats buy.  BeatPeriod + 2 * Stall < Lease (the        *)
(* TimelyAssumption) is what the argument needs: between two writes of     *)
(* updated_at a heartbeat thread sleeps BeatPeriod, and it waits for the   *)
(* database at most Stall before the old value and before the new one.     *)
(***************************************************************************)

\* Call c has the lease of its request, and its heartbeat keeps it fresh.
Held(c) ==
  LET row == ledger[RequestOf[c]] IN
  /\ row.state = "RUNNING" /\ row.token = c
  /\ \/ /\ beat[c] = "waiting"
        /\ beatAt[c] <= row.updated + Stall
        /\ clock <= beatAt[c] + BeatPeriod
     \/ /\ beat[c] = "writing"
        /\ beatAt[c] <= row.updated + Stall + BeatPeriod
        /\ clock <= beatAt[c] + Stall

\* The state of a call that matters, while its request is open.
OnTime(c) ==
  /\ stage[c] = "begin" => clock <= now[c] + Stall
  /\ Open(RequestOf[c]) =>
       /\ stage[c] \in ActiveStages => Held(c)
       /\ stage[c] = "completed" =>
            ledger[RequestOf[c]].state = "COMPLETED"

TimelyInv == \A c \in Calls : OnTime(c)

\* Every heartbeat is on time, and none dies.
OnTimeRun == Timely /\ "beat" \notin Mishaps

-----------------------------------------------------------------------------

\* A lease that is kept fresh is never taken over, by no reading of the clock
\* up to now.
LEMMA HeldNotTakeable ==
  ASSUME TypeOK, Timely, NEW c \in Calls, Held(c), NEW t \in Nat, t <= clock
  PROVE  ~Takeable(ledger[RequestOf[c]], t)
BY WorkerAssumption, TimelyAssumption, LedgerAssumption
   DEF TypeOK, Row, Held, Takeable

\* A step of call d leaves the other calls and their heartbeats alone.
LEMMA OthersKept ==
  ASSUME TypeOK, NEW c \in Calls, NEW d \in Calls, c # d, CallStep(d)
  PROVE  /\ stage'[c] = stage[c] /\ now'[c] = now[c] /\ clock' = clock
         /\ beat'[c] = beat[c] /\ beatAt'[c] = beatAt[c]
BY DEF TypeOK, ActiveStages, Moves, StopBeat, CallStep, Validate, Expired,
       Deny, ReadClock, BeginGranted, BeginExhausted, BeginRefused,
       BeginRaises, Resubmit, BeatWakes, BeatWrites, BeatDies,
       HandlerReturns, Complete, CompleteRaises, Fail, FailRaises, Crash

\* A granted begin writes the row of its request.
LEMMA GrantedRow ==
  ASSUME TypeOK, BudgetInv, NEW c \in Calls, Open(RequestOf[c]),
         BeginGranted(c)
  PROVE  RowGranted(RequestOf[c], c)
<1> DEFINE k == RequestOf[c]
<1>1. /\ k \in Keys /\ now[c] \in Nat /\ now[c] <= clock
      /\ ledger \in [Keys -> Row] /\ RowFits(k)
  BY WorkerAssumption DEF TypeOK, BudgetInv, ReadingsPast
<1>2. Purge(ledger, now[c])[k] = ledger[k]
  BY <1>1, PurgeSpares
<1>3. Purge(ledger, now[c]) \in [Keys -> Row]
  BY <1>1, PurgeType
<1> QED
  BY <1>1, <1>2, <1>3 DEF BeginGranted, BeginGrants, AfterGrant, RowGranted

\* A step of another call leaves the row of a call that works, or that
\* completed, alone.
LEMMA OtherRowKept ==
  ASSUME TypeOK, BudgetInv, TimelyInv, Timely, NEW c \in Calls,
         Open(RequestOf[c]), stage[c] \in ActiveStages \cup {"completed"},
         NEW d \in Calls, c # d, CallStep(d)
  PROVE  ledger'[RequestOf[c]] = ledger[RequestOf[c]]
<1> DEFINE k == RequestOf[c]
<1>0. /\ k \in Keys /\ RowFits(k) /\ ReadingsPast
      /\ now[d] \in Nat /\ now[d] <= clock
  BY WorkerAssumption DEF TypeOK, BudgetInv, ReadingsPast
<1> SUFFICES ASSUME ledger'[k] # ledger[k] PROVE FALSE
  OBVIOUS
<1>1. RowTouched(k, d)
  BY <1>0, RowStep
<1>2. CASE stage[c] \in ActiveStages
  <2>1. Held(c)
    BY <1>2 DEF TimelyInv, OnTime
  <2>2. /\ ~Takeable(ledger[k], now[d])
        /\ ledger[k].state = "RUNNING" /\ ~Fences(ledger[k], d)
    BY <1>0, <2>1, HeldNotTakeable, WorkerAssumption, LedgerAssumption
       DEF Held, Fences
  <2> QED
    BY <1>1, <2>2 DEF RowTouched, RowGranted, RowExhausted, RowRenewed,
                      HeartbeatHolds, RowFinalized, FinalizeHolds
<1>3. CASE stage[c] = "completed"
  <2>1. ledger[k].state = "COMPLETED"
    BY <1>3 DEF TimelyInv, OnTime
  <2>2. RowFinalized(k, d)
    BY <1>1, <2>1 DEF RowTouched, RowGranted, RowExhausted, Takeable,
                      RowRenewed, HeartbeatHolds
  <2>3. RequestOf[d] = k /\ stage[d] \in ActiveStages
    BY <2>2 DEF RowFinalized, Complete, Fail, Moves, ActiveStages
  <2>4. Held(d)
    BY <2>3 DEF TimelyInv, OnTime
  <2> QED
    BY <2>1, <2>3, <2>4 DEF Held
<1> QED
  BY <1>2, <1>3

LEMMA OtherOnTime ==
  ASSUME TypeOK, BudgetInv, TimelyInv, Timely, NEW c \in Calls,
         NEW d \in Calls, c # d, CallStep(d)
  PROVE  OnTime(c)'
<1>1. /\ stage'[c] = stage[c] /\ now'[c] = now[c] /\ clock' = clock
      /\ beat'[c] = beat[c] /\ beatAt'[c] = beatAt[c]
  BY OthersKept
<1>2. OnTime(c)
  BY DEF TimelyInv
<1>3. Open(RequestOf[c])' <=> Open(RequestOf[c])
  BY <1>1 DEF Open
<1>4. CASE /\ Open(RequestOf[c])
           /\ stage[c] \in ActiveStages \cup {"completed"}
  <2>1. ledger'[RequestOf[c]] = ledger[RequestOf[c]]
    BY <1>4, OtherRowKept
  <2> QED
    BY <1>1, <1>2, <1>3, <2>1 DEF OnTime, Held
<1>5. CASE ~ /\ Open(RequestOf[c])
             /\ stage[c] \in ActiveStages \cup {"completed"}
  BY <1>1, <1>2, <1>3, <1>5 DEF OnTime
<1> QED
  BY <1>4, <1>5


\* The steps of the call itself.
LEMMA OwnOnTime ==
  ASSUME TypeOK, BudgetInv, TimelyInv, OnTimeRun, NEW c \in Calls,
         CallStep(c)
  PROVE  OnTime(c)'
<1> DEFINE k == RequestOf[c]
<1>0. /\ k \in Keys /\ now[c] \in Nat /\ now[c] <= clock /\ clock \in Nat
      /\ beatAt[c] \in Nat /\ ledger \in [Keys -> Row]
      /\ Stall \in Nat /\ BeatPeriod \in Nat /\ c # NoToken
  BY WorkerAssumption, LedgerAssumption DEF TypeOK, BudgetInv, ReadingsPast
<1>i. OnTime(c)
  BY DEF TimelyInv
<1>1. CASE BeginGranted(c)
  <2>1. /\ stage[c] = "begin" /\ stage'[c] = "handling" /\ clock' = clock
        /\ beat'[c] = "waiting" /\ beatAt'[c] = clock
    BY <1>1 DEF BeginGranted, Moves, TypeOK
  <2>2. CASE Open(k)
    <3>1. ledger'[k] = Attempt(ledger[k], now[c], Expiry[k], c)
      BY <1>1, <2>2, GrantedRow DEF RowGranted
    <3>2. /\ ledger'[k].state = "RUNNING" /\ ledger'[k].token = c
          /\ ledger'[k].updated = now[c]
      BY <3>1 DEF Attempt
    <3>3. clock <= now[c] + Stall
      BY <1>i, <2>1 DEF OnTime
    <3> QED
      BY <1>0, <2>1, <3>2, <3>3 DEF OnTime, Held
  <2>3. CASE ~Open(k)
    BY <2>1, <2>3 DEF OnTime, Open
  <2> QED
    BY <2>2, <2>3
<1>2. CASE BeatWakes(c)
  BY <1>0, <1>2, <1>i DEF BeatWakes, OnTime, Held, Open, TypeOK, Row
<1>3. CASE BeatWrites(c)
  <2>1. CASE Open(k) /\ stage[c] \in ActiveStages
    <3>1. Held(c)
      BY <1>i, <2>1 DEF OnTime
    <3>2. HeartbeatHolds(ledger, k, c)
      BY <3>1 DEF Held, HeartbeatHolds, Fences
    <3>3. ledger'[k] = [ledger[k] EXCEPT !.updated = beatAt[c]]
      BY <1>0, <1>3, <3>2 DEF BeatWrites, AfterHeartbeat
    <3>4. /\ ledger'[k].state = "RUNNING" /\ ledger'[k].token = c
          /\ ledger'[k].updated = beatAt[c]
      BY <1>0, <3>1, <3>3 DEF Held, Row
    <3>5. /\ stage' = stage /\ now' = now /\ clock' = clock
          /\ beat[c] = "writing"
          /\ beat'[c] = "waiting" /\ beatAt'[c] = clock
      BY <1>3, <2>1 DEF BeatWrites, TypeOK
    <3>6. clock <= beatAt[c] + Stall
      BY <3>1, <3>5 DEF Held
    <3> QED
      BY <1>0, <1>i, <2>1, <3>4, <3>5, <3>6 DEF OnTime, Held, ActiveStages
  <2>2. CASE Open(k) /\ stage[c] = "completed"
    <3>1. ledger[k].state = "COMPLETED"
      BY <1>i, <2>2 DEF OnTime
    <3>2. ledger' = ledger
      BY <1>3, <3>1 DEF BeatWrites, HeartbeatHolds
    <3> QED
      BY <1>3, <1>i, <2>2, <3>2 DEF BeatWrites, OnTime, Open, ActiveStages
  <2>3. CASE ~Open(k) \/ stage[c] \notin ActiveStages \cup {"completed"}
    BY <1>3, <1>i, <2>3 DEF BeatWrites, OnTime, Open
  <2> QED
    BY <2>1, <2>2, <2>3
<1>4. CASE Complete(c)
  <2>1. /\ stage[c] = "completing" /\ stage'[c] = "completed"
        /\ clock' = clock
    BY <1>4 DEF Complete, Moves, TypeOK
  <2>2. CASE Open(k)
    <3>1. Held(c)
      BY <1>i, <2>1, <2>2 DEF OnTime, ActiveStages
    <3>2. FinalizeHolds(ledger, k, c)
      BY <3>1 DEF Held, FinalizeHolds, Fences
    <3>3. ledger'[k] = Finalized(ledger[k], "COMPLETED", clock)
      BY <1>0, <1>4, <3>2 DEF Complete, AfterFinalize
    <3>4. Finalized(ledger[k], "COMPLETED", clock).state = "COMPLETED"
      BY <1>0, FinalizedRow
    <3> QED
      BY <2>1, <3>3, <3>4 DEF OnTime, ActiveStages
  <2>3. CASE ~Open(k)
    BY <2>1, <2>3 DEF OnTime, Open
  <2> QED
    BY <2>2, <2>3
<1>5. CASE HandlerReturns(c) \/ CompleteRaises(c)
  BY <1>5, <1>i DEF HandlerReturns, CompleteRaises, Moves, TypeOK, OnTime,
                    Held, Open, ActiveStages
<1>6. CASE ReadClock(c)
  BY <1>0, <1>6 DEF ReadClock, Moves, TypeOK, OnTime, ActiveStages
<1>7. CASE Validate(c) \/ Expired(c) \/ Deny(c) \/ Resubmit(c)
  BY <1>7 DEF Validate, Expired, Deny, Resubmit, Moves, TypeOK, OnTime,
              ActiveStages
<1>8. CASE BeginExhausted(c) \/ BeginRefused(c) \/ BeginRaises(c)
  BY <1>8 DEF BeginExhausted, BeginRefused, BeginRaises, Moves, TypeOK,
              OnTime, ActiveStages
<1>9. CASE Fail(c) \/ FailRaises(c) \/ Crash(c)
  BY <1>9 DEF Fail, FailRaises, Crash, Moves, TypeOK, OnTime, ActiveStages
<1>10. ~BeatDies(c)
  BY DEF OnTimeRun, BeatDies
<1> QED
  BY <1>1, <1>2, <1>3, <1>4, <1>5, <1>6, <1>7, <1>8, <1>9, <1>10
     DEF CallStep

\* Time passes only while nobody is late.
LEMMA TickOnTime ==
  ASSUME TypeOK, TimelyInv, OnTimeRun, NEW c \in Calls, Tick
  PROVE  OnTime(c)'
<1>1. /\ clock' = clock + 1 /\ ledger' = ledger /\ stage' = stage
      /\ now' = now /\ beat' = beat /\ beatAt' = beatAt
      /\ stage[c] = "begin" => clock < now[c] + Stall
      /\ beat[c] = "waiting" => clock < beatAt[c] + BeatPeriod
      /\ beat[c] = "writing" => clock < beatAt[c] + Stall
  BY DEF Tick, NobodyLate, OnTimeRun
<1>2. /\ clock \in Nat /\ now[c] \in Nat /\ beatAt[c] \in Nat
      /\ Stall \in Nat /\ BeatPeriod \in Nat /\ Expiry[RequestOf[c]] \in Nat
  BY WorkerAssumption DEF TypeOK
<1> QED
  BY <1>1, <1>2 DEF TimelyInv, OnTime, Held, Open

LEMMA PurgeOnTime ==
  ASSUME TypeOK, BudgetInv, TimelyInv, NEW c \in Calls, OtherPurge
  PROVE  OnTime(c)'
<1>1. Open(RequestOf[c]) => ledger'[RequestOf[c]] = ledger[RequestOf[c]]
  BY PurgeSpares, WorkerAssumption DEF OtherPurge, BudgetInv, TypeOK
<1> QED
  BY <1>1 DEF OtherPurge, TimelyInv, OnTime, Held, Open

LEMMA TimelyStep ==
  TypeOK /\ BudgetInv /\ TimelyInv /\ OnTimeRun /\ [Next]_vars => TimelyInv'
<1> SUFFICES ASSUME TypeOK, BudgetInv, TimelyInv, OnTimeRun, [Next]_vars,
                    NEW c \in Calls
             PROVE  OnTime(c)'
  BY DEF TimelyInv
<1>1. ASSUME NEW d \in Calls, CallStep(d) PROVE OnTime(c)'
  BY <1>1, OwnOnTime, OtherOnTime DEF OnTimeRun
<1>2. CASE UNCHANGED vars
  BY <1>2 DEF vars, TimelyInv, OnTime, Held, Open
<1> QED
  BY <1>1, <1>2, PurgeOnTime, TickOnTime DEF Next

LEMMA TimelyInvariant == OnTimeRun /\ Spec => []TimelyInv
<1>1. Init => TimelyInv
  BY DEF Init, TimelyInv, OnTime, ActiveStages
<1>2. TypeOK /\ BudgetInv /\ TimelyInv /\ OnTimeRun /\ [Next]_vars
        => TimelyInv'
  BY TimelyStep
<1> SUFFICES ASSUME OnTimeRun PROVE Spec => []TimelyInv
  OBVIOUS
<1> QED
  BY <1>1, <1>2, TypeCorrect, BudgetInvariant, PTL DEF Spec

-----------------------------------------------------------------------------
(***************************************************************************)
(* Theorems                                                                *)
(***************************************************************************)

\* With timely heartbeats at most one handler works on an open request: a
\* second one would hold the same row under another token.
THEOREM OneHandlerAtATime == OnTimeRun /\ Spec => []Exclusive
<1>1. TypeOK /\ TimelyInv => Exclusive
  <2> SUFFICES ASSUME TypeOK, TimelyInv, NEW k \in Keys, Open(k)
               PROVE  Cardinality(Active(k)) <= 1
    BY DEF Exclusive
  <2>1. \A c, d \in Active(k) : c = d
    BY DEF TimelyInv, OnTime, Active, Held
  <2>2. CASE Active(k) = {}
    BY <2>2, FS_EmptySet
  <2>3. CASE Active(k) # {}
    <3>1. PICK c \in Active(k) : TRUE
      BY <2>3
    <3>2. Active(k) = {c}
      BY <2>1, <3>1
    <3> QED
      BY <3>2, FS_Singleton
  <2> QED
    BY <2>2, <2>3
<1> SUFFICES ASSUME OnTimeRun PROVE Spec => []Exclusive
  OBVIOUS
<1> QED
  BY <1>1, TypeCorrect, TimelyInvariant, PTL

\* With timely heartbeats a COMPLETED answer is in the ledger as long as its
\* request is open.
THEOREM CompletionsRecorded == OnTimeRun /\ Spec => []CompletionRecorded
<1>1. TimelyInv => CompletionRecorded
  BY DEF TimelyInv, OnTime, CompletionRecorded
<1> SUFFICES ASSUME OnTimeRun PROVE Spec => []CompletionRecorded
  OBVIOUS
<1> QED
  BY <1>1, TimelyInvariant, PTL

\* With timely heartbeats an open request is answered COMPLETED once: when a
\* call completes, its row was RUNNING, so no other call had completed it.
THEOREM CompletesOnce == OnTimeRun /\ Spec => []SingleCompletion
<1>1. Init => SingleCompletion
  BY DEF Init, SingleCompletion
<1>2. TypeOK /\ TimelyInv /\ SingleCompletion /\ [Next]_vars
        => SingleCompletion'
  <2> SUFFICES ASSUME TypeOK, TimelyInv, SingleCompletion, [Next]_vars,
                      NEW c \in Calls, NEW d \in Calls,
                      RequestOf[c] = RequestOf[d], Open(RequestOf[c])',
                      stage'[c] = "completed", stage'[d] = "completed"
               PROVE  c = d
    BY DEF SingleCompletion
  <2>1. Open(RequestOf[c])
    BY WorkerAssumption DEF Open, TypeOK, Next, OtherPurge, Tick, vars,
       CallStep, Validate, Expired, Deny, ReadClock, BeginGranted,
       BeginExhausted, BeginRefused, BeginRaises, Resubmit, BeatWakes,
       BeatWrites, BeatDies, HandlerReturns, Complete, CompleteRaises, Fail,
       FailRaises, Crash
  <2>2. \A x \in Calls : stage'[x] = "completed" =>
          \/ stage[x] = "completed"
          \/ stage[x] = "completing"
             /\ \A y \in Calls : y # x => stage'[y] = stage[y]
    BY DEF TypeOK, ActiveStages, Next, OtherPurge, Tick, vars, Moves,
       CallStep, Validate, Expired, Deny, ReadClock, BeginGranted,
       BeginExhausted, BeginRefused, BeginRaises, Resubmit, BeatWakes,
       BeatWrites, BeatDies, HandlerReturns, Complete, CompleteRaises, Fail,
       FailRaises, Crash
  <2>3. \A x \in {c, d} :
          /\ stage[x] = "completing" =>
               ledger[RequestOf[c]].state = "RUNNING"
          /\ stage[x] = "completed" =>
               ledger[RequestOf[c]].state = "COMPLETED"
    BY <2>1 DEF TimelyInv, OnTime, Held, ActiveStages
  <2> QED
    BY <2>1, <2>2, <2>3 DEF SingleCompletion
<1> SUFFICES ASSUME OnTimeRun PROVE Spec => []SingleCompletion
  OBVIOUS
<1> QED
  BY <1>1, <1>2, TypeCorrect, TimelyInvariant, PTL DEF Spec
=============================================================================
