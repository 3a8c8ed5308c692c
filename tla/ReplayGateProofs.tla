-------------------------- MODULE ReplayGateProofs --------------------------
(***************************************************************************)
(* The workers over the ledger implement ReplayGate: every step is a step  *)
(* of the gate or leaves it unchanged.  The theorem needs                  *)
(* MAX_REQUEST_ATTEMPTS <= 2: with a larger limit a call whose lease was   *)
(* taken over can reopen the request its successor completed, because      *)
(* finalize_request_execution does not look at the state of the row.       *)
(***************************************************************************)
EXTENDS WorkerExecutionProofs

\* A completed row was completed by a call that had been granted it, and a
\* row failed for good has no attempt left.
SettledWhy(k) ==
  /\ ledger[k].state = "COMPLETED" =>
       \E c \in Granted(k) : stage[c] = "completed"
  /\ ledger[k].state = "FINAL_FAILURE" => Spent(ledger[k])

GateInv == \A k \in Keys : Open(k) => SettledWhy(k)

\* Completed calls stay completed.
LEMMA CompletedStays ==
  ASSUME TypeOK, NEW c \in Calls, stage[c] = "completed", [Next]_vars
  PROVE  stage'[c] = "completed"
<1>1. ASSUME NEW d \in Calls, CallStep(d) PROVE stage'[c] = "completed"
  BY <1>1 DEF TypeOK, ActiveStages, Moves, CallStep, Validate, Expired, Deny,
              ReadClock, BeginGranted, BeginExhausted, BeginRefused,
              BeginRaises, Resubmit, BeatWakes, BeatWrites, BeatDies,
              HandlerReturns, Complete, CompleteRaises, Fail, FailRaises,
              Crash
<1>2. CASE OtherPurge \/ Tick \/ UNCHANGED vars
  BY <1>2 DEF OtherPurge, Tick, vars
<1> QED
  BY <1>1, <1>2 DEF Next

LEMMA CompletedWitness ==
  ASSUME TypeOK, NEW k \in Keys, [Next]_vars,
         \E c \in Granted(k) : stage[c] = "completed"
  PROVE  \E c \in Granted(k)' : stage'[c] = "completed"
BY GrantedSteps, CompletedStays DEF Granted

\* A late failure never takes a completed row back: the row was completed by
\* another call than c, so two attempts were used.
LEMMA LateFailureIsFinal ==
  ASSUME TypeOK, MaxAttempts <= 2, NEW k \in Keys, Counted(k), SettledWhy(k),
         NEW c \in Calls, RequestOf[c] = k, stage[c] = "failing",
         ledger[k].state = "COMPLETED"
  PROVE  Spent(ledger[k])
<1>1. PICK d \in Granted(k) : stage[d] = "completed"
  BY DEF SettledWhy
<1>2. c \in Granted(k) /\ c # d
  BY <1>1 DEF Granted, ActiveStages
<1>3. IsFiniteSet(Granted(k)) /\ {c, d} \subseteq Granted(k)
  BY <1>1, <1>2, GrantedFinite
<1>4. Cardinality({c, d}) = 2
  <2> DEFINE S == {c}
  <2>1. IsFiniteSet(S) /\ Cardinality(S) = 1 /\ d \notin S
    BY <1>2, FS_Singleton
  <2>a. Cardinality(S \cup {d}) = Cardinality(S) + 1
    BY <2>1, FS_AddElement
  <2>2. Cardinality({c} \cup {d}) = 2
    BY <2>1, <2>a DEF S
  <2>3. {c} \cup {d} = {c, d}
    OBVIOUS
  <2> QED
    BY <2>2, <2>3
<1>5. Cardinality({c, d}) <= Cardinality(Granted(k))
  BY <1>3, FS_Subset
<1> QED
  BY <1>4, <1>5, GrantedFinite, LedgerAssumption DEF Counted, Spent

LEMMA SettledWhyStep ==
  ASSUME TypeOK, ReadingsPast, MaxAttempts <= 2, NEW k \in Keys, Open(k),
         RowFits(k), Counted(k), SettledWhy(k), [Next]_vars
  PROVE  SettledWhy(k)'
<1> USE DEF SettledWhy
<1>0. ledger[k] \in Row /\ clock \in Nat
  BY DEF TypeOK
<1>w. (\E c \in Granted(k) : stage[c] = "completed")
        => \E c \in Granted(k)' : stage'[c] = "completed"
  BY CompletedWitness
<1>1. CASE ledger'[k] = ledger[k]
  BY <1>1, <1>w DEF Spent
<1>2. ASSUME NEW c \in Calls, RowTouched(k, c) PROVE SettledWhy(k)'
  <2>1. CASE RowGranted(k, c)
    BY <2>1 DEF RowGranted, Attempt
  <2>2. CASE RowExhausted(k, c)
    BY <1>0, <2>2 DEF RowExhausted, Exhausted, Row, Spent
  <2>3. CASE RowRenewed(k, c)
    BY <1>0, <2>3 DEF RowRenewed, HeartbeatHolds, Row
  <2>4. CASE RowFinalized(k, c) /\ Complete(c)
    <3>1. ledger'[k].state = "COMPLETED"
      <4>1. Finalized(ledger[k], "COMPLETED", clock).state = "COMPLETED"
        BY <1>0, FinalizedRow
      <4>2. stage[c] = "completing"
        BY <2>4 DEF Complete, Moves
      <4> QED
        BY <2>4, <4>1, <4>2 DEF RowFinalized, Fail, Moves
    <3>2. c \in Granted(k)' /\ stage'[c] = "completed"
      BY <2>4 DEF RowFinalized, Complete, Moves, Granted, TypeOK
    <3> QED
      BY <3>1, <3>2
  <2>5. CASE RowFinalized(k, c) /\ Fail(c)
    <3>1. ledger'[k] = Finalized(ledger[k], "RETRYABLE_FAILURE", clock)
      BY <2>5 DEF RowFinalized, Complete, Fail, Moves
    <3>2. /\ ledger'[k].state = FailureState(ledger[k])
          /\ ledger'[k].attempts = ledger[k].attempts
      <4>1. /\ Finalized(ledger[k], "RETRYABLE_FAILURE", clock).state
                 = FailureState(ledger[k])
            /\ Finalized(ledger[k], "RETRYABLE_FAILURE", clock).attempts
                 = ledger[k].attempts
        BY <1>0, FinalizedRow
      <4> QED
        BY <3>1, <4>1
    <3> QED
      BY <3>2 DEF FailureState, Spent
  <2> QED
    BY <1>2, <2>1, <2>2, <2>3, <2>4, <2>5 DEF RowTouched, RowFinalized
<1> QED
  BY <1>1, <1>2, RowSteps


LEMMA GateInvStep ==
  TypeOK /\ BudgetInv /\ GateInv /\ MaxAttempts <= 2 /\ [Next]_vars => GateInv'
<1> SUFFICES ASSUME TypeOK, BudgetInv, GateInv, MaxAttempts <= 2, [Next]_vars,
                    NEW k \in Keys, Open(k)'
             PROVE  SettledWhy(k)'
  BY DEF GateInv
<1>1. clock' >= clock
  BY ReadingsStep DEF BudgetInv
<1>2. TypeOK'
  BY StepType
<1>3. Open(k)
  BY <1>1, <1>2, WorkerAssumption DEF Open, TypeOK
<1> QED
  BY <1>3, SettledWhyStep DEF BudgetInv, GateInv

LEMMA GateInvariant == MaxAttempts <= 2 /\ Spec => []GateInv
<1>1. Init => GateInv
  BY DEF Init, GateInv, SettledWhy, NoRow
<1>2. TypeOK /\ BudgetInv /\ GateInv /\ MaxAttempts <= 2 /\ [Next]_vars
        => GateInv'
  BY GateInvStep
<1> SUFFICES ASSUME MaxAttempts <= 2 PROVE Spec => []GateInv
  OBVIOUS
<1> QED
  BY <1>1, <1>2, TypeCorrect, BudgetInvariant, PTL DEF Spec

-----------------------------------------------------------------------------
(***************************************************************************)
(* The refinement                                                          *)
(***************************************************************************)

\* The state of the gate that a state of the ledger stands for.
openBar == [k \in Keys |-> Open(k)]
usedBar == [k \in Keys |-> IF Open(k) THEN ledger[k].attempts ELSE 0]
settledBar == [k \in Keys |-> Open(k) /\ Settled(k)]

\* Two predicates on a set are the same function if they agree.
LEMMA SamePredicate ==
  ASSUME NEW S, NEW f \in [S -> BOOLEAN], NEW g \in [S -> BOOLEAN],
         \A x \in S : f[x] <=> g[x]
  PROVE  f = g
<1>1. \A x \in S : f[x] = g[x]
  OBVIOUS
<1> QED
  BY <1>1

LEMMA BarType ==
  /\ openBar \in [Keys -> BOOLEAN] /\ openBar' \in [Keys -> BOOLEAN]
  /\ settledBar \in [Keys -> BOOLEAN] /\ settledBar' \in [Keys -> BOOLEAN]
  /\ usedBar = [k \in Keys |-> usedBar[k]]
  /\ usedBar' = [k \in Keys |-> usedBar'[k]]
BY DEF openBar, settledBar, usedBar, Open

LEMMA GateInitMapped == Init => Gate!Init
<1> SUFFICES ASSUME Init PROVE Gate!Init
  OBVIOUS
<1>1. openBar \in [Keys -> BOOLEAN]
  BY DEF openBar, Open
<1>2. usedBar = [k \in Keys |-> 0]
  BY DEF Init, usedBar, NoRow
<1>3. \A k \in Keys : ~Settled(k)
  BY DEF Init, Settled, NoRow
<1>4. settledBar = [k \in Keys |-> FALSE]
  BY <1>3, Zenon DEF settledBar
<1> QED
  BY <1>1, <1>2, <1>4 DEF Gate!Init, openBar, usedBar, settledBar

\* What a step of call c does to the row of an open request, for the gate.
LEMMA RowForGate ==
  ASSUME TypeOK, BudgetInv, GateInv, MaxAttempts <= 2,
         NEW k \in Keys, Open(k), NEW c \in Calls, RowTouched(k, c)
  PROVE  \/ /\ ~Settled(k) /\ ~Settled(k)'
            /\ ledger[k].attempts < MaxAttempts
            /\ ledger'[k].attempts = ledger[k].attempts + 1
         \/ /\ ledger'[k].attempts = ledger[k].attempts
            /\ ledger[k].attempts > 0 /\ Settled(k)'
         \/ /\ ledger'[k].attempts = ledger[k].attempts
            /\ Settled(k)' = Settled(k)
<1>0. /\ ledger[k] \in Row /\ clock \in Nat
      /\ RowFits(k) /\ Counted(k) /\ SettledWhy(k)
  BY DEF TypeOK, BudgetInv, GateInv
<1>1. CASE RowGranted(k, c)
  <2>1. /\ ledger'[k].attempts = ledger[k].attempts + 1
        /\ ledger'[k].state = "RUNNING"
    BY <1>1 DEF RowGranted, Attempt
  <2>2. ledger[k].attempts < MaxAttempts
    BY <1>0, <1>1, LedgerAssumption DEF RowGranted, RowFits, NoRow, Row, Spent
  <2>3. ~Settled(k)
    BY <1>1 DEF RowGranted, Takeable, Settled
  <2> QED
    BY <2>1, <2>2, <2>3 DEF Settled
<1>2. CASE RowExhausted(k, c)
  BY <1>0, <1>2 DEF RowExhausted, Exhausted, Row, Settled, Counted
<1>3. CASE RowRenewed(k, c)
  BY <1>0, <1>3 DEF RowRenewed, Row, Settled
<1>4. CASE RowFinalized(k, c)
  <2>1. ledger[k].attempts > 0
    BY <1>0, <1>4 DEF RowFinalized, FinalizeHolds, Counted
  <2>2. CASE ledger'[k] = Finalized(ledger[k], "COMPLETED", clock)
    <3>1. /\ Finalized(ledger[k], "COMPLETED", clock).state = "COMPLETED"
          /\ Finalized(ledger[k], "COMPLETED", clock).attempts
               = ledger[k].attempts
      BY <1>0, FinalizedRow
    <3> QED
      BY <2>1, <2>2, <3>1 DEF Settled
  <2>3. CASE /\ Fail(c)
             /\ ledger'[k] = Finalized(ledger[k], "RETRYABLE_FAILURE", clock)
    <3>1. /\ Finalized(ledger[k], "RETRYABLE_FAILURE", clock).state
               = FailureState(ledger[k])
          /\ Finalized(ledger[k], "RETRYABLE_FAILURE", clock).attempts
               = ledger[k].attempts
      BY <1>0, FinalizedRow
    <3>2. Settled(k) => Spent(ledger[k])
      <4>1. RequestOf[c] = k /\ stage[c] = "failing"
        BY <1>4, <2>3 DEF RowFinalized, Fail, Moves
      <4> QED
        BY <1>0, <4>1, LateFailureIsFinal DEF Settled, SettledWhy
    <3> QED
      BY <2>1, <2>3, <3>1, <3>2 DEF FailureState, Settled
  <2> QED
    BY <1>4, <2>2, <2>3 DEF RowFinalized
<1> QED
  BY <1>1, <1>2, <1>3, <1>4 DEF RowTouched

\* A step that leaves the clock and every open row alone is invisible.
LEMMA GateStutter ==
  ASSUME clock' = clock,
         \A k \in Keys : Open(k) => ledger'[k] = ledger[k]
  PROVE  UNCHANGED <<openBar, usedBar, settledBar>>
BY DEF openBar, usedBar, settledBar, Open, Settled

LEMMA GateStepMapped ==
  TypeOK /\ BudgetInv /\ GateInv /\ MaxAttempts <= 2 /\ [Next]_vars
    => [Gate!Next]_(Gate!vars)
<1> SUFFICES ASSUME TypeOK, BudgetInv, GateInv, MaxAttempts <= 2, [Next]_vars
             PROVE  Gate!Next \/ UNCHANGED <<openBar, usedBar, settledBar>>
  BY DEF Gate!vars, openBar, usedBar, settledBar
<1>1. ASSUME NEW c \in Calls, CallStep(c)
      PROVE  Gate!Next \/ UNCHANGED <<openBar, usedBar, settledBar>>
  <2> DEFINE k == RequestOf[c]
  <2>0. k \in Keys /\ clock' = clock /\ ReadingsPast
    BY <1>1, WorkerAssumption
       DEF BudgetInv, CallStep, Validate, Expired, Deny, ReadClock,
           BeginGranted, BeginExhausted, BeginRefused, BeginRaises, Resubmit,
           BeatWakes, BeatWrites, BeatDies, HandlerReturns, Complete,
           CompleteRaises, Fail, FailRaises, Crash
  <2>1. \A j \in Keys : Open(j) /\ j # k => ledger'[j] = ledger[j]
    BY <1>1, <2>0, RowStep DEF BudgetInv, RowTouched, RowGranted,
       RowExhausted, RowRenewed, RowFinalized
  <2>2. CASE Open(k) => ledger'[k] = ledger[k]
    BY <2>0, <2>1, <2>2, GateStutter
  <2>3. CASE Open(k) /\ ledger'[k] # ledger[k]
    <3>1. RowTouched(k, c)
      BY <1>1, <2>0, <2>3, RowStep DEF BudgetInv
    <3>2. openBar' = openBar
      BY <2>0 DEF openBar, Open
    <3>3. /\ \A j \in Keys : j # k => usedBar'[j] = usedBar[j]
          /\ \A j \in Keys : j # k => settledBar'[j] = settledBar[j]
      BY <2>0, <2>1 DEF usedBar, settledBar, Open, Settled
    <3>4. /\ usedBar[k] = ledger[k].attempts
          /\ usedBar'[k] = ledger'[k].attempts
      BY <2>0, <2>3 DEF usedBar, Open
    <3>5. settledBar[k] <=> Settled(k)
      BY <2>0, <2>3 DEF settledBar
    <3>6. settledBar'[k] <=> Settled(k)'
      BY <2>0, <2>3 DEF settledBar, Open
    <3>7. CASE /\ ~Settled(k) /\ ~Settled(k)'
               /\ ledger[k].attempts < MaxAttempts
               /\ ledger'[k].attempts = ledger[k].attempts + 1
      <4>1. settledBar' = settledBar
        <5>1. \A j \in Keys : settledBar'[j] <=> settledBar[j]
          BY <3>3, <3>5, <3>6, <3>7
        <5> QED
          BY <5>1, BarType, SamePredicate, Zenon
      <4>2. usedBar' = [usedBar EXCEPT ![k] = @ + 1]
        BY <2>0, <3>3, <3>4, <3>7, BarType
      <4>3. openBar[k] /\ ~settledBar[k] /\ usedBar[k] < MaxAttempts
        BY <2>0, <2>3, <3>4, <3>5, <3>7 DEF openBar
      <4>4. Gate!Grant(k)
        BY <3>2, <4>1, <4>2, <4>3
           DEF Gate!Grant, openBar, usedBar, settledBar
      <4> QED
        BY <2>0, <4>4 DEF Gate!Next
    <3>8. CASE /\ ledger'[k].attempts = ledger[k].attempts
               /\ ledger[k].attempts > 0 /\ Settled(k)'
      <4> DEFINE settles == [settledBar EXCEPT ![k] = TRUE]
      <4>1. settledBar' = settles
        <5>1. \A j \in Keys : settledBar'[j] <=> settles[j]
          BY <2>0, <3>3, <3>6, <3>8, BarType
        <5>2. settles \in [Keys -> BOOLEAN]
          BY BarType
        <5> HIDE DEF settles
        <5> QED
          BY <5>1, <5>2, BarType, SamePredicate, Zenon
      <4>2. usedBar' = usedBar
        BY <2>0, <3>3, <3>4, <3>8, BarType
      <4>3. openBar[k] /\ usedBar[k] > 0
        BY <2>0, <2>3, <3>4, <3>8 DEF openBar
      <4>4. Gate!Settle(k)
        BY <3>2, <4>1, <4>2, <4>3
           DEF Gate!Settle, openBar, usedBar, settledBar
      <4> QED
        BY <2>0, <4>4 DEF Gate!Next
    <3>9. CASE /\ ledger'[k].attempts = ledger[k].attempts
               /\ Settled(k)' = Settled(k)
      <4>1. settledBar' = settledBar
        <5>1. \A j \in Keys : settledBar'[j] <=> settledBar[j]
          BY <3>3, <3>5, <3>6, <3>9
        <5> QED
          BY <5>1, BarType, SamePredicate, Zenon
      <4>2. usedBar' = usedBar
        BY <2>0, <3>3, <3>4, <3>9, BarType
      <4> QED
        BY <3>2, <4>1, <4>2
    <3> QED
      BY <2>0, <2>3, <3>1, <3>7, <3>8, <3>9, RowForGate
  <2> QED
    BY <2>2, <2>3
<1>2. CASE OtherPurge
  <2>1. \A k \in Keys : Open(k) => ledger'[k] = ledger[k]
    BY <1>2, PurgeSpares DEF OtherPurge, BudgetInv, TypeOK
  <2> QED
    BY <1>2, <2>1, GateStutter DEF OtherPurge
<1>3. CASE Tick
  <2>0. PICK S \in SUBSET Keys :
          S = {k \in Keys : Open(k) /\ clock + 1 >= Expiry[k]}
    OBVIOUS
  <2>1. /\ ledger' = ledger /\ clock' = clock + 1 /\ clock \in Nat
    BY <1>3 DEF Tick, TypeOK
  <2>2. \A k \in Keys : Open(k)' <=> Open(k) /\ k \notin S
    BY <2>0, <2>1, WorkerAssumption DEF Open
  <2>3. S \in SUBSET Keys /\ \A k \in S : openBar[k]
    BY <2>0 DEF openBar
  <2>4. openBar' = [k \in Keys |-> openBar[k] /\ k \notin S]
    <3> DEFINE closed == [k \in Keys |-> openBar[k] /\ k \notin S]
    <3>1. \A k \in Keys : openBar'[k] <=> closed[k]
      BY <2>2, Zenon DEF openBar
    <3>2. closed \in [Keys -> BOOLEAN]
      BY Zenon
    <3> HIDE DEF closed
    <3> QED
      BY <3>1, <3>2, BarType, SamePredicate, Zenon DEF closed
  <2>5. usedBar' = [k \in Keys |-> IF k \in S THEN 0 ELSE usedBar[k]]
    BY <2>1, <2>2 DEF usedBar
  <2>6. settledBar' = [k \in Keys |-> settledBar[k] /\ k \notin S]
    <3>1. \A k \in Keys : (Open(k) /\ Settled(k))'
                            <=> Open(k) /\ Settled(k) /\ k \notin S
      BY <2>1, <2>2 DEF Settled
    <3> QED
      BY <3>1, Zenon DEF settledBar
  <2>7. Gate!Close(S)
    BY <2>3, <2>4, <2>5, <2>6 DEF Gate!Close, openBar, usedBar, settledBar
  <2> QED
    BY <2>3, <2>7 DEF Gate!Next
<1>4. CASE UNCHANGED vars
  BY <1>4, GateStutter DEF vars
<1> QED
  BY <1>1, <1>2, <1>3, <1>4 DEF Next


\* What the ledger promises the coordinator about an open request, whatever
\* crashes, stale leases and stale clock readings intervene: bounded
\* attempts, and none after it completed or failed for good.
THEOREM GateKept == MaxAttempts <= 2 /\ Spec => GateSpec
<1> SUFFICES ASSUME MaxAttempts <= 2 PROVE Spec => GateSpec
  OBVIOUS
<1>1. Init => Gate!Init
  BY GateInitMapped
<1>2. TypeOK /\ BudgetInv /\ GateInv /\ [Next]_vars => [Gate!Next]_(Gate!vars)
  BY GateStepMapped
<1>3. Spec => []GateInv
  BY GateInvariant
<1> QED
  BY <1>1, <1>2, <1>3, TypeCorrect, BudgetInvariant, PTL
     DEF Spec, GateSpec, Gate!Spec
=============================================================================
