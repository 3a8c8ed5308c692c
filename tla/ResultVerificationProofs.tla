---------------------- MODULE ResultVerificationProofs ----------------------
(***************************************************************************)
(* A signed result is accepted once, and refused as a duplicate only for a *)
(* reason.  The durable row outlives the signature: a verification reads   *)
(* its clocks at most 2 * Delay after the signature was checked, and a row *)
(* lives ReplayTTL, which is longer (RetentionAssumption).                 *)
(***************************************************************************)
EXTENDS ResultVerification, FiniteSetTheorems, SequenceTheorems, TLAPS

\* A verification under way took its last step not long ago, on a result
\* whose signature was still accepted when it began.
InTime(v) ==
  LET signed == SignedAt[ProofOf[v]] IN
  /\ stage[v] \in Pending => signed <= at[v] /\ clock <= at[v] + Delay
  /\ stage[v] = "checked" => at[v] <= signed + ProofTTL
  /\ stage[v] = "consumed" => at[v] <= signed + ProofTTL + Delay

\* The row of an accepted result is there until its retention is over.
Remembered(k) ==
  \/ ledger[k].state # "ABSENT" /\ ledger[k].expires >= SignedAt[k] + ReplayTTL
  \/ clock >= SignedAt[k] + ReplayTTL

OnceInv ==
  /\ \A v \in Verifications : InTime(v)
  /\ \A v \in Verifications : stage[v] = "accepted" => Remembered(ProofOf[v])

\* Whatever the ledger or a process remembers, some verification caused it.
Caused ==
  /\ \A k \in Keys : ledger[k].state # "ABSENT" =>
       \E w \in Verifications : ProofOf[w] = k /\ stage[w] = "accepted"
  /\ \A p \in Processes : \A k \in seen[p] :
       \E w \in Verifications :
         /\ ProofOf[w] = k /\ ProcessOf[w] = p
         /\ stage[w] \in {"consumed", "accepted", "taken", "raised", "lost"}

-----------------------------------------------------------------------------

LEMMA PrunedType ==
  ASSUME NEW q \in Seq(Entry), NEW t
  PROVE  Pruned(q, t) \in Seq(Entry)
<1>1. Dropped(q, t) \subseteq 1 .. Len(q) /\ Len(q) \in Nat
  BY DEF Dropped
<1>2. IsFiniteSet(1 .. Len(q))
  BY <1>1, FS_Interval
<1>3. IsFiniteSet(Dropped(q, t))
  BY <1>1, <1>2, FS_Subset
<1>4. Cardinality(Dropped(q, t)) \in Nat
  BY <1>3, FS_CardinalityType
<1> DEFINE n == Cardinality(Dropped(q, t)) + 1
<1>5. n \in Int /\ Len(q) \in Int /\ \A i \in n .. Len(q) : q[i] \in Entry
  BY <1>1, <1>4, ElementOfSeq
<1>6. SubSeq(q, n, Len(q)) \in Seq(Entry)
  BY ONLY <1>5, SubSeqProperties
<1> QED
  BY <1>6 DEF Pruned

LEMMA PurgeRows ==
  ASSUME NEW L \in [Keys -> Row], NEW t \in Nat
  PROVE  /\ Purge(L, t) \in [Keys -> Row]
         /\ \A k \in Keys : Purge(L, t)[k] = L[k] \/ Purge(L, t)[k] = NoRow
         /\ \A k \in Keys : L[k].expires > t => Purge(L, t)[k] = L[k]
<1>1. NoRow \in Row
  BY DEF NoRow, Row, RowState
<1>2. Purge(L, t) \in [Keys -> Row]
  BY <1>1 DEF Purge
<1>3. /\ \A k \in Keys : Purge(L, t)[k] = L[k] \/ Purge(L, t)[k] = NoRow
      /\ \A k \in Keys : L[k].expires <= t \/ Purge(L, t)[k] = L[k]
  BY DEF Purge
<1>4. \A k \in Keys : L[k].expires \in Nat
  BY DEF Row
<1> QED
  BY <1>2, <1>3, <1>4


\* A verification moves to one stage at a time.
LEMMA MoveFacts ==
  ASSUME TypeOK, NEW v \in Verifications, NEW from \in Stages,
         NEW to \in Stages, Moves(v, from, to)
  PROVE  /\ stage[v] = from /\ stage'[v] = to
         /\ at'[v] = IF to \in Pending THEN clock ELSE 0
         /\ \A w \in Verifications \ {v} :
              stage'[w] = stage[w] /\ at'[w] = at[w]
         /\ stage' \in [Verifications -> Stages]
         /\ at' \in [Verifications -> Nat]
BY DEF TypeOK, Moves

\* A reading of the clock lies between the last step and the present.
LEMMA ReadingNat ==
  ASSUME TypeOK, NEW v \in Verifications, NEW t \in at[v] .. clock
  PROVE  t \in Nat /\ at[v] <= t /\ t <= clock
BY DEF TypeOK

\* The ledger holds the row of an accepted result for ReplayTTL.
LEMMA AcceptedRow ==
  ASSUME NEW L \in [Keys -> Row], NEW k \in Keys, NEW t \in Nat
  PROVE  /\ AfterConsume(L, k, t, KeptUntil(t)) \in [Keys -> Row]
         /\ AfterConsume(L, k, t, KeptUntil(t))[k]
              = ConsumedRow(t, KeptUntil(t))
         /\ \A j \in Keys \ {k} :
              AfterConsume(L, k, t, KeptUntil(t))[j] = Purge(L, t)[j]
<1>1. Purge(L, t) \in [Keys -> Row]
  BY PurgeRows
<1>2. ConsumedRow(t, KeptUntil(t)) \in Row
  BY VerificationAssumption DEF ConsumedRow, KeptUntil, Row, RowState
<1> QED
  BY <1>1, <1>2 DEF AfterConsume

\* TypeOK, as state formula of a step.
LEMMA TypeStep == TypeOK /\ [Next]_vars => TypeOK'
<1> SUFFICES ASSUME TypeOK, [Next]_vars PROVE TypeOK'
  OBVIOUS
<1> USE VerificationAssumption
<1>1. ASSUME NEW v \in Verifications, VerificationStep(v) PROVE TypeOK'
  <2> DEFINE k == ProofOf[v]
             p == ProcessOf[v]
  <2>0. k \in Keys /\ p \in Processes
    OBVIOUS
  <2>1. CASE Check(v) \/ Invalid(v)
    BY <2>1, MoveFacts DEF Check, Invalid, TypeOK, Stages, Pending
  <2>2. CASE NonceKnown(v)
    <3>1. PICK t \in at[v] .. clock :
            /\ seen' = [seen EXCEPT ![p] = @ \ Forgotten(order[p], t)]
            /\ order' = [order EXCEPT ![p] = Pruned(order[p], t)]
      BY <2>2 DEF NonceKnown
    <3>2. Pruned(order[p], t) \in Seq(Entry)
      BY <2>0, PrunedType DEF TypeOK
    <3>3. /\ seen' \in [Processes -> SUBSET Keys]
          /\ order' \in [Processes -> Seq(Entry)]
      BY <2>0, <3>1, <3>2 DEF TypeOK
    <3> QED
      BY <2>2, <3>3, MoveFacts
         DEF NonceKnown, TypeOK, Stages, Pending
  <2>3. CASE ConsumeNonce(v)
    <3> DEFINE Kept(t) == seen[p] \ Forgotten(order[p], t)
               Added(t) == Append(Pruned(order[p], t),
                                  [nonce |-> k, at |-> t])
    <3>1. PICK t \in at[v] .. clock :
            /\ seen' = [seen EXCEPT
                 ![p] = (Kept(t) \cup {k}) \ Forgotten(Added(t), t)]
            /\ order' = [order EXCEPT ![p] = Pruned(Added(t), t)]
      BY <2>3 DEF ConsumeNonce
    <3>2. Pruned(order[p], t) \in Seq(Entry)
      BY <2>0, PrunedType DEF TypeOK
    <3>3. t \in Nat
      BY ReadingNat
    <3>4. [nonce |-> k, at |-> t] \in Entry
      BY <2>0, <3>3 DEF Entry
    <3>5. Added(t) \in Seq(Entry)
      BY <3>2, <3>4, AppendProperties
    <3>6. Pruned(Added(t), t) \in Seq(Entry)
      BY <3>5, PrunedType
    <3>7. order' \in [Processes -> Seq(Entry)]
      BY <2>0, <3>1, <3>6 DEF TypeOK
    <3>8. seen' \in [Processes -> SUBSET Keys]
      BY <2>0, <3>1 DEF TypeOK
    <3> QED
      BY <2>3, <3>7, <3>8, MoveFacts
         DEF ConsumeNonce, TypeOK, Stages, Pending
  <2>4. CASE Accept(v)
    <3>1. PICK t \in at[v] .. clock :
            ledger' = AfterConsume(ledger, k, t, KeptUntil(t))
      BY <2>4 DEF Accept
    <3>2. t \in Nat
      BY ReadingNat
    <3>3. ledger' \in [Keys -> Row]
      BY <2>0, <3>1, <3>2, AcceptedRow DEF TypeOK
    <3> QED
      BY <2>4, <3>3, MoveFacts DEF Accept, TypeOK, Stages, Pending
  <2>5. CASE RefuseTaken(v)
    <3>1. PICK t \in at[v] .. clock : ledger' = Purge(ledger, t)
      BY <2>5 DEF RefuseTaken
    <3>2. t \in Nat
      BY ReadingNat
    <3>3. ledger' \in [Keys -> Row]
      BY <3>1, <3>2, PurgeRows DEF TypeOK
    <3> QED
      BY <2>5, <3>3, MoveFacts DEF RefuseTaken, TypeOK, Stages, Pending
  <2>6. CASE LedgerRaises(v)
    BY <2>6, MoveFacts DEF LedgerRaises, TypeOK, Stages, Pending
  <2> QED
    BY <1>1, <2>1, <2>2, <2>3, <2>4, <2>5, <2>6 DEF VerificationStep
<1>2. ASSUME NEW p \in Processes, Restart(p) PROVE TypeOK'
  <2>1. <<>> \in Seq(Entry)
    OBVIOUS
  <2> QED
    BY <1>2, <2>1 DEF Restart, TypeOK, Stages, Pending
<1>3. CASE OtherPurge
  BY <1>3, PurgeRows DEF OtherPurge, TypeOK
<1>4. CASE Tick
  BY <1>4 DEF Tick, TypeOK
<1>5. CASE UNCHANGED vars
  BY <1>5 DEF vars, TypeOK
<1> QED
  BY <1>1, <1>2, <1>3, <1>4, <1>5 DEF Next


LEMMA TypeInit == Init => TypeOK
<1>1. NoRow \in Row
  BY DEF NoRow, Row, RowState
<1>2. <<>> \in Seq(Entry)
  OBVIOUS
<1> QED
  BY <1>1, <1>2 DEF Init, TypeOK, Stages

\* TypeOK: every variable keeps its type, the queue of a process included,
\* which is cut at the front and extended at the back.
THEOREM ResultTypes == Spec => []TypeOK
BY TypeInit, TypeStep, PTL DEF Spec

-----------------------------------------------------------------------------
(***************************************************************************)
(* RefusalJustified                                                        *)
(***************************************************************************)

\* The stages of a verification after it consumed its nonce, and those after
\* the ledger accepted it: once reached, they are never left.
Reached == {"consumed", "accepted", "taken", "raised", "lost"}

LEMMA StagesStay ==
  ASSUME TypeOK, [Next]_vars, NEW w \in Verifications
  PROVE  /\ stage[w] \in Reached => stage'[w] \in Reached
         /\ stage[w] = "accepted" => stage'[w] = "accepted"
<1>1. ASSUME NEW v \in Verifications, VerificationStep(v)
      PROVE  /\ stage[w] \in Reached => stage'[w] \in Reached
             /\ stage[w] = "accepted" => stage'[w] = "accepted"
  BY <1>1 DEF VerificationStep, Check, Invalid, NonceKnown, ConsumeNonce,
              Accept, RefuseTaken, LedgerRaises, Moves, TypeOK, Reached
<1>2. ASSUME NEW p \in Processes, Restart(p)
      PROVE  /\ stage[w] \in Reached => stage'[w] \in Reached
             /\ stage[w] = "accepted" => stage'[w] = "accepted"
  BY <1>2 DEF Restart, Pending, Reached
<1>3. CASE OtherPurge \/ Tick \/ UNCHANGED vars
  BY <1>3 DEF OtherPurge, Tick, vars
<1> QED
  BY <1>1, <1>2, <1>3 DEF Next

\* A row appears only when its result is accepted.
LEMMA RowCause ==
  ASSUME TypeOK, [Next]_vars, NEW k \in Keys,
         ledger'[k].state # "ABSENT"
  PROVE  \/ ledger[k].state # "ABSENT"
         \/ \E v \in Verifications :
              ProofOf[v] = k /\ stage'[v] = "accepted"
<1> SUFFICES ASSUME ledger[k].state = "ABSENT"
             PROVE  \E v \in Verifications :
                      ProofOf[v] = k /\ stage'[v] = "accepted"
  OBVIOUS
<1>0. ledger \in [Keys -> Row] /\ clock \in Nat
  BY DEF TypeOK
<1>p. \A t \in Nat : Purge(ledger, t)[k].state = "ABSENT"
  BY <1>0, PurgeRows DEF NoRow
<1>1. ASSUME NEW v \in Verifications, VerificationStep(v)
      PROVE  ProofOf[v] = k /\ stage'[v] = "accepted"
  <2>1. CASE Accept(v)
    <3>1. PICK t \in at[v] .. clock :
            ledger' = AfterConsume(ledger, ProofOf[v], t, KeptUntil(t))
      BY <2>1 DEF Accept
    <3>2. t \in Nat /\ ProofOf[v] \in Keys
      BY ReadingNat, VerificationAssumption
    <3>3. ProofOf[v] = k
      BY <1>0, <1>p, <3>1, <3>2, AcceptedRow
    <3> QED
      BY <2>1, <3>3 DEF Accept, Moves, TypeOK
  <2>2. CASE RefuseTaken(v)
    <3>1. PICK t \in at[v] .. clock : ledger' = Purge(ledger, t)
      BY <2>2 DEF RefuseTaken
    <3> QED
      BY <1>p, <3>1, ReadingNat
  <2>3. CASE \/ Check(v) \/ Invalid(v) \/ NonceKnown(v) \/ ConsumeNonce(v)
             \/ LedgerRaises(v)
    BY <2>3 DEF Check, Invalid, NonceKnown, ConsumeNonce, LedgerRaises
  <2> QED
    BY <1>1, <2>1, <2>2, <2>3 DEF VerificationStep
<1>2. ~OtherPurge
  BY <1>0, <1>p DEF OtherPurge
<1>3. ~ \E p \in Processes : Restart(p)
  BY DEF Restart
<1>4. ~Tick /\ ~UNCHANGED vars
  BY DEF Tick, vars
<1> QED
  BY <1>1, <1>2, <1>3, <1>4 DEF Next

\* A process comes to know a nonce only when one of its own verifications
\* consumes it.
LEMMA NonceCause ==
  ASSUME TypeOK, [Next]_vars, NEW p \in Processes, NEW k \in seen'[p]
  PROVE  \/ k \in seen[p]
         \/ \E v \in Verifications :
              /\ ProofOf[v] = k /\ ProcessOf[v] = p
              /\ stage'[v] = "consumed"
<1> USE VerificationAssumption
<1>1. ASSUME NEW v \in Verifications, VerificationStep(v), k \notin seen[p]
      PROVE  ProofOf[v] = k /\ ProcessOf[v] = p /\ stage'[v] = "consumed"
  <2>1. CASE ConsumeNonce(v)
    <3>1. ProcessOf[v] = p /\ ProofOf[v] = k
      BY <1>1, <2>1 DEF ConsumeNonce, TypeOK
    <3> QED
      BY <2>1, <3>1 DEF ConsumeNonce, Moves, TypeOK
  <2>2. CASE NonceKnown(v)
    BY <1>1, <2>2 DEF NonceKnown, TypeOK
  <2>3. CASE \/ Check(v) \/ Invalid(v) \/ Accept(v) \/ RefuseTaken(v)
             \/ LedgerRaises(v)
    BY <1>1, <2>3 DEF Check, Invalid, Accept, RefuseTaken, LedgerRaises
  <2> QED
    BY <1>1, <2>1, <2>2, <2>3 DEF VerificationStep
<1>2. ASSUME NEW o \in Processes, Restart(o) PROVE k \in seen[p]
  BY <1>2 DEF Restart, TypeOK
<1>3. CASE OtherPurge \/ Tick \/ UNCHANGED vars
  BY <1>3 DEF OtherPurge, Tick, vars
<1> QED
  BY <1>1, <1>2, <1>3 DEF Next


LEMMA CausedStep == TypeOK /\ Caused /\ [Next]_vars => Caused'
<1> SUFFICES ASSUME TypeOK, Caused, [Next]_vars PROVE Caused'
  OBVIOUS
<1>1. ASSUME NEW k \in Keys, ledger'[k].state # "ABSENT"
      PROVE  \E w \in Verifications :
               ProofOf[w] = k /\ stage'[w] = "accepted"
  <2>1. CASE ledger[k].state # "ABSENT"
    <3>1. PICK w \in Verifications : ProofOf[w] = k /\ stage[w] = "accepted"
      BY <2>1 DEF Caused
    <3> QED
      BY <3>1, StagesStay
  <2> QED
    BY <1>1, <2>1, RowCause
<1>2. ASSUME NEW p \in Processes, NEW k \in seen'[p]
      PROVE  \E w \in Verifications :
               /\ ProofOf[w] = k /\ ProcessOf[w] = p
               /\ stage'[w] \in Reached
  <2>1. CASE k \in seen[p]
    <3>1. PICK w \in Verifications : /\ ProofOf[w] = k /\ ProcessOf[w] = p
                                     /\ stage[w] \in Reached
      BY <2>1 DEF Caused, Reached
    <3> QED
      BY <3>1, StagesStay
  <2>2. CASE k \notin seen[p]
    <3>1. PICK v \in Verifications : /\ ProofOf[v] = k /\ ProcessOf[v] = p
                                     /\ stage'[v] = "consumed"
      BY <2>2, NonceCause
    <3> QED
      BY <3>1 DEF Reached
  <2> QED
    BY <2>1, <2>2
<1> QED
  BY <1>1, <1>2 DEF Caused, Reached

\* The two answers of a refusal appear only with their reason.
LEMMA RefusalCause ==
  ASSUME TypeOK, Caused, [Next]_vars, NEW v \in Verifications
  PROVE  /\ stage'[v] = "taken" /\ stage[v] # "taken" =>
              ledger[ProofOf[v]].state # "ABSENT"
         /\ stage'[v] = "known" /\ stage[v] # "known" =>
              ProofOf[v] \in seen[ProcessOf[v]]
<1> USE VerificationAssumption
<1>1. ASSUME NEW u \in Verifications, VerificationStep(u), stage'[v] = "taken",
             stage[v] # "taken"
      PROVE  ledger[ProofOf[v]].state # "ABSENT"
  <2>1. RefuseTaken(u) /\ u = v
    BY <1>1 DEF VerificationStep, Check, Invalid, NonceKnown, ConsumeNonce,
                Accept, RefuseTaken, LedgerRaises, Moves, TypeOK
  <2>2. PICK t \in at[v] .. clock : ~ConsumeAccepts(ledger, ProofOf[v], t)
    BY <2>1 DEF RefuseTaken
  <2>3. /\ t \in Nat /\ ProofOf[v] \in Keys
        /\ Purge(ledger, t)[ProofOf[v]].state # "ABSENT"
    BY <2>2, ReadingNat DEF ConsumeAccepts
  <2>4. NoRow.state = "ABSENT" /\ ledger \in [Keys -> Row]
    BY DEF NoRow, TypeOK
  <2>5. \/ Purge(ledger, t)[ProofOf[v]] = ledger[ProofOf[v]]
        \/ Purge(ledger, t)[ProofOf[v]] = NoRow
    BY ONLY <2>3, <2>4, PurgeRows
  <2> QED
    BY <2>3, <2>4, <2>5
<1>2. ASSUME NEW u \in Verifications, VerificationStep(u), stage'[v] = "known",
             stage[v] # "known"
      PROVE  ProofOf[v] \in seen[ProcessOf[v]]
  <2>1. NonceKnown(u) /\ u = v
    BY <1>2 DEF VerificationStep, Check, Invalid, NonceKnown, ConsumeNonce,
                Accept, RefuseTaken, LedgerRaises, Moves, TypeOK
  <2> QED
    BY <2>1 DEF NonceKnown
<1>3. ASSUME NEW p \in Processes, Restart(p)
      PROVE  stage'[v] \in {"taken", "known"} => stage'[v] = stage[v]
  BY <1>3 DEF Restart
<1>4. CASE OtherPurge \/ Tick \/ UNCHANGED vars
  BY <1>4 DEF OtherPurge, Tick, vars
<1> QED
  BY <1>1, <1>2, <1>3, <1>4 DEF Next

LEMMA RefusalStep ==
  TypeOK /\ Caused /\ RefusalJustified /\ [Next]_vars => RefusalJustified'
<1> SUFFICES ASSUME TypeOK, Caused, RefusalJustified, [Next]_vars,
                    NEW v \in Verifications
             PROVE  /\ stage'[v] = "taken" =>
                         \E w \in Verifications :
                           ProofOf[w] = ProofOf[v] /\ stage'[w] = "accepted"
                    /\ stage'[v] = "known" =>
                         \E w \in Verifications :
                           /\ ProofOf[w] = ProofOf[v]
                           /\ ProcessOf[w] = ProcessOf[v]
                           /\ stage'[w] \in Reached
  BY DEF RefusalJustified, Reached
<1>0. ProofOf[v] \in Keys /\ ProcessOf[v] \in Processes
  BY VerificationAssumption
<1>1. CASE stage'[v] = "taken"
  <2>1. PICK w \in Verifications :
          ProofOf[w] = ProofOf[v] /\ stage[w] = "accepted"
    BY <1>0, <1>1, RefusalCause DEF RefusalJustified, Caused
  <2> QED
    BY <1>1, <2>1, StagesStay
<1>2. CASE stage'[v] = "known"
  <2>1. PICK w \in Verifications :
          /\ ProofOf[w] = ProofOf[v] /\ ProcessOf[w] = ProcessOf[v]
          /\ stage[w] \in Reached
    BY <1>0, <1>2, RefusalCause DEF RefusalJustified, Caused, Reached
  <2> QED
    BY <1>2, <2>1, StagesStay
<1> QED
  BY <1>1, <1>2

\* RefusalJustified: for every limit of the memory, whatever restarts, late
\* readings of the clock and failing transactions intervene, a result is
\* refused as a duplicate only after it was accepted, or after the same
\* process brought it to the ledger.
THEOREM RefusalsJustified == Spec => []RefusalJustified
<1>1. Init => Caused /\ RefusalJustified
  BY VerificationAssumption DEF Init, Caused, RefusalJustified, NoRow
<1>2. TypeOK /\ Caused /\ RefusalJustified /\ [Next]_vars
        => Caused' /\ RefusalJustified'
  BY CausedStep, RefusalStep
<1> QED
  BY <1>1, <1>2, ResultTypes, PTL DEF Spec


-----------------------------------------------------------------------------
(***************************************************************************)
(* AcceptedOnce                                                            *)
(***************************************************************************)

LEMMA InTimeStep ==
  ASSUME TypeOK, Timely, [Next]_vars, NEW v \in Verifications, InTime(v)
  PROVE  InTime(v)'
<1> DEFINE signed == SignedAt[ProofOf[v]]
<1>0. /\ signed \in Nat /\ at[v] \in Nat /\ clock \in Nat /\ Delay \in Nat
      /\ ProofTTL \in Nat
  BY VerificationAssumption DEF TypeOK
<1>1. ASSUME NEW u \in Verifications, VerificationStep(u) PROVE InTime(v)'
  <2>0. clock' = clock
    BY <1>1 DEF VerificationStep, Check, Invalid, NonceKnown, ConsumeNonce,
                Accept, RefuseTaken, LedgerRaises
  <2>1. CASE u # v
    <3>1. stage'[v] = stage[v] /\ at'[v] = at[v]
      BY <1>1, <2>1 DEF VerificationStep, Check, Invalid, NonceKnown,
           ConsumeNonce, Accept, RefuseTaken, LedgerRaises, Moves, TypeOK
    <3> QED
      BY <2>0, <3>1 DEF InTime
  <2>2. CASE u = v /\ Check(v)
    <3>1. stage'[v] = "checked" /\ at'[v] = clock
      BY <2>2 DEF Check, Moves, Pending, TypeOK
    <3> QED
      BY <1>0, <2>0, <2>2, <3>1 DEF InTime, Check, Pending
  <2>3. CASE u = v /\ ConsumeNonce(v)
    <3>1. /\ stage[v] = "checked"
          /\ stage'[v] = "consumed" /\ at'[v] = clock
      BY <2>3 DEF ConsumeNonce, Moves, Pending, TypeOK
    <3>2. PICK t \in at[v] .. clock : TRUE
      BY <2>3 DEF ConsumeNonce
    <3>3. at[v] <= clock
      BY <1>0, <3>2
    <3> QED
      BY <1>0, <2>0, <3>1, <3>3 DEF InTime, Pending
  <2>4. CASE u = v /\ ~Check(v) /\ ~ConsumeNonce(v)
    <3>1. stage'[v] \notin Pending
      BY <1>1, <2>4 DEF VerificationStep, Invalid, NonceKnown, Accept,
           RefuseTaken, LedgerRaises, Moves, Pending, TypeOK
    <3> QED
      BY <3>1 DEF InTime, Pending
  <2> QED
    BY <2>1, <2>2, <2>3, <2>4
<1>2. ASSUME NEW p \in Processes, Restart(p) PROVE InTime(v)'
  <2>1. \/ stage'[v] \notin Pending
        \/ stage'[v] = stage[v] /\ at'[v] = at[v] /\ clock' = clock
    BY <1>2 DEF Restart, Pending
  <2> QED
    BY <2>1 DEF InTime, Pending
<1>3. CASE Tick
  BY <1>0, <1>3 DEF Tick, NobodyLate, InTime
<1>4. CASE OtherPurge \/ UNCHANGED vars
  BY <1>4 DEF OtherPurge, vars, InTime
<1> QED
  BY <1>1, <1>2, <1>3, <1>4 DEF Next

\* No reading of the clock purges a row before its retention is over.
LEMMA PurgeRemembers ==
  ASSUME TypeOK, NEW k \in Keys, Remembered(k), NEW t \in Nat, t <= clock
  PROVE  \/ Purge(ledger, t)[k] = ledger[k] /\ ledger[k].state # "ABSENT"
         \/ clock >= SignedAt[k] + ReplayTTL
<1>1. /\ ledger \in [Keys -> Row] /\ ledger[k].expires \in Nat
      /\ clock \in Nat /\ SignedAt[k] \in Nat /\ ReplayTTL \in Nat
  BY VerificationAssumption DEF TypeOK, Row
<1>2. ledger[k].expires > t => Purge(ledger, t)[k] = ledger[k]
  BY ONLY <1>1, PurgeRows, t \in Nat, k \in Keys
<1> QED
  BY <1>1, <1>2 DEF Remembered

\* The ledger does not accept what it remembers, and remembers what it
\* accepts.
LEMMA AcceptFacts ==
  ASSUME TypeOK, Timely, NEW v \in Verifications, InTime(v), Accept(v)
  PROVE  ~Remembered(ProofOf[v]) /\ Remembered(ProofOf[v])'
<1> DEFINE k == ProofOf[v]
<1>1. PICK t \in at[v] .. clock :
        /\ ConsumeAccepts(ledger, k, t)
        /\ ledger' = AfterConsume(ledger, k, t, KeptUntil(t))
  BY DEF Accept
<1>2. t \in Nat /\ k \in Keys /\ at[v] <= t /\ t <= clock /\ clock' = clock
  BY VerificationAssumption, ReadingNat DEF Accept
<1>3. /\ SignedAt[k] <= at[v] /\ clock <= at[v] + Delay
      /\ at[v] <= SignedAt[k] + ProofTTL + Delay
  BY DEF Accept, Moves, InTime, Pending
<1>4. /\ SignedAt[k] \in Nat /\ at[v] \in Nat /\ clock \in Nat
      /\ Delay \in Nat /\ ProofTTL \in Nat /\ ReplayTTL \in Nat
      /\ ProofTTL + 2 * Delay < ReplayTTL
  BY VerificationAssumption, RetentionAssumption DEF TypeOK
<1>5. clock < SignedAt[k] + ReplayTTL
  BY <1>3, <1>4
<1>6. ~Remembered(k)
  BY <1>1, <1>2, <1>4, <1>5, PurgeRemembers DEF ConsumeAccepts
<1>7. ledger'[k] = ConsumedRow(t, KeptUntil(t))
  BY <1>1, <1>2, AcceptedRow DEF TypeOK
<1>8. ledger'[k].state = "CONSUMED" /\ ledger'[k].expires = t + ReplayTTL
  BY <1>7 DEF ConsumedRow, KeptUntil
<1> QED
  BY <1>2, <1>3, <1>4, <1>6, <1>8 DEF Remembered

\* What the ledger remembers it goes on remembering.
LEMMA RememberedStep ==
  ASSUME TypeOK, Timely, \A v \in Verifications : InTime(v), [Next]_vars,
         NEW k \in Keys, Remembered(k)
  PROVE  Remembered(k)'
<1>0. /\ ledger \in [Keys -> Row] /\ clock \in Nat /\ SignedAt[k] \in Nat
      /\ ReplayTTL \in Nat
  BY VerificationAssumption DEF TypeOK
<1>1. ASSUME NEW t \in Nat, t <= clock, clock' = clock,
             ledger'[k] = Purge(ledger, t)[k]
      PROVE  Remembered(k)'
  BY <1>1, PurgeRemembers DEF Remembered
<1>2. ASSUME NEW v \in Verifications, VerificationStep(v)
      PROVE  Remembered(k)'
  <2>1. CASE Accept(v)
    <3>1. PICK t \in at[v] .. clock :
            ledger' = AfterConsume(ledger, ProofOf[v], t, KeptUntil(t))
      BY <2>1 DEF Accept
    <3>2. t \in Nat /\ t <= clock /\ ProofOf[v] \in Keys /\ clock' = clock
      BY <2>1, ReadingNat, VerificationAssumption DEF Accept
    <3>3. k # ProofOf[v]
      BY <2>1, AcceptFacts
    <3>4. ledger'[k] = Purge(ledger, t)[k]
      BY <1>0, <3>1, <3>2, <3>3, AcceptedRow
    <3> QED
      BY <1>1, <3>2, <3>4
  <2>2. CASE RefuseTaken(v)
    <3>1. PICK t \in at[v] .. clock : ledger' = Purge(ledger, t)
      BY <2>2 DEF RefuseTaken
    <3>2. t \in Nat /\ t <= clock /\ clock' = clock
      BY <2>2, ReadingNat DEF RefuseTaken
    <3> QED
      BY <1>1, <3>1, <3>2
  <2>3. CASE \/ Check(v) \/ Invalid(v) \/ NonceKnown(v) \/ ConsumeNonce(v)
             \/ LedgerRaises(v)
    BY <2>3 DEF Check, Invalid, NonceKnown, ConsumeNonce, LedgerRaises,
                Remembered
  <2> QED
    BY <1>2, <2>1, <2>2, <2>3 DEF VerificationStep
<1>3. CASE OtherPurge
  BY <1>0, <1>1, <1>3 DEF OtherPurge
<1>4. CASE Tick
  BY <1>0, <1>4 DEF Tick, Remembered
<1>5. CASE (\E p \in Processes : Restart(p)) \/ UNCHANGED vars
  BY <1>5 DEF Restart, vars, Remembered
<1> QED
  BY <1>2, <1>3, <1>4, <1>5 DEF Next

\* Only Accept makes a verification accepted.
LEMMA AcceptCause ==
  ASSUME TypeOK, [Next]_vars, NEW v \in Verifications,
         stage'[v] = "accepted", stage[v] # "accepted"
  PROVE  /\ Accept(v)
         /\ \A w \in Verifications \ {v} : stage'[w] = stage[w]
<1>1. ASSUME NEW u \in Verifications, VerificationStep(u)
      PROVE  Accept(u) /\ u = v
  BY <1>1 DEF VerificationStep, Check, Invalid, NonceKnown, ConsumeNonce,
              Accept, RefuseTaken, LedgerRaises, Moves, TypeOK
<1>2. ~ \E p \in Processes : Restart(p)
  BY DEF Restart
<1>3. ~OtherPurge /\ ~Tick /\ ~UNCHANGED vars
  BY DEF OtherPurge, Tick, vars
<1>4. Accept(v)
  BY <1>1, <1>2, <1>3 DEF Next
<1> QED
  BY <1>4 DEF Accept, Moves, TypeOK


LEMMA OnceStep ==
  ASSUME TypeOK, Timely, OnceInv, AcceptedOnce, [Next]_vars
  PROVE  OnceInv' /\ AcceptedOnce'
<1>1. \A v \in Verifications : InTime(v) /\ InTime(v)'
  BY InTimeStep DEF OnceInv
<1>2. ASSUME NEW v \in Verifications, stage'[v] = "accepted"
      PROVE  Remembered(ProofOf[v])'
  <2>1. CASE stage[v] = "accepted"
    BY <1>1, <2>1, RememberedStep, VerificationAssumption DEF OnceInv
  <2>2. CASE stage[v] # "accepted"
    BY <1>1, <1>2, <2>2, AcceptCause, AcceptFacts
  <2> QED
    BY <2>1, <2>2
<1>3. ASSUME NEW v \in Verifications, NEW w \in Verifications, v # w,
             ProofOf[v] = ProofOf[w], stage'[v] = "accepted",
             stage'[w] = "accepted", stage[v] # "accepted"
      PROVE  FALSE
  <2>1. Accept(v) /\ stage[w] = "accepted"
    BY <1>3, AcceptCause
  <2>2. ~Remembered(ProofOf[v])
    BY <1>1, <2>1, AcceptFacts
  <2>3. Remembered(ProofOf[w])
    BY <2>1 DEF OnceInv
  <2> QED
    BY <1>3, <2>2, <2>3
<1>4. AcceptedOnce'
  BY <1>3 DEF AcceptedOnce
<1> QED
  BY <1>1, <1>2, <1>4 DEF OnceInv

\* AcceptedOnce, whenever no step of a verification takes longer than Delay:
\* for any number of coordinator processes, restarts and failing
\* transactions, and whatever the processes forget, a signed result is
\* accepted once.  The memory of the processes plays no part in it.
THEOREM AcceptsOnce == Timely /\ Spec => []AcceptedOnce
<1> SUFFICES ASSUME Timely PROVE Spec => []AcceptedOnce
  OBVIOUS
<1>1. Init => OnceInv /\ AcceptedOnce
  BY DEF Init, OnceInv, InTime, Pending, AcceptedOnce
<1>2. TypeOK /\ OnceInv /\ AcceptedOnce /\ [Next]_vars
        => OnceInv' /\ AcceptedOnce'
  BY OnceStep
<1> QED
  BY <1>1, <1>2, ResultTypes, PTL DEF Spec

-----------------------------------------------------------------------------
(***************************************************************************)
(* MemoryAgrees                                                            *)
(***************************************************************************)

\* The nonces of a queue, and that none is in it twice.
Nonces(q) == {q[i].nonce : i \in DOMAIN q}

Distinct(q) == \A i, j \in DOMAIN q : q[i].nonce = q[j].nonce => i = j

MemoryInv ==
  \A p \in Processes : /\ seen[p] = Nonces(order[p])
                       /\ Distinct(order[p])
                       /\ Len(order[p]) <= MaxSeen

\* A set of positions that holds every position before one of its own is an
\* initial interval: if it had as many members as a longer one, it would be
\* that one.
LEMMA Initial ==
  ASSUME NEW n \in Nat, NEW D \in SUBSET (1 .. n),
         \A i \in D : 1 .. i \subseteq D
  PROVE  Cardinality(D) \in 0 .. n /\ D = 1 .. Cardinality(D)
<1> DEFINE c == Cardinality(D)
<1>1. IsFiniteSet(1 .. n) /\ Cardinality(1 .. n) = n
  BY FS_Interval
<1>2. IsFiniteSet(D) /\ c <= n
  BY <1>1, FS_Subset
<1>3. c \in Nat
  BY <1>2, FS_CardinalityType
<1>4. IsFiniteSet(1 .. c) /\ Cardinality(1 .. c) = c
  BY <1>3, FS_Interval
<1>5. c + 1 \notin D
  <2> SUFFICES ASSUME c + 1 \in D PROVE FALSE
    OBVIOUS
  <2>1. 1 .. c + 1 \in SUBSET D
    OBVIOUS
  <2>2. Cardinality(1 .. c + 1) = c + 1
    BY <1>3, FS_Interval
  <2>3. Cardinality(1 .. c + 1) <= c
    BY <1>2, <2>1, FS_Subset
  <2> QED
    BY <1>3, <2>2, <2>3
<1>6. D \in SUBSET (1 .. c)
  <2> SUFFICES ASSUME NEW i \in D, i \notin 1 .. c PROVE FALSE
    OBVIOUS
  <2>1. c + 1 \in 1 .. i
    BY <1>3
  <2> QED
    BY <1>5, <2>1
<1>7. D = 1 .. c
  BY <1>4, <1>6, FS_Subset
<1> QED
  BY <1>2, <1>3, <1>7

\* Pruning drops the first entries, and no more than MaxSeen are left.
LEMMA PrunedFront ==
  ASSUME NEW q \in Seq(Entry), NEW t \in Nat
  PROVE  \E c \in 0 .. Len(q) :
           /\ Dropped(q, t) = 1 .. c
           /\ Pruned(q, t) = SubSeq(q, c + 1, Len(q))
           /\ Len(q) - c <= MaxSeen
<1> DEFINE D == Dropped(q, t)
           c == Cardinality(D)
<1>1. Len(q) \in Nat /\ MaxSeen \in Nat
  BY VerificationAssumption
<1>2. D \in SUBSET (1 .. Len(q))
  BY DEF Dropped
<1>3. ASSUME NEW i \in D, NEW j \in 1 .. i PROVE j \in D
  <2>1. j \in 1 .. Len(q) /\ i \in 1 .. Len(q) /\ j <= i
    BY <1>1, <1>2
  <2>2. CASE \A m \in 1 .. i : q[m].at + NonceTTL <= t
    <3>1. \A m \in 1 .. j : q[m].at + NonceTTL <= t
      BY <2>1, <2>2
    <3> QED
      BY <2>1, <3>1 DEF Dropped
  <2>3. CASE i <= Len(q) - MaxSeen
    BY <1>1, <2>1, <2>3 DEF Dropped
  <2> QED
    BY <2>2, <2>3 DEF Dropped
<1>4. \A i \in D : 1 .. i \subseteq D
  BY <1>3
<1> HIDE DEF D
<1>5. c \in 0 .. Len(q) /\ D = 1 .. c
  BY <1>1, <1>2, <1>4, Initial
<1>6. Len(q) - c <= MaxSeen
  <2> SUFFICES ASSUME Len(q) - c > MaxSeen PROVE FALSE
    BY <1>1, <1>5
  <2>1. c + 1 \in 1 .. Len(q) /\ c + 1 <= Len(q) - MaxSeen
    BY <1>1, <1>5
  <2>2. c + 1 \in D
    BY <2>1 DEF D, Dropped
  <2> QED
    BY <1>5, <2>2
<1> QED
  BY <1>5, <1>6 DEF D, Pruned

\* What pruning a queue leaves of its nonces.
LEMMA PrunedNonces ==
  ASSUME NEW q \in Seq(Entry), NEW t \in Nat, Distinct(q)
  PROVE  /\ Distinct(Pruned(q, t))
         /\ Nonces(Pruned(q, t)) = Nonces(q) \ Forgotten(q, t)
         /\ Len(Pruned(q, t)) <= MaxSeen
<1>1. PICK c \in 0 .. Len(q) :
        /\ Dropped(q, t) = 1 .. c
        /\ Pruned(q, t) = SubSeq(q, c + 1, Len(q))
        /\ Len(q) - c <= MaxSeen
  BY PrunedFront
<1> DEFINE r == SubSeq(q, c + 1, Len(q))
<1>2. Len(q) \in Nat /\ DOMAIN q = 1 .. Len(q) /\ c \in Nat /\ c <= Len(q)
  OBVIOUS
<1>3. \A i \in c + 1 .. Len(q) : q[i] \in Entry
  BY <1>2, ElementOfSeq
<1>4. /\ Len(r) = Len(q) - c
      /\ \A i \in 1 .. Len(q) - c : r[i] = q[c + i]
      /\ r \in Seq(Entry)
  <2> DEFINE m == c + 1
             n == Len(q)
  <2>1. m \in Int /\ n \in Int /\ m <= n + 1 /\ \A i \in m .. n : q[i] \in Entry
    BY <1>2, <1>3
  <2>2. /\ SubSeq(q, m, n) \in Seq(Entry)
        /\ Len(SubSeq(q, m, n)) = IF m <= n THEN n - m + 1 ELSE 0
        /\ \A i \in 1 .. n - m + 1 : SubSeq(q, m, n)[i] = q[m + i - 1]
    BY ONLY <2>1, SubSeqProperties
  <2>3. Len(r) = Len(q) - c
    <3>1. CASE c < Len(q)
      <4>1. m <= n /\ n - m + 1 = Len(q) - c
        BY <1>2, <3>1
      <4> QED
        BY <2>2, <4>1, Zenon
    <3>2. CASE c = Len(q)
      <4>1. ~(m <= n) /\ Len(q) - c = 0
        BY <1>2, <3>2
      <4> QED
        BY <2>2, <4>1, Zenon
    <3>3. ASSUME NEW a \in Nat, NEW b \in Nat, a <= b PROVE a < b \/ a = b
      BY <3>3
    <3>4. c < Len(q) \/ c = Len(q)
      BY <1>2, <3>3, Zenon
    <3> QED
      BY <3>1, <3>2, <3>4, Zenon
  <2>4. ASSUME NEW i \in 1 .. Len(q) - c PROVE r[i] = q[c + i]
    <3>1. i \in 1 .. n - m + 1 /\ m + i - 1 = c + i
      BY <1>2
    <3> QED
      BY <2>2, <3>1
  <2> QED
    BY <2>2, <2>3, <2>4
<1>5. DOMAIN r = 1 .. Len(q) - c
  BY <1>4
<1> HIDE DEF r
<1>6. Distinct(r)
  <2> SUFFICES ASSUME NEW i \in DOMAIN r, NEW j \in DOMAIN r,
                      r[i].nonce = r[j].nonce
               PROVE  i = j
    BY DEF Distinct
  <2>1. /\ i \in 1 .. Len(q) - c /\ j \in 1 .. Len(q) - c
        /\ c + i \in DOMAIN q /\ c + j \in DOMAIN q
    BY <1>2, <1>5
  <2>2. q[c + i].nonce = q[c + j].nonce
    BY <1>4, <2>1
  <2>3. c + i = c + j
    BY <2>1, <2>2 DEF Distinct
  <2> QED
    BY <1>2, <2>1, <2>3
<1>7. ASSUME NEW k \in Nonces(r) PROVE k \in Nonces(q) \ Forgotten(q, t)
  <2>1. PICK i \in 1 .. Len(q) - c : k = q[c + i].nonce
    BY <1>4, <1>5 DEF Nonces
  <2>2. c + i \in DOMAIN q /\ c + i \notin Dropped(q, t)
    BY <1>1, <1>2
  <2>3. Dropped(q, t) \subseteq DOMAIN q
    BY <1>1, <1>2
  <2> QED
    BY <2>1, <2>2, <2>3 DEF Nonces, Forgotten, Distinct
<1>8. ASSUME NEW k \in Nonces(q), k \notin Forgotten(q, t) PROVE k \in Nonces(r)
  <2>1. PICK i \in DOMAIN q : k = q[i].nonce
    BY DEF Nonces
  <2>2. i \notin 1 .. c
    BY <1>1, <1>8, <2>1 DEF Forgotten
  <2>3. i - c \in 1 .. Len(q) - c /\ c + (i - c) = i
    BY <1>2, <2>2
  <2>4. r[i - c] = q[i]
    BY <1>4, <2>3
  <2> QED
    BY <1>5, <2>1, <2>3, <2>4 DEF Nonces
<1> QED
  BY <1>1, <1>4, <1>6, <1>7, <1>8 DEF r

\* A nonce the queue does not hold may be added at its end.
LEMMA AddedNonce ==
  ASSUME NEW q \in Seq(Entry), NEW e \in Entry, Distinct(q),
         e.nonce \notin Nonces(q)
  PROVE  /\ Append(q, e) \in Seq(Entry) /\ Distinct(Append(q, e))
         /\ Nonces(Append(q, e)) = Nonces(q) \cup {e.nonce}
<1> DEFINE r == Append(q, e)
<1>1. /\ r \in Seq(Entry) /\ Len(q) \in Nat
      /\ DOMAIN q = 1 .. Len(q) /\ DOMAIN r = 1 .. Len(q) + 1
      /\ \A i \in 1 .. Len(q) : r[i] = q[i]
      /\ r[Len(q) + 1] = e
  OBVIOUS
<1> HIDE DEF r
<1>2. \A i \in DOMAIN q : q[i].nonce # e.nonce
  BY DEF Nonces
<1>3. Distinct(r)
  BY <1>1, <1>2 DEF Distinct
<1>4. Nonces(r) = Nonces(q) \cup {e.nonce}
  BY <1>1 DEF Nonces
<1> QED
  BY <1>1, <1>3, <1>4 DEF r

\* As many nonces as entries.
LEMMA NoncesCount ==
  ASSUME NEW q \in Seq(Entry), Distinct(q)
  PROVE  Cardinality(Nonces(q)) = Len(q)
<1> DEFINE f == [i \in 1 .. Len(q) |-> q[i].nonce]
<1>1. Len(q) \in Nat /\ DOMAIN q = 1 .. Len(q)
  OBVIOUS
<1>2. IsFiniteSet(1 .. Len(q)) /\ Cardinality(1 .. Len(q)) = Len(q)
  BY <1>1, FS_Interval
<1>3. f \in Bijection(1 .. Len(q), Nonces(q))
  BY <1>1 DEF Distinct, Nonces, Bijection, Injection, Surjection, IsInjective
<1>4. ExistsBijection(1 .. Len(q), Nonces(q))
  BY <1>3 DEF ExistsBijection
<1> QED
  BY <1>2, <1>4, FS_Bijection

\* A process reads its queue only under its lock, and prunes it before and
\* after it adds a nonce.
LEMMA MemoryStep ==
  ASSUME TypeOK, MemoryInv, [Next]_vars
  PROVE  MemoryInv'
<1> USE VerificationAssumption
<1>0. /\ order \in [Processes -> Seq(Entry)]
      /\ seen \in [Processes -> SUBSET Keys]
  BY DEF TypeOK
<1> DEFINE Fine(S, q) == S = Nonces(q) /\ Distinct(q) /\ Len(q) <= MaxSeen
<1>1. ASSUME NEW p \in Processes, NEW S, NEW q, Fine(S, q),
             seen' = [seen EXCEPT ![p] = S], order' = [order EXCEPT ![p] = q]
      PROVE  MemoryInv'
  BY <1>0, <1>1 DEF MemoryInv
<1>2. ASSUME NEW v \in Verifications, NonceKnown(v) PROVE MemoryInv'
  <2> DEFINE p == ProcessOf[v]
             q == order[p]
  <2>1. PICK t \in at[v] .. clock :
          /\ seen' = [seen EXCEPT ![p] = seen[p] \ Forgotten(q, t)]
          /\ order' = [order EXCEPT ![p] = Pruned(q, t)]
    BY <1>2 DEF NonceKnown
  <2>2. t \in Nat /\ p \in Processes /\ q \in Seq(Entry)
    BY <1>0, ReadingNat
  <2>3. seen[p] = Nonces(q) /\ Distinct(q)
    BY <2>2 DEF MemoryInv
  <2>4. Fine(seen[p] \ Forgotten(q, t), Pruned(q, t))
    BY <2>2, <2>3, PrunedNonces
  <2> QED
    BY <1>1, <2>1, <2>2, <2>4
<1>3. ASSUME NEW v \in Verifications, ConsumeNonce(v) PROVE MemoryInv'
  <2> DEFINE p == ProcessOf[v]
             k == ProofOf[v]
             q == order[p]
             Kept(t) == seen[p] \ Forgotten(q, t)
             Entered(t) == [nonce |-> k, at |-> t]
             Added(t) == Append(Pruned(q, t), Entered(t))
  <2>1. PICK t \in at[v] .. clock :
          /\ k \notin Kept(t)
          /\ seen' = [seen EXCEPT
                        ![p] = (Kept(t) \cup {k}) \ Forgotten(Added(t), t)]
          /\ order' = [order EXCEPT ![p] = Pruned(Added(t), t)]
    BY <1>3 DEF ConsumeNonce
  <2>2. t \in Nat /\ p \in Processes /\ q \in Seq(Entry) /\ k \in Keys
    BY <1>0, ReadingNat
  <2>3. seen[p] = Nonces(q) /\ Distinct(q)
    BY <2>2 DEF MemoryInv
  <2>4. /\ Pruned(q, t) \in Seq(Entry) /\ Distinct(Pruned(q, t))
        /\ Nonces(Pruned(q, t)) = Kept(t)
    BY <2>2, <2>3, PrunedNonces, PrunedType
  <2>5. Entered(t) \in Entry /\ Entered(t).nonce = k
    BY <2>2 DEF Entry
  <2>6. /\ Added(t) \in Seq(Entry) /\ Distinct(Added(t))
        /\ Nonces(Added(t)) = Kept(t) \cup {k}
    <3> HIDE DEF Kept, Entered
    <3> QED
      BY <2>1, <2>4, <2>5, AddedNonce
  <2>7. Fine((Kept(t) \cup {k}) \ Forgotten(Added(t), t), Pruned(Added(t), t))
    <3> HIDE DEF Kept, Added
    <3> QED
      BY <2>2, <2>6, PrunedNonces
  <2> QED
    BY <1>1, <2>1, <2>2, <2>7
<1>4. ASSUME NEW p \in Processes, Restart(p) PROVE MemoryInv'
  <2>1. Fine({}, <<>>)
    BY DEF Nonces, Distinct
  <2> QED
    BY <1>1, <1>4, <2>1 DEF Restart
<1>5. ASSUME UNCHANGED <<seen, order>> PROVE MemoryInv'
  BY <1>5 DEF MemoryInv
<1>6. ASSUME NEW v \in Verifications,
             Check(v) \/ Invalid(v) \/ Accept(v) \/ RefuseTaken(v)
               \/ LedgerRaises(v)
      PROVE  UNCHANGED <<seen, order>>
  BY <1>6 DEF Check, Invalid, Accept, RefuseTaken, LedgerRaises
<1>7. OtherPurge \/ Tick \/ UNCHANGED vars => UNCHANGED <<seen, order>>
  BY DEF OtherPurge, Tick, vars
<1> QED
  BY <1>2, <1>3, <1>4, <1>5, <1>6, <1>7 DEF Next, VerificationStep

\* MemoryAgrees: whatever order the threads of a process take the lock in,
\* with clock readings as old as they like, the set and the queue hold the
\* same nonces, each once, and at most MaxSeen of them.
THEOREM MemoryStaysInStep == Spec => []MemoryAgrees
<1>1. Init => MemoryInv
  BY VerificationAssumption DEF Init, MemoryInv, Nonces, Distinct
<1>2. TypeOK /\ MemoryInv /\ [Next]_vars => MemoryInv'
  BY MemoryStep
<1>3. TypeOK /\ MemoryInv => MemoryAgrees
  BY NoncesCount DEF TypeOK, MemoryInv, MemoryAgrees, Nonces
<1> QED
  BY <1>1, <1>2, <1>3, ResultTypes, PTL DEF Spec
=============================================================================
