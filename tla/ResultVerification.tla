------------------------- MODULE ResultVerification -------------------------
(***************************************************************************)
(* A coordinator accepting signed worker results: verify_worker_result     *)
(* (src/src/result_verifier.py) with its two replay guards, the nonces the *)
(* process remembers and the durable ledger all processes share.           *)
(*                                                                         *)
(* A verification is one invocation of verify_worker_result on one signed  *)
(* result, in one coordinator process; the result's nonce is drawn once    *)
(* per result, so the result's key stands for it too.  A process may die   *)
(* ("restart", its verifications end and its memory is empty), a           *)
(* transaction of the ledger may raise ("ledger", the database stays       *)
(* locked or the row fails its HMAC).                                      *)
(***************************************************************************)
EXTENDS ReplayLedger, FiniteSets, Sequences

CONSTANTS
  Verifications,  \* invocations of verify_worker_result
  ProofOf,        \* the signed result each was given
  Processes,      \* coordinator processes
  ProcessOf,      \* where each verification runs
  SignedAt,       \* when the worker signed each result
  ProofTTL,       \* PROOF_TTL_SECONDS: how long its signature is accepted
  ReplayTTL,      \* RESULT_REPLAY_TTL_SECONDS: how long the ledger keeps it
  NonceTTL,       \* SEEN_NONCE_TTL_SECONDS: how long the process does
  MaxSeen,        \* MAX_SEEN_NONCES: how many nonces the process keeps
  Delay,          \* how long one step of a verification takes, at most
  Timely,         \* whether Delay bounds the real execution
  Mishaps,        \* what may go wrong
  MaxClock        \* bound of the clock

ASSUME VerificationAssumption ==
  /\ ProofOf \in [Verifications -> Keys]
  /\ ProcessOf \in [Verifications -> Processes]
  /\ SignedAt \in [Keys -> Nat]
  /\ ProofTTL \in Nat /\ ReplayTTL \in Nat /\ NonceTTL \in Nat \ {0}
  /\ MaxSeen \in Nat \ {0} /\ Delay \in Nat /\ MaxClock \in Nat
  /\ Timely \in BOOLEAN
  /\ Mishaps \subseteq {"restart", "ledger"}

\* A verification that began before the signature expired commits before the
\* ledger forgets the result: 300 s and two waits fit in 900 s.
ASSUME RetentionAssumption == Timely => ProofTTL + 2 * Delay < ReplayTTL

VARIABLES
  ledger,   \* the table replay_entries
  clock,    \* time.time(), and time.monotonic() of every process
  seen,     \* _seen of each process: the nonces it has consumed
  order,    \* _seen_order: the same nonces, with the times they were consumed
  stage,    \* how far each verification is
  at        \* when it took its last step, while it is under way

vars == <<ledger, clock, seen, order, stage, at>>

Pending == {"checked", "consumed"}

Stages == {"idle", "accepted", "invalid", "known", "taken", "raised", "lost"}
            \cup Pending

Entry == [nonce : Keys, at : Nat]

TypeOK == /\ ledger \in [Keys -> Row]
          /\ clock \in Nat
          /\ seen \in [Processes -> SUBSET Keys]
          /\ order \in [Processes -> Seq(Entry)]
          /\ stage \in [Verifications -> Stages]
          /\ at \in [Verifications -> Nat]

Init == /\ ledger = [k \in Keys |-> NoRow]
        /\ clock = 0
        /\ seen = [p \in Processes |-> {}]
        /\ order = [p \in Processes |-> <<>>]
        /\ stage = [v \in Verifications |-> "idle"]
        /\ at = [v \in Verifications |-> 0]

\* Verification v moves between two stages.
Moves(v, from, to) ==
  /\ stage[v] = from
  /\ stage' = [stage EXCEPT ![v] = to]
  /\ at' = [at EXCEPT ![v] = IF to \in Pending THEN clock ELSE 0]

-----------------------------------------------------------------------------
(***************************************************************************)
(* The nonces a process remembers                                          *)
(***************************************************************************)

\* Wrong variant of Forgotten: the loop over the limit leaves the set alone.
ForgottenByAge(q, t) ==
  {q[i].nonce : i \in {j \in 1 .. Len(q) : q[j].at + NonceTTL <= t}}

\* Wrong variant of KeptUntil: the row lives as long as the signature.
KeptUntilProof(t) == t + ProofTTL

\* The positions _prune_seen_nonces_locked drops from a queue at time t: from
\* the front as long as entries are old, and on until the limit is met.
Dropped(q, t) ==
  {n \in 1 .. Len(q) : \/ \A i \in 1 .. n : q[i].at + NonceTTL <= t
                       \/ n <= Len(q) - MaxSeen}

Pruned(q, t) == SubSeq(q, Cardinality(Dropped(q, t)) + 1, Len(q))

\* The nonces it discards from the set.
Forgotten(q, t) == {q[i].nonce : i \in Dropped(q, t)}

\* How long the ledger keeps a result consumed at time t.
KeptUntil(t) == t + ReplayTTL

-----------------------------------------------------------------------------
(***************************************************************************)
(* verify_worker_result                                                    *)
(***************************************************************************)

\* The result and its receipt are signed by the expected parties, for this
\* coordinator and delegation, and not expired.
Check(v) ==
  /\ SignedAt[ProofOf[v]] <= clock
  /\ clock <= SignedAt[ProofOf[v]] + ProofTTL
  /\ Moves(v, "idle", "checked")
  /\ UNCHANGED <<ledger, clock, seen, order>>

\* The signature is too old.
Invalid(v) ==
  /\ clock > SignedAt[ProofOf[v]] + ProofTTL
  /\ Moves(v, "idle", "invalid")
  /\ UNCHANGED <<ledger, clock, seen, order>>

\* _consume_result_nonce reads the time t, takes the lock, prunes, and finds
\* the nonce in the set.
NonceKnown(v) ==
  LET p == ProcessOf[v]
      q == order[p]
  IN \E t \in at[v] .. clock :
       /\ ProofOf[v] \in seen[p] \ Forgotten(q, t)
       /\ seen' = [seen EXCEPT ![p] = @ \ Forgotten(q, t)]
       /\ order' = [order EXCEPT ![p] = Pruned(q, t)]
       /\ Moves(v, "checked", "known")
       /\ UNCHANGED <<ledger, clock>>

\* It does not find it, adds it, and prunes again.
ConsumeNonce(v) ==
  LET p == ProcessOf[v]
      k == ProofOf[v]
      q == order[p]
  IN \E t \in at[v] .. clock :
       LET kept  == seen[p] \ Forgotten(q, t)
           added == Append(Pruned(q, t), [nonce |-> k, at |-> t])
       IN /\ k \notin kept
          /\ seen' = [seen EXCEPT ![p] = (kept \cup {k}) \ Forgotten(added, t)]
          /\ order' = [order EXCEPT ![p] = Pruned(added, t)]
          /\ Moves(v, "checked", "consumed")
          /\ UNCHANGED <<ledger, clock>>

\* consume_result_replay with the now_ts t stores the result's row: the
\* result is accepted.
Accept(v) ==
  LET k == ProofOf[v] IN
  \E t \in at[v] .. clock :
    /\ ConsumeAccepts(ledger, k, t)
    /\ ledger' = AfterConsume(ledger, k, t, KeptUntil(t))
    /\ Moves(v, "consumed", "accepted")
    /\ UNCHANGED <<clock, seen, order>>

\* It finds the row: the result was consumed before.
RefuseTaken(v) ==
  \E t \in at[v] .. clock :
    /\ ~ConsumeAccepts(ledger, ProofOf[v], t)
    /\ ledger' = Purge(ledger, t)
    /\ Moves(v, "consumed", "taken")
    /\ UNCHANGED <<clock, seen, order>>

\* Wrong variant of the next: the row is stored although the call raises.
LedgerRaisesLate(v) ==
  /\ "ledger" \in Mishaps
  /\ ledger' = AfterConsume(ledger, ProofOf[v], clock, KeptUntil(clock))
  /\ Moves(v, "consumed", "raised")
  /\ UNCHANGED <<clock, seen, order>>

\* It raises and rolls back.  The nonce stays consumed in this process.
LedgerRaises(v) ==
  /\ "ledger" \in Mishaps
  /\ Moves(v, "consumed", "raised")
  /\ UNCHANGED <<ledger, clock, seen, order>>

-----------------------------------------------------------------------------
(***************************************************************************)
(* The rest of the world                                                   *)
(***************************************************************************)

\* Process p dies and starts again with an empty memory.
Restart(p) ==
  /\ "restart" \in Mishaps
  /\ seen' = [seen EXCEPT ![p] = {}]
  /\ order' = [order EXCEPT ![p] = <<>>]
  /\ stage' = [v \in Verifications |->
                 IF ProcessOf[v] = p /\ stage[v] \in Pending
                 THEN "lost" ELSE stage[v]]
  /\ at' = [v \in Verifications |-> IF ProcessOf[v] = p THEN 0 ELSE at[v]]
  /\ UNCHANGED <<ledger, clock>>

\* A transaction on another key purges every expired row.
OtherPurge == /\ ledger' = Purge(ledger, clock)
              /\ UNCHANGED <<clock, seen, order, stage, at>>

\* Real-time assumption of Timely runs.
NobodyLate == \A v \in Verifications :
                stage[v] \in Pending => clock < at[v] + Delay

Tick == /\ clock < MaxClock
        /\ Timely => NobodyLate
        /\ clock' = clock + 1
        /\ UNCHANGED <<ledger, seen, order, stage, at>>

VerificationStep(v) ==
  \/ Check(v) \/ Invalid(v) \/ NonceKnown(v) \/ ConsumeNonce(v)
  \/ Accept(v) \/ RefuseTaken(v) \/ LedgerRaises(v)

Next == \/ \E v \in Verifications : VerificationStep(v)
        \/ \E p \in Processes : Restart(p)
        \/ OtherPurge \/ Tick

Spec == Init /\ [][Next]_vars

-----------------------------------------------------------------------------
(***************************************************************************)
(* Properties                                                              *)
(***************************************************************************)

\* A signed result is accepted once, by whichever process, also when a
\* process restarts or forgets nonces at its limit ("persists accepted result
\* fingerprints in a durable replay ledger so restarts do not re-accept the
\* same signed result", README.md).
AcceptedOnce ==
  \A v, w \in Verifications :
    /\ ProofOf[v] = ProofOf[w]
    /\ stage[v] = "accepted" /\ stage[w] = "accepted"
    => v = w

\* _seen and _seen_order hold the same nonces, each once and no more than
\* MAX_SEEN_NONCES of them, whatever order the threads of a process get the
\* lock in: otherwise a nonce would stay in the set for ever.
MemoryAgrees ==
  \A p \in Processes :
    /\ seen[p] = {order[p][i].nonce : i \in DOMAIN order[p]}
    /\ Cardinality(seen[p]) = Len(order[p])
    /\ Len(order[p]) <= MaxSeen

\* A refusal as duplicate is never the only answer to a result: the ledger
\* refuses it only if some verification accepted it, a process refuses it
\* only if some verification of that process got as far as the ledger.
RefusalJustified ==
  \A v \in Verifications :
    /\ stage[v] = "taken" =>
         \E w \in Verifications :
           ProofOf[w] = ProofOf[v] /\ stage[w] = "accepted"
    /\ stage[v] = "known" =>
         \E w \in Verifications :
           /\ ProofOf[w] = ProofOf[v] /\ ProcessOf[w] = ProcessOf[v]
           /\ stage[w] \in {"consumed", "accepted", "taken", "raised", "lost"}
=============================================================================
