--------------------------- MODULE FeatureAgents ---------------------------
(***************************************************************************)
(* The agents of the feature phases (src/src/blind_auction.py,             *)
(* agent_dao.py, reputation_ledger.py, kyc_pipeline.py,                    *)
(* decision_audit_agent.py, temporal_delegation.py, secret_vault_agent.py, *)
(* performance_bond.py, cross_tenant_collab.py) and the functions of the   *)
(* contract they call.  The contract keeps nothing between two calls: each *)
(* agent tells it what it knows, and keeps what was answered.              *)
(*                                                                         *)
(* The agents share nothing, so a behaviour is the life of one of them:    *)
(* `phase' says which.  A call may fail: tee_invoke_fn raises.             *)
(*                                                                         *)
(* Floats are integers: money that comes in counts a unit that divides the *)
(* cent, money that the contract answers counts cents, quality and         *)
(* confidence count hundredths.  Ids made of a hash are the values hashed. *)
(***************************************************************************)
EXTENDS Integers, Sequences, FiniteSets, SequencesExt

CONSTANTS
  Agents,      \* a sequence: the order in which they are ranked
  Owner,       \* the coordinator, who owns the vault
  Cent,        \* the units of money in a cent
  Amounts,     \* the amounts of bids and of bonds, in units
  Qualities,   \* quality scores and confidences
  Terms,       \* durations of grants and bonds
  Records,     \* the records of a tenant: nonempty sequences, in units
  MaxCalls,    \* bound: calls that were answered
  MaxClock,    \* bound: the clock, in seconds
  None

Dids == ToSet(Agents)
KycSteps == {"identity", "address", "financial", "compliance"}

ASSUME FeatureAssumption ==
  /\ Agents \in Seq(Dids) /\ Owner \notin Dids
  /\ Cent \in Nat \ {0}
  /\ Amounts \subseteq Nat /\ Terms \subseteq Nat
  /\ Qualities \subseteq 0 .. 100
  /\ Records \subseteq Seq(Int) \ {<<>>}
  /\ MaxCalls \in Nat /\ MaxClock \in Nat \ {0}

VARIABLES
  phase,    \* whose life this is
  kept,     \* the lists of the agents: bids, votes, tasks, steps, decisions,
            \* and the results of the tenants
  told,     \* history: the calls behind them that were answered
  winner,   \* BlindAuction.result
  grants,   \* TemporalDelegation._grants: per token, its metadata
  issued,   \* history: the grants issued, with the token each was given
  vault,    \* SecretVaultAgent._vaults, of one label: the DIDs allowed
  stored,   \* history: the lists it was stored with, in order
  uses,     \* history: who used it, and how many lists had been stored
  bonds,    \* PerformanceBond._bonds, of one task: per agent, its bond
  locks,    \* history: the bonds locked, in order
  paid,     \* history: the settlements, and how many bonds had been locked
  clock,
  calls     \* the calls so far

lists == <<kept, told>>
secret == <<vault, stored, uses>>
escrow == <<bonds, locks, paid>>
vars == <<phase, lists, winner, grants, issued, secret, escrow, clock, calls>>

-----------------------------------------------------------------------------
(***************************************************************************)
(* What each list holds, and the contract's answers                        *)
(***************************************************************************)

Bid == [bidder : Dids, amount : Amounts]
Vote == [voter : Dids, vote : {"FOR", "AGAINST", "ABSTAIN"}]
Task == [agent : Dids, quality : Qualities, on_time : BOOLEAN]
Decision == [agent : Dids, confidence : Qualities]

\* The integers next to total over count.  When it lies half way they are two,
\* and either is answered: Rust rounds away from zero, Python to the even one,
\* and a float may fall short of the half or exceed it.
Nearest(total, count) ==
  LET low == total \div count IN
  {m \in {low, low + 1} : /\ 2 * (m * count - total) <= count
                          /\ 2 * (total - m * count) <= count}

\* The score of get_reputation, of a total that is not negative: half a
\* hundredth goes up.
Rounded(total, count) == (2 * total + count) \div (2 * count)

Total(s) == SumFunction(s)

\* Wrong variant of the next: the last of the lowest bids.
LowestLast(bids) ==
  bids[CHOOSE n \in DOMAIN bids :
         \A m \in DOMAIN bids : \/ bids[n].amount < bids[m].amount
                                \/ /\ bids[n].amount = bids[m].amount
                                   /\ m <= n]

\* resolve_auction: the first of the lowest bids.
Lowest(bids) ==
  bids[CHOOSE n \in DOMAIN bids :
         \A m \in DOMAIN bids : \/ bids[n].amount < bids[m].amount
                                \/ /\ bids[n].amount = bids[m].amount
                                   /\ n <= m]

\* Wrong variant of the next: it is being late that counts.
WeightLate(t) == 7 * t.quality + IF t.on_time THEN 0 ELSE 300

\* What a task weighs: 0.7 of its quality and 0.3 of its being on time, in
\* thousandths.
Weight(t) == 7 * t.quality + IF t.on_time THEN 300 ELSE 0

\* get_reputation: an agent without a task is UNRATED, with score 0.
TasksOf(a) == {n \in DOMAIN kept.tasks : kept.tasks[n].agent = a}

Reputation(a) ==
  LET history == TasksOf(a) IN
  IF history = {} THEN 0
  ELSE Rounded(Total([n \in history |-> Weight(kept.tasks[n])]),
               10 * Cardinality(history))

\* rank_agents: highest first; the sort is stable.
Position(a) ==
  LET before(n, m) == \/ Reputation(Agents[n]) > Reputation(Agents[m])
                      \/ /\ Reputation(Agents[n]) = Reputation(Agents[m])
                         /\ n < m IN
  LET i == CHOOSE n \in DOMAIN Agents : Agents[n] = a IN
  1 + Cardinality({n \in DOMAIN Agents : before(n, i)})

\* process_data: its total and its average, each rounded to the cent (the trend
\* and the extremes are left out).
Processed(records) ==
  {[n |-> Len(records), total |-> total, average |-> average] :
     total \in Nearest(Total(records), Cent),
     average \in Nearest(Total(records), Cent * Len(records))}

\* Wrong variant of the next: the average of the averages.
AggregateAverages(results) ==
  {[n |-> Total([i \in DOMAIN results |-> results[i].n]),
    total |-> Total([i \in DOMAIN results |-> results[i].total]),
    average |-> average] :
     average \in Nearest(Total([i \in DOMAIN results |-> results[i].average]),
                         Len(results))}

\* aggregate_results, of at least one tenant.  A sum of cents is whole: the
\* code's round changes the average only.
Aggregate(results) ==
  LET n == Total([i \in DOMAIN results |-> results[i].n])
      total == Total([i \in DOMAIN results |-> results[i].total]) IN
  {[n |-> n, total |-> total, average |-> average] :
     average \in Nearest(total, n)}

\* check_grant: a token the agent does not know has expired at epoch 0.
Valid(token, now) ==
  now <= IF token \in DOMAIN grants THEN grants[token] ELSE 0

\* verify-and-settle: the share paid out of a task done in time.
Share(quality) ==
  IF quality >= 90 THEN 100 ELSE IF quality >= 70 THEN quality ELSE 25

\* Wrong variant of the next: a task not done costs the agent the bond again.
PayoutSlashing(bond, now, completed, quality) ==
  IF ~completed THEN -100
  ELSE IF now > bond.deadline THEN 50 ELSE Share(quality)

\* verify-and-settle: the share paid out, in percent.
Payout(bond, now, completed, quality) ==
  IF ~completed THEN 0
  ELSE IF now > bond.deadline THEN 50 ELSE Share(quality)

-----------------------------------------------------------------------------
Lists == [bids : Seq(Bid), votes : Seq(Vote), tasks : Seq(Task),
          steps : Seq(KycSteps), decisions : Seq(Decision),
          tenants : Seq([n : Nat, total : Int, average : Int])]

Token == [grantee : Dids, until : Nat, at : 0 .. MaxClock]
Bond == [amount : Amounts, deadline : Nat]

Nothing == [bids |-> <<>>, votes |-> <<>>, tasks |-> <<>>, steps |-> <<>>,
            decisions |-> <<>>, tenants |-> <<>>]

Phases == DOMAIN Nothing \cup {"grants", "vault", "bonds"}

TypeOK ==
  /\ phase \in Phases
  /\ kept \in Lists
  /\ told.tenants \in Seq(Records)
  /\ winner \in Bid \cup {None}
  /\ DOMAIN grants \subseteq Token /\ \A t \in DOMAIN grants : grants[t] \in Nat
  /\ issued \subseteq [token : Token, until : Nat]
  /\ vault \in (SUBSET Dids) \cup {None} /\ stored \in Seq(SUBSET Dids)
  /\ uses \subseteq [by : Dids \cup {Owner}, after : Nat]
  /\ DOMAIN bonds \subseteq Dids /\ \A b \in DOMAIN bonds : bonds[b] \in Bond
  /\ locks \in Seq([agent : Dids, amount : Amounts, deadline : Nat])
  /\ paid \subseteq [agent : Dids, after : Nat, amount : Nat, at : Nat]
  /\ clock \in 0 .. MaxClock /\ calls \in 0 .. MaxCalls

Init ==
  /\ phase \in Phases
  /\ kept = Nothing /\ told = Nothing
  /\ winner = None
  /\ vault = None /\ stored = <<>> /\ uses = {}
  /\ grants = <<>> /\ issued = {}
  /\ bonds = <<>> /\ locks = <<>> /\ paid = {}
  /\ clock = 1 /\ calls = 0

Calling(p) ==
  /\ phase = p
  /\ calls < MaxCalls
  /\ calls' = calls + 1
  /\ UNCHANGED phase

-----------------------------------------------------------------------------
(***************************************************************************)
(* The lists: an item is kept when the contract has answered, so that a    *)
(* call that failed may be made again                                      *)
(***************************************************************************)

\* Wrong variant of the next: the item is kept before the contract is asked.
KeepsFirst(list, x, answered, item) ==
  /\ kept' = [kept EXCEPT ![list] = Append(@, x)]
  /\ told' = IF answered THEN [told EXCEPT ![list] = Append(@, item)] ELSE told

Keeps(list, x, answered, item) ==
  IF answered THEN /\ kept' = [kept EXCEPT ![list] = Append(@, x)]
                   /\ told' = [told EXCEPT ![list] = Append(@, item)]
              ELSE UNCHANGED lists

Tells(list, x, item) ==
  /\ Calling(list)
  /\ \E answered \in BOOLEAN : Keeps(list, x, answered, item)
  /\ UNCHANGED <<winner, grants, issued, secret, escrow, clock>>

SubmitBid(bid) == Tells("bids", bid, bid)
CastVote(vote) == Tells("votes", vote, vote)
RecordTask(task) == Tells("tasks", task, task)
SubmitStep(step) == Tells("steps", step, step)
LogDecision(decision) == Tells("decisions", decision, decision)
ProcessTenantData(records) ==
  \E figures \in Processed(records) : Tells("tenants", figures, records)

\* resolve: of the bids so far, and again of later ones.
Resolve ==
  /\ Calling("bids")
  /\ kept.bids # <<>>
  /\ winner' = Lowest(kept.bids)
  /\ UNCHANGED <<lists, grants, issued, secret, escrow, clock>>

-----------------------------------------------------------------------------
(***************************************************************************)
(* Grants, the vault and bonds.  A call that fails changes nothing and is  *)
(* left out.                                                               *)
(***************************************************************************)

\* Wrong variant of the next: the expiry is not hashed.
TokenUndated(a, until) == [grantee |-> a, until |-> 0, at |-> clock]

\* issue_time_grant: the nonce is the coordinator and the epoch.
TokenOf(a, until) == [grantee |-> a, until |-> until, at |-> clock]

\* issue_grant.
IssueGrant(a, term) ==
  LET until == clock + term
      token == TokenOf(a, until) IN
  /\ Calling("grants")
  /\ grants' = [t \in DOMAIN grants \cup {token} |->
                  IF t = token THEN until ELSE grants[t]]
  /\ issued' = issued \cup {[token |-> token, until |-> until]}
  /\ UNCHANGED <<lists, winner, secret, escrow, clock>>

\* Wrong variant of the next: who was allowed stays allowed.
StoreSecretAdding(allowed) ==
  /\ Calling("vault")
  /\ vault' = allowed \cup (IF vault = None THEN {} ELSE vault)
  /\ stored' = Append(stored, allowed)
  /\ UNCHANGED <<lists, winner, grants, issued, uses, escrow, clock>>

\* store_secret: the label is taken over.
StoreSecret(allowed) ==
  /\ Calling("vault")
  /\ vault' = allowed
  /\ stored' = Append(stored, allowed)
  /\ UNCHANGED <<lists, winner, grants, issued, uses, escrow, clock>>

\* invoke_with_secret.
InvokeWithSecret(d) ==
  /\ Calling("vault")
  /\ vault # None
  /\ d \in vault \cup {Owner}
  /\ uses' = uses \cup {[by |-> d, after |-> Len(stored)]}
  /\ UNCHANGED <<lists, winner, grants, issued, vault, stored, escrow, clock>>

\* Wrong variant of the next: the first lock stays.
BondedFirst(a, bond) ==
  IF a \in DOMAIN bonds THEN bonds
  ELSE [b \in DOMAIN bonds \cup {a} |-> IF b = a THEN bond ELSE bonds[b]]

\* The bond id is a hash of the agent and the task: locking again replaces.
Bonded(a, bond) ==
  [b \in DOMAIN bonds \cup {a} |-> IF b = a THEN bond ELSE bonds[b]]

\* lock_bond.
LockBond(a, amount, term) ==
  LET bond == [amount |-> amount, deadline |-> clock + term] IN
  /\ Calling("bonds")
  /\ bonds' = Bonded(a, bond)
  /\ locks' = Append(locks, [agent |-> a, amount |-> amount,
                             deadline |-> bond.deadline])
  /\ UNCHANGED <<lists, winner, grants, issued, secret, paid, clock>>

\* settle_bond: the share of the bond is rounded to the cent (lib.rs:1051).  The
\* bond stays, and may be settled again.
SettleBond(a, completed, quality) ==
  /\ Calling("bonds")
  /\ a \in DOMAIN bonds
  /\ \E amount \in Nearest(bonds[a].amount
                              * Payout(bonds[a], clock, completed, quality),
                            100 * Cent) :
       paid' = paid \cup {[agent |-> a, after |-> Len(locks), at |-> clock,
                           amount |-> amount]}
  /\ UNCHANGED <<lists, winner, grants, issued, secret, bonds, locks, clock>>

Tick ==
  /\ phase \in {"grants", "bonds"}
  /\ clock < MaxClock
  /\ clock' = clock + 1
  /\ UNCHANGED <<phase, lists, winner, grants, issued, secret, escrow, calls>>

-----------------------------------------------------------------------------
Next ==
  \/ \E bid \in Bid : SubmitBid(bid)
  \/ \E vote \in Vote : CastVote(vote)
  \/ \E task \in Task : RecordTask(task)
  \/ \E step \in KycSteps : SubmitStep(step)
  \/ \E decision \in Decision : LogDecision(decision)
  \/ \E records \in Records : ProcessTenantData(records)
  \/ Resolve
  \/ \E a \in Dids, term \in Terms : IssueGrant(a, term)
  \/ \E allowed \in SUBSET Dids : StoreSecret(allowed)
  \/ \E d \in Dids \cup {Owner} : InvokeWithSecret(d)
  \/ \E a \in Dids, amount \in Amounts, term \in Terms :
       LockBond(a, amount, term)
  \/ \E a \in Dids, completed \in BOOLEAN, quality \in Qualities :
       SettleBond(a, completed, quality)
  \/ Tick

Spec == Init /\ [][Next]_vars

-----------------------------------------------------------------------------
(***************************************************************************)
(* Properties                                                              *)
(***************************************************************************)

\* A call that failed leaves no trace and one that was answered leaves one:
\* a caller that tries again votes, bids or reports once.
KeptAsTold ==
  /\ \A list \in {"bids", "votes", "tasks", "steps", "decisions"} :
       kept[list] = told[list]
  /\ Len(kept.tenants) = Len(told.tenants)

\* Resolving an auction again, with the bids that came since, takes it away
\* from its winner only for a strictly lower one.
WinnerStable ==
  [][winner # None /\ winner' # winner => winner'.amount < winner.amount]_winner

\* temporal_delegation.py:9, "grants expire automatically": a token is valid
\* exactly until the expiry it was issued with, whatever is issued after it.
GrantUntilExpiry ==
  \A g \in issued, now \in 1 .. MaxClock :
    Valid(g.token, now) <=> now <= g.until

\* An agent that delivers a task of full quality in time keeps its place in
\* the ranking, or gains.
PerfectKeepsPlace ==
  [][\A a \in Dids :
       kept'.tasks = Append(kept.tasks,
                            [agent |-> a, quality |-> 100, on_time |-> TRUE])
         => Position(a)' <= Position(a)]_kept

Within(x, y, d) == x - y <= d /\ y - x <= d

\* The combined figures of the tenants against those of all their records
\* together.  Each tenant's total comes rounded and the average is rounded
\* again, so they are not the same: the count is exact, the total is off by
\* half a cent for each tenant at most, and the average by one cent at most,
\* however many tenants there are.
AggregateClose ==
  LET all == FlattenSeq(told.tenants) IN
  kept.tenants # <<>> =>
    \A figures \in Aggregate(kept.tenants) :
      /\ figures.n = Len(all)
      /\ Within(2 * Cent * figures.total, 2 * Total(all),
                Cent * Len(kept.tenants))
      /\ Within(Cent * Len(all) * figures.average, Total(all),
                Cent * Len(all))

\* A secret is used by its owner, or by who was allowed when it was stored
\* last: storing it again takes the permission away.
UsedAsStored ==
  \A u \in uses : u.by = Owner \/ u.by \in stored[u.after]

\* What a settlement pays is covered by the bond the agent locked last, and is
\* half of it (performance_bond.py:11) or less when the agent is late for that
\* one, but for the rounding of what is paid: half a cent at most.
PaidFromLastLock ==
  \A p \in paid :
    LET lock == SelectLastInSubSeq(locks, 1, p.after,
                                   LAMBDA l : l.agent = p.agent)
        share == IF p.at > locks[lock].deadline THEN 50 ELSE 100 IN
    2 * 100 * Cent * p.amount <= 2 * share * locks[lock].amount + 100 * Cent
=============================================================================
