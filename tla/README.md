# A TLA+ verification of the agent delegation network

The repository lets one agent (the *coordinator*) hand a task to another (the
*worker*) under a signed authorization, run it at most a bounded number of
times, and accept its signed result once. This directory models the parts of
it in which order, time and failure decide, checks them with TLC on small
instances, and proves their main properties with TLAPS for every instance.

Contents: [the system](#1-the-system), [plan](#2-plan),
[the modules and the code](#3-the-modules-and-the-code), [runs](#4-runs),
[fairness](#5-fairness), [proofs](#6-proofs),
[where code and documents disagree](#7-where-code-and-documents-disagree),
[abstractions and what is not modelled](#8-abstractions-and-what-is-not-modelled).
Paths are relative to the repository, the directory `src/`; `py/` stands for `src/src/` and
`ts/` for `src/t3n-bridge/src/`.

## 1. The system

| component | state | operations | talks to | hard behaviour | what makes it correct |
|---|---|---|---|---|---|
| replay ledger, `py/replay_ledger.py` | one SQLite row per signed request or result: state, attempts, `updated_at`, `expires_at`, token | begin, heartbeat, finalize, consume; each one transaction that may purge | every worker and coordinator process shares the file | clock read before the database is waited for; leases that lapse; rows purged at their expiry | bounded attempts; a settled request stays settled; only the holder renews |
| agent, `py/agent_delegation_network.py` | its tables of requests and results, its log, its handlers; of each call its progress and a heartbeat thread | `delegate_task`, `process_delegation_request` | protocol, policy, receipts, ledger, handler | threads and processes on one request, crashes, raising transactions, a dead heartbeat | one handler at a time; an answer COMPLETED is recorded; tables and log agree |
| protocol, policy, receipts, `py/delegation_protocol.py`, `py/delegation_policy.py`, `py/tee_authorization.py` | rules and trust, in memory and in a file | validate, evaluate, verify receipt; add, remove, save, load | agent, signing adapter | expiry compared at different moments; a policy read in three parts without a lock; a file truncated before it is written | nothing runs that is not allowed, for the right agent, in time |
| result verifier, `py/result_verifier.py` | nonces seen by the process, with a limit and an age | `verify_worker_result` | signing adapter, ledger | two guards one after the other, a lock taken after the time is read, restarts, eviction | a result is accepted once; no refusal without a reason |
| signing adapter, identities, API client | keys | sign, verify | all of the above | freshness window | a signature is accepted only in its window |
| gateway executor and client, `ts/gateway_executor.ts`, `ts/gateway_client.ts` | pending calls, one receive buffer, one socket | health, public key, sign receipt, close | the bridge, over a local socket | calls that dial over each other, half answers, a dropped connection | a call is settled by its own answer; nothing is left behind |
| worker executor and client, `adn/worker_executor.py`, `ts/worker_client.ts` | a table of signing sessions; the port of the child that was ready last | spawn, create, sign, close session, terminate | the bridge, over TCP | sessions looked up twice, timeouts that race late answers, a late READY line | a closed session is not used again; one that is known is there |
| bridge runner, `ts/index.ts`, `ts/adn_runner.ts` | receipts and evidence of a run, child processes, temporary directories | prepare, authorize, run twice, write evidence | both executors, the contract, the Python worker | failure between steps, cleanup | nothing is left over; evidence belongs to the run |
| TEE contract, `contract/src/lib.rs` | none (stateless over its inputs) | verify delegation, bonds, grants, pipelines | the bridge and the feature agents | edges of time windows, a long chain of checks | every check holds before an authorization |
| feature agents, `py/performance_bond.py` and nine more | maps of bonds, proposals, grants, pipelines | lock, settle, vote, grant, advance | the contract | repeated operations, state split between agent and contract | what is kept is what the contract answered; figures derived from it are right |
| release proof, `.github/workflows/`, `scripts/validate_manifest.py`, `scripts/verify_release*.py` | commits and the proof each retains, workflow runs and their archives | test, verify inputs, attest | GitHub | workflows that start one another and verifiers that must agree on one file | a release whose inputs were verified can be attested |
| T3N authentication and evidence, diagnostics, demos | none that outlives a call | | | | |

How they interact: the bridge authenticates to T3N, calls the contract, and
has the gateway executor sign the contract's decision into a receipt. A first
pass of the Python runner prepares the request, a second one runs it: the
coordinator signs a delegation request that carries the receipt; the worker
validates it, asks its policy, takes an attempt from the ledger, runs a handler
while a daemon thread renews the lease, records the outcome and signs a result;
the coordinator verifies the result, first against the nonces it remembers,
then against the ledger. The ledger is the only state that processes share.

The hazards, each at its line, are listed in `PROJECT.json`, with the
properties that watch for them.

## 2. Plan

| step | module | composes | state |
|---|---|---|---|
| 1 | `ReplayLedger`: the four transactions as functions of the table | | done |
| 2 | `WorkerExecution`: calls, heartbeats, crashes, time | `ReplayLedger` | done, proved |
| 3 | `ReplayGate`: what the ledger promises, abstractly | implemented by 2 | done, proved |
| 4 | `ResultVerification`: nonce memory and durable consumption | `ReplayLedger` | done, proved |
| 5 | `GatewayRpc`: the bridge calling the gateway executor | | done, proved |
| 6 | `AgentNetwork`: delegators, processors, policies, handlers, tables, receipts | `ReplayGate` | done, proved |
| 7 | `WorkerSessions`: sessions, executors, connections, timers | | done, proved |
| 8 | `FeatureAgents`: nine agents next to the stateless contract | | done, proved |
| 9 | `ReleaseProof`: three workflows and their verifiers | | done, proved |

The order is that of the harm a mistake would do: first the ledger and the
worker that depends on it, then what calls them, then what stands beside them.
Every safety invariant and action property that a run checks is proved; what
is open is liveness, which stays with TLC (section 6). Two modules that an earlier plan named are not written,
`DelegationContract` and `BridgeRun`; section 8 says why.

## 3. The modules and the code

`PROJECT.json` ("map") names the lines each definition stands for.

**`ReplayLedger`** has no variables. Each function of `replay_ledger.py` is one
`BEGIN IMMEDIATE ... commit`, hence one function from the table to the table:
`AfterGrant`, `AfterExhaust` (begin), `AfterHeartbeat`, `AfterFinalize`,
`AfterConsume`, with the conditions under which each applies. `Purge` is the
`DELETE ... WHERE expires_at <= now`. The time is a parameter because the code
reads it *before* it opens the database. `Fences` has the code's wildcard: a
row whose token is NULL matches every caller.

**`WorkerExecution`** has a call for each invocation of
`process_delegation_request`. `stage` is where the invocation is, `now` the
clock reading it carries into the begin transaction, `beat` and `beatAt` its
heartbeat thread.

| stage | code | left by |
|---|---|---|
| idle | before `from_action_request` | `Validate`, `Expired` |
| validated | receipt and request valid | `Deny` (policy, no handler), `ReadClock` |
| begin | `now_ts` read, waiting for the database | `BeginGranted`, `BeginExhausted`, `BeginRefused`, `BeginRaises` |
| handling | the handler runs, the thread waits | `HandlerReturns` |
| completing | about to finalize COMPLETED | `Complete`, `CompleteRaises` (into the `except`) |
| failing | in the `except`, about to finalize RETRYABLE_FAILURE | `Fail`, `FailRaises` |
| completed, failed | answered | |
| refused | answered with an error, not run | `Resubmit` (the client) |
| lost | its process died | |

`BeatWakes`, `BeatWrites` and `BeatDies` are the thread; it ignores what the
ledger answers, as the code does. `Crash` ends a call and its thread.
`OtherPurge` is a transaction on some other key of the same file, `Tick` the
clock. `Mishaps` says which failures a run allows, `Timely` whether threads and
the database keep their deadlines (`NobodyLate`).

**`ReplayGate`** is the promise without rows, tokens or time: an open request
is granted at most `MaxAttempts` times and never after it is settled; when its
retention ends nothing is promised. `WorkerExecution!Gate` maps the rows to it.

**`ResultVerification`** has a verification for each invocation of
`verify_worker_result`, in one of several coordinator processes. `Check` is
every comparison and signature up to the replay guards; `ConsumeNonce` and
`NonceKnown` are the critical section over `_seen` and `_seen_order`, with the
pruning before and after; `Accept`, `RefuseTaken` and `LedgerRaises` are
`consume_result_replay`. The time each step works with is any moment between
the previous step and the lock or transaction. `Restart` empties a process's
memory.

**`GatewayRpc`** has a call for each rpc of one `createClient`. `Dial` and
`Connected` are `ensureConnected` (a second caller dials as well, and the later
connection replaces `socket`), `Ask` a call that finds a usable socket,
`Receive` is `onSocketData` with the one `recvBuf` that all connections share,
`Ends` the moment the client's socket is destroyed, which nobody tells the
waiting calls. `Serve` and `Unauthorized` are the executor's data listener,
`Hangup` its death. An answer always arrives in two pieces, which is the
shortest way to have half an answer left in the buffer. `Close` is `close()`,
which asks for nothing: it may come while calls dial or wait, and these are then
settled by nobody. `index.ts` dials once, awaits its calls and closes in a
`finally` (`index.ts:307`); that is `Overlap = FALSE`, under which a call dials
only when no other does and `Close` waits until none is under way. In
development mode `close()` also ends the executor; to the other connections
that is a `Hangup`.

**`AgentNetwork`** has a *delegator* for each invocation of `delegate_task` with
the sending of what it made, and a *processor* for each one of
`process_delegation_request`; both run in threads of their agent.

| stage | code | left by |
|---|---|---|
| idle | before the invocation | `Create` (delegator), `Receive`, `Expired` (processor) |
| rule, trust, perform | `evaluate_delegation_request`: before the read of the sender's rule, of its trust, of the receiver's rule | `ReadRule`, `ReadTrust`, `ReadPerform`, to the next or to denied |
| approved | the policy allowed it | `Store` (delegator), `LookUp` (processor) |
| created | the request is in `_delegations` | `Send` |
| begin | a handler was found, the ledger is asked | `BeginGranted`, `BeginRefused` |
| granted | an attempt was taken | `Enter` |
| running | the handler runs | `Completes`, `Fails`, `Unrecorded` |
| storing | the outcome is finalized | `StoreResult` |
| sent, denied, refused, answered | the invocation returned | |
| error | the second finalize raised; answered without a result | |
| lost | its process ended | |

The three reads are three steps because the engine takes no lock. The tables
and the log are updated under the agent's lock, so each update is one step.
The ledger is `ReplayGate`, which `WorkerExecution` implements, with every
request open: of time only `Expired` is left, that a request may be found
expired when it is looked at. What can happen when the ledger forgets a request
at its expiry is in `WorkerExecution` (the run `completed_again`), not here.
`Add`, `Remove`, `Handle`, `SaveOpens`, `SaveWrites` and `Restart` are the
administration of an agent; a save truncates the file in one step and writes
it in the next. `held` (the grants an invocation has seen in force), `kept` (the
policy saved last) and `added` (the grants added since) are history.
A result that cannot be serialised raises after it was stored (`StoreResult`
has happened, the caller gets an error): the answer is not in the model.

**`WorkerSessions`** has the client and the threads of its executors. `Spawn`,
`Ready`, `StartupFails`, `Exit` and `Terminate` are `WorkerExecutorClient`'s
child processes: a timer rejects the promise and leaves the child, whose late
READY line still moves the port. `Call`, `Connect`, `Fails`, `Receive` and
`Timeout` are `rpc`, one connection for each call. `CreateSession`,
`CloseSession`, `LookUp`, `Use`, `Undecodable` are the executor's thread of that
connection; a use looks its session up and then reads it again. Timers may fire
at any time after they are set.

**`FeatureAgents`** is nine agents that share nothing: `phase`, chosen at the
start, says which one a behaviour follows, so that a run is the sum of nine
small ones and not their product. The functions of the contract they call
(`Lowest`, `Reputation`, `Position`, `Processed`, `Valid`, `Payout`) are
operators, as the contract has no state. A call may fail at the contract; `told`
is the history of what was answered, next to `kept`, what the agent keeps. Money
comes in in units that divide the cent (`Cent` of them make one) and is answered
in cents: `Nearest` is the rounding of `process_data`, of `aggregate_results` and
of a settlement, and has two values at a tie, where Rust rounds away from zero,
Python to the even one, and a float may lie to either side.

**`ReleaseProof`** has the commits of `main`, each with the proof it retains,
and a run of Tests, Release Proof Input and Release Proof Attest for what
triggers it. A proof is told by the commit its manifest names and by which of
two digests of the manifest it carries, since the verifiers disagree about
these; everything else is as they want it. A manifest names an earlier commit
than the one that retains it: the hash of a commit covers its files.

The `MC*` modules give the constants their values. The operators introduced as
*wrong variant* are plausible bugs; no action uses them. Each shows, put in
place of the definition it varies, that a property is able to fail.

## 4. Runs

| run | module, cfg | checks | distinct states |
|---|---|---|---|
| `replay_races` | `MCWorkerExecution`, `MCRaces` | `TypeOK`, `RetryBudget`, `RunningFenced`, `GateSpec` | 375,463 |
| `replay_timely` | `MCWorkerExecution`, `MCTimely` | `Exclusive`, `CompletionRecorded`, `SingleCompletion`, `OrphanReclaimed` | 134,851 |
| `results_once` | `MCResultVerification`, `MCResults` | `TypeOK`, `AcceptedOnce`, `MemoryAgrees`, `RefusalJustified` | 412,116 |
| `gateway_overlap` | `MCGatewayRpc`, `MCOverlap` | `TypeOK`, `OwnAnswer` | 324,055 |
| `gateway_in_turn` | `MCGatewayRpc`, `MCInTurn` | `NoneLeftBehind`, `LossBounded`, `Settles` | 247,549 |
| `agent_policies` | `MCAgentNetwork`, `MCAgents` | `TypeOK`, `PermittedEach`, `RunsAuthorized`, `LogAccounts`, `LogWithinBudget`, `LatestResult`, `PendingExplained`, `RevocationSurvives` | 1,947,086 |
| `worker_sessions` | `MCWorkerSessions`, `MCSessions` | `TypeOK`, `NoUseAfterClose`, `ToldSessionsLive`, `UnknownMeansGone` | 4,215,975 |
| `features` | `MCFeatureAgents`, `MCFeatures` | `TypeOK`, `KeptAsTold`, `GrantUntilExpiry`, `AggregateClose`, `UsedAsStored`, `PaidFromLastLock`, `WinnerStable`, `PerfectKeepsPlace` | 3,166,315 |
| `completed_again` | `MCWorkerExecution`, `MCCompletedAgain` | `CompletedSingleUse` is violated | |
| `stale_finalize` | `MCWorkerExecution`, `MCStaleFinalize` | `OutcomeFenced` is violated | |
| `pending_sent` | `MCAgentNetwork`, `MCPending` | `PendingSent` is violated | |
| `release_attested` | `MCReleaseProof`, `MCRelease` | `InputAttested` is violated | |

What they show:

- *replay_races*: nothing is assumed of time. Three deliveries of one request
  race, every kind of failure may strike, and readings of the clock may be
  arbitrarily old. Still a request is handed out at most twice before it
  expires, a RUNNING row always carries the token of a call that was granted
  it and has not recorded an outcome, and the ledger implements the gate.
- *replay_timely*: if the database and the threads keep their deadlines and no
  heartbeat dies, a request is in one handler at a time, what was answered
  COMPLETED is COMPLETED in the ledger, and nobody else answers COMPLETED;
  crashes and raising transactions change nothing of that. And if clients and
  threads are fair, a lease whose call died, or could not record how it ended,
  is taken over or settled.
- *results_once*: a result is accepted once across processes, restarts and
  evictions; the set and the queue of nonces agree when the queue is full, when
  it is out of the order of its times and when it is pruned by age; a refusal
  has a reason. The
  reason may be weak: a nonce stays consumed when the ledger raises, so the
  client's retry at the same process is refused although the result was never
  accepted. `RefusalJustified` states exactly that and no more.
- *gateway_overlap*: a call is settled by its own answer, although half an
  answer of one connection is glued to the first answer of the next, and
  although the client may be closed under its calls.
- *gateway_in_turn*: the bridge awaits its calls one at a time until it is
  connected, and closes between calls (`Overlap = FALSE`). Then no connection is
  left behind, every
  dropped connection costs at most one answer of a later one, however many are
  dropped there are never two calls that wait in vain on the connection that is
  up, and without a dropped connection every call is settled. That a dropped
  connection costs *no* later answer is false: half an answer in `recvBuf`
  spoils the next. A call whose own connection was dropped waits for ever; `Settles` excludes it.

- *agent_policies*: policies change while they are read, two requests may share
  one receipt and so one id, requests arrive twice, agents restart in the
  middle of a save. What is created or run was permitted by grants each of
  which was in force since the evaluation began, though perhaps never all at
  once; what a worker runs was decided by the contract with these parameters;
  the log accounts for every execution, and shows no more of them than the
  ledger handed out attempts; a result is that of the last one; a
  saved withdrawal is not undone.
- *worker_sessions*: late READY lines, exits, timers and threads that die in the
  middle of a call. A session that the client was told is closed is not used
  again where it was closed; one it was told of is there; a use that finds none
  was overtaken by a close or asks another process.
- *features*: failing and repeated calls leave every agent with what the
  contract answered, and the figures it derives from that are right: an auction
  resolved again, grants issued again at the same second, secrets stored again,
  bonds locked again, figures of tenants combined from figures. Where money is
  rounded the properties say how far: a combined total is within half a cent
  for each tenant of that of all records, a combined average within one cent,
  and a settlement pays at most half a cent more than its share of the bond.

Bounds, and why they are enough:

- Three calls per request: the limit is two attempts, so the third is the one
  that must be refused, exhausted or taken over. One request, because rows of
  different keys meet only in the purge, which `OtherPurge` models.
- `MaxClock` lies past the expiry of the request in every safety run of the
  ledger, so that all of a lease's lapse, the expiry, and the purge after it
  happen. In `MCTimely` the lease is 4 ticks, the heartbeat 1, a wait at most
  1: the smallest values with `BeatPeriod + 2 * Stall < Lease`. With a lease of
  3, which breaks the assumption, TLC finds `Exclusive` violated.
- `MCResults`: two nonces are the limit of a process's memory, and three
  results meet in one process: the third evicts the first. The reading of the
  time and the lock are two moments, so two entries may be in the queue against
  their times. An entry is forgotten after one tick, so that all of this happens
  also to a memory that was pruned by age. The first result is signed at 0, the
  others at 2, so that a late verification of the first meets them. Retention 4,
  signature window 1, wait 1: the smallest values with
  `ProofTTL + 2 * Delay < ReplayTTL`; the clock goes to 4, when the first row is
  due.
- Gateway: four calls, one of them refused, three sockets: enough for
  two connections that compete and one that follows a dropped one. One hangup
  where calls overlap, two where they do not, so that what the first drop left
  in the buffer meets a second one.
- Agents: a coordinator and a worker, two delegations, two threads of the
  worker, three receipts (one that fits, one with other parameters, one of an
  earlier build), three administrative operations: a withdrawal, a save, and the
  restart in the middle of another save need no more.
- Sessions: four calls are a create, a close, a use between them and one after;
  two executors, so that a port can move.
- Features: five calls of one agent, a clock of three seconds: two agents
  compete, one of them twice, and a repetition comes after both. Qualities are
  the values at which the formulas change. A cent is ten units, so that records
  may be below a cent, negative, and add up to a tie; half of either bond (1 and
  13 cents) is one as well.
- Release: three commits (one built, one that retains its proof, one that
  tries again) and two tries.
- Deadlock is not checked for the gateway, the agents, the sessions, the
  features and the release: each has nothing left to do when its bounded
  calls, operations or runs are used up. Everywhere else it is checked.

Symmetry is used for safety only (`replay_timely` and `gateway_in_turn`, which
have a liveness property, use none): calls with the same request are
interchangeable, and so are results signed at the same time together with their
verifications, accepted rpcs and sockets, delegators of the same agent and
processors of the same agent.

## 5. Fairness

`WorkerExecution!FairSpec`: weak fairness of `Resubmit` and `Validate` (clients
keep presenting a refused request; this is the client's part of "retryable"),
strong fairness of `ReadClock` and `Begin` (threads are scheduled and SQLite
does let a waiting writer in, and a crash does not hit every presentation
before its transaction). Nothing is assumed of handlers, heartbeats, finalize
or the clock.

`GatewayRpc!FairSpec`: weak fairness of a dial being answered or refused, of
the executor's reading and of the client's. Both are single event loops over a
local socket. Nobody has to call, close or hang up.

`ReleaseProof!Spec`: weak fairness of `Next`, which is the strongest assumption
the model can make of GitHub and of the maintainers: as long as a commit can be
pushed or a run can start or end, something happens. `InputAttested` is refuted
under it, and would be under any weaker one.

`AgentNetwork`, `WorkerSessions` and `FeatureAgents` have safety properties
only and assume no fairness: a handler may run for ever, a client may stop.

## 6. Proofs

| module | theorem | for every |
|---|---|---|
| `WorkerExecutionProofs` | `TypeCorrect`, `BudgetKept`, `FenceKept` | set of calls and keys, lease, limit, mishap; no assumption on time |
| | `OneHandlerAtATime`, `CompletionsRecorded`, `CompletesOnce` | the same, if `Timely` and no heartbeat dies |
| `ReplayGateProofs` | `GateKept`: `MaxAttempts <= 2 /\ Spec => GateSpec` | the same |
| `ResultVerificationProofs` | `ResultTypes`, `AcceptsOnce` (if `Timely`), `MemoryStaysInStep`, `RefusalsJustified` | set of processes, verifications, results |
| `GatewayRpcProofs` | `GatewayTypes`, `AnswersOwn` | number of calls, sockets and hangups, overlapping or not |
| | `NoConnectionLeft`, `LossesBounded` | the same, if calls do not overlap before the client is connected, and it is closed between calls |
| `AgentNetworkProofs` | `AgentTypes`, `ActsOnGrantsSeen`, `RunsWhatWasDecided`, `LogsAccount`, `LogsWithinBudget`, `ResultIsLatest`, `PendingHasCause`, `WithdrawalsLast` | set of agents, invocations, actions, receipts and policies, number of administrative operations |
| `WorkerSessionsProofs` | `SessionTypes`, `ClosedStaysClosed`, `ToldLive`, `UnknownExplained` | number of calls and of executors |
| `FeatureAgentsProofs` | `FeatureTypes`, `ListsAsTold`, `AggregatesClose`, `WinnersStable`, `GrantsExpire`, `SecretsUsedAsStored`, `SettlementsCovered`, `PerfectKeepsItsPlace` | sequence of agents, sets of amounts, terms and records, number of calls, clock |
| `ReleaseProofProofs` | `ReleaseTypes`, `NothingAttested` | number of commits and runs |

The arguments:

- *Budget.* `RetryBudget` counts calls, the ledger counts attempts. `BudgetInv`
  ties them: clock readings lie in the past, so before the expiry no purge can
  touch the row (`RowFits`), and the row's attempts are exactly the calls that
  were granted (`Counted`). A grant adds one to both, and only while the row is
  below the limit.
- *Fence.* `RunningFenced` is inductive with `TypeOK`: a row becomes RUNNING
  only by a grant, and its holder's own finalize is the only one whose token
  fits.
- *Gate.* Every step maps to a step of the gate or stutters. The hypothesis
  `MaxAttempts <= 2` is the code's value (`MAX_REQUEST_ATTEMPTS`) and carries
  weight: finalize does not look at the state of the row, so with a third
  attempt a call that lost its lease could turn COMPLETED into
  RETRYABLE_FAILURE, and a settled request would open again.
- *Timely.* `OnTime` says of each call what its heartbeat owes: the row is
  RUNNING under its token, and the time since `updated_at` plus what the thread
  may still need is below the lease (`Held`). The arithmetic is `TimelyAssumption`,
  60 s + two waits < 300 s.
- *Results.* `OnceInv`: an accepted result has a row that is kept longer than
  any verification that began in the signature's window can still need, which
  is `RetentionAssumption`, 300 s + two waits < 900 s. The memory of nonces is
  not used: the ledger alone suffices.
- *Memory.* `MemoryInv`: the set is that of the nonces in the queue, and none is
  in the queue twice. Pruning drops an initial interval of the queue, even when
  the readings in it are out of order, and removes those nonces from the set;
  as none occurs twice, those that remain are exactly those of the rest of the
  queue (`PrunedNonces`). A nonce is added only where it was not found.
- *Gateway.* `OwnInv`: ids never repeat across connections, and every request
  and piece on any wire carries the id of the call it is for. What is left in
  the buffer needs no invariant: a line parses only if its two pieces belong
  together, and then its last piece has the right id.
- *Gateway in turn.* `OneSocket`: at most one call dials, nothing else is up
  meanwhile, and then `NoneLeftBehind` is part of the invariant. `LossBounded`
  needs the contents of the wires: only connections that are up carry anything
  (`Quiet`), each carries whole answers except for what a drop cut off and for a
  head that is already in the buffer (`Streams`), the buffer holds heads only
  (`Heads`), and before any drop every request and answer is that of a waiting
  call, once (`Calm`). `Losses` then says where a loss can come from: a head in
  the buffer whose tail will not come spoils the next answer and is gone with
  it, so that a call that waits in vain and a spoilt buffer exclude each other.
- *Agents.* `Base` says which requests are in hand: only requests that were made
  are sent, stored or worked on, and one that was made never changes
  (`MadeStays`, `HandStays`). On top of it stand five invariants.
  `Seen`: what an evaluation has found so far is in `held`, which `Remember`
  only extends while the evaluation lasts. `Checked`: what a processor has in
  hand it has validated, and validation with a receipt compares everything that
  a receipt is made of. `Saved`: the file is torn or that of the last save, and
  the policy does not change while a save is under way. `Account`: for each
  agent and id, receptions are completions and unfinished invocations, the
  result is that of the last completion, and every pending entry has a cause; a
  step adds to one side what it adds to the other (`AccountEntered`,
  `AccountStored`). `Budget`: entries and invocations that hold an attempt and
  have not entered are together at most the attempts handed out; it rests on
  `Checked`, since only an agent that the request is addressed to gets one.
- *Sessions.* `TableInv` relates what calls were answered to the table of the
  executor they asked: what was created there is there or was closed there,
  what was closed is not there, and a use that found its session came before
  any close. It is inductive because a session is named by the call that
  created it, so that an id is never created twice and a close is never undone.
- *Features.* What an agent keeps is what it was told, list by list (`KeptStep`).
  `WinnerInv`: the winner is the first of the lowest bids of some beginning of
  the list, and a longer beginning has another one only below it. `GrantInv`:
  the token carries its expiry, so a token issued twice was issued twice with
  the same one. `VaultInv` and `BondInv` relate what is kept to the last store
  and to the agent's last lock, and each use and payment to those that were last
  at its time; `PaidShare` bounds what the rounding of a payment adds.
  `UnionInv`: the counts of the tenants add up to that of all their records, and
  their totals differ from that of all records by half a cent for each tenant at
  most (`OneMoreTotal`); dividing by at least as many records as there are
  tenants leaves half a cent of that, and the rounding of the average adds
  another (`AverageClose`). `AverageGrows` is the arithmetic of the ranking: an
  average of at most 1000 does not fall by one more 1000, rounding included;
  nobody else's reputation moves (`Reputations`). It rests on qualities of at
  most 1 (`Qualities \subseteq 0 .. 100`), as the documents of the code have them
  and as nothing in it verifies.
- *Sums.* `Total` is a fold, and `FlattenSeq` is recursive. Facts about them for
  every sequence need induction; the library's theorems take the induction
  hypothesis as an operator and cannot be used. `AllNat` says it of a set of
  numbers, which is a plain constant: it follows from the library's theorem that
  strict inclusion of finite sets is well founded. With it the recursive
  functions are shown to exist and to satisfy their equations (`SumExists`,
  `FlatExists`), and then what they add up to (`SumTake`, `SumSame`,
  `TotalConcat`, `SumBound`).
- *Release.* `NothingAttested` is why `release_attested` is violated: a manifest
  names a commit before the one that retains it, the archive is that manifest,
  and the attestation of a run wants the commit of the run.

Only model-checked: the liveness properties `OrphanReclaimed` and `Settles`, and
that `InputAttested`, `CompletedSingleUse`, `OutcomeFenced` and `PendingSent` are
violated, which is a behaviour to show and not a theorem (`NothingAttested` is the safety half
of the first). Liveness under fairness, and `ENABLED`, are out of the provers'
reach. `Settles` is stated for the client that does not overlap its calls; its
safety half is that without a drop no call that waits on an open connection has
lost its answer, which `Losses` says.

Assumptions on constants are named in the modules that declare them
(`LedgerAssumption`, `WorkerAssumption`, `TimelyAssumption`,
`VerificationAssumption`, `RetentionAssumption`, `GatewayAssumption`,
`NetworkAssumption`, `FeatureAssumption`, and a `WorkerAssumption` of
`WorkerSessions`) and are evaluated by TLC in the runs of these modules. Those
of `NetworkAssumption` are typings of the constants and that `None` is neither
a request nor a status; those of `FeatureAssumption` are typings (the agents are
the list that `rank_agents` is given, whose order decides between equals, a cent
is at least one unit, and the clock can show at least its first second). `ReleaseProof` assumes nothing.

## 7. Where code and documents disagree

- `completed_again`: `SUBMISSION_REPORT.md:31` and `README.md:332` say that a
  completed request stays single-use. The validation lets a request pass up to
  and including its expiry; begin then reads the clock anew and purges every
  row with `expires_at <= now_ts`, its own included. A copy validated just
  before the expiry and begun at it finds no row and runs again, with nothing
  failing and everyone on time. The properties that hold are therefore stated
  for requests that are `Open`, before their expiry.
- `stale_finalize`: `SUBMISSION_REPORT.md:31` says that running work is fenced
  by an execution token. Finalize clears the token and a cleared token matches
  everyone, so a call that lost its lease overwrites the COMPLETED its
  successor recorded. It needs a heartbeat thread that died, which one locked
  database is enough for.
- `pending_sent`: the docstring of `get_pending_delegations`
  (`py/agent_delegation_network.py:522`) says "those we sent but haven't got
  results for". A received request is stored in the same table (line 393), so
  that a worker lists what it is executing. Nor do requests that were sent ever
  leave the list: results are stored by the agent that executes (line 455)
  alone. What the list does hold is `PendingExplained`: what the agent created,
  what it executes, and what it executed and could not record.
- `release_attested`: `docs/release/criteria.md:18-21` says that Release Proof
  Attest runs from the completed Release Proof Input and then runs
  `verify_release.py` on `proof/release`. That verifier wants the commit of the
  run to be the `build_commit` of the manifest which this commit retains
  (`scripts/verify_release.py`), and a commit cannot contain its own hash. Two
  more obstacles stand behind it: Tests accepts a `manifest_digest` computed
  with the field set to `"TBD"` (`scripts/validate_manifest.py:79`), the release
  verifier one computed without the field (`scripts/verify_release.py:231`), and
  the attestation looks for a successful Tests run once and does not wait for
  one that is still running.

Smaller observations, for which no run exists because what a document says of
them is too loose to be refuted, or because the code is not modelled:

- `check_grant` of the contract looks at the expiry alone, although
  `py/temporal_delegation.py:5` calls a grant cryptographically bound. Two grants
  to one agent in the same second with the same scope share their token.
- A task delivered late keeps half the bond whatever its quality, one delivered
  on time with poor quality a quarter. A bond is paid each time it is settled.
  The payment is rounded to the cent, so that "50% payout"
  (`py/performance_bond.py:11`) of a bond of 0.13 is 0.07; `PaidFromLastLock`
  allows half a cent.
- Tenants whose records are below a cent may combine to other figures than
  their records together: two of 0.004 have a total of 0.00, one of 0.008 has
  0.01. At a tie the contract rounds away from zero and `aggregate_results` to
  the even cent.
- The same agent may cast several votes; each counts.
- A worker's token is generated in the client's constructor and shared by all
  children, not at spawn time as the documents say; `terminate()` ends the child
  started last, so that an earlier one, and the keys of its sessions, live on.
- `ts/contract_bridge.ts` writes the pending manifest through a function that
  validates it against a schema whose fields only a registered manifest has, so
  that the registration after it is not reached; and its check for an earlier
  registration compares the manifest with the one it has just overwritten.

## 8. Abstractions and what is not modelled

- One clock for all processes, in ticks; monotonic and wall time agree. Clock
  skew and steps are outside the model; readings that are old are not.
- Signatures, HMACs and encodings are what they decide: valid or not. A row
  that fails its HMAC makes a transaction raise.
- An execution token is the identity of its call, and a result's nonce the
  result: both are random in the code and taken to be distinct.
- As deployed, lease and proof lifetime are both 300 s, so a request with a
  gateway receipt can be presented again only before its own lease lapses; its
  orphaned lease is then not taken over but outlived. `OrphanReclaimed` has
  this as its last disjunct, and `MCTimely` a lease shorter than the proof's
  lifetime so that the takeover happens as well.
- In `AgentNetwork` a request is the delegator that made it, since its nonce is
  random; `open` of the gate is constant (see section 3). Receipts are compared
  field by field and expire in `WorkerExecution`.
- In `WorkerSessions` the token always matches: a client calls executors it
  started itself.
- In `FeatureAgents` floats are integers: money that comes in counts units of
  which `Cent` make a cent (finitely many finite floats are whole in some such
  unit), money that is answered counts cents, qualities and confidences count
  hundredths. A rounding to the cent is `Nearest`, which leaves a tie open; the
  one in `get_reputation`, of a number that is not negative, goes up. Other
  errors of floating-point arithmetic are left out.

Not modelled, and why:

- the bridge runner (`ts/index.ts`, `ts/adn_runner.ts`): a sequential script
  that drives the modelled parts once; its state is a temporary directory;
- `verify_delegate_task` and the credential window of the contract: a chain of
  checks over one input, without state, with unit tests for each of them;
- T3N authentication and evidence, canonical encoding, identities, execution
  receipts and the API client: pure computation or calls of external services;
- the writing of the manifest by `ts/contract_bridge.ts`, which stops before its
  first interesting step (section 7), and what follows a successful attestation
  (publication, the verifiers of published assets, the claim gate), which
  `NothingAttested` shows is not reached;
- the tally of the DAO, the status of the steps of a KYC pipeline, the audit and
  the personalization agents, which compute an answer from one input, and the
  text an LLM writes;
- `evaluate_task_result`, which reads a result and changes nothing, and the rate
  limits and quotas of a policy, which are stored and never enforced;
- `get_agent_status`, `shutdown`, the built-in handlers, diagnostics and demos.
