---------------------------- MODULE AgentNetwork ----------------------------
(***************************************************************************)
(* Agents that delegate tasks to each other: AgentDelegationNetwork        *)
(* (src/src/agent_delegation_network.py) with its policy engine            *)
(* (delegation_policy.py), the requests of delegation_protocol.py and the  *)
(* gateway receipts of tee_authorization.py.                               *)
(*                                                                         *)
(* A delegator is one invocation of delegate_task and the sending of what  *)
(* it made; a processor is one invocation of process_delegation_request.   *)
(* Invocations run in threads of their agent, which share its policy, its  *)
(* handlers and, under its lock, its tables.  The nonce makes the request  *)
(* of a delegator, and so its replay key, its own: both are the delegator. *)
(*                                                                         *)
(* The replay ledger is ReplayGate, the specification WorkerExecution      *)
(* implements; of time only this is kept, that a request may be found      *)
(* expired whenever it is looked at.                                       *)
(***************************************************************************)
EXTENDS Integers, Sequences, FiniteSets

CONSTANTS
  Agents, Actions, Params,
  Delegators, Processors,  \* the invocations
  AgentOf,                 \* the agent that runs an invocation
  Decisions,               \* the contract's answers: [id, routed, build]
  GatewayKey,              \* the key of the gateway, and its key id
  Context,                 \* the authorization context an agent is run with
  Asked,                   \* what delegators ask for, with which receipts
  Policies,                \* the policy each agent finds in its file
  Adjusted,                \* the grants its administrator adds and removes
  MaxAttempts,             \* MAX_REQUEST_ATTEMPTS
  MaxAdmin,                \* bound: administrative operations and restarts
  None,                    \* Python's None, or an absent table entry
  Torn                     \* what a save_policy that dies leaves of its file

Calls == Delegators \cup Processors

\* An entry of _delegation_rules or of _agent_trust: the agent and an allowed
\* action, the agent and a trusted agent.  (A set that becomes empty is
\* deleted; an absent one is read as empty.)
Grants == ({"rule"} \X Agents \X Actions) \cup ({"trust"} \X Agents \X Agents)

-----------------------------------------------------------------------------
(***************************************************************************)
(* Receipts and the validation of a request, without its clock             *)
(***************************************************************************)

\* build_tee_authorization_receipt: a decision, bound to the action and the
\* parameters (request_hash) the caller names.  (The contract answers ROUTED,
\* with the credential enforced, or not at all.)
Receipt(d, act, par) == [id |-> d.id, to |-> d.routed, action |-> act,
                         params |-> par, build |-> d.build, key |-> GatewayKey]

Receipts == {Receipt(d, act, par) :
               d \in Decisions, act \in Actions, par \in Params}

\* Whom delegators ask, for what, and with which receipt, or none.
Askable == [to : Agents, action : Actions, params : Params,
            receipt : Receipts \cup {None}]

ASSUME NetworkAssumption ==
  /\ AgentOf \in [Calls -> Agents]
  /\ Delegators \cap Processors = {}
  /\ None \notin Delegators \cup {"COMPLETED", "FAILED"}
  /\ Asked \subseteq Askable
  /\ Policies \in [Agents -> SUBSET Grants]
  /\ Adjusted \in [Agents -> SUBSET Grants]
  /\ MaxAttempts \in Nat \ {0} /\ MaxAdmin \in Nat

\* WorkerAuthorizationContext.from_trusted_config.  An unknown mode raises.
Modes == {"live", "demo", "test"}
Configured(x) == x.key # None \/ x.build # None
Requires(x) == x.mode = "live" \/ Configured(x) \/ x.asked

\* Wrong variant of the next: the parameters are not compared.
ReceiptUnboundParams(rec, r, me, x) ==
  /\ rec.id = r.id /\ rec.to = me /\ rec.action = r.action
  /\ rec.build = x.build /\ rec.key = x.key

\* verify_tee_authorization_receipt, the clock apart.
ReceiptAuthorizes(rec, r, me, x) ==
  /\ rec.id = r.id
  /\ rec.to = me
  /\ rec.action = r.action
  /\ rec.build = x.build
  /\ rec.params = r.params
  /\ rec.key = x.key

\* The checks of process_delegation_request before the policy: the request is
\* addressed to this agent, and either has a receipt that authorizes it, which
\* needs the whole context, or has none and needs none.
Valid(r, me, x) ==
  /\ r.to = me
  /\ x.mode \in Modes
  /\ Requires(x) => r.receipt # None
  /\ r.receipt # None => /\ x.key # None /\ x.build # None
                         /\ ReceiptAuthorizes(r.receipt, r, me, x)

-----------------------------------------------------------------------------
VARIABLES
  policy,      \* per agent, the policy in memory
  file,        \* its policy file: a policy, or Torn
  writing,     \* the policy save_policy is about to write, or None
  handlers,    \* per agent, the actions with a registered handler
  stage,       \* how far each invocation is
  request,     \* the request each delegator made
  sent,        \* the requests on the wire; they may arrive several times
  task,        \* the request a processor was given
  outcome,     \* the status its handler ended with
  delegations, \* _delegations: per agent and delegation id, a request
  results,     \* _results: per agent and delegation id, a status
  log,         \* _delegation_log
  used,        \* the ledger's promise for each request, see ReplayGate
  settled,
  held,        \* history: grants in force at some time of an evaluation
  kept,        \* history: the policy of the last completed save, or Torn
  added,       \* history: the grants added since
  admin        \* operations and restarts so far

book == <<delegations, results, log>>
ledger == <<used, settled>>
rules == <<policy, file, writing, handlers>>
past == <<kept, added, admin>>
vars == <<rules, stage, request, sent, task, outcome, book, ledger, held, past>>

\* create_delegation_request takes the id of the receipt, or draws a uuid.
IdOf(d, rec) == IF rec = None THEN d ELSE rec.id
Ids == {d.id : d \in Decisions} \cup Delegators

Request == [id : Ids, from : Agents, to : Agents, action : Actions,
            params : Params, receipt : Receipts \cup {None}]

Entry == [type : {"created", "received", "completed"}, id : Ids,
          status : {"COMPLETED", "FAILED", "NEW"}]

Evaluating == {"rule", "trust", "perform"}
Executing == {"granted", "running", "storing"}
Stages == {"idle", "approved", "created", "sent", "denied", "refused", "begin",
           "answered", "error", "lost"} \cup Evaluating \cup Executing

TypeOK ==
  /\ policy \in [Agents -> SUBSET Grants]
  /\ file \in [Agents -> (SUBSET Grants) \cup {Torn}]
  /\ writing \in [Agents -> (SUBSET Grants) \cup {None}]
  /\ handlers \in [Agents -> SUBSET Actions]
  /\ stage \in [Calls -> Stages]
  /\ request \in [Delegators -> Request \cup {None}]
  /\ sent \subseteq Delegators
  /\ task \in [Processors -> Delegators \cup {None}]
  /\ outcome \in [Processors -> {"COMPLETED", "FAILED", None}]
  /\ delegations \in [Agents -> [Ids -> Delegators \cup {None}]]
  /\ results \in [Agents -> [Ids -> {"COMPLETED", "FAILED", None}]]
  /\ log \in [Agents -> Seq(Entry)]
  /\ used \in [Delegators -> 0 .. MaxAttempts]
  /\ settled \in [Delegators -> BOOLEAN]
  /\ held \in [Calls -> SUBSET Grants]
  /\ kept \in [Agents -> SUBSET Grants]
  /\ added \in [Agents -> SUBSET Grants]
  /\ admin \in 0 .. MaxAdmin

EmptyBook == [i \in Ids |-> None]

\* Every agent has loaded its policy file; its custom handlers are registered.
Init ==
  /\ policy = Policies /\ file = Policies /\ kept = Policies
  /\ writing = [a \in Agents |-> None]
  /\ handlers = [a \in Agents |-> Actions]
  /\ stage = [c \in Calls |-> "idle"]
  /\ request = [d \in Delegators |-> None]
  /\ sent = {}
  /\ task = [p \in Processors |-> None]
  /\ outcome = [p \in Processors |-> None]
  /\ delegations = [a \in Agents |-> EmptyBook]
  /\ results = [a \in Agents |-> EmptyBook]
  /\ log = [a \in Agents |-> <<>>]
  /\ used = [d \in Delegators |-> 0]
  /\ settled = [d \in Delegators |-> FALSE]
  /\ held = [c \in Calls |-> {}]
  /\ added = [a \in Agents |-> {}]
  /\ admin = 0

-----------------------------------------------------------------------------
(***************************************************************************)
(* The policy: three reads of the sets in force, without a lock            *)
(***************************************************************************)

\* What evaluate_delegation_request wants to see, in the order it looks:
\* can_delegate (the sender's rule, its trust in the receiver), then
\* can_perform_task (the receiver's rule, in the same map).
RuleGrant(r) == <<"rule", r.from, r.action>>
TrustGrant(r) == <<"trust", r.from, r.to>>
PerformGrant(r) == <<"rule", r.to, r.action>>
Needed(r) == {RuleGrant(r), TrustGrant(r), PerformGrant(r)}

\* The request invocation c is about.
RequestOf(c) == IF c \in Delegators THEN request[c] ELSE request[task[c]]

Moves(c, from, to) == /\ stage[c] = from
                      /\ stage' = [stage EXCEPT ![c] = to]

\* One read: the evaluation goes on, or the answer is a denial.
Reads(c, from, g, to) ==
  /\ Moves(c, from, IF g \in policy[AgentOf[c]] THEN to ELSE "denied")
  /\ UNCHANGED <<rules, request, sent, task, outcome, book, ledger, past>>

\* Wrong variant of the next: a rule is enough, trust is not asked for.
ReadRuleTrusting(c) == Reads(c, "rule", RuleGrant(RequestOf(c)), "perform")

ReadRule(c) == Reads(c, "rule", RuleGrant(RequestOf(c)), "trust")
ReadTrust(c) == Reads(c, "trust", TrustGrant(RequestOf(c)), "perform")
ReadPerform(c) == Reads(c, "perform", PerformGrant(RequestOf(c)), "approved")

Evaluate(c) == ReadRule(c) \/ ReadTrust(c) \/ ReadPerform(c)

-----------------------------------------------------------------------------
(***************************************************************************)
(* delegate_task                                                           *)
(***************************************************************************)

\* The lock of an agent makes each of these updates one step.
Record(a, e) == log' = [log EXCEPT ![a] = Append(@, e)]

\* create_delegation_request, with the receipt the caller holds, or none.
Create(d) ==
  /\ \E ask \in Asked :
       request' = [request EXCEPT ![d] =
         [id |-> IdOf(d, ask.receipt), from |-> AgentOf[d], to |-> ask.to,
          action |-> ask.action, params |-> ask.params,
          receipt |-> ask.receipt]]
  /\ Moves(d, "idle", "rule")
  /\ UNCHANGED <<rules, sent, task, outcome, book, ledger, past>>

\* The request is approved, stored under its id and logged.
Store(d) ==
  LET a == AgentOf[d]
      i == request[d].id IN
  /\ Moves(d, "approved", "created")
  /\ delegations' = [delegations EXCEPT ![a][i] = d]
  /\ Record(a, [type |-> "created", id |-> i, status |-> "NEW"])
  /\ UNCHANGED <<rules, request, sent, task, outcome, results, ledger, past>>

\* The caller takes the request stored under the id it was given, signs it
\* and sends it: another delegation under the same receipt, or the same
\* request coming back to an agent that delegates to itself, may have taken
\* its place.
Send(d) ==
  LET stored == delegations[AgentOf[d]][request[d].id] IN
  /\ Moves(d, "created", "sent")
  /\ sent' = sent \cup ({stored} \ {None})
  /\ UNCHANGED <<rules, request, task, outcome, book, ledger, past>>

-----------------------------------------------------------------------------
(***************************************************************************)
(* process_delegation_request                                              *)
(***************************************************************************)

Gate == INSTANCE ReplayGate WITH
  Keys <- Delegators, open <- [d \in Delegators |-> TRUE]

\* A request arrives, once more perhaps, at any agent, which validates it.
Receive(p) ==
  /\ \E d \in sent :
       /\ task' = [task EXCEPT ![p] = d]
       /\ Moves(p, "idle",
            IF Valid(request[d], AgentOf[p], Context[AgentOf[p]])
            THEN "rule" ELSE "refused")
  /\ UNCHANGED <<rules, request, sent, outcome, book, ledger, past>>

\* The request, its proof or its authorization is found expired.
Expired(p) ==
  /\ sent # {}
  /\ Moves(p, "idle", "refused")
  /\ UNCHANGED <<rules, request, sent, task, outcome, book, ledger, past>>

\* The policy allowed it: is there a handler?
LookUp(p) ==
  /\ Moves(p, "approved",
       IF RequestOf(p).action \in handlers[AgentOf[p]]
       THEN "begin" ELSE "refused")
  /\ UNCHANGED <<rules, request, sent, task, outcome, book, ledger, past>>

\* Wrong variant of the next: the attempt is not counted.
BeginUncounted(p) ==
  /\ Moves(p, "begin", "granted")
  /\ ~settled[task[p]] /\ used[task[p]] < MaxAttempts
  /\ UNCHANGED <<rules, request, sent, task, outcome, book, ledger, past>>

\* begin_delegation_request_execution grants an attempt.
BeginGranted(p) ==
  /\ Moves(p, "begin", "granted")
  /\ Gate!Grant(task[p])
  /\ UNCHANGED <<rules, request, sent, task, outcome, book, past>>

\* Wrong variant of the next: the request is entered before it is granted.
BeginRefusedEntered(p) ==
  LET a == AgentOf[p] IN
  /\ Moves(p, "begin", "refused")
  /\ delegations' = [delegations EXCEPT ![a][RequestOf(p).id] = task[p]]
  /\ UNCHANGED <<rules, request, sent, task, outcome, results, log, ledger,
                 past>>

\* Or refuses: it is settled, spent, running elsewhere, or the ledger raises.
BeginRefused(p) ==
  /\ Moves(p, "begin", "refused")
  /\ UNCHANGED <<rules, request, sent, task, outcome, book, ledger, past>>

\* Wrong variant of the next: an id that is known is not logged again.
EnterOnce(p) ==
  LET a == AgentOf[p]
      i == RequestOf(p).id IN
  /\ Moves(p, "granted", "running")
  /\ delegations' = [delegations EXCEPT ![a][i] = task[p]]
  /\ IF delegations[a][i] # None THEN UNCHANGED log
     ELSE Record(a, [type |-> "received", id |-> i, status |-> "NEW"])
  /\ UNCHANGED <<rules, request, sent, task, outcome, results, ledger, past>>

\* "Mark delegation as in progress", under the lock.
Enter(p) ==
  LET a == AgentOf[p]
      i == RequestOf(p).id IN
  /\ Moves(p, "granted", "running")
  /\ delegations' = [delegations EXCEPT ![a][i] = task[p]]
  /\ Record(a, [type |-> "received", id |-> i, status |-> "NEW"])
  /\ UNCHANGED <<rules, request, sent, task, outcome, results, ledger, past>>

\* The handler returned and COMPLETED is finalized (without effect on a row
\* another call has taken over).
Completes(p) ==
  /\ Moves(p, "running", "storing")
  /\ outcome' = [outcome EXCEPT ![p] = "COMPLETED"]
  /\ Gate!Settle(task[p]) \/ UNCHANGED ledger
  /\ UNCHANGED <<rules, request, sent, task, book, past>>

\* Wrong variant of the next: the result gets the ledger's state as status.
FailsAsState(p) ==
  /\ Moves(p, "running", "storing")
  /\ outcome' = [outcome EXCEPT ![p] = "RETRYABLE_FAILURE"]
  /\ \/ used[task[p]] = MaxAttempts /\ Gate!Settle(task[p])
     \/ UNCHANGED ledger
  /\ UNCHANGED <<rules, request, sent, task, book, past>>

\* The handler, or that finalize, raised: a failure is finalized, which
\* settles the request when its attempts are spent.
Fails(p) ==
  /\ Moves(p, "running", "storing")
  /\ outcome' = [outcome EXCEPT ![p] = "FAILED"]
  /\ \/ used[task[p]] = MaxAttempts /\ Gate!Settle(task[p])
     \/ UNCHANGED ledger
  /\ UNCHANGED <<rules, request, sent, task, book, past>>

\* The second finalize raised as well: the outer handler answers with a result
\* of no delegation ("error"), and nothing is stored.
Unrecorded(p) ==
  /\ Moves(p, "running", "error")
  /\ UNCHANGED <<rules, request, sent, task, outcome, book, ledger, past>>

\* Wrong variant of the next: the result of the first call is kept.
StoreResultOnce(p) ==
  LET a == AgentOf[p]
      i == RequestOf(p).id IN
  /\ Moves(p, "storing", "answered")
  /\ results' = [results EXCEPT ![a][i] = IF @ = None THEN outcome[p] ELSE @]
  /\ Record(a, [type |-> "completed", id |-> i, status |-> outcome[p]])
  /\ UNCHANGED <<rules, request, sent, task, outcome, delegations, ledger,
                 past>>

\* "Store the result", under the lock; then the result is signed and returned.
StoreResult(p) ==
  LET a == AgentOf[p]
      i == RequestOf(p).id IN
  /\ Moves(p, "storing", "answered")
  /\ results' = [results EXCEPT ![a][i] = outcome[p]]
  /\ Record(a, [type |-> "completed", id |-> i, status |-> outcome[p]])
  /\ UNCHANGED <<rules, request, sent, task, outcome, delegations, ledger,
                 past>>

-----------------------------------------------------------------------------
(***************************************************************************)
(* Administration: one thread of each agent                                *)
(***************************************************************************)

Administers(a) == /\ admin < MaxAdmin /\ admin' = admin + 1
                  /\ writing[a] = None

\* add_delegation_rule, add_trust_relationship.
Add(a, g) ==
  /\ Administers(a)
  /\ g \notin policy[a]
  /\ policy' = [policy EXCEPT ![a] = @ \cup {g}]
  /\ added' = [added EXCEPT ![a] = @ \cup {g}]
  /\ UNCHANGED <<file, writing, handlers, stage, request, sent, task, outcome,
                 book, ledger, kept>>

\* remove_delegation_rule, remove_trust_relationship.
Remove(a, g) ==
  /\ Administers(a)
  /\ g \in policy[a]
  /\ policy' = [policy EXCEPT ![a] = @ \ {g}]
  /\ added' = [added EXCEPT ![a] = @ \ {g}]
  /\ UNCHANGED <<file, writing, handlers, stage, request, sent, task, outcome,
                 book, ledger, kept>>

\* register_task_handler, unregister_task_handler.
Handle(a, act) ==
  /\ Administers(a)
  /\ handlers' = [handlers EXCEPT ![a] =
       IF act \in @ THEN @ \ {act} ELSE @ \cup {act}]
  /\ UNCHANGED <<policy, file, writing, stage, request, sent, task, outcome,
                 book, ledger, kept, added>>

\* save_policy takes the policy and opens the file, which truncates it.
SaveOpens(a) ==
  /\ Administers(a)
  /\ writing' = [writing EXCEPT ![a] = policy[a]]
  /\ file' = [file EXCEPT ![a] = Torn]
  /\ UNCHANGED <<policy, handlers, stage, request, sent, task, outcome, book,
                 ledger, kept, added>>

\* Then it writes.
SaveWrites(a) ==
  /\ writing[a] # None
  /\ file' = [file EXCEPT ![a] = writing[a]]
  /\ kept' = [kept EXCEPT ![a] = writing[a]]
  /\ added' = [added EXCEPT ![a] = {}]
  /\ writing' = [writing EXCEPT ![a] = None]
  /\ UNCHANGED <<policy, handlers, stage, request, sent, task, outcome, book,
                 ledger, admin>>

\* Wrong variant of the next: what the file may have said is allowed.
LoadedOpen(f) == IF f = Torn THEN Grants ELSE f

\* _load_policy: a file that does not parse leaves the defaults, which deny.
Loaded(f) == IF f = Torn THEN {} ELSE f

Final == {"idle", "sent", "denied", "refused", "answered"}

\* The process of agent a dies, in a save perhaps, and starts again: the
\* tables, the log and the custom handlers are gone, the policy is read.
Restart(a) ==
  /\ admin < MaxAdmin /\ admin' = admin + 1
  /\ policy' = [policy EXCEPT ![a] = Loaded(file[a])]
  /\ writing' = [writing EXCEPT ![a] = None]
  /\ handlers' = [handlers EXCEPT ![a] = {}]
  /\ stage' = [c \in Calls |-> IF AgentOf[c] = a /\ stage[c] \notin Final
                               THEN "lost" ELSE stage[c]]
  /\ delegations' = [delegations EXCEPT ![a] = EmptyBook]
  /\ results' = [results EXCEPT ![a] = EmptyBook]
  /\ log' = [log EXCEPT ![a] = <<>>]
  /\ added' = [added EXCEPT ![a] = {}]
  /\ UNCHANGED <<file, request, sent, task, outcome, ledger, kept>>

-----------------------------------------------------------------------------
\* History: the grants invocation c has seen in force since its evaluation
\* began, as far as they are needed.
Remember ==
  held' = [c \in Calls |->
    IF stage'[c] \in Evaluating
      THEN ((IF stage[c] \in Evaluating THEN held[c] ELSE {})
              \cup policy'[AgentOf[c]]) \cap Needed(RequestOf(c)')
    ELSE IF stage'[c] \in {"approved", "created", "begin"} \cup Executing
      THEN held[c] ELSE {}]

Delegate(d) == Create(d) \/ Evaluate(d) \/ Store(d) \/ Send(d)

Process(p) ==
  \/ Receive(p) \/ Expired(p) \/ Evaluate(p) \/ LookUp(p)
  \/ BeginGranted(p) \/ BeginRefused(p) \/ Enter(p)
  \/ Completes(p) \/ Fails(p) \/ Unrecorded(p) \/ StoreResult(p)

Administer(a) ==
  \/ \E g \in Adjusted[a] : Add(a, g) \/ Remove(a, g)
  \/ \E act \in Actions : Handle(a, act)
  \/ SaveOpens(a) \/ SaveWrites(a) \/ Restart(a)

Next == /\ \/ \E d \in Delegators : Delegate(d)
           \/ \E p \in Processors : Process(p)
           \/ \E a \in Agents : Administer(a)
        /\ Remember

Spec == Init /\ [][Next]_vars

-----------------------------------------------------------------------------
(***************************************************************************)
(* Properties                                                              *)
(***************************************************************************)

\* README.md: a delegation "requires both action rule AND explicit trust
\* relationship (dual default-deny)", and the receiver's rule.  The policy is
\* read three times without a lock, so the grants need not hold together, but
\* each was in force at some time since the evaluation began: what was
\* withdrawn before is never acted on, by neither side.
PermittedEach ==
  \A c \in Calls :
    stage[c] \in {"approved", "created", "begin"} \cup Executing
      => Needed(RequestOf(c)) \subseteq held[c]

\* A worker that requires authorization runs what a decision of the contract
\* in its own build routed to it, with the parameters the gateway signed,
\* also when a coordinator uses one receipt for several requests.
RunsAuthorized ==
  \A p \in Processors :
    LET r == RequestOf(p)
        x == Context[AgentOf[p]] IN
    stage[p] \in Executing /\ Requires(x)
      => \E d \in Decisions : /\ d.routed = AgentOf[p] /\ d.id = r.id
                              /\ d.build = x.build
                              /\ r.receipt = Receipt(d, r.action, r.params)

Entries(a, i, t) == {n \in 1 .. Len(log[a]) : log[a][n].id = i
                                             /\ log[a][n].type = t}

\* The invocations of agent a on id i that entered and have not stored.
Unfinished(a, i) ==
  {p \in Processors : /\ AgentOf[p] = a
                      /\ stage[p] \in {"running", "storing", "error"}
                      /\ RequestOf(p).id = i}

\* The audit trail accounts for every execution since the agent started:
\* what was received is completed, still running, or could not record its
\* outcome.
LogAccounts ==
  \A a \in Agents, i \in Ids :
    Cardinality(Entries(a, i, "received"))
      = Cardinality(Entries(a, i, "completed"))
          + Cardinality(Unfinished(a, i))

\* The attempts the ledger handed out for requests to agent a under id i.
AttemptsAt(a, i) ==
  {x \in Delegators \X (1 .. MaxAttempts) :
     LET r == request[x[1]] IN x[2] <= used[x[1]] /\ r.to = a /\ r.id = i}

\* The audit trail and the ledger agree: an agent logs no more executions under
\* an id than the ledger handed out attempts at the requests addressed to it
\* under that id, whoever presents them, how often, and with which receipt.
LogWithinBudget ==
  \A a \in Agents, i \in Ids :
    Cardinality(Entries(a, i, "received")) <= Cardinality(AttemptsAt(a, i))

\* get_delegation_result gives the outcome of the execution of that id that
\* was logged last, whichever of several concurrent requests it was.
LatestResult ==
  \A a \in Agents, i \in Ids :
    LET done == Entries(a, i, "completed") IN
    results[a][i] = IF done = {} THEN None
                    ELSE log[a][CHOOSE n \in done : \A m \in done : m <= n].status

\* get_pending_delegations.
Pending(a) == {i \in Ids : delegations[a][i] # None /\ results[a][i] = None}

\* Its docstring: "those we sent but haven't got results for".  The table
\* also holds what the agent received and is executing.
PendingSent ==
  \A a \in Agents : \A i \in Pending(a) : request[delegations[a][i]].from = a

\* What the list does hold, against its docstring: an id the agent created a
\* request under, or one it is executing now, or one whose execution ended
\* and could not be recorded.  A refusal leaves nothing pending, and neither
\* does an execution that was recorded, whichever of the requests under one id
\* took the other's place in the table.
PendingExplained ==
  \A a \in Agents : \A i \in Pending(a) :
    Entries(a, i, "created") # {} \/ Unfinished(a, i) # {}

\* A withdrawal that was saved survives a restart, also one in the middle of
\* a later save: a grant in force was in the policy saved last, or was added
\* since.
RevocationSurvives ==
  \A a \in Agents : policy[a] \subseteq kept[a] \cup added[a]
=============================================================================
