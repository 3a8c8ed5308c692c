------------------------- MODULE AgentNetworkProofs -------------------------
(***************************************************************************)
(* Delegating agents, for any number of agents, invocations, requests and  *)
(* administrative operations.  What an invocation works on stays what it   *)
(* was; what it saw in force it acts on; what it entered in the tables and *)
(* the log it completes, or is still busy with.                            *)
(***************************************************************************)
EXTENDS AgentNetwork, FiniteSetTheorems, TLAPS

\* The stages in which an invocation has a request in hand.
Working == Evaluating \cup Executing \cup {"approved", "created", "begin", "error"}

Made == {d \in Delegators : stage[d] # "idle"}

\* Only requests that were made are sent, stored or worked on.
Known ==
  /\ \A d \in Made : request[d] \in Request
  /\ sent \subseteq Made
  /\ \A a \in Agents, i \in Ids : delegations[a][i] \in Made \cup {None}
  /\ \A p \in Processors : stage[p] \in Working => task[p] \in Made

\* What is about to be stored is a status.
Decided ==
  \A p \in Processors : stage[p] = "storing" => outcome[p] \in {"COMPLETED", "FAILED"}

Base == TypeOK /\ Known /\ Decided

-----------------------------------------------------------------------------
(***************************************************************************)
(* Types                                                                   *)
(***************************************************************************)

USE DEF Calls

LEMMA ReceiptTypes ==
  /\ \A rec \in Receipts : rec.id \in {d.id : d \in Decisions}
  /\ \A d \in Delegators, rec \in Receipts \cup {None} : IdOf(d, rec) \in Ids
<1>1. ASSUME NEW rec \in Receipts PROVE rec.id \in {d.id : d \in Decisions}
  <2>1. PICK d \in Decisions, act \in Actions, par \in Params :
          rec = Receipt(d, act, par)
    BY <1>1 DEF Receipts
  <2> QED
    BY <2>1 DEF Receipt
<1> QED
  BY <1>1 DEF IdOf, Ids

\* What create_delegation_request makes.
LEMMA CreatedRequest ==
  ASSUME NEW d \in Delegators, NEW ask \in Asked
  PROVE  [id |-> IdOf(d, ask.receipt), from |-> AgentOf[d], to |-> ask.to,
          action |-> ask.action, params |-> ask.params,
          receipt |-> ask.receipt] \in Request
<1>1. ask \in Askable /\ AgentOf[d] \in Agents
  BY NetworkAssumption
<1>2. IdOf(d, ask.receipt) \in Ids
  BY <1>1, ReceiptTypes DEF Askable
<1> QED
  BY <1>1, <1>2 DEF Askable, Request

\* The requests in hand.
LEMMA InHand ==
  ASSUME Known, NEW c \in Calls, stage[c] \in Working
  PROVE  /\ RequestOf(c) \in Request
         /\ RequestOf(c).id \in Ids
         /\ c \in Processors => task[c] \in Delegators
<1>1. c \in Delegators => c \in Made
  BY DEF Made, Working, Evaluating, Executing
<1>2. c \in Processors => task[c] \in Made
  BY DEF Known
<1>3. RequestOf(c) \in Request
  BY <1>1, <1>2 DEF RequestOf, Known
<1>4. RequestOf(c).id \in Ids
  BY <1>3 DEF Request
<1>5. c \in Processors => task[c] \in Delegators
  BY <1>2 DEF Made
<1> QED
  BY <1>3, <1>4, <1>5

-----------------------------------------------------------------------------
(***************************************************************************)
(* What a step leaves as it is                                             *)
(***************************************************************************)

\* A step of invocation c.
Works(c) == (c \in Delegators /\ Delegate(c)) \/ (c \in Processors /\ Process(c))

\* No invocation touches the policies, no administrator the requests.
LEMMA WorksKeeps ==
  ASSUME NEW c \in Calls, Works(c)
  PROVE  /\ UNCHANGED <<policy, file, writing, handlers, kept, added, admin>>
         /\ \E s \in Stages : stage' = [stage EXCEPT ![c] = s]
<1> USE DEF rules, past, Moves, Stages, Evaluating, Executing
<1>1. ASSUME c \in Delegators, Delegate(c)
      PROVE  /\ UNCHANGED <<policy, file, writing, handlers, kept, added, admin>>
             /\ \E s \in Stages : stage' = [stage EXCEPT ![c] = s]
  BY <1>1 DEF Delegate, Create, Evaluate, ReadRule, ReadTrust, ReadPerform,
              Reads, Store, Send
<1>2. ASSUME c \in Processors, Process(c)
      PROVE  /\ UNCHANGED <<policy, file, writing, handlers, kept, added, admin>>
             /\ \E s \in Stages : stage' = [stage EXCEPT ![c] = s]
  BY <1>2 DEF Process, Receive, Expired, Evaluate, ReadRule, ReadTrust,
              ReadPerform, Reads, LookUp, BeginGranted, BeginRefused, Enter,
              Completes, Fails, Unrecorded, StoreResult
<1> QED
  BY <1>1, <1>2 DEF Works

\* Which of its steps change the requests, the tables and the log.
LEMMA WorksOn ==
  ASSUME NEW c \in Calls, Works(c)
  PROVE  /\ UNCHANGED request \/ (c \in Delegators /\ Create(c))
         /\ UNCHANGED sent \/ (c \in Delegators /\ Send(c))
         /\ UNCHANGED task \/ (c \in Processors /\ Receive(c))
         /\ UNCHANGED outcome \/ (c \in Processors /\ (Completes(c) \/ Fails(c)))
         /\ \/ UNCHANGED <<delegations, results, log>>
            \/ c \in Delegators /\ Store(c)
            \/ c \in Processors /\ (Enter(c) \/ StoreResult(c))
         /\ \/ UNCHANGED <<used, settled>>
            \/ c \in Processors /\ (BeginGranted(c) \/ Completes(c) \/ Fails(c))
<1> DEFINE Kept ==
         /\ UNCHANGED request \/ (c \in Delegators /\ Create(c))
         /\ UNCHANGED sent \/ (c \in Delegators /\ Send(c))
         /\ UNCHANGED task \/ (c \in Processors /\ Receive(c))
         /\ UNCHANGED outcome \/ (c \in Processors /\ (Completes(c) \/ Fails(c)))
         /\ \/ UNCHANGED <<delegations, results, log>>
            \/ c \in Delegators /\ Store(c)
            \/ c \in Processors /\ (Enter(c) \/ StoreResult(c))
         /\ \/ UNCHANGED <<used, settled>>
            \/ c \in Processors /\ (BeginGranted(c) \/ Completes(c) \/ Fails(c))
<1> USE DEF book, ledger
<1>1. ASSUME c \in Delegators, Delegate(c) PROVE Kept
  <2>1. CASE Create(c)
    BY <1>1, <2>1 DEF Create
  <2>2. CASE Evaluate(c)
    BY <2>2 DEF Evaluate, ReadRule, ReadTrust, ReadPerform, Reads
  <2>3. CASE Store(c)
    BY <1>1, <2>3 DEF Store
  <2>4. CASE Send(c)
    BY <1>1, <2>4 DEF Send
  <2> QED
    BY <1>1, <2>1, <2>2, <2>3, <2>4 DEF Delegate
<1>2. ASSUME c \in Processors, Process(c) PROVE Kept
  <2>1. CASE Receive(c)
    BY <1>2, <2>1 DEF Receive
  <2>2. CASE Evaluate(c)
    BY <2>2 DEF Evaluate, ReadRule, ReadTrust, ReadPerform, Reads
  <2>3. CASE Expired(c) \/ LookUp(c) \/ BeginRefused(c) \/ Unrecorded(c)
    BY <2>3 DEF Expired, LookUp, BeginRefused, Unrecorded
  <2>4. CASE BeginGranted(c)
    BY <1>2, <2>4 DEF BeginGranted
  <2>5. CASE Completes(c) \/ Fails(c)
    BY <1>2, <2>5 DEF Completes, Fails
  <2>6. CASE Enter(c)
    BY <1>2, <2>6 DEF Enter
  <2>7. CASE StoreResult(c)
    BY <1>2, <2>7 DEF StoreResult
  <2> QED
    BY <1>2, <2>1, <2>2, <2>3, <2>4, <2>5, <2>6, <2>7 DEF Process
<1> QED
  BY <1>1, <1>2 DEF Works

LEMMA AdministerKeeps ==
  ASSUME NEW a \in Agents, Administer(a)
  PROVE  /\ UNCHANGED <<request, sent, task, outcome, used, settled>>
         /\ Restart(a) \/ UNCHANGED <<stage, delegations, results, log>>
BY DEF Administer, Add, Remove, Handle, SaveOpens, SaveWrites, Restart, book, ledger

\* Every step is one of these.
LEMMA Steps ==
  ASSUME [Next]_vars
  PROVE  \/ UNCHANGED vars
         \/ Remember /\ \E c \in Calls : Works(c)
         \/ Remember /\ \E a \in Agents : Administer(a)
BY DEF Next, Works

-----------------------------------------------------------------------------
(***************************************************************************)
(* Types                                                                   *)
(***************************************************************************)

RulesOK ==
  /\ policy \in [Agents -> SUBSET Grants]
  /\ file \in [Agents -> (SUBSET Grants) \cup {Torn}]
  /\ writing \in [Agents -> (SUBSET Grants) \cup {None}]
  /\ handlers \in [Agents -> SUBSET Actions]
  /\ kept \in [Agents -> SUBSET Grants]
  /\ added \in [Agents -> SUBSET Grants]
  /\ admin \in 0 .. MaxAdmin

CallsOK ==
  /\ stage \in [Calls -> Stages]
  /\ request \in [Delegators -> Request \cup {None}]
  /\ sent \subseteq Delegators
  /\ task \in [Processors -> Delegators \cup {None}]
  /\ outcome \in [Processors -> {"COMPLETED", "FAILED", None}]

BookOK ==
  /\ delegations \in [Agents -> [Ids -> Delegators \cup {None}]]
  /\ results \in [Agents -> [Ids -> {"COMPLETED", "FAILED", None}]]
  /\ log \in [Agents -> Seq(Entry)]

LedgerOK ==
  /\ used \in [Delegators -> 0 .. MaxAttempts]
  /\ settled \in [Delegators -> BOOLEAN]

HeldOK == held \in [Calls -> SUBSET Grants]

LEMMA TypeParts == TypeOK <=> RulesOK /\ CallsOK /\ BookOK /\ LedgerOK /\ HeldOK
BY DEF TypeOK, RulesOK, CallsOK, BookOK, LedgerOK, HeldOK

LEMMA TypePartsNext ==
  TypeOK' <=> RulesOK' /\ CallsOK' /\ BookOK' /\ LedgerOK' /\ HeldOK'
BY DEF TypeOK, RulesOK, CallsOK, BookOK, LedgerOK, HeldOK

LEMMA EmptyTypes ==
  /\ EmptyBook \in [Ids -> Delegators \cup {None}]
  /\ EmptyBook \in [Ids -> {"COMPLETED", "FAILED", None}]
BY DEF EmptyBook

LEMMA BaseInit == Init => Base
<1> SUFFICES ASSUME Init PROVE Base
  OBVIOUS
<1>1. RulesOK
  BY NetworkAssumption DEF Init, RulesOK
<1>2. CallsOK
  BY DEF Init, CallsOK, Stages
<1>3. BookOK
  <2>1. <<>> \in Seq(Entry)
    OBVIOUS
  <2> QED
    BY <2>1, EmptyTypes DEF Init, BookOK
<1>4. LedgerOK /\ HeldOK
  <2>1. 0 \in 0 .. MaxAttempts
    BY NetworkAssumption
  <2> QED
    BY <2>1 DEF Init, LedgerOK, HeldOK
<1>5. Known /\ Decided
  BY DEF Init, Known, Decided, Made, Working, Evaluating, Executing, EmptyBook
<1> QED
  BY <1>1, <1>2, <1>3, <1>4, <1>5, TypeParts DEF Base

LEMMA RulesStep == Base /\ [Next]_vars => RulesOK'
<1> SUFFICES ASSUME Base, [Next]_vars PROVE RulesOK'
  OBVIOUS
<1>0. RulesOK
  BY TypeParts DEF Base
<1>1. CASE UNCHANGED vars
  BY <1>0, <1>1 DEF vars, rules, past, RulesOK
<1>2. ASSUME NEW c \in Calls, Works(c) PROVE RulesOK'
  BY <1>0, <1>2, WorksKeeps DEF RulesOK
<1>3. ASSUME NEW a \in Agents, Administer(a) PROVE RulesOK'
  <2>1. ASSUME NEW g \in Adjusted[a], Add(a, g) \/ Remove(a, g) PROVE RulesOK'
    <3>1. g \in Grants
      BY NetworkAssumption
    <3>2. admin' \in 0 .. MaxAdmin
      BY <1>0, <2>1, NetworkAssumption DEF Add, Remove, Administers, RulesOK
    <3> QED
      BY <1>0, <2>1, <3>1, <3>2 DEF Add, Remove, RulesOK
  <2>2. CASE (\E act \in Actions : Handle(a, act)) \/ SaveOpens(a)
    <3>1. admin' \in 0 .. MaxAdmin
      BY <1>0, <2>2, NetworkAssumption DEF Handle, SaveOpens, Administers, RulesOK
    <3> QED
      BY <1>0, <2>2, <3>1 DEF Handle, SaveOpens, RulesOK
  <2>3. CASE SaveWrites(a)
    BY <1>0, <2>3 DEF SaveWrites, RulesOK
  <2>4. CASE Restart(a)
    <3>1. Loaded(file[a]) \in SUBSET Grants
      BY <1>0 DEF RulesOK, Loaded
    <3>2. admin' \in 0 .. MaxAdmin
      BY <1>0, <2>4, NetworkAssumption DEF Restart, RulesOK
    <3> QED
      BY <1>0, <2>4, <3>1, <3>2 DEF Restart, RulesOK
  <2> QED
    BY <1>3, <2>1, <2>2, <2>3, <2>4 DEF Administer
<1> QED
  BY <1>1, <1>2, <1>3, Steps

LEMMA CallsStep == Base /\ [Next]_vars => CallsOK'
<1> SUFFICES ASSUME Base, [Next]_vars PROVE CallsOK'
  OBVIOUS
<1>0. CallsOK
  BY TypeParts DEF Base
<1>1. CASE UNCHANGED vars
  BY <1>0, <1>1 DEF vars, CallsOK
<1>2. ASSUME NEW c \in Calls, Works(c) PROVE CallsOK'
  <2>1. stage' \in [Calls -> Stages]
    BY <1>0, <1>2, WorksKeeps DEF CallsOK
  <2>2. request' \in [Delegators -> Request \cup {None}]
    <3>1. ASSUME c \in Delegators, Create(c)
          PROVE  request' \in [Delegators -> Request \cup {None}]
      BY <1>0, <3>1, CreatedRequest DEF Create, CallsOK
    <3> QED
      BY <1>0, <1>2, <3>1, WorksOn DEF CallsOK
  <2>3. sent' \subseteq Delegators
    <3>1. ASSUME c \in Delegators, Send(c) PROVE sent' \subseteq Delegators
      <4>1. AgentOf[c] \in Agents /\ request[c].id \in Ids
        BY <3>1, InHand, NetworkAssumption DEF Send, Moves, Base, Working, RequestOf
      <4>2. delegations[AgentOf[c]][request[c].id] \in Delegators \cup {None}
        BY <4>1, TypeParts DEF Base, BookOK
      <4> QED
        BY <1>0, <3>1, <4>2 DEF Send, CallsOK
    <3> QED
      BY <1>0, <1>2, <3>1, WorksOn DEF CallsOK
  <2>4. task' \in [Processors -> Delegators \cup {None}]
    BY <1>0, <1>2, WorksOn DEF Receive, CallsOK
  <2>5. outcome' \in [Processors -> {"COMPLETED", "FAILED", None}]
    BY <1>0, <1>2, WorksOn DEF Completes, Fails, CallsOK
  <2> QED
    BY <2>1, <2>2, <2>3, <2>4, <2>5 DEF CallsOK
<1>3. ASSUME NEW a \in Agents, Administer(a) PROVE CallsOK'
  <2>1. CASE Restart(a)
    <3>1. stage' \in [Calls -> Stages]
      BY <1>0, <2>1 DEF Restart, CallsOK, Stages
    <3> QED
      BY <1>0, <2>1, <3>1 DEF Restart, CallsOK
  <2> QED
    BY <1>0, <1>3, <2>1, AdministerKeeps DEF CallsOK
<1> QED
  BY <1>1, <1>2, <1>3, Steps

LEMMA Recorded ==
  ASSUME log \in [Agents -> Seq(Entry)], NEW a \in Agents, NEW e \in Entry,
         Record(a, e)
  PROVE  log' \in [Agents -> Seq(Entry)]
<1>1. Append(log[a], e) \in Seq(Entry)
  OBVIOUS
<1> QED
  BY <1>1 DEF Record

LEMMA BookStep == Base /\ [Next]_vars => BookOK'
<1> SUFFICES ASSUME Base, [Next]_vars PROVE BookOK'
  OBVIOUS
<1>0. BookOK
  BY TypeParts DEF Base
<1>1. CASE UNCHANGED vars
  BY <1>0, <1>1 DEF vars, book, BookOK
<1>2. ASSUME NEW c \in Calls, Works(c) PROVE BookOK'
  <2>1. ASSUME c \in Delegators, Store(c) PROVE BookOK'
    <3>1. AgentOf[c] \in Agents /\ request[c].id \in Ids
      BY <2>1, InHand, NetworkAssumption DEF Store, Moves, Base, Working, RequestOf
    <3>2. log' \in [Agents -> Seq(Entry)]
      BY <1>0, <2>1, <3>1, Recorded DEF Store, Entry, BookOK
    <3>3. delegations' \in [Agents -> [Ids -> Delegators \cup {None}]]
      BY <1>0, <2>1, <3>1 DEF Store, BookOK
    <3> QED
      BY <1>0, <2>1, <3>2, <3>3 DEF Store, BookOK
  <2>2. ASSUME c \in Processors, Enter(c) PROVE BookOK'
    <3>1. /\ AgentOf[c] \in Agents /\ RequestOf(c).id \in Ids
          /\ task[c] \in Delegators
      BY <2>2, InHand, NetworkAssumption DEF Enter, Moves, Base, Working, Executing
    <3>2. log' \in [Agents -> Seq(Entry)]
      BY <1>0, <2>2, <3>1, Recorded DEF Enter, Entry, BookOK
    <3>3. delegations' \in [Agents -> [Ids -> Delegators \cup {None}]]
      BY <1>0, <2>2, <3>1 DEF Enter, BookOK
    <3> QED
      BY <1>0, <2>2, <3>2, <3>3 DEF Enter, BookOK
  <2>3. ASSUME c \in Processors, StoreResult(c) PROVE BookOK'
    <3>1. /\ AgentOf[c] \in Agents /\ RequestOf(c).id \in Ids
          /\ outcome[c] \in {"COMPLETED", "FAILED"}
      BY <2>3, InHand, NetworkAssumption
         DEF StoreResult, Moves, Base, Working, Executing, Decided
    <3>2. log' \in [Agents -> Seq(Entry)]
      BY <1>0, <2>3, <3>1, Recorded DEF StoreResult, Entry, BookOK
    <3>3. results' \in [Agents -> [Ids -> {"COMPLETED", "FAILED", None}]]
      BY <1>0, <2>3, <3>1 DEF StoreResult, BookOK
    <3> QED
      BY <1>0, <2>3, <3>2, <3>3 DEF StoreResult, BookOK
  <2> QED
    BY <1>0, <1>2, <2>1, <2>2, <2>3, WorksOn DEF BookOK
<1>3. ASSUME NEW a \in Agents, Administer(a) PROVE BookOK'
  <2>1. CASE Restart(a)
    <3>1. <<>> \in Seq(Entry)
      OBVIOUS
    <3> QED
      BY <1>0, <2>1, <3>1, EmptyTypes DEF Restart, BookOK
  <2> QED
    BY <1>0, <1>3, <2>1, AdministerKeeps DEF BookOK
<1> QED
  BY <1>1, <1>2, <1>3, Steps

LEMMA LedgerStep == Base /\ [Next]_vars => LedgerOK'
<1> SUFFICES ASSUME Base, [Next]_vars PROVE LedgerOK'
  OBVIOUS
<1>0. LedgerOK
  BY TypeParts DEF Base
<1>1. CASE UNCHANGED vars
  BY <1>0, <1>1 DEF vars, ledger, LedgerOK
<1>2. ASSUME NEW c \in Calls, Works(c) PROVE LedgerOK'
  <2>1. ASSUME c \in Processors, BeginGranted(c) PROVE LedgerOK'
    <3>1. task[c] \in Delegators
      BY <2>1, InHand DEF BeginGranted, Moves, Base, Working
    <3>2. used[task[c]] + 1 \in 0 .. MaxAttempts
      BY <1>0, <2>1, <3>1, NetworkAssumption DEF BeginGranted, Gate!Grant, LedgerOK
    <3> QED
      BY <1>0, <2>1, <3>1, <3>2 DEF BeginGranted, Gate!Grant, LedgerOK
  <2>2. ASSUME c \in Processors, Completes(c) \/ Fails(c) PROVE LedgerOK'
    BY <1>0, <2>2 DEF Completes, Fails, Gate!Settle, LedgerOK, ledger
  <2> QED
    BY <1>0, <1>2, <2>1, <2>2, WorksOn DEF LedgerOK
<1>3. ASSUME NEW a \in Agents, Administer(a) PROVE LedgerOK'
  BY <1>0, <1>3, AdministerKeeps DEF LedgerOK
<1> QED
  BY <1>1, <1>2, <1>3, Steps

LEMMA TypeStep == Base /\ [Next]_vars => TypeOK'
<1> SUFFICES ASSUME Base, [Next]_vars PROVE TypeOK'
  OBVIOUS
<1>1. RulesOK' /\ CallsOK' /\ BookOK' /\ LedgerOK'
  BY RulesStep, CallsStep, BookStep, LedgerStep
<1>2. HeldOK'
  <2>1. CASE UNCHANGED vars
    BY <2>1, TypeParts DEF vars, HeldOK, Base
  <2>2. CASE Remember
    BY <1>1, <2>2, TypeParts, NetworkAssumption DEF Remember, RulesOK, HeldOK, Base
  <2> QED
    BY <2>1, <2>2, Steps
<1> QED
  BY <1>1, <1>2, TypePartsNext

-----------------------------------------------------------------------------
(***************************************************************************)
(* The requests in hand                                                    *)
(***************************************************************************)

\* A request that was made stays as it is; so does the one an invocation
\* works on.
LEMMA MadeStays ==
  ASSUME Base, [Next]_vars
  PROVE  /\ \A d \in Made : d \in Made' /\ request'[d] = request[d]
         /\ \A d \in Made' : d \in Made \/ (Create(d) /\ request'[d] \in Request)
<1>0. CallsOK
  BY TypeParts DEF Base
<1>1. CASE UNCHANGED vars
  BY <1>1 DEF vars, Made
<1>2. ASSUME NEW c \in Calls, Works(c)
      PROVE  /\ \A d \in Made : d \in Made' /\ request'[d] = request[d]
             /\ \A d \in Made' : d \in Made \/ (Create(d) /\ request'[d] \in Request)
  <2>1. ASSUME c \in Delegators, Create(c)
        PROVE  /\ \A d \in Made : d \in Made' /\ request'[d] = request[d]
               /\ \A d \in Made' : d \in Made \/ (Create(d) /\ request'[d] \in Request)
    BY <1>0, <2>1, CreatedRequest DEF Create, Moves, Made, CallsOK
  <2>2. ASSUME ~(c \in Delegators /\ Create(c)), NEW d \in Delegators
        PROVE  stage[d] # "idle" <=> stage'[d] # "idle"
    <3>1. CASE d # c
      <4>1. PICK s \in Stages : stage' = [stage EXCEPT ![c] = s]
        BY <1>2, WorksKeeps
      <4> QED
        BY <1>0, <3>1, <4>1 DEF CallsOK
    <3>2. CASE d = c /\ Delegate(d)
      BY <1>0, <2>2, <3>2 DEF Delegate, Evaluate, ReadRule, ReadTrust, ReadPerform,
                        Reads, Store, Send, Moves, CallsOK
    <3> QED
      BY <1>2, <3>1, <3>2, NetworkAssumption DEF Works
  <2> QED
    BY <1>2, <2>1, <2>2, WorksOn DEF Made
<1>3. ASSUME NEW a \in Agents, Administer(a)
      PROVE  /\ \A d \in Made : d \in Made' /\ request'[d] = request[d]
             /\ \A d \in Made' : d \in Made \/ (Create(d) /\ request'[d] \in Request)
  BY <1>0, <1>3, AdministerKeeps DEF Restart, Final, Made, CallsOK
<1> QED
  BY <1>1, <1>2, <1>3, Steps

\* A request gets into hand when it is made, or received.
LEMMA IntoHand ==
  ASSUME Base, [Next]_vars, NEW c \in Calls, stage'[c] \in Working
  PROVE  \/ stage[c] \in Working
         \/ stage[c] = "idle" /\ stage'[c] = "rule" /\ c \in Delegators /\ Create(c)
         \/ stage[c] = "idle" /\ stage'[c] = "rule" /\ c \in Processors /\ Receive(c)
<1> DEFINE Goal ==
         \/ stage[c] \in Working
         \/ stage[c] = "idle" /\ stage'[c] = "rule" /\ c \in Delegators /\ Create(c)
         \/ stage[c] = "idle" /\ stage'[c] = "rule" /\ c \in Processors /\ Receive(c)
<1>0. CallsOK
  BY TypeParts DEF Base
<1>1. CASE UNCHANGED vars
  BY <1>1 DEF vars
<1>2. ASSUME NEW e \in Calls, Works(e) PROVE Goal
  <2>1. CASE e # c
    <3>1. PICK s \in Stages : stage' = [stage EXCEPT ![e] = s]
      BY <1>2, WorksKeeps
    <3> QED
      BY <1>0, <2>1, <3>1 DEF CallsOK
  <2>2. CASE c \in Delegators /\ Delegate(c)
    <3>1. CASE Create(c)
      BY <1>0, <2>2, <3>1 DEF Create, Moves, CallsOK
    <3>2. CASE Evaluate(c) \/ Store(c) \/ Send(c)
      BY <3>2 DEF Evaluate, ReadRule, ReadTrust, ReadPerform, Reads, Store,
                  Send, Moves, Working, Evaluating
    <3> QED
      BY <2>2, <3>1, <3>2 DEF Delegate
  <2>3. CASE c \in Processors /\ Process(c)
    <3>1. CASE Receive(c)
      BY <1>0, <2>3, <3>1 DEF Receive, Moves, CallsOK, Working, Evaluating, Executing
    <3>2. CASE Expired(c)
      BY <1>0, <2>3, <3>2 DEF Expired, Moves, CallsOK, Working, Evaluating, Executing
    <3>3. CASE Evaluate(c) \/ LookUp(c)
      BY <3>3 DEF Evaluate, ReadRule, ReadTrust, ReadPerform, Reads, LookUp,
                  Moves, Working, Evaluating
    <3>4. CASE ~Receive(c) /\ ~Expired(c) /\ ~Evaluate(c) /\ ~LookUp(c)
      BY <2>3, <3>4 DEF Process, BeginGranted, BeginRefused, Enter, Completes,
                        Fails, Unrecorded, StoreResult, Moves, Working, Executing
    <3> QED
      BY <3>1, <3>2, <3>3, <3>4
  <2> QED
    BY <1>2, <2>1, <2>2, <2>3 DEF Works
<1>3. ASSUME NEW a \in Agents, Administer(a) PROVE Goal
  BY <1>0, <1>3, AdministerKeeps
     DEF Restart, CallsOK, Working, Evaluating, Executing
<1> QED
  BY <1>1, <1>2, <1>3, Steps

\* It is the same request as long as it is in hand.
LEMMA HandStays ==
  ASSUME Base, [Next]_vars, NEW c \in Calls, stage[c] \in Working
  PROVE  /\ RequestOf(c)' = RequestOf(c)
         /\ c \in Processors => task'[c] = task[c]
<1>0. CallsOK /\ Known
  BY TypeParts DEF Base
<1>1. ASSUME c \in Processors PROVE task'[c] = task[c]
  <2>1. CASE UNCHANGED vars
    BY <2>1 DEF vars
  <2>2. ASSUME NEW e \in Calls, Works(e) PROVE task'[c] = task[c]
    <3>1. ASSUME e \in Processors, Receive(e) PROVE task'[c] = task[c]
      <4>1. e # c
        BY <3>1 DEF Receive, Moves, Working, Evaluating, Executing
      <4> QED
        BY <1>0, <1>1, <3>1, <4>1 DEF Receive, CallsOK
    <3> QED
      BY <2>2, <3>1, WorksOn
  <2>3. ASSUME NEW a \in Agents, Administer(a) PROVE task'[c] = task[c]
    BY <2>3, AdministerKeeps
  <2> QED
    BY <2>1, <2>2, <2>3, Steps
<1>2. c \in Delegators => c \in Made
  BY DEF Made, Working, Evaluating, Executing
<1>3. c \in Processors => task[c] \in Made
  BY <1>0 DEF Known
<1>4. c \in Delegators => request'[c] = request[c]
  BY <1>2, MadeStays
<1>5. c \in Processors => request'[task[c]] = request[task[c]]
  BY <1>3, MadeStays
<1> QED
  BY <1>1, <1>4, <1>5 DEF RequestOf

LEMMA KnownStep == Base /\ [Next]_vars => Known'
<1> SUFFICES ASSUME Base, [Next]_vars PROVE Known'
  OBVIOUS
<1>0. CallsOK /\ BookOK /\ Known
  BY TypeParts DEF Base
<1>1. /\ \A d \in Made : d \in Made' /\ request'[d] = request[d]
      /\ \A d \in Made' : d \in Made \/ (Create(d) /\ request'[d] \in Request)
  BY MadeStays
<1>2. \A d \in Made' : request'[d] \in Request
  BY <1>0, <1>1 DEF Known
<1>3. sent' \subseteq Made'
  <2>1. ASSUME NEW c \in Delegators, Send(c) PROVE sent' \subseteq Made
    <3>1. AgentOf[c] \in Agents /\ request[c].id \in Ids
      BY <2>1, InHand, NetworkAssumption DEF Send, Moves, Base, Working, RequestOf
    <3>2. delegations[AgentOf[c]][request[c].id] \in Made \cup {None}
      BY <1>0, <3>1 DEF Known
    <3> QED
      BY <1>0, <2>1, <3>2 DEF Send, Known
  <2>2. sent' \subseteq Made
    <3>1. CASE UNCHANGED vars
      BY <1>0, <3>1 DEF vars, Known
    <3>2. ASSUME NEW c \in Calls, Works(c) PROVE sent' \subseteq Made
      BY <1>0, <2>1, <3>2, WorksOn DEF Known
    <3>3. ASSUME NEW a \in Agents, Administer(a) PROVE sent' \subseteq Made
      BY <1>0, <3>3, AdministerKeeps DEF Known
    <3> QED
      BY <3>1, <3>2, <3>3, Steps
  <2> QED
    BY <1>1, <2>2
<1>4. ASSUME NEW p \in Processors, stage'[p] \in Working PROVE task'[p] \in Made'
  <2>1. CASE stage[p] \in Working
    BY <1>0, <1>1, <2>1, HandStays DEF Known
  <2>2. CASE Receive(p)
    BY <1>0, <1>1, <2>2 DEF Receive, CallsOK, Known
  <2> QED
    BY <1>4, <2>1, <2>2, IntoHand, NetworkAssumption
<1>5. ASSUME NEW a \in Agents, NEW i \in Ids
      PROVE  delegations'[a][i] \in Made' \cup {None}
  <2>0. delegations[a][i] \in Made' \cup {None}
    BY <1>0, <1>1 DEF Known
  <2>1. CASE UNCHANGED vars
    BY <2>0, <2>1 DEF vars, book
  <2>2. ASSUME NEW c \in Calls, Works(c) PROVE delegations'[a][i] \in Made' \cup {None}
    <3>1. ASSUME c \in Delegators, Store(c)
          PROVE  delegations'[a][i] \in Made' \cup {None}
      <4>1. c \in Made
        BY <3>1 DEF Store, Moves, Made
      <4> QED
        BY <1>0, <1>1, <2>0, <3>1, <4>1 DEF Store, BookOK
    <3>2. ASSUME c \in Processors, Enter(c)
          PROVE  delegations'[a][i] \in Made' \cup {None}
      <4>1. task[c] \in Made
        BY <1>0, <3>2 DEF Enter, Moves, Known, Working, Executing
      <4> QED
        BY <1>0, <1>1, <2>0, <3>2, <4>1 DEF Enter, BookOK
    <3>3. ASSUME c \in Processors, StoreResult(c) PROVE UNCHANGED delegations
      BY <3>3 DEF StoreResult
    <3> QED
      BY <2>0, <2>2, <3>1, <3>2, <3>3, WorksOn
  <2>3. ASSUME NEW b \in Agents, Administer(b)
        PROVE  delegations'[a][i] \in Made' \cup {None}
    <3>1. CASE Restart(b)
      <4>1. EmptyBook[i] = None
        BY DEF EmptyBook
      <4> QED
        BY <1>0, <2>0, <3>1, <4>1 DEF Restart, BookOK
    <3> QED
      BY <2>0, <2>3, <3>1, AdministerKeeps
  <2> QED
    BY <2>1, <2>2, <2>3, Steps
<1> QED
  BY <1>2, <1>3, <1>4, <1>5 DEF Known

LEMMA DecidedStep == Base /\ [Next]_vars => Decided'
<1> SUFFICES ASSUME Base, [Next]_vars,
                    NEW p \in Processors, stage'[p] = "storing"
             PROVE  outcome'[p] \in {"COMPLETED", "FAILED"}
  BY DEF Decided
<1>0. CallsOK /\ Decided
  BY TypeParts DEF Base
<1>1. CASE UNCHANGED vars
  BY <1>0, <1>1 DEF vars, Decided
<1>2. ASSUME NEW c \in Calls, Works(c) PROVE outcome'[p] \in {"COMPLETED", "FAILED"}
  <2>1. ASSUME c \in Processors, Completes(c) \/ Fails(c)
        PROVE  outcome'[p] \in {"COMPLETED", "FAILED"}
    BY <1>0, <2>1 DEF Completes, Fails, Moves, CallsOK, Decided
  <2>2. CASE UNCHANGED outcome /\ c # p
    <3>1. PICK s \in Stages : stage' = [stage EXCEPT ![c] = s]
      BY <1>2, WorksKeeps
    <3> QED
      BY <1>0, <2>2, <3>1 DEF CallsOK, Decided
  <2>3. CASE ~(Completes(p) \/ Fails(p)) /\ c = p
    <3>1. Process(p)
      BY <1>2, <2>3, NetworkAssumption DEF Works
    <3> QED
      BY <1>0, <2>3, <3>1
         DEF Process, Receive, Expired, Evaluate, ReadRule, ReadTrust,
             ReadPerform, Reads, LookUp, BeginGranted, BeginRefused, Enter,
             Unrecorded, StoreResult, Moves, CallsOK
  <2> QED
    BY <1>2, <2>1, <2>2, <2>3, WorksOn
<1>3. ASSUME NEW a \in Agents, Administer(a)
      PROVE  outcome'[p] \in {"COMPLETED", "FAILED"}
  BY <1>0, <1>3, AdministerKeeps DEF Restart, CallsOK, Decided
<1> QED
  BY <1>1, <1>2, <1>3, Steps

LEMMA BaseStep == Base /\ [Next]_vars => Base'
BY TypeStep, KnownStep, DecidedStep DEF Base

\* Policies, tables and requests keep their types; what is stored is a status.
THEOREM AgentTypes == Spec => []TypeOK
<1>1. Base => TypeOK
  BY DEF Base
<1> QED
  BY <1>1, BaseInit, BaseStep, PTL DEF Spec

-----------------------------------------------------------------------------
(***************************************************************************)
(* The policy                                                              *)
(***************************************************************************)

\* The stages after a favourable evaluation.
Passed == {"approved", "created", "begin"} \cup Executing

\* What an evaluation has found so far it has seen in force.
Seen ==
  \A c \in Calls :
    /\ stage[c] \in Evaluating
         => policy[AgentOf[c]] \cap Needed(RequestOf(c)) \subseteq held[c]
    /\ stage[c] \in {"trust", "perform"} => RuleGrant(RequestOf(c)) \in held[c]
    /\ stage[c] = "perform" => TrustGrant(RequestOf(c)) \in held[c]

\* How an invocation gets on.
LEMMA Progress ==
  ASSUME Base, [Next]_vars, NEW c \in Calls, stage'[c] \in Evaluating \cup Passed
  PROVE  LET r == RequestOf(c) IN
         \/ stage'[c] = stage[c]
         \/ stage[c] = "idle" /\ stage'[c] = "rule"
         \/ /\ stage[c] = "rule" /\ stage'[c] = "trust"
            /\ RuleGrant(r) \in policy[AgentOf[c]]
         \/ /\ stage[c] = "trust" /\ stage'[c] = "perform"
            /\ TrustGrant(r) \in policy[AgentOf[c]]
         \/ /\ stage[c] = "perform" /\ stage'[c] = "approved"
            /\ PerformGrant(r) \in policy[AgentOf[c]]
         \/ stage[c] \in Passed /\ stage'[c] \in Passed
<1> DEFINE r == RequestOf(c)
           Goal ==
             \/ stage'[c] = stage[c]
             \/ stage[c] = "idle" /\ stage'[c] = "rule"
             \/ /\ stage[c] = "rule" /\ stage'[c] = "trust"
                /\ RuleGrant(r) \in policy[AgentOf[c]]
             \/ /\ stage[c] = "trust" /\ stage'[c] = "perform"
                /\ TrustGrant(r) \in policy[AgentOf[c]]
             \/ /\ stage[c] = "perform" /\ stage'[c] = "approved"
                /\ PerformGrant(r) \in policy[AgentOf[c]]
             \/ stage[c] \in Passed /\ stage'[c] \in Passed
<1>0. CallsOK
  BY TypeParts DEF Base
<1>1. CASE UNCHANGED vars
  BY <1>1 DEF vars
<1>2. ASSUME NEW e \in Calls, Works(e) PROVE Goal
  <2>1. CASE e # c
    <3>1. PICK s \in Stages : stage' = [stage EXCEPT ![e] = s]
      BY <1>2, WorksKeeps
    <3> QED
      BY <1>0, <2>1, <3>1 DEF CallsOK
  <2>2. ASSUME Evaluate(c) PROVE Goal
    <3>1. CASE ReadRule(c)
      BY <1>0, <3>1 DEF ReadRule, Reads, Moves, CallsOK, Passed, Evaluating, Executing
    <3>2. CASE ReadTrust(c)
      BY <1>0, <3>2 DEF ReadTrust, Reads, Moves, CallsOK, Passed, Evaluating, Executing
    <3>3. CASE ReadPerform(c)
      BY <1>0, <3>3 DEF ReadPerform, Reads, Moves, CallsOK, Passed, Evaluating, Executing
    <3> QED
      BY <2>2, <3>1, <3>2, <3>3 DEF Evaluate
  <2>3. ASSUME c \in Delegators, Delegate(c) PROVE Goal
    BY <1>0, <2>2, <2>3
       DEF Delegate, Create, Store, Send, Moves, CallsOK, Passed, Evaluating, Executing
  <2>4. ASSUME c \in Processors, Process(c) PROVE Goal
    <3>1. CASE Receive(c) \/ Expired(c)
      BY <1>0, <3>1 DEF Receive, Expired, Moves, CallsOK, Passed, Evaluating, Executing
    <3>2. CASE ~Receive(c) /\ ~Expired(c) /\ ~Evaluate(c)
      BY <1>0, <2>4, <3>2
         DEF Process, LookUp, BeginGranted, BeginRefused, Enter, Completes,
             Fails, Unrecorded, StoreResult, Moves, CallsOK, Passed, Evaluating,
             Executing
    <3> QED
      BY <2>2, <3>1, <3>2
  <2> QED
    BY <1>2, <2>1, <2>3, <2>4 DEF Works
<1>3. ASSUME NEW a \in Agents, Administer(a) PROVE Goal
  BY <1>0, <1>3, AdministerKeeps
     DEF Restart, CallsOK, Passed, Evaluating, Executing
<1> QED
  BY <1>1, <1>2, <1>3, Steps

LEMMA SeenInit == Init => Seen /\ PermittedEach
BY DEF Init, Seen, PermittedEach, Evaluating, Executing

\* Each read finds its grant in the policy, hence among those seen, and what
\* was seen stays seen while the request is the same.
LEMMA SeenStep == Base /\ Seen /\ PermittedEach /\ [Next]_vars => Seen' /\ PermittedEach'
<1> SUFFICES ASSUME Base, Seen, PermittedEach, [Next]_vars, NEW c \in Calls
             PROVE  /\ stage'[c] \in Evaluating
                         => policy'[AgentOf[c]] \cap Needed(RequestOf(c)') \subseteq held'[c]
                    /\ stage'[c] \in {"trust", "perform"}
                         => RuleGrant(RequestOf(c)') \in held'[c]
                    /\ stage'[c] = "perform" => TrustGrant(RequestOf(c)') \in held'[c]
                    /\ stage'[c] \in Passed
                         => Needed(RequestOf(c)') \subseteq held'[c]
  BY DEF Seen, PermittedEach, Passed, RuleGrant, TrustGrant, Needed, PerformGrant
<1> DEFINE r == RequestOf(c)
<1>1. CASE UNCHANGED vars
  <2>1. RequestOf(c)' = RequestOf(c)
    BY <1>1 DEF vars, RequestOf
  <2> QED
    BY <1>1, <2>1 DEF vars, rules, Seen, PermittedEach, Passed
<1>2. CASE Remember /\ stage'[c] \in Evaluating \cup Passed
  <2>1. stage[c] \in Working => RequestOf(c)' = r
    BY HandStays
  <2>2. stage'[c] \in Evaluating =>
          held'[c] = ((IF stage[c] \in Evaluating THEN held[c] ELSE {})
                        \cup policy'[AgentOf[c]]) \cap Needed(RequestOf(c)')
    BY <1>2 DEF Remember
  <2>3. stage'[c] \in Passed => held'[c] = held[c]
    BY <1>2 DEF Remember, Passed, Evaluating, Executing
  <2>4. /\ RuleGrant(r) \in Needed(r) /\ TrustGrant(r) \in Needed(r)
        /\ Needed(r) = {RuleGrant(r), TrustGrant(r), PerformGrant(r)}
    BY DEF Needed
  <2>5. CASE stage[c] = "idle" /\ stage'[c] = "rule"
    BY <2>2, <2>5 DEF Passed, Executing, Evaluating
  <2>6. CASE stage[c] \in Evaluating /\ stage'[c] \in Evaluating
    <3>1. /\ stage[c] \in Working
          /\ policy[AgentOf[c]] \cap Needed(r) \subseteq held[c]
          /\ stage[c] \in {"trust", "perform"} => RuleGrant(r) \in held[c]
          /\ stage[c] = "perform" => TrustGrant(r) \in held[c]
      BY <2>6 DEF Seen, Working
    <3>2. stage'[c] \in {"trust", "perform"} => RuleGrant(r) \in held[c]
      BY <1>2, <2>4, <2>6, <3>1, Progress DEF Passed, Executing, Evaluating
    <3>3. stage'[c] = "perform" => TrustGrant(r) \in held[c]
      BY <1>2, <2>4, <2>6, <3>1, Progress DEF Passed, Executing, Evaluating
    <3>4. stage'[c] \notin Passed
      BY <2>6 DEF Passed, Executing, Evaluating
    <3> QED
      BY <2>1, <2>2, <2>4, <2>6, <3>1, <3>2, <3>3, <3>4
  <2>7. CASE stage[c] = "perform" /\ stage'[c] = "approved"
    <3>1. /\ stage[c] \in Working
          /\ policy[AgentOf[c]] \cap Needed(r) \subseteq held[c]
          /\ RuleGrant(r) \in held[c] /\ TrustGrant(r) \in held[c]
      BY <2>7 DEF Seen, Working, Evaluating
    <3>2. PerformGrant(r) \in policy[AgentOf[c]]
      BY <1>2, <2>7, Progress DEF Passed, Executing
    <3>3. Needed(r) \subseteq held[c]
      BY <2>4, <3>1, <3>2 DEF Needed
    <3> QED
      BY <2>1, <2>3, <2>7, <3>1, <3>3 DEF Passed, Evaluating
  <2>8. CASE stage[c] \in Passed /\ stage'[c] \in Passed
    <3>1. stage[c] \in Working /\ Needed(r) \subseteq held[c]
      BY <2>8 DEF PermittedEach, Passed, Working
    <3>2. stage'[c] \notin Evaluating
      BY <2>8 DEF Passed, Executing, Evaluating
    <3>3. stage'[c] \notin {"trust", "perform"}
      BY <3>2 DEF Evaluating
    <3> QED
      BY <2>1, <2>3, <3>1, <3>2, <3>3
  <2> QED
    BY <1>2, <2>5, <2>6, <2>7, <2>8, Progress DEF Evaluating
<1>3. CASE stage'[c] \notin Evaluating \cup Passed
  BY <1>3 DEF Evaluating
<1> QED
  BY <1>1, <1>2, <1>3, Steps

\* A delegation is created, and an execution begun, only on grants each of
\* which was in force during its evaluation, in spite of the missing lock.
THEOREM ActsOnGrantsSeen == Spec => []PermittedEach
<1>1. Init => Base /\ Seen /\ PermittedEach
  BY BaseInit, SeenInit
<1>2. Base /\ Seen /\ PermittedEach /\ [Next]_vars
        => (Base /\ Seen /\ PermittedEach)'
  BY BaseStep, SeenStep
<1> QED
  BY <1>1, <1>2, PTL DEF Spec

-----------------------------------------------------------------------------
(***************************************************************************)
(* Authorizations                                                          *)
(***************************************************************************)

\* What a worker has in hand it has validated.
Checked ==
  \A p \in Processors :
    stage[p] \in Working => Valid(RequestOf(p), AgentOf[p], Context[AgentOf[p]])

LEMMA CheckedStep == Base /\ Checked /\ [Next]_vars => Checked'
<1> SUFFICES ASSUME Base, Checked, [Next]_vars,
                    NEW p \in Processors, stage'[p] \in Working
             PROVE  Valid(RequestOf(p)', AgentOf[p], Context[AgentOf[p]])
  BY DEF Checked
<1>1. CASE stage[p] \in Working
  BY <1>1, HandStays DEF Checked
<1>2. CASE stage[p] = "idle" /\ stage'[p] = "rule" /\ Receive(p)
  <2>0. CallsOK
    BY TypeParts DEF Base
  <2>1. PICK d \in sent :
          /\ task' = [task EXCEPT ![p] = d]
          /\ Moves(p, "idle",
               IF Valid(request[d], AgentOf[p], Context[AgentOf[p]])
               THEN "rule" ELSE "refused")
    BY <1>2 DEF Receive
  <2>2. Valid(request[d], AgentOf[p], Context[AgentOf[p]])
    BY <1>2, <2>0, <2>1 DEF Moves, CallsOK
  <2>3. RequestOf(p)' = request[d]
    BY <1>2, <2>0, <2>1, NetworkAssumption DEF RequestOf, Receive, CallsOK
  <2> QED
    BY <2>2, <2>3
<1> QED
  BY <1>1, <1>2, IntoHand, NetworkAssumption

\* A worker that requires authorization executes only what one decision of
\* the contract, for its build, authorized with exactly these parameters.
THEOREM RunsWhatWasDecided == Spec => []RunsAuthorized
<1>1. Init => Base /\ Checked
  BY BaseInit DEF Init, Checked, Working, Evaluating, Executing
<1>2. Base /\ Checked /\ [Next]_vars => (Base /\ Checked)'
  BY BaseStep, CheckedStep
<1>3. Base /\ Checked => RunsAuthorized
  <2> SUFFICES ASSUME Base, Checked, NEW p \in Processors,
                      stage[p] \in Executing, Requires(Context[AgentOf[p]])
               PROVE  \E d \in Decisions :
                        /\ d.routed = AgentOf[p] /\ d.id = RequestOf(p).id
                        /\ d.build = Context[AgentOf[p]].build
                        /\ RequestOf(p).receipt =
                             Receipt(d, RequestOf(p).action, RequestOf(p).params)
    BY DEF RunsAuthorized
  <2>1. Valid(RequestOf(p), AgentOf[p], Context[AgentOf[p]])
    BY DEF Checked, Working
  <2>2. RequestOf(p) \in Request
    BY InHand DEF Base, Working
  <2>3. RequestOf(p).receipt \in Receipts
    BY <2>1, <2>2 DEF Valid, Request
  <2>4. PICK d \in Decisions, act \in Actions, par \in Params :
          RequestOf(p).receipt = Receipt(d, act, par)
    BY <2>3 DEF Receipts
  <2>5. ReceiptAuthorizes(RequestOf(p).receipt, RequestOf(p), AgentOf[p],
                          Context[AgentOf[p]])
    BY <2>1 DEF Valid
  <2>6. /\ d.id = RequestOf(p).id /\ d.routed = AgentOf[p]
        /\ act = RequestOf(p).action /\ par = RequestOf(p).params
        /\ d.build = Context[AgentOf[p]].build
    BY <2>4, <2>5 DEF ReceiptAuthorizes, Receipt
  <2> QED
    BY <2>4, <2>6
<1> QED
  BY <1>1, <1>2, <1>3, PTL DEF Spec

-----------------------------------------------------------------------------
(***************************************************************************)
(* The policy file                                                         *)
(***************************************************************************)

\* The file is that of the last save, or torn; while a save is under way the
\* policy does not change.
Saved ==
  \A a \in Agents : /\ file[a] \in {kept[a], Torn}
                    /\ writing[a] # None => policy[a] = writing[a]

LEMMA SavedStep ==
  Base /\ Saved /\ RevocationSurvives /\ [Next]_vars => Saved' /\ RevocationSurvives'
<1> SUFFICES ASSUME Base, Saved, RevocationSurvives, [Next]_vars
             PROVE  Saved' /\ RevocationSurvives'
  OBVIOUS
<1>0. RulesOK
  BY TypeParts DEF Base
<1>1. CASE UNCHANGED vars
  BY <1>1 DEF vars, rules, past, Saved, RevocationSurvives
<1>2. ASSUME NEW c \in Calls, Works(c) PROVE Saved' /\ RevocationSurvives'
  BY <1>2, WorksKeeps DEF Saved, RevocationSurvives
<1>3. ASSUME NEW a \in Agents, Administer(a) PROVE Saved' /\ RevocationSurvives'
  <2>1. ASSUME NEW g \in Adjusted[a], Add(a, g) \/ Remove(a, g)
        PROVE  Saved' /\ RevocationSurvives'
    BY <1>0, <2>1 DEF Add, Remove, Administers, RulesOK, Saved, RevocationSurvives
  <2>2. ASSUME NEW act \in Actions, Handle(a, act)
        PROVE  Saved' /\ RevocationSurvives'
    BY <2>2 DEF Handle, Saved, RevocationSurvives
  <2>3. CASE SaveOpens(a)
    BY <1>0, <2>3 DEF SaveOpens, Administers, RulesOK, Saved, RevocationSurvives
  <2>4. CASE SaveWrites(a)
    BY <1>0, <2>4 DEF SaveWrites, RulesOK, Saved, RevocationSurvives
  <2>5. CASE Restart(a)
    <3>1. Loaded(file[a]) \subseteq kept[a]
      BY <1>0 DEF Loaded, Saved
    <3> QED
      BY <1>0, <2>5, <3>1 DEF Restart, RulesOK, Saved, RevocationSurvives
  <2> QED
    BY <1>3, <2>1, <2>2, <2>3, <2>4, <2>5 DEF Administer
<1> QED
  BY <1>1, <1>2, <1>3, Steps

\* A saved withdrawal is not undone by a restart, whenever it comes.
THEOREM WithdrawalsLast == Spec => []RevocationSurvives
<1>1. Init => Base /\ Saved /\ RevocationSurvives
  BY BaseInit, NetworkAssumption DEF Init, Saved, RevocationSurvives
<1>2. Base /\ Saved /\ RevocationSurvives /\ [Next]_vars
        => (Base /\ Saved /\ RevocationSurvives)'
  BY BaseStep, SavedStep
<1> QED
  BY <1>1, <1>2, PTL DEF Spec

-----------------------------------------------------------------------------
(***************************************************************************)
(* The tables and the log                                                  *)
(***************************************************************************)

\* What was entered and not stored yet.
Busy == {"running", "storing", "error"}

LEMMA EntriesSame ==
  ASSUME NEW a \in Agents, NEW i \in Ids, NEW t, log'[a] = log[a]
  PROVE  Entries(a, i, t)' = Entries(a, i, t)
BY DEF Entries

\* The log only grows, by one entry of one id.
LEMMA EntriesGrow ==
  ASSUME BookOK, NEW b \in Agents, NEW e \in Entry, Record(b, e),
         NEW a \in Agents, NEW i \in Ids, NEW t
  PROVE  /\ Entries(a, i, t)' =
              IF a = b /\ e.id = i /\ e.type = t
              THEN Entries(a, i, t) \cup {Len(log[a]) + 1} ELSE Entries(a, i, t)
         /\ \A n \in Entries(a, i, t) : n \in 1 .. Len(log[a]) /\ log'[a][n] = log[a][n]
         /\ a = b => log'[a][Len(log[a]) + 1] = e
<1>1. log[a] \in Seq(Entry) /\ Len(log[a]) \in Nat
  BY DEF BookOK
<1>2. log'[a] = IF a = b THEN Append(log[a], e) ELSE log[a]
  BY DEF Record, BookOK
<1>3. CASE a # b
  BY <1>2, <1>3 DEF Entries
<1>4. CASE a = b
  <2>1. /\ Len(log'[a]) = Len(log[a]) + 1
        /\ log'[a][Len(log[a]) + 1] = e
        /\ \A n \in 1 .. Len(log[a]) : log'[a][n] = log[a][n]
    BY <1>1, <1>2, <1>4
  <2>2. 1 .. Len(log'[a]) = (1 .. Len(log[a])) \cup {Len(log[a]) + 1}
    BY <1>1, <2>1
  <2>3. Entries(a, i, t)' = {n \in 1 .. Len(log'[a]) :
                               log'[a][n].id = i /\ log'[a][n].type = t}
    BY DEF Entries
  <2> QED
    BY <1>4, <2>1, <2>2, <2>3 DEF Entries
<1> QED
  BY <1>3, <1>4

LEMMA EntriesFinite ==
  ASSUME BookOK, NEW a \in Agents, NEW i \in Ids, NEW t
  PROVE  IsFiniteSet(Entries(a, i, t)) /\ Len(log[a]) + 1 \notin Entries(a, i, t)
<1>1. Len(log[a]) \in Nat
  BY DEF BookOK
<1>2. IsFiniteSet(1 .. Len(log[a]))
  BY <1>1, FS_Interval
<1>3. Entries(a, i, t) \subseteq 1 .. Len(log[a])
  BY DEF Entries
<1> QED
  BY <1>1, <1>2, <1>3, FS_Subset

\* When an invocation becomes busy, and when it ceases to be.
LEMMA BusyStep ==
  ASSUME Base, [Next]_vars, NEW p \in Processors
  PROVE  \/ Enter(p) /\ stage[p] \notin Busy /\ stage'[p] \in Busy
         \/ StoreResult(p) /\ stage[p] \in Busy /\ stage'[p] \notin Busy
         \/ Restart(AgentOf[p]) /\ stage'[p] \notin Busy
         \/ stage'[p] \in Busy <=> stage[p] \in Busy
<1> DEFINE Goal ==
         \/ Enter(p) /\ stage[p] \notin Busy /\ stage'[p] \in Busy
         \/ StoreResult(p) /\ stage[p] \in Busy /\ stage'[p] \notin Busy
         \/ Restart(AgentOf[p]) /\ stage'[p] \notin Busy
         \/ stage'[p] \in Busy <=> stage[p] \in Busy
<1>0. CallsOK
  BY TypeParts DEF Base
<1>1. CASE UNCHANGED vars
  BY <1>1 DEF vars
<1>2. ASSUME NEW c \in Calls, Works(c) PROVE Goal
  <2>1. CASE c # p
    <3>1. PICK s \in Stages : stage' = [stage EXCEPT ![c] = s]
      BY <1>2, WorksKeeps
    <3> QED
      BY <1>0, <2>1, <3>1 DEF CallsOK
  <2>2. CASE c = p /\ ~Evaluate(p)
    <3>1. Process(p)
      BY <1>2, <2>2, NetworkAssumption DEF Works
    <3>2. CASE Enter(p)
      BY <1>0, <3>2 DEF Enter, Moves, CallsOK, Busy
    <3>3. CASE StoreResult(p)
      BY <1>0, <3>3 DEF StoreResult, Moves, CallsOK, Busy
    <3>4. CASE ~Enter(p) /\ ~StoreResult(p)
      BY <1>0, <2>2, <3>1, <3>4
         DEF Process, Receive, Expired, LookUp, BeginGranted, BeginRefused,
             Completes, Fails, Unrecorded, Moves, CallsOK, Busy
    <3> QED
      BY <3>2, <3>3, <3>4
  <2>3. CASE Evaluate(p) /\ c = p
    BY <1>0, <2>3 DEF Evaluate, ReadRule, ReadTrust, ReadPerform, Reads, Moves,
                      CallsOK, Busy
  <2> QED
    BY <2>1, <2>2, <2>3
<1>3. ASSUME NEW a \in Agents, Administer(a) PROVE Goal
  BY <1>0, <1>3, AdministerKeeps DEF Restart, CallsOK, Busy, Final
<1> QED
  BY <1>1, <1>2, <1>3, Steps

LEMMA BusySame ==
  ASSUME Base, [Next]_vars, NEW a \in Agents, NEW i \in Ids, NEW X \in SUBSET Processors,
         \A p \in Processors \ X :
           AgentOf[p] = a => (stage'[p] \in Busy <=> stage[p] \in Busy)
  PROVE  Unfinished(a, i)' \ X = Unfinished(a, i) \ X
<1>1. ASSUME NEW p \in Processors \ X, AgentOf[p] = a, stage[p] \in Busy
      PROVE  RequestOf(p)' = RequestOf(p)
  BY <1>1, HandStays DEF Busy, Working, Executing
<1>2. /\ Unfinished(a, i) = {p \in Processors : AgentOf[p] = a /\ stage[p] \in Busy
                                                /\ RequestOf(p).id = i}
      /\ Unfinished(a, i)' = {p \in Processors : AgentOf[p] = a /\ stage'[p] \in Busy
                                                 /\ RequestOf(p)'.id = i}
  BY DEF Unfinished, Busy
<1> QED
  BY <1>1, <1>2

\* What the tables and the log of agent a say of id i: every reception was
\* completed or is unfinished, the result is that of the last completion, and
\* what is pending was created here or is unfinished.
Account(a, i) ==
  LET done == Entries(a, i, "completed") IN
  /\ IsFiniteSet(Unfinished(a, i))
  /\ Cardinality(Entries(a, i, "received"))
       = Cardinality(done) + Cardinality(Unfinished(a, i))
  /\ done = {} => results[a][i] = None
  /\ done # {} => \E n \in done : /\ \A m \in done : m <= n
                                  /\ results[a][i] = log[a][n].status
  /\ delegations[a][i] # None /\ results[a][i] = None
       => Entries(a, i, "created") # {} \/ Unfinished(a, i) # {}

Accounts == \A a \in Agents, i \in Ids : Account(a, i)

LEMMA AccountSame ==
  ASSUME NEW a \in Agents, NEW i \in Ids, Account(a, i), log'[a] = log[a],
         results'[a][i] = results[a][i], delegations'[a][i] = delegations[a][i],
         Unfinished(a, i)' = Unfinished(a, i)
  PROVE  Account(a, i)'
<1>1. \A t : Entries(a, i, t)' = Entries(a, i, t)
  BY EntriesSame
<1> QED
  BY <1>1 DEF Account

\* One unfinished invocation more, and one reception.
LEMMA AccountEntered ==
  ASSUME Base, NEW a \in Agents, NEW i \in Ids, Account(a, i),
         NEW p \in Processors, p \notin Unfinished(a, i),
         Unfinished(a, i)' = Unfinished(a, i) \cup {p},
         Record(a, [type |-> "received", id |-> i, status |-> "NEW"]),
         results'[a][i] = results[a][i]
  PROVE  Account(a, i)'
<1> DEFINE e == [type |-> "received", id |-> i, status |-> "NEW"]
           N == Len(log[a]) + 1
<1>0. BookOK /\ e \in Entry
  BY TypeParts DEF Base, Entry
<1>1. /\ Entries(a, i, "received")' = Entries(a, i, "received") \cup {N}
      /\ Entries(a, i, "completed")' = Entries(a, i, "completed")
      /\ \A n \in Entries(a, i, "completed") : log'[a][n] = log[a][n]
  BY <1>0, EntriesGrow
<1>2. /\ IsFiniteSet(Entries(a, i, "received")) /\ N \notin Entries(a, i, "received")
      /\ IsFiniteSet(Entries(a, i, "completed")) /\ IsFiniteSet(Unfinished(a, i))
  BY <1>0, EntriesFinite DEF Account
<1>3. /\ Cardinality(Entries(a, i, "received")) \in Nat
      /\ Cardinality(Entries(a, i, "completed")) \in Nat
      /\ Cardinality(Unfinished(a, i)) \in Nat
  BY <1>2, FS_CardinalityType
<1>4. /\ Cardinality(Entries(a, i, "received")')
           = Cardinality(Entries(a, i, "received")) + 1
      /\ Cardinality(Unfinished(a, i)') = Cardinality(Unfinished(a, i)) + 1
      /\ IsFiniteSet(Unfinished(a, i)')
  <2>1. Cardinality(Entries(a, i, "received") \cup {N})
          = Cardinality(Entries(a, i, "received")) + 1
    BY <1>2, FS_AddElement
  <2>2. /\ Cardinality(Unfinished(a, i) \cup {p}) = Cardinality(Unfinished(a, i)) + 1
        /\ IsFiniteSet(Unfinished(a, i) \cup {p})
    BY <1>2, FS_AddElement
  <2> QED
    BY <1>1, <2>1, <2>2
<1>5. Cardinality(Entries(a, i, "received")')
        = Cardinality(Entries(a, i, "completed")') + Cardinality(Unfinished(a, i)')
  BY <1>1, <1>3, <1>4 DEF Account
<1>6. Unfinished(a, i)' # {}
  OBVIOUS
<1> QED
  BY <1>1, <1>4, <1>5, <1>6 DEF Account

\* One unfinished invocation less, one completion, and its result.
LEMMA AccountStored ==
  ASSUME Base, NEW a \in Agents, NEW i \in Ids, Account(a, i),
         NEW p \in Processors, p \in Unfinished(a, i),
         Unfinished(a, i)' = Unfinished(a, i) \ {p},
         NEW s \in {"COMPLETED", "FAILED"},
         Record(a, [type |-> "completed", id |-> i, status |-> s]),
         results'[a][i] = s
  PROVE  Account(a, i)'
<1> DEFINE e == [type |-> "completed", id |-> i, status |-> s]
           N == Len(log[a]) + 1
<1>0. BookOK /\ e \in Entry /\ Len(log[a]) \in Nat
  <2>1. BookOK
    BY TypeParts DEF Base
  <2>2. e \in Entry
    BY DEF Entry
  <2> QED
    BY <2>1, <2>2 DEF BookOK
<1>1. /\ Entries(a, i, "received")' = Entries(a, i, "received")
      /\ Entries(a, i, "completed")' = Entries(a, i, "completed") \cup {N}
      /\ \A n \in Entries(a, i, "completed") : n \in 1 .. Len(log[a])
      /\ log'[a][N] = e
  BY <1>0, EntriesGrow
<1>2. /\ IsFiniteSet(Entries(a, i, "received")) /\ N \notin Entries(a, i, "completed")
      /\ IsFiniteSet(Entries(a, i, "completed")) /\ IsFiniteSet(Unfinished(a, i))
  BY <1>0, EntriesFinite DEF Account
<1>3. /\ Cardinality(Entries(a, i, "received")) \in Nat
      /\ Cardinality(Entries(a, i, "completed")) \in Nat
      /\ Cardinality(Unfinished(a, i)) \in Nat
  BY <1>2, FS_CardinalityType
<1>4. /\ Cardinality(Entries(a, i, "completed")')
           = Cardinality(Entries(a, i, "completed")) + 1
      /\ Cardinality(Unfinished(a, i)') = Cardinality(Unfinished(a, i)) - 1
      /\ IsFiniteSet(Unfinished(a, i)')
  <2>1. Cardinality(Entries(a, i, "completed") \cup {N})
          = Cardinality(Entries(a, i, "completed")) + 1
    BY <1>2, FS_AddElement
  <2>2. /\ Cardinality(Unfinished(a, i) \ {p}) = Cardinality(Unfinished(a, i)) - 1
        /\ IsFiniteSet(Unfinished(a, i) \ {p})
    BY <1>2, FS_RemoveElement
  <2> QED
    BY <1>1, <2>1, <2>2
<1>5. Cardinality(Entries(a, i, "received")')
        = Cardinality(Entries(a, i, "completed")') + Cardinality(Unfinished(a, i)')
  BY <1>1, <1>3, <1>4 DEF Account
<1>6. /\ N \in Entries(a, i, "completed")'
      /\ \A m \in Entries(a, i, "completed")' : m <= N
      /\ results'[a][i] = log'[a][N].status
  BY <1>0, <1>1
<1>7. results'[a][i] # None
  BY NetworkAssumption
<1> QED
  BY <1>4, <1>5, <1>6, <1>7 DEF Account

\* An entry of another id, or of a creation.
LEMMA AccountLogged ==
  ASSUME Base, NEW a \in Agents, NEW i \in Ids, Account(a, i),
         NEW b \in Agents, NEW e \in Entry, Record(b, e),
         a # b \/ i # e.id \/ (e.type = "created"),
         results'[a][i] = results[a][i],
         \/ delegations'[a][i] = delegations[a][i]
         \/ a = b /\ i = e.id /\ e.type = "created",
         Unfinished(a, i)' = Unfinished(a, i)
  PROVE  Account(a, i)'
<1>0. BookOK
  BY TypeParts DEF Base
<1>1. \A t : t # "created" => Entries(a, i, t)' = Entries(a, i, t)
  BY <1>0, EntriesGrow
<1>2. \A n \in Entries(a, i, "completed") : log'[a][n] = log[a][n]
  BY <1>0, EntriesGrow
<1>3. /\ Entries(a, i, "created") # {} => Entries(a, i, "created")' # {}
      /\ a = b /\ i = e.id /\ e.type = "created" => Entries(a, i, "created")' # {}
  BY <1>0, EntriesGrow
<1>4. /\ Entries(a, i, "received")' = Entries(a, i, "received")
      /\ Entries(a, i, "completed")' = Entries(a, i, "completed")
  BY <1>1
<1> QED
  BY <1>2, <1>3, <1>4 DEF Account

LEMMA AccountsStep == Base /\ Accounts /\ [Next]_vars => Accounts'
<1> SUFFICES ASSUME Base, Accounts, [Next]_vars, NEW a \in Agents, NEW i \in Ids
             PROVE  Account(a, i)'
  BY DEF Accounts
<1>0. CallsOK /\ BookOK /\ Account(a, i)
  BY TypeParts DEF Base, Accounts
<1>1. ASSUME UNCHANGED <<stage, delegations, results, log>> PROVE Account(a, i)'
  <2>1. Unfinished(a, i)' \ {} = Unfinished(a, i) \ {}
    BY <1>1, BusySame DEF Busy
  <2> QED
    BY <1>0, <1>1, <2>1, AccountSame
<1>2. CASE UNCHANGED vars
  BY <1>1, <1>2 DEF vars, book
<1>3. ASSUME NEW c \in Calls, Works(c) PROVE Account(a, i)'
  <2>1. \A p \in Processors \ {c} : stage'[p] = stage[p]
    BY <1>0, <1>3, WorksKeeps DEF CallsOK
  <2>2. Unfinished(a, i)' \ {c} = Unfinished(a, i) \ {c}
    <3> DEFINE X == {c} \cap Processors
    <3>1. X \in SUBSET Processors /\ \A p \in Processors \ X : stage'[p] = stage[p]
      BY <2>1
    <3>2. Unfinished(a, i)' \ X = Unfinished(a, i) \ X
      <4> HIDE DEF X
      <4> QED
        BY <3>1, BusySame
    <3>3. Unfinished(a, i)' \subseteq Processors /\ Unfinished(a, i) \subseteq Processors
      BY DEF Unfinished
    <3> QED
      BY <3>2, <3>3
  <2>3. ASSUME c \in Delegators, Store(c) PROVE Account(a, i)'
    <3> DEFINE b == AgentOf[c]
               e == [type |-> "created", id |-> request[c].id, status |-> "NEW"]
    <3>1. b \in Agents /\ request[c].id \in Ids
      BY <2>3, InHand, NetworkAssumption DEF Store, Moves, Base, Working, RequestOf
    <3>2. e \in Entry /\ Record(b, e)
      BY <2>3, <3>1 DEF Store, Entry
    <3>3. Unfinished(a, i)' = Unfinished(a, i)
      BY <2>2, <2>3, NetworkAssumption DEF Unfinished
    <3>4. results' = results
      BY <2>3 DEF Store
    <3>5. delegations'[a][i] = delegations[a][i] \/ (a = b /\ i = e.id)
      BY <1>0, <2>3, <3>1 DEF Store, BookOK
    <3> HIDE DEF b
    <3>6. e.type = "created" /\ e.id = request[c].id
      OBVIOUS
    <3> HIDE DEF e
    <3> QED
      BY <1>0, <3>1, <3>2, <3>3, <3>4, <3>5, <3>6, AccountLogged
  <2>4. ASSUME c \in Processors, Enter(c) PROVE Account(a, i)'
    <3> DEFINE b == AgentOf[c]
               j == RequestOf(c).id
               e == [type |-> "received", id |-> j, status |-> "NEW"]
    <3>1. b \in Agents /\ j \in Ids /\ stage[c] = "granted" /\ stage'[c] = "running"
      BY <1>0, <2>4, InHand, NetworkAssumption
         DEF Enter, Moves, Base, Working, Executing, CallsOK
    <3>2. e \in Entry /\ Record(b, e)
      BY <2>4, <3>1 DEF Enter, Entry
    <3>3. RequestOf(c)' = RequestOf(c)
      BY <3>1, HandStays DEF Working, Executing
    <3>4. c \notin Unfinished(a, i)
      BY <3>1 DEF Unfinished
    <3>5. c \in Unfinished(a, i)' <=> a = b /\ i = j
      BY <2>4, <3>1, <3>3 DEF Unfinished
    <3>6. results' = results
      BY <2>4 DEF Enter
    <3>7. delegations'[a][i] = delegations[a][i] \/ (a = b /\ i = j)
      BY <1>0, <2>4, <3>1 DEF Enter, BookOK
    <3>8. CASE a = b /\ i = j
      <4>1. Unfinished(a, i)' = Unfinished(a, i) \cup {c}
        BY <2>2, <3>4, <3>5, <3>8
      <4>2. Record(a, [type |-> "received", id |-> i, status |-> "NEW"])
        BY <3>2, <3>8
      <4> QED
        BY <1>0, <2>4, <3>4, <3>6, <4>1, <4>2, AccountEntered
    <3>9. CASE ~(a = b /\ i = j)
      <4>1. Unfinished(a, i)' = Unfinished(a, i)
        BY <2>2, <3>4, <3>5, <3>9
      <4>2. e.id = j
        OBVIOUS
      <4> HIDE DEF b, e
      <4> QED
        BY <1>0, <3>1, <3>2, <3>6, <3>7, <3>9, <4>1, <4>2, AccountLogged
    <3> QED
      BY <3>8, <3>9
  <2>5. ASSUME c \in Processors, StoreResult(c) PROVE Account(a, i)'
    <3> DEFINE b == AgentOf[c]
               j == RequestOf(c).id
               e == [type |-> "completed", id |-> j, status |-> outcome[c]]
    <3>1. /\ b \in Agents /\ j \in Ids /\ stage[c] = "storing" /\ stage'[c] = "answered"
          /\ outcome[c] \in {"COMPLETED", "FAILED"}
      BY <1>0, <2>5, InHand, NetworkAssumption
         DEF StoreResult, Moves, Base, Working, Executing, CallsOK, Decided
    <3>2. e \in Entry /\ Record(b, e)
      BY <2>5, <3>1 DEF StoreResult, Entry
    <3>4. c \notin Unfinished(a, i)'
      BY <3>1 DEF Unfinished
    <3>5. c \in Unfinished(a, i) <=> a = b /\ i = j
      BY <2>5, <3>1 DEF Unfinished
    <3>6. delegations' = delegations
      BY <2>5 DEF StoreResult
    <3>7. results'[a][i] = IF a = b /\ i = j THEN outcome[c] ELSE results[a][i]
      BY <1>0, <2>5, <3>1 DEF StoreResult, BookOK
    <3>8. CASE a = b /\ i = j
      <4>1. Unfinished(a, i)' = Unfinished(a, i) \ {c}
        BY <2>2, <3>4, <3>5, <3>8
      <4>2. Record(a, [type |-> "completed", id |-> i, status |-> outcome[c]])
        BY <3>2, <3>8
      <4>3. results'[a][i] = outcome[c]
        BY <3>7, <3>8
      <4> QED
        BY <1>0, <2>5, <3>1, <3>5, <3>8, <4>1, <4>2, <4>3, AccountStored
    <3>9. CASE ~(a = b /\ i = j)
      <4>1. Unfinished(a, i)' = Unfinished(a, i)
        BY <2>2, <3>4, <3>5, <3>9
      <4>2. e.id = j /\ results'[a][i] = results[a][i]
        BY <3>7, <3>9
      <4> HIDE DEF b, e
      <4> QED
        BY <1>0, <3>1, <3>2, <3>6, <3>9, <4>1, <4>2, AccountLogged
    <3> QED
      BY <3>8, <3>9
  <2>6. CASE /\ UNCHANGED <<delegations, results, log>>
             /\ ~(c \in Processors /\ (Enter(c) \/ StoreResult(c)))
    <3>1. ~Restart(AgentOf[c])
      <4>1. admin \in Nat /\ admin' = admin
        BY <1>3, WorksKeeps, TypeParts, NetworkAssumption DEF Base, RulesOK
      <4> QED
        BY <4>1 DEF Restart
    <3>2. \A p \in Processors \ {} : stage'[p] \in Busy <=> stage[p] \in Busy
      BY <2>1, <2>6, <3>1, BusyStep
    <3>3. Unfinished(a, i)' \ {} = Unfinished(a, i) \ {}
      BY <3>2, BusySame
    <3> QED
      BY <1>0, <2>6, <3>3, AccountSame
  <2> QED
    BY <1>3, <2>3, <2>4, <2>5, <2>6, WorksOn
<1>4. ASSUME NEW b \in Agents, Restart(b) PROVE Account(a, i)'
  <2>1. CASE a = b
    <3>1. log'[a] = <<>> /\ results'[a][i] = None /\ delegations'[a][i] = None
      BY <1>0, <1>4, <2>1 DEF Restart, EmptyBook, BookOK
    <3>2. \A t : Entries(a, i, t)' = {}
      BY <3>1 DEF Entries
    <3>3. Unfinished(a, i)' = {}
      BY <1>0, <1>4, <2>1 DEF Restart, Unfinished, CallsOK, Final
    <3>4. /\ Entries(a, i, "received")' = {} /\ Entries(a, i, "completed")' = {}
      BY <3>2
    <3>5. IsFiniteSet({}) /\ Cardinality({}) = 0
      BY FS_EmptySet
    <3>6. Cardinality({}) = Cardinality({}) + Cardinality({})
      BY <3>5
    <3> QED
      BY <3>1, <3>3, <3>4, <3>5, <3>6, Zenon DEF Account
  <2>2. CASE a # b
    <3>1. log'[a] = log[a] /\ results'[a] = results[a] /\ delegations'[a] = delegations[a]
      BY <1>0, <1>4, <2>2 DEF Restart, BookOK
    <3>2. \A p \in Processors \ {} :
            AgentOf[p] = a => (stage'[p] \in Busy <=> stage[p] \in Busy)
      BY <1>0, <1>4, <2>2 DEF Restart, CallsOK
    <3>3. Unfinished(a, i)' \ {} = Unfinished(a, i) \ {}
      BY <3>2, BusySame
    <3> QED
      BY <1>0, <3>1, <3>3, AccountSame
  <2> QED
    BY <2>1, <2>2
<1>5. ASSUME NEW b \in Agents, Administer(b) PROVE Account(a, i)'
  BY <1>1, <1>4, <1>5, AdministerKeeps
<1> QED
  BY <1>2, <1>3, <1>5, Steps

LEMMA AccountsInit == Init => Accounts
<1> SUFFICES ASSUME Init, NEW a \in Agents, NEW i \in Ids PROVE Account(a, i)
  BY DEF Accounts
<1>1. log[a] = <<>> /\ results[a][i] = None /\ delegations[a][i] = None
  BY DEF Init, EmptyBook
<1>2. Entries(a, i, "received") = {} /\ Entries(a, i, "completed") = {}
  BY <1>1 DEF Entries
<1>3. Unfinished(a, i) = {}
  BY DEF Init, Unfinished
<1>4. IsFiniteSet({}) /\ Cardinality({}) = 0
  BY FS_EmptySet
<1>5. Cardinality({}) = Cardinality({}) + Cardinality({})
  BY <1>4
<1> QED
  BY <1>1, <1>2, <1>3, <1>4, <1>5, Zenon DEF Account

LEMMA AccountsKept == Spec => [](Base /\ Accounts)
<1>1. Base /\ Accounts /\ [Next]_vars => (Base /\ Accounts)'
  BY BaseStep, AccountsStep
<1>2. Init => Base /\ Accounts
  BY BaseInit, AccountsInit
<1> QED
  BY <1>1, <1>2, PTL DEF Spec

\* Every execution in the log is completed, or accounted for.
THEOREM LogsAccount == Spec => []LogAccounts
<1>1. Base /\ Accounts => LogAccounts
  BY DEF Accounts, Account, LogAccounts
<1> QED
  BY <1>1, AccountsKept, PTL

\* The result of an id is that of its execution logged last.
THEOREM ResultIsLatest == Spec => []LatestResult
<1>1. Base /\ Accounts => LatestResult
  <2> SUFFICES ASSUME Base, Accounts, NEW a \in Agents, NEW i \in Ids
               PROVE  LET done == Entries(a, i, "completed") IN
                      results[a][i] = IF done = {} THEN None
                        ELSE log[a][CHOOSE n \in done : \A m \in done : m <= n].status
    BY DEF LatestResult
  <2> DEFINE done == Entries(a, i, "completed")
             last == CHOOSE n \in done : \A m \in done : m <= n
  <2>1. CASE done = {}
    BY <2>1 DEF Accounts, Account
  <2>2. CASE done # {}
    <3>1. PICK n \in done : /\ \A m \in done : m <= n
                            /\ results[a][i] = log[a][n].status
      BY <2>2 DEF Accounts, Account
    <3>2. last \in done /\ \A m \in done : m <= last
      BY <3>1
    <3>3. done \subseteq Nat
      BY DEF Entries
    <3>4. last = n
      BY <3>1, <3>2, <3>3
    <3> QED
      BY <2>2, <3>1, <3>4
  <2> QED
    BY <2>1, <2>2
<1> QED
  BY <1>1, AccountsKept, PTL

\* What an agent lists as pending it created, or is busy with.
THEOREM PendingHasCause == Spec => []PendingExplained
<1>1. Base /\ Accounts => PendingExplained
  BY DEF Accounts, Account, PendingExplained, Pending
<1> QED
  BY <1>1, AccountsKept, PTL


-----------------------------------------------------------------------------
(***************************************************************************)
(* The log and the ledger                                                  *)
(***************************************************************************)

\* The invocations of agent a on id i that have an attempt and not entered.
Holders(a, i) == {p \in Processors : /\ AgentOf[p] = a /\ stage[p] = "granted"
                                     /\ RequestOf(p).id = i}

\* Each attempt handed out is behind at most one entry, or will be.
Spent(a, i) ==
  /\ IsFiniteSet(Holders(a, i)) /\ IsFiniteSet(AttemptsAt(a, i))
  /\ Cardinality(Entries(a, i, "received")) + Cardinality(Holders(a, i))
       <= Cardinality(AttemptsAt(a, i))

\* Attempts are handed out only at requests that were made.
Unused == \A d \in Delegators \ Made : used[d] = 0

Budget == Unused /\ \A a \in Agents, i \in Ids : Spent(a, i)

\* When an invocation comes to hold an attempt, and when it ceases to.
LEMMA HoldersStep ==
  ASSUME Base, [Next]_vars, NEW p \in Processors
  PROVE  \/ BeginGranted(p)
         \/ Enter(p)
         \/ Restart(AgentOf[p]) /\ stage'[p] # "granted"
         \/ stage'[p] = "granted" <=> stage[p] = "granted"
<1> DEFINE Goal ==
         \/ BeginGranted(p)
         \/ Enter(p)
         \/ Restart(AgentOf[p]) /\ stage'[p] # "granted"
         \/ stage'[p] = "granted" <=> stage[p] = "granted"
<1>0. CallsOK
  BY TypeParts DEF Base
<1>1. CASE UNCHANGED vars
  BY <1>1 DEF vars
<1>2. ASSUME NEW c \in Calls, Works(c) PROVE Goal
  <2>1. CASE c # p
    <3>1. PICK s \in Stages : stage' = [stage EXCEPT ![c] = s]
      BY <1>2, WorksKeeps
    <3> QED
      BY <1>0, <2>1, <3>1 DEF CallsOK
  <2>2. CASE c = p /\ ~Evaluate(p)
    <3>1. Process(p)
      BY <1>2, <2>2, NetworkAssumption DEF Works
    <3> QED
      BY <1>0, <2>2, <3>1
         DEF Process, Receive, Expired, LookUp, BeginRefused, Completes, Fails,
             Unrecorded, StoreResult, Moves, CallsOK
  <2>3. CASE Evaluate(p) /\ c = p
    BY <1>0, <2>3 DEF Evaluate, ReadRule, ReadTrust, ReadPerform, Reads, Moves,
                      CallsOK
  <2> QED
    BY <2>1, <2>2, <2>3
<1>3. ASSUME NEW a \in Agents, Administer(a) PROVE Goal
  BY <1>0, <1>3, AdministerKeeps DEF Restart, CallsOK, Final
<1> QED
  BY <1>1, <1>2, <1>3, Steps

LEMMA HoldersSame ==
  ASSUME Base, [Next]_vars, NEW a \in Agents, NEW i \in Ids,
         \A p \in Processors :
           AgentOf[p] = a => (stage'[p] = "granted" <=> stage[p] = "granted")
  PROVE  Holders(a, i)' = Holders(a, i)
<1>1. ASSUME NEW p \in Processors, AgentOf[p] = a, stage[p] = "granted"
      PROVE  RequestOf(p)' = RequestOf(p)
  BY <1>1, HandStays DEF Working, Executing
<1> QED
  BY <1>1 DEF Holders

\* A delegator that makes its request has used nothing, and nobody else
\* changes a request: the attempts at it stay what they are.
LEMMA AttemptsSame ==
  ASSUME Base, Unused, [Next]_vars, UNCHANGED used, NEW a \in Agents, NEW i \in Ids
  PROVE  AttemptsAt(a, i)' = AttemptsAt(a, i)
<1>1. ASSUME NEW d \in Delegators, request'[d] # request[d] PROVE used[d] = 0
  <2>1. d \notin Made
    BY <1>1, MadeStays
  <2> QED
    BY <2>1 DEF Unused
<1>2. \A d \in Delegators, n \in 1 .. MaxAttempts :
        n <= used[d] => request'[d] = request[d]
  BY <1>1, NetworkAssumption
<1> QED
  BY <1>2 DEF AttemptsAt

LEMMA UnusedStep == Base /\ Unused /\ [Next]_vars => Unused'
<1> SUFFICES ASSUME Base, Unused, [Next]_vars,
                    NEW d \in Delegators, d \notin Made'
             PROVE  used'[d] = 0
  BY DEF Unused
<1>1. d \notin Made
  BY MadeStays
<1>2. ASSUME NEW p \in Processors, BeginGranted(p) PROVE used'[d] = used[d]
  <2>1. task[p] \in Made
    BY <1>2 DEF BeginGranted, Moves, Base, Known, Working
  <2> QED
    BY <1>1, <1>2, <2>1, TypeParts DEF BeginGranted, Gate!Grant, Base, LedgerOK
<1>3. ASSUME NEW p \in Processors, Completes(p) \/ Fails(p) PROVE used' = used
  BY <1>3 DEF Completes, Fails, Gate!Settle, ledger
<1>4. used[d] = 0
  BY <1>1 DEF Unused
<1>5. ASSUME NEW c \in Calls, Works(c) PROVE used'[d] = used[d]
  BY <1>2, <1>3, <1>5, WorksOn
<1>6. ASSUME NEW a \in Agents, Administer(a) PROVE used'[d] = used[d]
  BY <1>6, AdministerKeeps
<1>7. UNCHANGED vars => used' = used
  BY DEF vars, ledger
<1> QED
  BY <1>4, <1>5, <1>6, <1>7, Steps

\* One attempt more, and one holder of it.
LEMMA SpentGranted ==
  ASSUME Base, Checked, Budget, [Next]_vars, NEW p \in Processors, BeginGranted(p),
         NEW a \in Agents, NEW i \in Ids
  PROVE  Spent(a, i)'
<1> DEFINE d == task[p]
           b == AgentOf[p]
           j == RequestOf(p).id
           x == <<d, used[d] + 1>>
<1>0. CallsOK /\ LedgerOK /\ Spent(a, i)
  BY TypeParts DEF Base, Budget
<1>1. /\ stage[p] = "begin" /\ stage' = [stage EXCEPT ![p] = "granted"]
      /\ used' = [used EXCEPT ![d] = @ + 1] /\ used[d] < MaxAttempts
      /\ UNCHANGED <<request, task, log>>
  BY DEF BeginGranted, Moves, Gate!Grant, book
<1>2. d \in Delegators /\ b \in Agents /\ j \in Ids
  BY <1>1, InHand, NetworkAssumption DEF Base, Working
<1>3. request[d].to = b /\ request[d].id = j
  <2>1. RequestOf(p) = request[d]
    BY NetworkAssumption DEF RequestOf
  <2>2. Valid(RequestOf(p), b, Context[b])
    BY <1>1 DEF Checked, Working
  <2> QED
    BY <2>1, <2>2 DEF Valid
<1>4. /\ used[d] \in Nat /\ used[d] + 1 \in 1 .. MaxAttempts
      /\ used'[d] = used[d] + 1
      /\ \A e \in Delegators : e # d => used'[e] = used[e]
  BY <1>0, <1>1, <1>2, NetworkAssumption DEF LedgerOK
<1>5. /\ x \notin AttemptsAt(a, i)
      /\ AttemptsAt(a, i)' \ {x} = AttemptsAt(a, i) \ {x}
      /\ (x \in AttemptsAt(a, i)') <=> (a = b /\ i = j)
  <2>1. ASSUME NEW y \in Delegators \X (1 .. MaxAttempts), y # x
        PROVE  y[2] <= used'[y[1]] <=> y[2] <= used[y[1]]
    <3>1. CASE y[1] = d
      <4>1. y[2] # used[d] + 1 /\ y[2] \in 1 .. MaxAttempts
        BY <2>1, <3>1
      <4> QED
        BY <1>4, <3>1, <4>1
    <3>2. CASE y[1] # d
      BY <1>4, <3>2
    <3> QED
      BY <3>1, <3>2
  <2>2. /\ x \in Delegators \X (1 .. MaxAttempts)
        /\ x[1] = d /\ x[2] = used[d] + 1
        /\ x[2] <= used'[x[1]] /\ ~(x[2] <= used[x[1]])
    BY <1>2, <1>4
  <2>3. request'[x[1]].to = b /\ request'[x[1]].id = j
    BY <1>1, <1>3, <2>2
  <2> HIDE DEF x
  <2>4. x \notin AttemptsAt(a, i)
    BY <2>2 DEF AttemptsAt
  <2>5. AttemptsAt(a, i)' \ {x} = AttemptsAt(a, i) \ {x}
    BY <1>1, <2>1 DEF AttemptsAt
  <2>6. (x \in AttemptsAt(a, i)') <=> (a = b /\ i = j)
    BY <2>2, <2>3 DEF AttemptsAt
  <2> QED
    BY <2>4, <2>5, <2>6
<1>6. /\ p \notin Holders(a, i)
      /\ p \in Holders(a, i)' <=> (a = b /\ i = j)
      /\ Holders(a, i)' \ {p} = Holders(a, i) \ {p}
  BY <1>0, <1>1, <1>2 DEF Holders, RequestOf, CallsOK
<1>7. Entries(a, i, "received")' = Entries(a, i, "received")
  BY <1>1, EntriesSame
<1>8. CASE a = b /\ i = j
  <2>1. /\ Holders(a, i)' = Holders(a, i) \cup {p}
        /\ AttemptsAt(a, i)' = AttemptsAt(a, i) \cup {x}
        /\ x \notin AttemptsAt(a, i)
    BY <1>5, <1>6, <1>8
  <2> HIDE DEF x
  <2>2. /\ IsFiniteSet(Holders(a, i)')
        /\ Cardinality(Holders(a, i)') = Cardinality(Holders(a, i)) + 1
    BY <1>0, <1>6, <2>1, FS_AddElement DEF Spent
  <2>3. /\ IsFiniteSet(AttemptsAt(a, i)')
        /\ Cardinality(AttemptsAt(a, i)') = Cardinality(AttemptsAt(a, i)) + 1
    BY <1>0, <2>1, FS_AddElement DEF Spent
  <2>4. BookOK
    BY TypeParts DEF Base
  <2>5. /\ Cardinality(Entries(a, i, "received")) \in Nat
        /\ Cardinality(Holders(a, i)) \in Nat
        /\ Cardinality(AttemptsAt(a, i)) \in Nat
    BY <1>0, <2>4, EntriesFinite, FS_CardinalityType DEF Spent
  <2> QED
    BY <1>0, <1>7, <2>2, <2>3, <2>5 DEF Spent
<1>9. CASE ~(a = b /\ i = j)
  <2>1. Holders(a, i)' = Holders(a, i)
    BY <1>6, <1>9
  <2>2. AttemptsAt(a, i)' = AttemptsAt(a, i)
    BY <1>5, <1>9
  <2> QED
    BY <1>0, <1>7, <2>1, <2>2 DEF Spent
<1> QED
  BY <1>8, <1>9

\* One entry more, and one holder less.
LEMMA SpentEntered ==
  ASSUME Base, Budget, [Next]_vars, NEW p \in Processors, Enter(p),
         NEW a \in Agents, NEW i \in Ids
  PROVE  Spent(a, i)'
<1> DEFINE b == AgentOf[p]
           j == RequestOf(p).id
           e == [type |-> "received", id |-> j, status |-> "NEW"]
           N == Len(log[a]) + 1
<1>0. CallsOK /\ BookOK /\ Spent(a, i) /\ Unused
  BY TypeParts DEF Base, Budget
<1>1. /\ stage[p] = "granted" /\ stage' = [stage EXCEPT ![p] = "running"]
      /\ Record(b, e) /\ UNCHANGED <<request, task, used>>
  BY DEF Enter, Moves, ledger
<1>2. b \in Agents /\ j \in Ids
  BY <1>1, InHand, NetworkAssumption DEF Base, Working, Executing
<1>3. AttemptsAt(a, i)' = AttemptsAt(a, i)
  BY <1>0, <1>1, AttemptsSame
<1>4. /\ p \notin Holders(a, i)'
      /\ p \in Holders(a, i) <=> (a = b /\ i = j)
      /\ Holders(a, i)' \ {p} = Holders(a, i) \ {p}
  BY <1>0, <1>1, <1>2 DEF Holders, RequestOf, CallsOK
<1>5. e \in Entry /\ e.id = j /\ e.type = "received"
  BY <1>2 DEF Entry
<1>6. /\ Entries(a, i, "received")' =
           IF a = b /\ i = j THEN Entries(a, i, "received") \cup {N}
                             ELSE Entries(a, i, "received")
      /\ IsFiniteSet(Entries(a, i, "received")) /\ N \notin Entries(a, i, "received")
  <2> HIDE DEF e, b, j
  <2>1. Entries(a, i, "received")' =
          IF a = b /\ e.id = i /\ e.type = "received"
          THEN Entries(a, i, "received") \cup {N} ELSE Entries(a, i, "received")
    BY <1>0, <1>1, <1>2, <1>5, EntriesGrow
  <2> QED
    BY <1>0, <1>5, <2>1, EntriesFinite
<1>7. CASE a = b /\ i = j
  <2>1. /\ Holders(a, i)' = Holders(a, i) \ {p} /\ p \in Holders(a, i)
        /\ Entries(a, i, "received")' = Entries(a, i, "received") \cup {N}
    BY <1>4, <1>6, <1>7
  <2>2. /\ IsFiniteSet(Holders(a, i)')
        /\ Cardinality(Holders(a, i)') = Cardinality(Holders(a, i)) - 1
    BY <1>0, <2>1, FS_RemoveElement DEF Spent
  <2> HIDE DEF N
  <2>3. Cardinality(Entries(a, i, "received")')
          = Cardinality(Entries(a, i, "received")) + 1
    BY <1>6, <2>1, FS_AddElement
  <2>4. /\ Cardinality(Entries(a, i, "received")) \in Nat
        /\ Cardinality(Holders(a, i)) \in Nat
        /\ Cardinality(AttemptsAt(a, i)) \in Nat
    BY <1>0, <1>6, FS_CardinalityType DEF Spent
  <2>5. /\ IsFiniteSet(AttemptsAt(a, i)')
        /\ Cardinality(AttemptsAt(a, i)') = Cardinality(AttemptsAt(a, i))
    BY <1>0, <1>3 DEF Spent
  <2> QED
    BY <1>0, <2>2, <2>3, <2>4, <2>5 DEF Spent
<1>8. CASE ~(a = b /\ i = j)
  <2>1. Holders(a, i)' = Holders(a, i)
    BY <1>4, <1>8
  <2>2. Entries(a, i, "received")' = Entries(a, i, "received")
    BY <1>6, <1>8
  <2> QED
    BY <1>0, <1>3, <2>1, <2>2 DEF Spent
<1> QED
  BY <1>7, <1>8

LEMMA BudgetStep == Base /\ Checked /\ Budget /\ [Next]_vars => Budget'
<1> SUFFICES ASSUME Base, Checked, Budget, [Next]_vars,
                    NEW a \in Agents, NEW i \in Ids
             PROVE  Spent(a, i)'
  BY UnusedStep DEF Budget
<1>0. CallsOK /\ BookOK /\ Spent(a, i) /\ Unused
  BY TypeParts DEF Base, Budget
\* Nobody begins or enters, and the agent does not restart.
<1>1. ASSUME log'[a] = log[a], UNCHANGED used,
             \A p \in Processors :
               AgentOf[p] = a => (stage'[p] = "granted" <=> stage[p] = "granted")
      PROVE  Spent(a, i)'
  <2>1. Holders(a, i)' = Holders(a, i)
    BY <1>1, HoldersSame
  <2>2. AttemptsAt(a, i)' = AttemptsAt(a, i)
    BY <1>0, <1>1, AttemptsSame
  <2>3. Entries(a, i, "received")' = Entries(a, i, "received")
    BY <1>1, EntriesSame
  <2> QED
    BY <1>0, <2>1, <2>2, <2>3 DEF Spent
<1>2. CASE UNCHANGED vars
  BY <1>1, <1>2 DEF vars, book, ledger
<1>3. ASSUME NEW p \in Processors, BeginGranted(p) \/ Enter(p) PROVE Spent(a, i)'
  BY <1>3, SpentGranted, SpentEntered
<1>4. ASSUME NEW c \in Calls, Works(c),
             ~(c \in Processors /\ (BeginGranted(c) \/ Enter(c)))
      PROVE  Spent(a, i)'
  <2>1. used' = used
    BY <1>4, WorksOn DEF Completes, Fails, Gate!Settle, ledger
  <2>2. \A p \in Processors : stage'[p] = "granted" <=> stage[p] = "granted"
    <3>1. ~Restart(AgentOf[c])
      <4>1. admin \in Nat /\ admin' = admin
        BY <1>4, WorksKeeps, TypeParts, NetworkAssumption DEF Base, RulesOK
      <4> QED
        BY <4>1 DEF Restart
    <3>2. ASSUME NEW p \in Processors, p # c PROVE stage'[p] = stage[p]
      BY <1>0, <1>4, <3>2, WorksKeeps DEF CallsOK
    <3>3. c \in Processors => (stage'[c] = "granted" <=> stage[c] = "granted")
      BY <1>4, <3>1, HoldersStep
    <3> QED
      BY <3>2, <3>3
  <2>3. CASE log'[a] = log[a]
    BY <1>1, <2>1, <2>2, <2>3
  <2>4. CASE (c \in Delegators /\ Store(c)) \/ (c \in Processors /\ StoreResult(c))
    <3>1. PICK b \in Agents, e \in Entry : Record(b, e) /\ e.type # "received"
      <4>1. ASSUME c \in Delegators, Store(c)
            PROVE  \E b \in Agents, e \in Entry : Record(b, e) /\ e.type # "received"
        <5> DEFINE e == [type |-> "created", id |-> request[c].id, status |-> "NEW"]
        <5>1. AgentOf[c] \in Agents /\ request[c].id \in Ids
          BY <4>1, InHand, NetworkAssumption
             DEF Store, Moves, Base, Working, RequestOf
        <5>2. e \in Entry /\ Record(AgentOf[c], e) /\ e.type # "received"
          BY <4>1, <5>1 DEF Store, Entry
        <5> QED
          BY <5>1, <5>2
      <4>2. ASSUME c \in Processors, StoreResult(c)
            PROVE  \E b \in Agents, e \in Entry : Record(b, e) /\ e.type # "received"
        <5> DEFINE e == [type |-> "completed", id |-> RequestOf(c).id,
                         status |-> outcome[c]]
        <5>1. /\ AgentOf[c] \in Agents /\ RequestOf(c).id \in Ids
              /\ outcome[c] \in {"COMPLETED", "FAILED"}
          BY <4>2, InHand, NetworkAssumption
             DEF StoreResult, Moves, Base, Working, Executing, Decided
        <5>2. e \in Entry /\ Record(AgentOf[c], e) /\ e.type # "received"
          BY <4>2, <5>1 DEF StoreResult, Entry
        <5> QED
          BY <5>1, <5>2
      <4> QED
        BY <2>4, <4>1, <4>2
    <3>2. Entries(a, i, "received")' = Entries(a, i, "received")
      BY <1>0, <3>1, EntriesGrow
    <3>3. Holders(a, i)' = Holders(a, i)
      BY <2>2, HoldersSame
    <3>4. AttemptsAt(a, i)' = AttemptsAt(a, i)
      BY <1>0, <2>1, AttemptsSame
    <3> QED
      BY <1>0, <3>2, <3>3, <3>4 DEF Spent
  <2> QED
    BY <1>4, <2>3, <2>4, WorksOn
\* The attempts of an agent that restarts stay spent.
<1>5. ASSUME NEW b \in Agents, Restart(b) PROVE Spent(a, i)'
  <2>1. used' = used
    BY <1>5 DEF Restart, ledger
  <2>2. CASE a = b
    <3>1. log'[a] = <<>>
      BY <1>0, <1>5, <2>2 DEF Restart, BookOK
    <3>2. Entries(a, i, "received")' = {}
      BY <3>1 DEF Entries
    <3>3. Holders(a, i)' = {}
      BY <1>0, <1>5, <2>2 DEF Restart, Holders, CallsOK, Final
    <3>4. IsFiniteSet({}) /\ Cardinality({}) = 0
      BY FS_EmptySet
    <3>5. AttemptsAt(a, i)' = AttemptsAt(a, i)
      BY <1>0, <2>1, AttemptsSame
    <3>6. Cardinality(AttemptsAt(a, i)) \in Nat
      BY <1>0, FS_CardinalityType DEF Spent
    <3>7. Cardinality({}) + Cardinality({}) <= Cardinality(AttemptsAt(a, i))
      BY <3>4, <3>6
    <3> QED
      BY <1>0, <3>2, <3>3, <3>4, <3>5, <3>7, Zenon DEF Spent
  <2>3. CASE a # b
    <3>1. log'[a] = log[a]
      BY <1>0, <1>5, <2>3 DEF Restart, BookOK
    <3>2. \A p \in Processors :
            AgentOf[p] = a => (stage'[p] = "granted" <=> stage[p] = "granted")
      BY <1>0, <1>5, <2>3 DEF Restart, CallsOK
    <3> QED
      BY <1>1, <2>1, <3>1, <3>2
  <2> QED
    BY <2>2, <2>3
<1>6. ASSUME NEW b \in Agents, Administer(b) PROVE Spent(a, i)'
  <2>1. CASE Restart(b)
    BY <1>5, <2>1
  <2>2. CASE UNCHANGED <<stage, delegations, results, log>>
    BY <1>1, <1>6, <2>2, AdministerKeeps
  <2> QED
    BY <1>6, <2>1, <2>2, AdministerKeeps
<1> QED
  BY <1>2, <1>3, <1>4, <1>6, Steps

LEMMA BudgetInit == Init => Budget
<1> SUFFICES ASSUME Init PROVE Budget
  OBVIOUS
<1>1. ASSUME NEW a \in Agents, NEW i \in Ids PROVE Spent(a, i)
  <2>1. log[a] = <<>> /\ \A d \in Delegators : used[d] = 0
    BY DEF Init
  <2>2. Entries(a, i, "received") = {}
    BY <2>1 DEF Entries
  <2>3. Holders(a, i) = {}
    BY DEF Init, Holders
  <2>4. AttemptsAt(a, i) = {}
    BY <2>1, NetworkAssumption DEF AttemptsAt
  <2>5. IsFiniteSet({}) /\ Cardinality({}) = 0
    BY FS_EmptySet
  <2>6. Cardinality({}) + Cardinality({}) <= Cardinality({})
    BY <2>5
  <2> QED
    BY <2>2, <2>3, <2>4, <2>5, <2>6, Zenon DEF Spent
<1>2. Unused
  BY DEF Init, Unused
<1> QED
  BY <1>1, <1>2 DEF Budget

\* However requests are copied, delivered and run side by side, and whichever
\* agents restart, no agent logs more executions than it was granted.
THEOREM LogsWithinBudget == Spec => []LogWithinBudget
<1>1. Init => Base /\ Checked /\ Budget
  BY BaseInit, BudgetInit DEF Init, Checked, Working, Evaluating, Executing
<1>2. Base /\ Checked /\ Budget /\ [Next]_vars => Base' /\ Checked' /\ Budget'
  BY BaseStep, CheckedStep, BudgetStep
<1>3. Base /\ Budget => LogWithinBudget
  <2> SUFFICES ASSUME Base, Budget, NEW a \in Agents, NEW i \in Ids
               PROVE  Cardinality(Entries(a, i, "received"))
                        <= Cardinality(AttemptsAt(a, i))
    BY DEF LogWithinBudget
  <2>1. BookOK /\ Spent(a, i)
    BY TypeParts DEF Base, Budget
  <2>2. /\ Cardinality(Entries(a, i, "received")) \in Nat
        /\ Cardinality(Holders(a, i)) \in Nat
        /\ Cardinality(AttemptsAt(a, i)) \in Nat
    BY <2>1, EntriesFinite, FS_CardinalityType DEF Spent
  <2> QED
    BY <2>1, <2>2 DEF Spent
<1> QED
  BY <1>1, <1>2, <1>3, PTL DEF Spec
=============================================================================
