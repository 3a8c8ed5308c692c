--------------------------- MODULE WorkerSessions ---------------------------
(***************************************************************************)
(* The keys of the workers: adn/worker_executor.py holds them, one per     *)
(* session, and signs with them; the bridge asks it over a connection per  *)
(* call (t3n-bridge/src/worker_client.ts, WorkerExecutorClient).  The      *)
(* executor serves each connection in a thread of its own.                 *)
(*                                                                         *)
(* A session is named by the call that created it: ids are random.  Clocks *)
(* are left out: a timer may fire at any time after it was set.  One       *)
(* client calls the executors it started, so the token always matches.     *)
(***************************************************************************)
EXTENDS Naturals

CONSTANTS
  MaxCalls,   \* bound: rpcs of the client
  MaxSpawns,  \* bound: executors, of which each spawn() starts one
  None

\* Both are numbered in the order they are made.
Calls == 1 .. MaxCalls
Children == 1 .. MaxSpawns

\* "use" is sign_result and get_public_key, which look at the session alike.
Methods == {"create", "use", "close"}

ASSUME WorkerAssumption ==
  /\ MaxCalls \in Nat /\ MaxSpawns \in Nat
  /\ None \notin Nat /\ None \notin Methods

VARIABLES
  child,      \* each executor process
  promise,    \* the promise of the spawn() that started it
  proc,       \* the child started last, which terminate() ends
  port,       \* the child that printed its READY line last
  stage,      \* each call, at the client
  method, sid, at,   \* what it asks, of which session, and the child it dials
  work,       \* its connection's thread, at that child
  reply,      \* what the thread answers
  sessions,   \* _sessions of each child
  before      \* history: the closes answered before the call was made

spawnVars == <<child, promise, proc, port>>
asked == <<method, sid, at, before>>
vars == <<spawnVars, stage, asked, work, reply, sessions>>

TypeOK ==
  /\ child \in [Children -> {"unused", "starting", "ready", "dead"}]
  /\ promise \in [Children -> {"none", "pending", "resolved", "rejected"}]
  /\ {proc, port} \subseteq Children \cup {None}
  /\ stage \in [Calls -> {"idle", "dialling", "open", "resolved", "rejected"}]
  /\ method \in [Calls -> Methods \cup {None}]
  /\ sid \in [Calls -> Calls \cup {None}]
  /\ at \in [Calls -> Children \cup {None}]
  /\ work \in [Calls -> {"none", "written", "found", "done", "raised", "lost"}]
  /\ reply \in [Calls -> {"none", "ok", "unknown_session"}]
  /\ sessions \in [Children -> SUBSET Calls]
  /\ before \in [Calls -> SUBSET Calls]

Init ==
  /\ child = [k \in Children |-> "unused"]
  /\ promise = [k \in Children |-> "none"]
  /\ proc = None /\ port = None
  /\ stage = [c \in Calls |-> "idle"]
  /\ method = [c \in Calls |-> None]
  /\ sid = [c \in Calls |-> None]
  /\ at = [c \in Calls |-> None]
  /\ work = [c \in Calls |-> "none"]
  /\ reply = [c \in Calls |-> "none"]
  /\ sessions = [k \in Children |-> {}]
  /\ before = [c \in Calls |-> {}]

Rejects(f, k) == IF f[k] = "pending" THEN [f EXCEPT ![k] = "rejected"] ELSE f

-----------------------------------------------------------------------------
(***************************************************************************)
(* The client: spawn and terminate                                         *)
(***************************************************************************)

\* spawn: a child that an earlier spawn started is left as it is.
Spawn(k) ==
  /\ child[k] = "unused"
  /\ \A j \in 1 .. k - 1 : child[j] # "unused"
  /\ child' = [child EXCEPT ![k] = "starting"]
  /\ promise' = [promise EXCEPT ![k] = "pending"]
  /\ proc' = k
  /\ UNCHANGED <<port, stage, asked, work, reply, sessions>>

\* The READY line, also after the promise was rejected.
Ready(k) ==
  /\ child[k] = "starting"
  /\ child' = [child EXCEPT ![k] = "ready"]
  /\ port' = k
  /\ promise' = IF promise[k] = "pending"
                THEN [promise EXCEPT ![k] = "resolved"] ELSE promise
  /\ UNCHANGED <<proc, stage, asked, work, reply, sessions>>

\* The startup timer fires, or the child writes to stderr before it is ready.
StartupFails(k) ==
  /\ promise[k] = "pending"
  /\ promise' = Rejects(promise, k)
  /\ UNCHANGED <<child, proc, port, stage, asked, work, reply, sessions>>

\* The child ends, by itself or by terminate(): its keys are gone.
Ends(k) ==
  /\ child[k] \in {"starting", "ready"}
  /\ child' = [child EXCEPT ![k] = "dead"]
  /\ promise' = Rejects(promise, k)
  /\ sessions' = [sessions EXCEPT ![k] = {}]
  /\ work' = [c \in Calls |-> IF at[c] = k /\ work[c] \in {"written", "found"}
                              THEN "lost" ELSE work[c]]
  /\ UNCHANGED <<proc, port, stage, asked, reply>>

Exit(k) == Ends(k)
Terminate == proc # None /\ Ends(proc)

-----------------------------------------------------------------------------
(***************************************************************************)
(* The client: rpc                                                         *)
(***************************************************************************)

Listening == {k \in Children : child[k] = "ready"}

Told(m) == {c \in Calls : method[c] = m /\ stage[c] = "resolved"}

\* A call of method m for session s, to the port of now.
Call(c, m, s) ==
  /\ stage[c] = "idle"
  /\ \A b \in 1 .. c - 1 : stage[b] # "idle"
  /\ s \in IF m = "create" THEN {c} ELSE Told("create")
  /\ method' = [method EXCEPT ![c] = m]
  /\ sid' = [sid EXCEPT ![c] = s]
  /\ at' = [at EXCEPT ![c] = port]
  /\ before' = [before EXCEPT ![c] = Told("close")]
  /\ stage' = [stage EXCEPT ![c] = "dialling"]
  /\ UNCHANGED <<spawnVars, work, reply, sessions>>

Connect(c) ==
  /\ stage[c] = "dialling"
  /\ at[c] \in Listening
  /\ stage' = [stage EXCEPT ![c] = "open"]
  /\ work' = [work EXCEPT ![c] = "written"]
  /\ UNCHANGED <<spawnVars, asked, reply, sessions>>

\* Nobody listens, or the connection breaks: the error event.  A connection
\* that merely ends raises none.
Fails(c) ==
  /\ \/ /\ stage[c] = "dialling"
        /\ at[c] \notin Listening
     \/ /\ stage[c] = "open"
        /\ work[c] \in {"raised", "lost"} \/ at[c] \notin Listening
  /\ stage' = [stage EXCEPT ![c] = "rejected"]
  /\ UNCHANGED <<spawnVars, asked, work, reply, sessions>>

Receive(c) ==
  /\ stage[c] = "open" /\ work[c] = "done"
  /\ stage' = [stage EXCEPT ![c] = IF reply[c] = "ok" THEN "resolved"
                                   ELSE "rejected"]
  /\ UNCHANGED <<spawnVars, asked, work, reply, sessions>>

\* Wrong variant of the next: a third outcome.
TimeoutUnknown(c) ==
  /\ stage[c] \in {"dialling", "open"}
  /\ stage' = [stage EXCEPT ![c] = "timeout"]
  /\ UNCHANGED <<spawnVars, asked, work, reply, sessions>>

\* The timer: the client leaves, the executor goes on with what it was sent.
Timeout(c) ==
  /\ stage[c] \in {"dialling", "open"}
  /\ stage' = [stage EXCEPT ![c] = "rejected"]
  /\ UNCHANGED <<spawnVars, asked, work, reply, sessions>>

-----------------------------------------------------------------------------
(***************************************************************************)
(* The executor: handle_rpc, in the thread of the call's connection        *)
(***************************************************************************)

Handles(c, m) == work[c] = "written" /\ method[c] = m

Answers(c, r) ==
  /\ work' = [work EXCEPT ![c] = "done"]
  /\ reply' = [reply EXCEPT ![c] = r]
  /\ UNCHANGED <<spawnVars, stage, asked>>

\* Wrong variant of the next: the executor keeps the newest session only.
CreateSessionNewest(c) ==
  /\ Handles(c, "create")
  /\ sessions' = [sessions EXCEPT ![at[c]] = {c}]
  /\ Answers(c, "ok")

CreateSession(c) ==
  /\ Handles(c, "create")
  /\ sessions' = [sessions EXCEPT ![at[c]] = @ \cup {c}]
  /\ Answers(c, "ok")

\* The first look at the session.
LookUp(c) ==
  /\ Handles(c, "use")
  /\ IF sid[c] \in sessions[at[c]]
     THEN /\ work' = [work EXCEPT ![c] = "found"]
          /\ UNCHANGED <<spawnVars, stage, asked, reply>>
     ELSE Answers(c, "unknown_session")
  /\ UNCHANGED sessions

\* Wrong variant of the next: the second look takes the session out.
UseOnce(c) ==
  /\ work[c] = "found"
  /\ IF sid[c] \in sessions[at[c]]
     THEN Answers(c, "ok")
     ELSE /\ work' = [work EXCEPT ![c] = "raised"]
          /\ UNCHANGED <<spawnVars, stage, asked, reply>>
  /\ sessions' = [sessions EXCEPT ![at[c]] = @ \ {sid[c]}]

\* The second look, which takes the key; it raises a KeyError, ending the
\* thread, when the session was closed since.
Use(c) ==
  /\ work[c] = "found"
  /\ IF sid[c] \in sessions[at[c]]
     THEN Answers(c, "ok")
     ELSE /\ work' = [work EXCEPT ![c] = "raised"]
          /\ UNCHANGED <<spawnVars, stage, asked, reply>>
  /\ UNCHANGED sessions

\* Wrong variant of the next: a session in use is not closed.
CloseSessionIdle(c) ==
  /\ Handles(c, "close")
  /\ sessions' = [sessions EXCEPT ![at[c]] =
                    IF \E u \in Calls : work[u] = "found" /\ sid[u] = sid[c]
                    THEN @ ELSE @ \ {sid[c]}]
  /\ Answers(c, "ok")

\* Closing a session that is not there is no error.
CloseSession(c) ==
  /\ Handles(c, "close")
  /\ sessions' = [sessions EXCEPT ![at[c]] = @ \ {sid[c]}]
  /\ Answers(c, "ok")

\* A payload of which a chunk ends within a character cannot be decoded: the
\* error is not the one that is caught, and the thread ends.
Undecodable(c) ==
  /\ Handles(c, "use")
  /\ work' = [work EXCEPT ![c] = "lost"]
  /\ UNCHANGED <<spawnVars, stage, asked, reply, sessions>>

-----------------------------------------------------------------------------
Next ==
  \/ \E k \in Children : Spawn(k) \/ Ready(k) \/ StartupFails(k) \/ Exit(k)
  \/ Terminate
  \/ \E c \in Calls :
       \/ \E m \in Methods, s \in Calls : Call(c, m, s)
       \/ Connect(c) \/ Fails(c) \/ Receive(c) \/ Timeout(c)
       \/ CreateSession(c) \/ LookUp(c) \/ Use(c)
       \/ CloseSession(c) \/ Undecodable(c)

Spec == Init /\ [][Next]_vars

-----------------------------------------------------------------------------
(***************************************************************************)
(* Properties                                                              *)
(***************************************************************************)

\* The closes of session s that child k answered.
Closes(s, k) == {c \in Calls : /\ method[c] = "close" /\ sid[c] = s
                               /\ at[c] = k /\ work[c] = "done"}

\* Once the client was told that a session is closed, no later call signs
\* with it or reads its key where that close was answered: threads that had
\* found the session do not bring it back.
NoUseAfterClose ==
  \A u \in Told("use") : \A c \in before[u] :
    sid[c] = sid[u] => at[c] # at[u]

\* A session the client was told of lives in the process that made it, until
\* that process answers its close or ends: neither another session nor a call
\* of another session, or one that timed out, takes it away.
ToldSessionsLive ==
  \A c \in Told("create") :
    child[at[c]] = "ready" /\ Closes(c, at[c]) = {} => c \in sessions[at[c]]

\* A use that finds no session, at the first look or between the two, is one
\* that a close overtook, or asks another process than the one that made the
\* session: the port moves when a child of an earlier spawn is ready late.
UnknownMeansGone ==
  \A u \in Calls :
    (reply[u] = "unknown_session" \/ work[u] = "raised")
      => at[u] # at[sid[u]] \/ Closes(sid[u], at[u]) # {}
=============================================================================
