------------------------ MODULE WorkerSessionsProofs ------------------------
(***************************************************************************)
(* The worker's sessions, for any number of calls and executors.  A thread *)
(* works only while its executor lives, a call names a session its client  *)
(* was told of, and what an answered call did to the table stays done: a   *)
(* close is never undone, since an id is never created twice.              *)
(***************************************************************************)
EXTENDS WorkerSessions, TLAPS

\* The client's view of a call and its thread's agree.
Threads ==
  \A c \in Calls :
    /\ stage[c] \in {"idle", "dialling"} => work[c] = "none" /\ reply[c] = "none"
    /\ stage[c] = "resolved" => work[c] = "done" /\ reply[c] = "ok"
    /\ reply[c] # "none" => work[c] = "done"
    /\ work[c] \in {"found", "raised"} \/ reply[c] = "unknown_session"
         => method[c] = "use"

\* A thread runs in an executor that is ready, and ends with it.
Placed ==
  \A c \in Calls :
    /\ work[c] # "none" => at[c] \in Children
    /\ work[c] # "none" => child[at[c]] \in {"ready", "dead"}
    /\ work[c] \in {"written", "found"} => child[at[c]] = "ready"

\* Sessions are named by the call that created them, and used when told.
Named ==
  \A c \in Calls :
    /\ method[c] = "create" => sid[c] = c
    /\ method[c] \in {"use", "close"} => sid[c] \in Told("create")
    /\ before[c] \subseteq Told("close")

\* What was created is there, or was closed there.
CreatedThere ==
  \A c \in Calls :
    work[c] = "done" /\ method[c] = "create" /\ child[at[c]] = "ready"
      => c \in sessions[at[c]] \/ Closes(c, at[c]) # {}

\* What was closed is not there.
ClosedGone ==
  \A c \in Calls :
    work[c] = "done" /\ method[c] = "close" => sid[c] \notin sessions[at[c]]

\* A use that found its session was made before any close there was told.
FoundOpen ==
  \A u \in Calls :
    work[u] = "found" \/ (method[u] = "use" /\ reply[u] = "ok")
      => \A c \in before[u] : sid[c] = sid[u] => at[c] # at[u]

TableInv == /\ Threads /\ Placed /\ Named
            /\ CreatedThere /\ ClosedGone /\ FoundOpen /\ UnknownMeansGone

-----------------------------------------------------------------------------
(***************************************************************************)
(* Types, and what no step takes back                                      *)
(***************************************************************************)

LEMMA TypeInit == Init => TypeOK
BY WorkerAssumption DEF Init, TypeOK, Calls, Children, Methods

LEMMA TypeStep == TypeOK /\ [Next]_vars => TypeOK'
<1> SUFFICES ASSUME TypeOK, [Next]_vars PROVE TypeOK'
  OBVIOUS
<1> USE WorkerAssumption
<1>1. ASSUME NEW k \in Children,
             Spawn(k) \/ Ready(k) \/ StartupFails(k) \/ Ends(k)
      PROVE  TypeOK'
  <2>1. CASE Spawn(k)
    BY <2>1 DEF Spawn, TypeOK, asked
  <2>2. CASE Ready(k)
    BY <2>2 DEF Ready, TypeOK, asked
  <2>3. CASE StartupFails(k)
    BY <2>3 DEF StartupFails, Rejects, TypeOK, asked
  <2>4. CASE Ends(k)
    BY <2>4 DEF Ends, Rejects, TypeOK, asked
  <2> QED
    BY <1>1, <2>1, <2>2, <2>3, <2>4
<1>2. CASE Terminate
  BY <1>1, <1>2 DEF Terminate, TypeOK
<1>3. ASSUME NEW c \in Calls, NEW m \in Methods, NEW s \in Calls, Call(c, m, s)
      PROVE  TypeOK'
  BY <1>3 DEF Call, Told, TypeOK, spawnVars
<1>4. ASSUME NEW c \in Calls, Connect(c) \/ Fails(c) \/ Receive(c) \/ Timeout(c)
      PROVE  TypeOK'
  BY <1>4 DEF Connect, Fails, Receive, Timeout, TypeOK, asked, spawnVars
<1>5. ASSUME NEW c \in Calls, CreateSession(c) \/ CloseSession(c)
      PROVE  TypeOK'
  BY <1>5 DEF CreateSession, CloseSession, Handles, Answers, TypeOK, asked,
              spawnVars
<1>6. ASSUME NEW c \in Calls, LookUp(c) \/ Use(c) \/ Undecodable(c)
      PROVE  TypeOK'
  BY <1>6 DEF LookUp, Use, Undecodable, Handles, Answers, TypeOK, asked,
              spawnVars
<1>7. CASE UNCHANGED vars
  BY <1>7 DEF vars, spawnVars, asked, TypeOK
<1> QED
  BY <1>1, <1>2, <1>3, <1>4, <1>5, <1>6, <1>7 DEF Next, Exit

\* The client, the executors and their threads keep their types, for any
\* number of calls and executors.
THEOREM SessionTypes == Spec => []TypeOK
BY TypeInit, TypeStep, PTL DEF Spec

\* What a call asks is fixed when it is made, its result when it is told, and
\* its thread's answer when it is given.
Fixed ==
  \A c \in Calls :
    /\ stage[c] # "idle" => /\ stage'[c] # "idle"
                            /\ method'[c] = method[c] /\ sid'[c] = sid[c]
                            /\ at'[c] = at[c] /\ before'[c] = before[c]
    /\ stage[c] = "resolved" => stage'[c] = "resolved"
    /\ work[c] = "done" => work'[c] = "done" /\ reply'[c] = reply[c]

LEMMA StaysFixed ==
  ASSUME TypeOK, Threads, [Next]_vars
  PROVE  Fixed
<1>1. ASSUME NEW k \in Children,
             Spawn(k) \/ Ready(k) \/ StartupFails(k) \/ Ends(k)
      PROVE  Fixed
  BY <1>1 DEF Spawn, Ready, StartupFails, Ends, Fixed, TypeOK, asked
<1>2. CASE Terminate
  BY <1>1, <1>2 DEF Terminate, TypeOK
<1>3. ASSUME NEW c \in Calls, NEW m \in Methods, NEW s \in Calls, Call(c, m, s)
      PROVE  Fixed
  BY <1>3 DEF Call, Fixed, TypeOK, spawnVars
<1>4. ASSUME NEW c \in Calls, Connect(c) \/ Fails(c) \/ Receive(c) \/ Timeout(c)
      PROVE  Fixed
  <2>1. CASE Connect(c)
    BY <2>1 DEF Connect, Threads, Fixed, TypeOK, asked, spawnVars
  <2>2. CASE Fails(c) \/ Receive(c) \/ Timeout(c)
    BY <2>2 DEF Fails, Receive, Timeout, Fixed, TypeOK, asked, spawnVars
  <2> QED
    BY <1>4, <2>1, <2>2
<1>5. ASSUME NEW c \in Calls, CreateSession(c) \/ CloseSession(c)
      PROVE  Fixed
  BY <1>5 DEF CreateSession, CloseSession, Handles, Answers, Fixed, TypeOK,
              asked, spawnVars
<1>6. ASSUME NEW c \in Calls, LookUp(c) \/ Use(c) \/ Undecodable(c)
      PROVE  Fixed
  BY <1>6 DEF LookUp, Use, Undecodable, Handles, Answers, Fixed, TypeOK, asked,
              spawnVars
<1>7. CASE UNCHANGED vars
  BY <1>7 DEF vars, spawnVars, asked, Fixed
<1> QED
  BY <1>1, <1>2, <1>3, <1>4, <1>5, <1>6, <1>7 DEF Next, Exit

\* What follows for the sets of calls the properties speak of.
LEMMA Grows ==
  ASSUME TypeOK, Threads, Fixed
  PROVE  /\ \A m : Told(m) \subseteq Told(m)'
         /\ \A s, k : Closes(s, k) \subseteq Closes(s, k)'
<1>1. \A c \in Calls : work[c] = "done" => stage[c] # "idle"
  BY DEF Threads
<1> QED
  BY <1>1 DEF Fixed, Told, Closes

-----------------------------------------------------------------------------
(***************************************************************************)
(* The threads and their executors                                         *)
(***************************************************************************)

LEMMA ThreadsStep ==
  ASSUME TypeOK, Threads, [Next]_vars
  PROVE  Threads'
<1>1. ASSUME NEW k \in Children,
             Spawn(k) \/ Ready(k) \/ StartupFails(k) \/ Ends(k)
      PROVE  Threads'
  BY <1>1 DEF Spawn, Ready, StartupFails, Ends, Threads, TypeOK, asked
<1>2. CASE Terminate
  BY <1>1, <1>2 DEF Terminate, TypeOK
<1>3. ASSUME NEW c \in Calls, NEW m \in Methods, NEW s \in Calls, Call(c, m, s)
      PROVE  Threads'
  BY <1>3 DEF Call, Threads, TypeOK, spawnVars
<1>4. ASSUME NEW c \in Calls, Connect(c) \/ Fails(c) \/ Receive(c) \/ Timeout(c)
      PROVE  Threads'
  BY <1>4 DEF Connect, Fails, Receive, Timeout, Threads, TypeOK, asked,
              spawnVars
<1>5. ASSUME NEW c \in Calls, CreateSession(c) \/ CloseSession(c)
      PROVE  Threads'
  BY <1>5 DEF CreateSession, CloseSession, Handles, Answers, Threads, TypeOK,
              asked, spawnVars
<1>6. ASSUME NEW c \in Calls, LookUp(c) \/ Use(c) \/ Undecodable(c)
      PROVE  Threads'
  BY <1>6 DEF LookUp, Use, Undecodable, Handles, Answers, Threads, TypeOK,
              asked, spawnVars
<1>7. CASE UNCHANGED vars
  BY <1>7 DEF vars, spawnVars, asked, Threads
<1> QED
  BY <1>1, <1>2, <1>3, <1>4, <1>5, <1>6, <1>7 DEF Next, Exit

LEMMA PlacedStep ==
  ASSUME TypeOK, Threads, Placed, [Next]_vars
  PROVE  Placed'
<1>1. ASSUME NEW k \in Children, Spawn(k) \/ Ready(k) \/ StartupFails(k)
      PROVE  Placed'
  BY <1>1 DEF Spawn, Ready, StartupFails, Placed, TypeOK, asked
<1>2. ASSUME NEW k \in Children, Ends(k)
      PROVE  Placed'
  BY <1>2 DEF Ends, Placed, TypeOK, asked
<1>3. CASE Terminate
  BY <1>2, <1>3 DEF Terminate, TypeOK
<1>4. ASSUME NEW c \in Calls, NEW m \in Methods, NEW s \in Calls, Call(c, m, s)
      PROVE  Placed'
  BY <1>4 DEF Call, Threads, Placed, TypeOK, spawnVars
<1>5. ASSUME NEW c \in Calls, Connect(c) \/ Fails(c) \/ Receive(c) \/ Timeout(c)
      PROVE  Placed'
  BY <1>5 DEF Connect, Fails, Receive, Timeout, Listening, Placed, TypeOK,
              asked, spawnVars
<1>6. ASSUME NEW c \in Calls, CreateSession(c) \/ CloseSession(c)
      PROVE  Placed'
  BY <1>6 DEF CreateSession, CloseSession, Handles, Answers, Placed, TypeOK,
              asked, spawnVars
<1>7. ASSUME NEW c \in Calls, LookUp(c) \/ Use(c) \/ Undecodable(c)
      PROVE  Placed'
  BY <1>7 DEF LookUp, Use, Undecodable, Handles, Answers, Placed, TypeOK,
              asked, spawnVars
<1>8. CASE UNCHANGED vars
  BY <1>8 DEF vars, spawnVars, asked, Placed
<1> QED
  BY <1>1, <1>2, <1>3, <1>4, <1>5, <1>6, <1>7, <1>8 DEF Next, Exit

\* A call that is not the one being made keeps what it asks.
LEMMA NamedStep ==
  ASSUME TypeOK, Threads, Named, Fixed, [Next]_vars
  PROVE  Named'
<1>g. \A m : Told(m) \subseteq Told(m)'
  BY Grows
<1>1. ASSUME NEW c \in Calls, NEW m \in Methods, NEW s \in Calls, Call(c, m, s)
      PROVE  Named'
  <2>1. /\ method' = [method EXCEPT ![c] = m] /\ sid' = [sid EXCEPT ![c] = s]
        /\ before' = [before EXCEPT ![c] = Told("close")]
        /\ m = "create" => s = c
        /\ m # "create" => s \in Told("create")
    BY <1>1 DEF Call
  <2> QED
    BY <2>1, <1>g DEF Named, TypeOK, Methods
<1>2. CASE UNCHANGED <<method, sid, before>>
  BY <1>2, <1>g DEF Named
<1>3. ASSUME NEW k \in Children,
             Spawn(k) \/ Ready(k) \/ StartupFails(k) \/ Ends(k)
      PROVE  UNCHANGED asked
  BY <1>3 DEF Spawn, Ready, StartupFails, Ends
<1>4. CASE Terminate
  BY <1>2, <1>3, <1>4 DEF Terminate, TypeOK, asked
<1>5. ASSUME NEW c \in Calls,
             \/ Connect(c) \/ Fails(c) \/ Receive(c) \/ Timeout(c)
             \/ CreateSession(c) \/ LookUp(c) \/ Use(c) \/ CloseSession(c)
             \/ Undecodable(c)
      PROVE  UNCHANGED asked
  BY <1>5 DEF Connect, Fails, Receive, Timeout, CreateSession, LookUp, Use,
              CloseSession, Undecodable, Answers
<1> QED
  BY <1>1, <1>2, <1>3, <1>4, <1>5 DEF Next, Exit, vars, asked

-----------------------------------------------------------------------------
(***************************************************************************)
(* The table of sessions                                                   *)
(***************************************************************************)

LEMMA CreatedThereStep ==
  ASSUME TypeOK, Threads, Placed, Named, Fixed, CreatedThere, [Next]_vars
  PROVE  CreatedThere'
<1>1. ASSUME NEW k \in Children, Spawn(k) \/ Ready(k) \/ StartupFails(k)
      PROVE  CreatedThere'
  BY <1>1 DEF Spawn, Ready, StartupFails, Closes, Threads, Placed, Named,
              CreatedThere, TypeOK, asked
<1>2. ASSUME NEW k \in Children, Ends(k)
      PROVE  CreatedThere'
  BY <1>2 DEF Ends, Closes, Threads, Placed, Named, CreatedThere, TypeOK, asked
<1>3. CASE Terminate
  BY <1>2, <1>3 DEF Terminate, TypeOK
<1>4. ASSUME NEW c \in Calls, NEW m \in Methods, NEW s \in Calls, Call(c, m, s)
      PROVE  CreatedThere'
  BY <1>4 DEF Call, spawnVars, Closes, Threads, Placed, Named, CreatedThere,
              TypeOK
<1>5. ASSUME NEW c \in Calls, Connect(c) \/ Fails(c) \/ Receive(c) \/ Timeout(c)
      PROVE  CreatedThere'
  BY <1>5 DEF Connect, Fails, Receive, Timeout, asked, spawnVars, Closes,
              Threads, Placed, Named, CreatedThere, TypeOK
<1>6. ASSUME NEW c \in Calls, CreateSession(c)
      PROVE  CreatedThere'
  BY <1>6 DEF CreateSession, Handles, Answers, asked, spawnVars, Closes,
              Threads, Placed, Named, CreatedThere, TypeOK
<1>7. ASSUME NEW c \in Calls, CloseSession(c)
      PROVE  CreatedThere'
  BY <1>7 DEF CloseSession, Handles, Answers, asked, spawnVars, Closes,
              Threads, Placed, Named, CreatedThere, TypeOK
<1>8. ASSUME NEW c \in Calls, LookUp(c) \/ Use(c) \/ Undecodable(c)
      PROVE  CreatedThere'
  BY <1>8 DEF LookUp, Use, Undecodable, Handles, Answers, asked,
              spawnVars, Closes, Threads, Placed, Named, CreatedThere, TypeOK
<1>9. CASE UNCHANGED vars
  BY <1>9 DEF vars, spawnVars, asked, Closes, Threads, Placed, Named,
              CreatedThere, TypeOK
<1> QED
  BY <1>1, <1>2, <1>3, <1>4, <1>5, <1>6, <1>7, <1>8, <1>9 DEF Next, Exit

LEMMA ClosedGoneStep ==
  ASSUME TypeOK, Threads, Placed, Named, Fixed, ClosedGone, [Next]_vars
  PROVE  ClosedGone'
<1>1. ASSUME NEW k \in Children, Spawn(k) \/ Ready(k) \/ StartupFails(k)
      PROVE  ClosedGone'
  BY <1>1 DEF Spawn, Ready, StartupFails, Told, Threads, Placed, Named,
              ClosedGone, TypeOK, asked
<1>2. ASSUME NEW k \in Children, Ends(k)
      PROVE  ClosedGone'
  BY <1>2 DEF Ends, Told, Threads, Placed, Named, ClosedGone, TypeOK, asked
<1>3. CASE Terminate
  BY <1>2, <1>3 DEF Terminate, TypeOK
<1>4. ASSUME NEW c \in Calls, NEW m \in Methods, NEW s \in Calls, Call(c, m, s)
      PROVE  ClosedGone'
  BY <1>4 DEF Call, spawnVars, Told, Threads, Placed, Named, ClosedGone, TypeOK
<1>5. ASSUME NEW c \in Calls, Connect(c) \/ Fails(c) \/ Receive(c) \/ Timeout(c)
      PROVE  ClosedGone'
  BY <1>5 DEF Connect, Fails, Receive, Timeout, asked, spawnVars, Told,
              Threads, Placed, Named, ClosedGone, TypeOK
<1>6. ASSUME NEW c \in Calls, CreateSession(c)
      PROVE  ClosedGone'
  BY <1>6 DEF CreateSession, Handles, Answers, asked, spawnVars, Told, Threads,
              Placed, Named, ClosedGone, TypeOK
<1>7. ASSUME NEW c \in Calls, CloseSession(c)
      PROVE  ClosedGone'
  BY <1>7 DEF CloseSession, Handles, Answers, asked, spawnVars, Told, Threads,
              Placed, Named, ClosedGone, TypeOK
<1>8. ASSUME NEW c \in Calls, LookUp(c) \/ Use(c) \/ Undecodable(c)
      PROVE  ClosedGone'
  BY <1>8 DEF LookUp, Use, Undecodable, Handles, Answers, asked,
              spawnVars, Told, Threads, Placed, Named, ClosedGone, TypeOK
<1>9. CASE UNCHANGED vars
  BY <1>9 DEF vars, spawnVars, asked, Told, Threads, Placed, Named, ClosedGone,
              TypeOK
<1> QED
  BY <1>1, <1>2, <1>3, <1>4, <1>5, <1>6, <1>7, <1>8, <1>9 DEF Next, Exit

LEMMA FoundOpenStep ==
  ASSUME TypeOK, Threads, Named, ClosedGone, FoundOpen, [Next]_vars
  PROVE  FoundOpen'
<1>1. ASSUME NEW k \in Children, Spawn(k) \/ Ready(k) \/ StartupFails(k)
      PROVE  FoundOpen'
  BY <1>1 DEF Spawn, Ready, StartupFails, Told, Threads, Named, ClosedGone,
              FoundOpen, TypeOK, asked
<1>2. ASSUME NEW k \in Children, Ends(k)
      PROVE  FoundOpen'
  BY <1>2 DEF Ends, Told, Threads, Named, ClosedGone, FoundOpen, TypeOK, asked
<1>3. CASE Terminate
  BY <1>2, <1>3 DEF Terminate, TypeOK
<1>4. ASSUME NEW c \in Calls, NEW m \in Methods, NEW s \in Calls, Call(c, m, s)
      PROVE  FoundOpen'
  BY <1>4 DEF Call, spawnVars, Told, Threads, Named, ClosedGone, FoundOpen,
              TypeOK
<1>5. ASSUME NEW c \in Calls, Connect(c) \/ Fails(c) \/ Receive(c) \/ Timeout(c)
      PROVE  FoundOpen'
  BY <1>5 DEF Connect, Fails, Receive, Timeout, asked, spawnVars, Told,
              Threads, Named, ClosedGone, FoundOpen, TypeOK
<1>6. ASSUME NEW c \in Calls, CreateSession(c)
      PROVE  FoundOpen'
  BY <1>6 DEF CreateSession, Handles, Answers, asked, spawnVars, Told, Threads,
              Named, ClosedGone, FoundOpen, TypeOK
<1>7. ASSUME NEW c \in Calls, CloseSession(c)
      PROVE  FoundOpen'
  BY <1>7 DEF CloseSession, Handles, Answers, asked, spawnVars, Told, Threads,
              Named, ClosedGone, FoundOpen, TypeOK
<1>8. ASSUME NEW c \in Calls, LookUp(c) \/ Use(c) \/ Undecodable(c)
      PROVE  FoundOpen'
  BY <1>8 DEF LookUp, Use, Undecodable, Handles, Answers, asked,
              spawnVars, Told, Threads, Named, ClosedGone, FoundOpen, TypeOK
<1>9. CASE UNCHANGED vars
  BY <1>9 DEF vars, spawnVars, asked, Told, Threads, Named, ClosedGone,
              FoundOpen, TypeOK
<1> QED
  BY <1>1, <1>2, <1>3, <1>4, <1>5, <1>6, <1>7, <1>8, <1>9 DEF Next, Exit

LEMMA UnknownStep ==
  ASSUME TypeOK, Threads, Placed, Named, Fixed, CreatedThere, UnknownMeansGone,
         [Next]_vars
  PROVE  UnknownMeansGone'
<1>g. \A s, k : Closes(s, k) \subseteq Closes(s, k)'
  BY Grows
<1>1. ASSUME NEW k \in Children, Spawn(k) \/ Ready(k) \/ StartupFails(k)
      PROVE  UnknownMeansGone'
  BY <1>1, <1>g DEF Spawn, Ready, StartupFails, Fixed, Told, Closes, Threads,
                    Placed, Named, CreatedThere, UnknownMeansGone, TypeOK,
                    asked
<1>2. ASSUME NEW k \in Children, Ends(k)
      PROVE  UnknownMeansGone'
  BY <1>2, <1>g DEF Ends, Fixed, Told, Closes, Threads, Placed, Named,
                    CreatedThere, UnknownMeansGone, TypeOK, asked
<1>3. CASE Terminate
  BY <1>2, <1>3 DEF Terminate, TypeOK
<1>4. ASSUME NEW c \in Calls, NEW m \in Methods, NEW s \in Calls, Call(c, m, s)
      PROVE  UnknownMeansGone'
  BY <1>4, <1>g DEF Call, spawnVars, Fixed, Told, Closes, Threads, Placed,
                    Named, CreatedThere, UnknownMeansGone, TypeOK
<1>5. ASSUME NEW c \in Calls, Connect(c) \/ Fails(c) \/ Receive(c) \/ Timeout(c)
      PROVE  UnknownMeansGone'
  BY <1>5, <1>g DEF Connect, Fails, Receive, Timeout, asked, spawnVars, Fixed,
                    Told, Closes, Threads, Placed, Named, CreatedThere,
                    UnknownMeansGone, TypeOK
<1>6. ASSUME NEW c \in Calls, CreateSession(c)
      PROVE  UnknownMeansGone'
  BY <1>6, <1>g DEF CreateSession, Handles, Answers, asked, spawnVars, Fixed,
                    Told, Closes, Threads, Placed, Named, CreatedThere,
                    UnknownMeansGone, TypeOK
<1>7. ASSUME NEW c \in Calls, CloseSession(c)
      PROVE  UnknownMeansGone'
  BY <1>7, <1>g DEF CloseSession, Handles, Answers, asked, spawnVars, Fixed,
                    Told, Closes, Threads, Placed, Named, CreatedThere,
                    UnknownMeansGone, TypeOK
<1>8. ASSUME NEW c \in Calls, LookUp(c) \/ Use(c) \/ Undecodable(c)
      PROVE  UnknownMeansGone'
  BY <1>8, <1>g DEF LookUp, Use, Undecodable, Handles, Answers, asked,
              spawnVars, Fixed, Told, Closes, Threads, Placed, Named,
              CreatedThere, UnknownMeansGone, TypeOK
<1>9. CASE UNCHANGED vars
  BY <1>9, <1>g DEF vars, spawnVars, asked, Fixed, Told, Closes, Threads,
                    Placed, Named, CreatedThere, UnknownMeansGone, TypeOK
<1> QED
  BY <1>1, <1>2, <1>3, <1>4, <1>5, <1>6, <1>7, <1>8, <1>9 DEF Next, Exit

-----------------------------------------------------------------------------
(***************************************************************************)
(* The theorems                                                            *)
(***************************************************************************)

LEMMA TableInit == Init => TableInv
<1> SUFFICES ASSUME Init PROVE TableInv
  OBVIOUS
<1>1. /\ \A c \in Calls : /\ stage[c] = "idle" /\ work[c] = "none"
                          /\ reply[c] = "none" /\ method[c] = None
                          /\ before[c] = {}
      /\ None \notin Methods
  BY WorkerAssumption DEF Init
<1> QED
  BY <1>1 DEF TableInv, Threads, Placed, Named, CreatedThere, ClosedGone,
              FoundOpen, UnknownMeansGone, Methods

LEMMA TableStep == TypeOK /\ TableInv /\ [Next]_vars => TableInv'
<1> SUFFICES ASSUME TypeOK, TableInv, [Next]_vars PROVE TableInv'
  OBVIOUS
<1> USE DEF TableInv
<1>1. Fixed
  BY StaysFixed
<1>2. Threads' /\ Placed' /\ Named'
  BY <1>1, ThreadsStep, PlacedStep, NamedStep
<1>3. CreatedThere' /\ ClosedGone' /\ FoundOpen' /\ UnknownMeansGone'
  BY <1>1, CreatedThereStep, ClosedGoneStep, FoundOpenStep, UnknownStep
<1> QED
  BY <1>2, <1>3

LEMMA TableKept == Spec => [](TypeOK /\ TableInv)
BY TypeInit, TypeStep, TableInit, TableStep, PTL DEF Spec

\* close_session, for any number of calls and executors: a session that its
\* client was told is closed is not used again where it was closed.
THEOREM ClosedStaysClosed == Spec => []NoUseAfterClose
<1>1. TypeOK /\ TableInv => NoUseAfterClose
  BY DEF TableInv, Threads, FoundOpen, NoUseAfterClose, Told, TypeOK
<1> QED
  BY <1>1, TableKept, PTL

\* create_session: a session that the client was told of is in
\* the table of its executor, until it is closed there.
THEOREM ToldLive == Spec => []ToldSessionsLive
<1>1. TypeOK /\ TableInv => ToldSessionsLive
  BY DEF TableInv, Threads, CreatedThere, ToldSessionsLive, Told, TypeOK
<1> QED
  BY <1>1, TableKept, PTL

\* sign_result, get_public_key: a use that finds no session was overtaken by
\* a close, or asks another executor.
THEOREM UnknownExplained == Spec => []UnknownMeansGone
BY TableKept, PTL DEF TableInv
=============================================================================
