----------------------------- MODULE GatewayRpc -----------------------------
(***************************************************************************)
(* The bridge calling the gateway executor, which holds the gateway's key  *)
(* and signs receipts: the client of t3n-bridge/src/gateway_client.ts      *)
(* (createClient) and the server of t3n-bridge/src/gateway_executor.ts     *)
(* (startExecutor), newline-delimited JSON over a local socket.            *)
(*                                                                         *)
(* A call is one rpc of the client: a request that settles its promise     *)
(* when an answer with its id arrives.  An answer may reach the client in  *)
(* pieces: here always in two, its head and its tail with the newline.     *)
(* Requests are put together per connection by the server and arrive       *)
(* whole.                                                                  *)
(*                                                                         *)
(* What may go wrong is in Mishaps: nobody listens ("refuse"), the         *)
(* executor dies or drops the connection ("hangup"), it was started with   *)
(* another capability token ("token").                                     *)
(***************************************************************************)
EXTENDS Integers, Sequences, FiniteSets

CONSTANTS
  Calls,       \* rpcs of one client
  Refused,     \* the calls the executor answers with an error
  Sockets,     \* connections, of which the client uses as many as it dials
  NoSocket,    \* the client has no socket
  NoCall,      \* not answered
  Overlap,     \* whether calls may dial while another call is dialling, and
               \* the client be closed under its calls
  Mishaps,     \* what may go wrong
  MaxHangups   \* bound of the hangups

ASSUME GatewayAssumption ==
  /\ Refused \subseteq Calls /\ IsFiniteSet(Calls) /\ IsFiniteSet(Sockets)
  /\ NoSocket \notin Sockets /\ NoCall \notin Calls
  /\ Overlap \in BOOLEAN /\ MaxHangups \in Nat
  /\ Mishaps \subseteq {"refuse", "hangup", "token"}

VARIABLES
  stage,      \* how far each call is; "waiting" calls are in the map pending
  id,         \* the id each call was sent with
  socketOf,   \* the socket it was sent on
  answer,     \* the call whose answer settled it
  idCounter,  \* ids used
  socket,     \* the client's current socket
  conn,       \* each connection
  requests,   \* what each connection carries to the executor
  answers,    \* and back
  recvBuf,    \* what arrived after the last newline, from any connection
  hangups     \* connections the executor dropped

callVars == <<stage, id, socketOf, answer, idCounter>>
wireVars == <<conn, requests, answers>>
vars == <<callVars, socket, wireVars, recvBuf, hangups>>

\* "ended": the executor's end is closed and the client has not noticed.
\* "barred": up, but to an executor that expects another token.
Conns == {"unused", "dialling", "open", "barred", "ended", "closed"}

Request == [id : Nat, call : Calls]
Piece == [id : Nat, call : Calls, part : {"head", "tail"}, ok : BOOLEAN]

TypeOK ==
  /\ stage \in [Calls -> {"idle", "dialling", "waiting", "resolved", "rejected"}]
  /\ id \in [Calls -> Nat]
  /\ socketOf \in [Calls -> Sockets \cup {NoSocket}]
  /\ answer \in [Calls -> Calls \cup {NoCall}]
  /\ idCounter \in Nat /\ hangups \in Nat
  /\ socket \in Sockets \cup {NoSocket}
  /\ conn \in [Sockets -> Conns]
  /\ requests \in [Sockets -> Seq(Request)]
  /\ answers \in [Sockets -> Seq(Piece)]
  /\ recvBuf \in Seq(Piece)

Init == /\ stage = [c \in Calls |-> "idle"]
        /\ id = [c \in Calls |-> 0]
        /\ socketOf = [c \in Calls |-> NoSocket]
        /\ answer = [c \in Calls |-> NoCall]
        /\ idCounter = 0 /\ hangups = 0
        /\ socket = NoSocket
        /\ conn = [s \in Sockets |-> "unused"]
        /\ requests = [s \in Sockets |-> <<>>]
        /\ answers = [s \in Sockets |-> <<>>]
        /\ recvBuf = <<>>

-----------------------------------------------------------------------------
(***************************************************************************)
(* Deliberately wrong variants of the definitions below.  No action uses   *)
(* them: each shows that some property notices the bug it stands for.      *)
(***************************************************************************)

\* Every connection counts its ids anew.
NextIdPerSocket(s) == 1 + Cardinality({c \in Calls : socketOf[c] = s /\ id[c] > 0})

\* The socket counts as usable only while nothing waits for it.
UsableIfIdle == /\ socket # NoSocket /\ conn[socket] # "closed"
                /\ \A c \in Calls : stage[c] # "waiting"

\* A line that cannot be parsed stays in the buffer.
RestKeepsMalformed(line) ==
  IF Len(line) = 2 /\ line[1].part = "head" THEN <<>> ELSE line

\* The answer of a request that raised is sent without its id.
PiecesNoId(req, ok) ==
  LET n == IF ok THEN req.id ELSE 0 IN
  << [id |-> n, call |-> req.call, part |-> "head", ok |-> ok],
     [id |-> n, call |-> req.call, part |-> "tail", ok |-> ok] >>

\* An error answer neither resolves nor rejects.
OutcomeUnknown(piece) == IF piece.ok THEN "resolved" ELSE "error"

-----------------------------------------------------------------------------
(***************************************************************************)
(* The client: ensureConnected, rpc, close                                 *)
(***************************************************************************)

\* socket && !socket.destroyed
Usable == socket # NoSocket /\ conn[socket] # "closed"

NextId(s) == idCounter + 1

\* rpc goes on with socket s: a new id, an entry in the map, a line written.
\* What is written to a connection that has ended is lost.
Sends(c, s) ==
  LET n == NextId(s) IN
  /\ idCounter' = idCounter + 1
  /\ id' = [id EXCEPT ![c] = n]
  /\ stage' = [stage EXCEPT ![c] = "waiting"]
  /\ socketOf' = [socketOf EXCEPT ![c] = s]
  /\ requests' = IF conn[s] = "ended" THEN requests
                 ELSE [requests EXCEPT ![s] = Append(@, [id |-> n, call |-> c])]

\* A call while the client has a usable socket.
Ask(c) == /\ stage[c] = "idle" /\ Usable
          /\ Sends(c, socket)
          /\ UNCHANGED <<answer, socket, conn, answers, recvBuf, hangups>>

\* A call while it has none opens one, whether or not another call is already
\* opening one.  (The bridge awaits its first call, which is health() in live
\* mode, before it makes others: ~Overlap.)
Dial(c) ==
  /\ stage[c] = "idle" /\ ~Usable
  /\ Overlap \/ \A d \in Calls : stage[d] # "dialling"
  /\ \E s \in Sockets :
       /\ conn[s] = "unused"
       /\ conn' = [conn EXCEPT ![s] = "dialling"]
       /\ socketOf' = [socketOf EXCEPT ![c] = s]
  /\ stage' = [stage EXCEPT ![c] = "dialling"]
  /\ UNCHANGED <<id, answer, idCounter, socket, requests, answers, recvBuf,
                 hangups>>

\* The connection is up: it becomes the client's socket, in place of another
\* that may be up too, and the call is sent on it.
Connected(c) ==
  LET s == socketOf[c] IN
  /\ stage[c] = "dialling"
  /\ \E how \in {"open"} \cup IF "token" \in Mishaps THEN {"barred"} ELSE {} :
       conn' = [conn EXCEPT ![s] = how]
  /\ socket' = s
  /\ Sends(c, s)
  /\ UNCHANGED <<answer, answers, recvBuf, hangups>>

\* The connection is refused and the call rejected.
DialFails(c) ==
  /\ "refuse" \in Mishaps
  /\ stage[c] = "dialling"
  /\ conn' = [conn EXCEPT ![socketOf[c]] = "closed"]
  /\ stage' = [stage EXCEPT ![c] = "rejected"]
  /\ UNCHANGED <<id, socketOf, answer, idCounter, socket, requests, answers,
                 recvBuf, hangups>>

\* close(): it asks for nothing, and the calls that wait on the socket wait on.
\* (The bridge closes when it has awaited its calls, index.ts:307: ~Overlap.)
Close ==
  /\ socket # NoSocket
  /\ Overlap \/ \A c \in Calls : stage[c] \notin {"dialling", "waiting"}
  /\ conn' = [conn EXCEPT ![socket] = "closed"]
  /\ requests' = [requests EXCEPT ![socket] = <<>>]
  /\ answers' = [answers EXCEPT ![socket] = <<>>]
  /\ socket' = NoSocket
  /\ UNCHANGED <<callVars, recvBuf, hangups>>

\* A complete line is one answer if it is a head and its own tail; anything
\* else is malformed JSON.
Parses(line) == /\ Len(line) = 2 /\ line[1].part = "head"
                /\ line[1].call = line[2].call

\* What the buffer holds after line was cut off.
Rest(line) == <<>>

Outcome(piece) == IF piece.ok THEN "resolved" ELSE "rejected"

\* onSocketData: the next piece is appended to the one buffer.  A newline ends
\* a line; an answer settles the call that waits for its id.
Receive(s) ==
  LET piece == Head(answers[s])
      line  == Append(recvBuf, piece)
  IN /\ conn[s] \in {"open", "barred", "ended"} /\ answers[s] # <<>>
     /\ answers' = [answers EXCEPT ![s] = Tail(@)]
     /\ recvBuf' = IF piece.part = "head" THEN line ELSE Rest(line)
     /\ LET met == {c \in Calls : /\ piece.part = "tail" /\ Parses(line)
                                  /\ stage[c] = "waiting" /\ id[c] = piece.id}
        IN /\ answer' = [c \in Calls |-> IF c \in met THEN piece.call
                                                      ELSE answer[c]]
           /\ stage' = [c \in Calls |->
                          IF c \in met THEN Outcome(piece) ELSE stage[c]]
     /\ UNCHANGED <<id, socketOf, idCounter, socket, conn, requests, hangups>>

\* The client reads the end of the connection: the socket is destroyed, and
\* nobody tells the calls that wait for it.
Ends(s) ==
  /\ conn[s] = "ended" /\ answers[s] = <<>>
  /\ conn' = [conn EXCEPT ![s] = "closed"]
  /\ UNCHANGED <<callVars, socket, requests, answers, recvBuf, hangups>>

-----------------------------------------------------------------------------
(***************************************************************************)
(* The executor                                                            *)
(***************************************************************************)

Pieces(req, ok) ==
  << [id |-> req.id, call |-> req.call, part |-> "head", ok |-> ok],
     [id |-> req.id, call |-> req.call, part |-> "tail", ok |-> ok] >>

\* handleRequest answers the next request of a connection.
Serve(s) ==
  LET req == Head(requests[s]) IN
  /\ conn[s] = "open" /\ requests[s] # <<>>
  /\ requests' = [requests EXCEPT ![s] = Tail(@)]
  /\ answers' = [answers EXCEPT ![s] = @ \o Pieces(req, req.call \notin Refused)]
  /\ UNCHANGED <<callVars, socket, conn, recvBuf, hangups>>

\* The token is wrong: one answer, then socketDone and the end of the
\* connection; requests that came along are not read.
Unauthorized(s) ==
  LET req == Head(requests[s]) IN
  /\ conn[s] = "barred" /\ requests[s] # <<>>
  /\ requests' = [requests EXCEPT ![s] = <<>>]
  /\ answers' = [answers EXCEPT ![s] = @ \o Pieces(req, FALSE)]
  /\ conn' = [conn EXCEPT ![s] = "ended"]
  /\ UNCHANGED <<callVars, socket, recvBuf, hangups>>

\* The executor's end goes away with the requests it has not answered, and
\* perhaps with the last pieces of answers.
Hangup(s) ==
  /\ "hangup" \in Mishaps /\ hangups < MaxHangups
  /\ conn[s] \in {"open", "barred"}
  /\ hangups' = hangups + 1
  /\ conn' = [conn EXCEPT ![s] = "ended"]
  /\ requests' = [requests EXCEPT ![s] = <<>>]
  /\ \E n \in 0 .. Len(answers[s]) :
       answers' = [answers EXCEPT ![s] = SubSeq(@, 1, n)]
  /\ UNCHANGED <<callVars, socket, recvBuf>>

-----------------------------------------------------------------------------
CallStep(c) == Ask(c) \/ Dial(c) \/ Connected(c) \/ DialFails(c)

SocketStep(s) == Receive(s) \/ Ends(s) \/ Serve(s) \/ Unauthorized(s) \/ Hangup(s)

Next == (\E c \in Calls : CallStep(c)) \/ (\E s \in Sockets : SocketStep(s)) \/ Close

Spec == Init /\ [][Next]_vars

\* A local connection comes up or is refused, the executor answers, and the
\* event loop delivers.  Nobody has to call, close or hang up.
FairSpec ==
  /\ Spec
  /\ \A c \in Calls : WF_vars(Connected(c) \/ DialFails(c))
  /\ \A s \in Sockets : /\ WF_vars(Receive(s)) /\ WF_vars(Serve(s))
                        /\ WF_vars(Unauthorized(s))

-----------------------------------------------------------------------------
(***************************************************************************)
(* Properties                                                              *)
(***************************************************************************)

\* A call is settled by the answer to its own request, on whatever socket it
\* was sent and whatever was glued together in the buffer they share; and it
\* resolves only if the executor accepted it.
OwnAnswer == \A c \in Calls :
  /\ answer[c] \in {c, NoCall}
  /\ stage[c] = "resolved" => answer[c] = c /\ c \notin Refused

\* If the client is used as the bridge uses it, its socket is the only one that
\* is up, so close() leaves no connection behind.
NoneLeftBehind ==
  \A s \in Sockets : conn[s] \in {"open", "barred", "ended"} => s = socket

\* A call whose answer can no longer arrive, although its connection is up.
Missed(c) ==
  LET s == socketOf[c] IN
  /\ stage[c] = "waiting" /\ conn[s] = "open"
  /\ \A i \in DOMAIN requests[s] : requests[s][i].call # c
  /\ \A i \in DOMAIN answers[s] : answers[s][i].call # c

\* Half an answer left behind by a dropped connection costs at most one answer
\* of the next one; and however many connections are dropped, never do two
\* calls wait in vain on the one that is up.
LossBounded == LET missed == {c \in Calls : Missed(c)} IN
  Cardinality(missed) <= hangups /\ Cardinality(missed) <= 1

\* Used as the bridge uses it, the client settles every call, refused ones
\* too, unless the executor dropped a connection.
Settles ==
  \A c \in Calls :
    stage[c] \in {"dialling", "waiting"} ~>
      (stage[c] \in {"resolved", "rejected"} \/ hangups > 0)
=============================================================================
