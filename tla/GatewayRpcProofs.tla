-------------------------- MODULE GatewayRpcProofs --------------------------
(***************************************************************************)
(* A call of the gateway client is settled by its own answer: ids are      *)
(* never used twice, every request and every piece of an answer carries    *)
(* the id of its call, and the piece that ends a line decides whom the     *)
(* line is for.                                                            *)
(*                                                                         *)
(* When calls do not dial while another one does (~Overlap: the bridge     *)
(* awaits its first call before it makes others), no connection but the    *)
(* client's socket is ever up, and of the calls that wait on it at most    *)
(* one waits in vain: the wires then carry whole answers, head and tail in *)
(* turn, and only one head can be left over in the buffer at a time.       *)
(***************************************************************************)
EXTENDS GatewayRpc, FiniteSetTheorems, SequenceTheorems, TLAPS

\* Requests and pieces of answers that carry the id of the call they are for.
SentRequest == {r \in Request : r.id > 0 /\ id[r.call] = r.id}

OwnPiece == {p \in Piece : /\ p.id > 0 /\ id[p.call] = p.id
                           /\ p.ok => p.call \notin Refused}

IdInv == /\ \A c \in Calls : id[c] <= idCounter
         /\ \A c \in Calls : stage[c] \in {"idle", "dialling"} => id[c] = 0
         /\ \A c \in Calls : stage[c] = "waiting" => id[c] > 0
         /\ \A c, d \in Calls : id[c] = id[d] /\ id[c] > 0 => c = d

OwnInv == /\ IdInv
          /\ requests \in [Sockets -> Seq(SentRequest)]
          /\ answers \in [Sockets -> Seq(OwnPiece)]
          /\ OwnAnswer

-----------------------------------------------------------------------------
(***************************************************************************)
(* What the steps do to the wires, for any set the messages are in         *)
(***************************************************************************)

LEMMA TailIn ==
  ASSUME NEW S, NEW q \in Seq(S), q # <<>>
  PROVE  Head(q) \in S /\ Tail(q) \in Seq(S)
BY HeadTailProperties

LEMMA PrefixIn ==
  ASSUME NEW S, NEW q \in Seq(S), NEW n \in 0 .. Len(q)
  PROVE  SubSeq(q, 1, n) \in Seq(S)
<1>1. Len(q) \in Nat /\ \A i \in 1 .. n : q[i] \in S
  BY LenProperties, ElementOfSeq
<1> QED
  BY <1>1, SubSeqProperties

\* Requests on the wires stay in a set S that holds every request sent.
LEMMA RequestsStep ==
  ASSUME NEW S, TypeOK, [Next]_vars, requests \in [Sockets -> Seq(S)],
         \A c \in Calls, s \in Sockets :
           Sends(c, s) => [id |-> NextId(s), call |-> c] \in S
  PROVE  requests' \in [Sockets -> Seq(S)]
<1>e. <<>> \in Seq(S)
  OBVIOUS
<1>1. ASSUME NEW c \in Calls, NEW s \in Sockets, Sends(c, s)
      PROVE  requests' \in [Sockets -> Seq(S)]
  <2>1. Append(requests[s], [id |-> NextId(s), call |-> c]) \in Seq(S)
    BY <1>1, AppendProperties
  <2> QED
    BY <1>1, <2>1 DEF Sends
<1>2. ASSUME NEW c \in Calls, CallStep(c)
      PROVE  requests' \in [Sockets -> Seq(S)]
  <2>1. CASE Ask(c)
    BY <2>1, <1>1 DEF Ask, Usable, TypeOK
  <2>2. CASE Connected(c)
    <3>1. CASE socketOf[c] \in Sockets
      BY <2>2, <3>1, <1>1 DEF Connected
    <3>2. CASE socketOf[c] \notin Sockets
      BY <2>2, <3>2 DEF Connected, Sends, TypeOK
    <3> QED
      BY <3>1, <3>2
  <2> QED
    BY <1>2, <2>1, <2>2 DEF CallStep, Dial, DialFails
<1>3. ASSUME NEW s \in Sockets, SocketStep(s)
      PROVE  requests' \in [Sockets -> Seq(S)]
  <2>1. CASE Serve(s)
    <3>1. Tail(requests[s]) \in Seq(S)
      BY <2>1, TailIn DEF Serve
    <3> QED
      BY <2>1, <3>1 DEF Serve
  <2> QED
    BY <1>3, <1>e, <2>1 DEF SocketStep, Receive, Ends, Unauthorized, Hangup
<1>4. CASE Close
  BY <1>4, <1>e DEF Close
<1>5. CASE UNCHANGED vars
  BY <1>5 DEF vars, wireVars
<1> QED
  BY <1>2, <1>3, <1>4, <1>5 DEF Next

\* Pieces on the wires stay in a set S that holds the pieces of the answers to
\* the requests in T.
LEMMA AnswersStep ==
  ASSUME NEW S, NEW T, TypeOK, [Next]_vars,
         requests \in [Sockets -> Seq(T)], answers \in [Sockets -> Seq(S)],
         \A r \in T, ok \in BOOLEAN :
           (ok => r.call \notin Refused) => Pieces(r, ok) \in Seq(S)
  PROVE  answers' \in [Sockets -> Seq(S)]
<1>e. <<>> \in Seq(S)
  OBVIOUS
<1>1. ASSUME NEW s \in Sockets, NEW ok \in BOOLEAN, requests[s] # <<>>,
             ok => Head(requests[s]).call \notin Refused
      PROVE  answers[s] \o Pieces(Head(requests[s]), ok) \in Seq(S)
  <2>1. Head(requests[s]) \in T
    BY <1>1, TailIn
  <2>2. Pieces(Head(requests[s]), ok) \in Seq(S)
    BY <1>1, <2>1
  <2> QED
    BY <2>2, ConcatProperties
<1>2. ASSUME NEW s \in Sockets, SocketStep(s)
      PROVE  answers' \in [Sockets -> Seq(S)]
  <2>1. CASE Serve(s)
    <3> DEFINE ok == Head(requests[s]).call \notin Refused
    <3>1. answers[s] \o Pieces(Head(requests[s]), ok) \in Seq(S)
      BY <2>1, <1>1 DEF Serve
    <3>2. answers' = [answers EXCEPT ![s] =
                        answers[s] \o Pieces(Head(requests[s]), ok)]
      BY <2>1 DEF Serve
    <3> HIDE DEF ok
    <3> QED
      BY <3>1, <3>2
  <2>2. CASE Unauthorized(s)
    <3>1. answers[s] \o Pieces(Head(requests[s]), FALSE) \in Seq(S)
      BY <2>2, <1>1 DEF Unauthorized
    <3>2. answers' = [answers EXCEPT ![s] =
                        answers[s] \o Pieces(Head(requests[s]), FALSE)]
      BY <2>2 DEF Unauthorized
    <3> QED
      BY <3>1, <3>2
  <2>3. CASE Receive(s)
    <3>1. Tail(answers[s]) \in Seq(S)
      BY <2>3, TailIn DEF Receive
    <3> QED
      BY <2>3, <3>1 DEF Receive
  <2>4. CASE Hangup(s)
    <3>1. PICK n \in 0 .. Len(answers[s]) :
            answers' = [answers EXCEPT ![s] = SubSeq(answers[s], 1, n)]
      BY <2>4 DEF Hangup
    <3>2. SubSeq(answers[s], 1, n) \in Seq(S)
      BY PrefixIn
    <3> QED
      BY <3>1, <3>2
  <2> QED
    BY <1>2, <2>1, <2>2, <2>3, <2>4 DEF SocketStep, Ends
<1>3. CASE Close
  BY <1>3, <1>e DEF Close
<1>4. ASSUME NEW c \in Calls, CallStep(c)
      PROVE  answers' \in [Sockets -> Seq(S)]
  BY <1>4 DEF CallStep, Ask, Dial, Connected, DialFails
<1>5. CASE UNCHANGED vars
  BY <1>5 DEF vars, wireVars
<1> QED
  BY <1>2, <1>3, <1>4, <1>5 DEF Next


-----------------------------------------------------------------------------
(***************************************************************************)
(* Types                                                                   *)
(***************************************************************************)

\* A call that dials knows its socket.
LEMMA CallTypes ==
  ASSUME TypeOK, [Next]_vars
  PROVE  /\ stage' \in [Calls -> {"idle", "dialling", "waiting", "resolved",
                                  "rejected"}]
         /\ id' \in [Calls -> Nat] /\ idCounter' \in Nat
         /\ socketOf' \in [Calls -> Sockets \cup {NoSocket}]
<1>1. ASSUME NEW c \in Calls, CallStep(c)
      PROVE  /\ stage' \in [Calls -> {"idle", "dialling", "waiting",
                                      "resolved", "rejected"}]
             /\ id' \in [Calls -> Nat] /\ idCounter' \in Nat
             /\ socketOf' \in [Calls -> Sockets \cup {NoSocket}]
  <2>1. ASSUME NEW s \in Sockets \cup {NoSocket}, Sends(c, s)
        PROVE  /\ stage' \in [Calls -> {"idle", "dialling", "waiting",
                                        "resolved", "rejected"}]
               /\ id' \in [Calls -> Nat] /\ idCounter' \in Nat
               /\ socketOf' \in [Calls -> Sockets \cup {NoSocket}]
    BY <2>1 DEF TypeOK, Sends, NextId
  <2>2. CASE Ask(c)
    <3>1. socket \in Sockets \cup {NoSocket} /\ Sends(c, socket)
      BY <2>2 DEF TypeOK, Ask
    <3> QED
      BY <2>1, <3>1
  <2>3. CASE Dial(c)
    BY <2>3 DEF TypeOK, Dial
  <2>4. CASE Connected(c)
    <3>1. socketOf[c] \in Sockets \cup {NoSocket} /\ Sends(c, socketOf[c])
      BY <2>4 DEF TypeOK, Connected
    <3> QED
      BY <2>1, <3>1
  <2>5. CASE DialFails(c)
    BY <2>5 DEF TypeOK, DialFails
  <2> QED
    BY <1>1, <2>2, <2>3, <2>4, <2>5 DEF CallStep
<1>2. ASSUME NEW s \in Sockets, SocketStep(s)
      PROVE  /\ stage' \in [Calls -> {"idle", "dialling", "waiting",
                                      "resolved", "rejected"}]
             /\ UNCHANGED <<id, idCounter, socketOf>>
  <2>1. CASE Receive(s)
    BY <2>1 DEF TypeOK, Receive, Outcome
  <2> QED
    BY <1>2, <2>1 DEF TypeOK, SocketStep, Ends, Serve, Unauthorized, Hangup,
                      callVars
<1>3. CASE Close \/ UNCHANGED vars
  BY <1>3 DEF TypeOK, Close, vars, callVars
<1> QED
  BY <1>1, <1>2, <1>3 DEF Next, TypeOK

LEMMA AnswerType ==
  ASSUME TypeOK, [Next]_vars
  PROVE  answer' \in [Calls -> Calls \cup {NoCall}]
<1>1. ASSUME NEW s \in Sockets, Receive(s)
      PROVE  answer' \in [Calls -> Calls \cup {NoCall}]
  <2>1. Head(answers[s]).call \in Calls
    <3>1. answers[s] \in Seq(Piece) /\ answers[s] # <<>>
      BY <1>1 DEF TypeOK, Receive
    <3>2. Head(answers[s]) \in Piece
      BY <3>1, TailIn
    <3> QED
      BY <3>2 DEF Piece
  <2> QED
    BY <1>1, <2>1 DEF TypeOK, Receive
<1>2. ASSUME NEW s \in Sockets, SocketStep(s)
      PROVE  answer' \in [Calls -> Calls \cup {NoCall}]
  BY <1>1, <1>2 DEF TypeOK, SocketStep, Ends, Serve, Unauthorized, Hangup,
                    callVars
<1>3. ASSUME NEW c \in Calls, CallStep(c)
      PROVE  answer' \in [Calls -> Calls \cup {NoCall}]
  BY <1>3 DEF TypeOK, CallStep, Ask, Dial, Connected, DialFails
<1> QED
  BY <1>2, <1>3 DEF Next, TypeOK, Close, vars, callVars

LEMMA SocketTypes ==
  ASSUME TypeOK, [Next]_vars
  PROVE  /\ conn' \in [Sockets -> Conns] /\ hangups' \in Nat
         /\ socket' \in Sockets \cup {NoSocket}
<1>1. ASSUME NEW c \in Calls, CallStep(c)
      PROVE  /\ conn' \in [Sockets -> Conns] /\ hangups' \in Nat
             /\ socket' \in Sockets \cup {NoSocket}
  <2>1. CASE Ask(c)
    BY <2>1 DEF TypeOK, Ask
  <2>2. CASE Dial(c)
    BY <2>2 DEF TypeOK, Conns, Dial
  <2>3. CASE Connected(c)
    <3>1. PICK how \in {"open", "barred"} :
            conn' = [conn EXCEPT ![socketOf[c]] = how]
      BY <2>3 DEF Connected
    <3> QED
      BY <2>3, <3>1 DEF TypeOK, Conns, Connected
  <2>4. CASE DialFails(c)
    BY <2>4 DEF TypeOK, Conns, DialFails
  <2> QED
    BY <1>1, <2>1, <2>2, <2>3, <2>4 DEF CallStep
<1>2. ASSUME NEW s \in Sockets, SocketStep(s)
      PROVE  /\ conn' \in [Sockets -> Conns] /\ hangups' \in Nat
             /\ socket' \in Sockets \cup {NoSocket}
  <2>1. CASE Receive(s) \/ Serve(s)
    BY <2>1 DEF TypeOK, Receive, Serve
  <2>2. CASE Ends(s) \/ Unauthorized(s)
    BY <2>2 DEF TypeOK, Conns, Ends, Unauthorized
  <2>3. CASE Hangup(s)
    BY <2>3 DEF TypeOK, Conns, Hangup
  <2> QED
    BY <1>2, <2>1, <2>2, <2>3 DEF SocketStep
<1>3. CASE Close \/ UNCHANGED vars
  BY <1>3 DEF TypeOK, Conns, Close, vars, wireVars
<1> QED
  BY <1>1, <1>2, <1>3 DEF Next

LEMMA BufferType ==
  ASSUME TypeOK, [Next]_vars
  PROVE  recvBuf' \in Seq(Piece)
<1>1. ASSUME NEW s \in Sockets, Receive(s) PROVE recvBuf' \in Seq(Piece)
  <2>1. Append(recvBuf, Head(answers[s])) \in Seq(Piece)
    <3>1. answers[s] \in Seq(Piece) /\ answers[s] # <<>>
      BY <1>1 DEF TypeOK, Receive
    <3>2. Head(answers[s]) \in Piece /\ recvBuf \in Seq(Piece)
      BY <3>1, TailIn DEF TypeOK
    <3> QED
      BY <3>2, AppendProperties
  <2>2. Rest(Append(recvBuf, Head(answers[s]))) \in Seq(Piece)
    BY DEF Rest
  <2> QED
    BY <1>1, <2>1, <2>2 DEF Receive
<1>2. ASSUME NEW c \in Calls, CallStep(c) PROVE UNCHANGED recvBuf
  BY <1>2 DEF CallStep, Ask, Dial, Connected, DialFails
<1>3. ASSUME NEW s \in Sockets, SocketStep(s) PROVE recvBuf' \in Seq(Piece)
  BY <1>1, <1>3 DEF TypeOK, SocketStep, Ends, Serve, Unauthorized, Hangup
<1> QED
  BY <1>2, <1>3 DEF Next, TypeOK, Close, vars

LEMMA PiecesType ==
  ASSUME NEW r \in Request, NEW ok \in BOOLEAN
  PROVE  Pieces(r, ok) \in Seq(Piece)
BY DEF Pieces, Request, Piece

LEMMA TypeStep == TypeOK /\ [Next]_vars => TypeOK'
<1> SUFFICES ASSUME TypeOK, [Next]_vars PROVE TypeOK'
  OBVIOUS
<1>1. \A c \in Calls, s \in Sockets : [id |-> NextId(s), call |-> c] \in Request
  BY DEF TypeOK, NextId, Request
<1>2. requests' \in [Sockets -> Seq(Request)]
  BY <1>1, RequestsStep DEF TypeOK
<1>3. \A r \in Request, ok \in BOOLEAN : Pieces(r, ok) \in Seq(Piece)
  BY PiecesType
<1>4. answers' \in [Sockets -> Seq(Piece)]
  BY <1>3, AnswersStep DEF TypeOK
<1> QED
  BY <1>2, <1>4, CallTypes, AnswerType, SocketTypes, BufferType DEF TypeOK

\* The client's map, buffer and ids and the wires keep their types, whatever
\* drops and however calls overlap.
THEOREM GatewayTypes == Spec => []TypeOK
<1>1. Init => TypeOK
  BY DEF Init, TypeOK, Conns
<1> QED
  BY <1>1, TypeStep, PTL DEF Spec


-----------------------------------------------------------------------------
(***************************************************************************)
(* Every call is settled by its own answer                                 *)
(***************************************************************************)

\* What a step does to the ids: one call is sent under an unused id, or no id
\* changes.
LEMMA IdSteps ==
  ASSUME TypeOK, [Next]_vars
  PROVE  \/ \E c \in Calls :
              /\ stage[c] \in {"idle", "dialling"}
              /\ id' = [id EXCEPT ![c] = idCounter + 1]
              /\ idCounter' = idCounter + 1
              /\ stage' = [stage EXCEPT ![c] = "waiting"]
              /\ answer' = answer
         \/ /\ id' = id /\ idCounter' = idCounter
            /\ \A c \in Calls :
                 \/ stage'[c] = stage[c] /\ answer'[c] = answer[c]
                 \/ stage[c] = "idle" /\ stage'[c] = "dialling"
                    /\ answer'[c] = answer[c]
                 \/ stage[c] = "dialling" /\ stage'[c] = "rejected"
                    /\ answer'[c] = answer[c]
                 \/ \E s \in Sockets :
                      LET p == Head(answers[s]) IN
                      /\ answers[s] # <<>>
                      /\ stage[c] = "waiting" /\ id[c] = p.id
                      /\ stage'[c] = Outcome(p) /\ answer'[c] = p.call
<1> DEFINE Sent(c) == /\ stage[c] \in {"idle", "dialling"}
                      /\ id' = [id EXCEPT ![c] = idCounter + 1]
                      /\ idCounter' = idCounter + 1
                      /\ stage' = [stage EXCEPT ![c] = "waiting"]
                      /\ answer' = answer
<1>1. ASSUME NEW c \in Calls, Ask(c) \/ Connected(c) PROVE Sent(c)
  BY <1>1 DEF Ask, Connected, Sends, NextId
<1>2. ASSUME NEW c \in Calls, Dial(c)
      PROVE  /\ stage' = [stage EXCEPT ![c] = "dialling"] /\ stage[c] = "idle"
             /\ UNCHANGED <<id, idCounter, answer>>
  BY <1>2 DEF Dial
<1>3. ASSUME NEW c \in Calls, DialFails(c)
      PROVE  /\ stage' = [stage EXCEPT ![c] = "rejected"]
             /\ stage[c] = "dialling" /\ UNCHANGED <<id, idCounter, answer>>
  BY <1>3 DEF DialFails
<1>4. ASSUME NEW s \in Sockets, Receive(s)
      PROVE  /\ id' = id /\ idCounter' = idCounter
             /\ \A c \in Calls :
                  \/ stage'[c] = stage[c] /\ answer'[c] = answer[c]
                  \/ /\ answers[s] # <<>>
                     /\ stage[c] = "waiting" /\ id[c] = Head(answers[s]).id
                     /\ stage'[c] = Outcome(Head(answers[s]))
                     /\ answer'[c] = Head(answers[s]).call
  BY <1>4 DEF Receive
<1>5. ASSUME NEW s \in Sockets, Ends(s) \/ Serve(s) \/ Unauthorized(s) \/ Hangup(s)
      PROVE  UNCHANGED <<id, idCounter, stage, answer>>
  BY <1>5 DEF Ends, Serve, Unauthorized, Hangup, callVars
<1>6. CASE Close \/ UNCHANGED vars
  BY <1>6 DEF Close, vars, callVars
<1>7. CASE \E c \in Calls : CallStep(c)
  <2>1. PICK c \in Calls : CallStep(c)
    BY <1>7
  <2>2. CASE Ask(c) \/ Connected(c)
    BY <1>1, <2>2
  <2>3. CASE Dial(c)
    BY <1>2, <2>3 DEF TypeOK
  <2>4. CASE DialFails(c)
    BY <1>3, <2>4 DEF TypeOK
  <2> QED
    BY <2>1, <2>2, <2>3, <2>4 DEF CallStep
<1>8. CASE \E s \in Sockets : SocketStep(s)
  <2>1. PICK s \in Sockets : SocketStep(s)
    BY <1>8
  <2>2. CASE Receive(s)
    BY <1>4, <2>2
  <2>3. CASE Ends(s) \/ Serve(s) \/ Unauthorized(s) \/ Hangup(s)
    BY <1>5, <2>3
  <2> QED
    BY <2>1, <2>2, <2>3 DEF SocketStep
<1> QED
  BY <1>6, <1>7, <1>8 DEF Next

LEMMA IdStep ==
  ASSUME TypeOK, IdInv, [Next]_vars
  PROVE  /\ IdInv'
         /\ \A c \in Calls : id[c] > 0 => id'[c] = id[c]
<1>1. CASE \E c \in Calls :
             /\ stage[c] \in {"idle", "dialling"}
             /\ id' = [id EXCEPT ![c] = idCounter + 1]
             /\ idCounter' = idCounter + 1
             /\ stage' = [stage EXCEPT ![c] = "waiting"]
             /\ answer' = answer
  BY <1>1 DEF TypeOK, IdInv
<1>2. CASE /\ id' = id /\ idCounter' = idCounter
           /\ \A c \in Calls : \/ stage'[c] = stage[c]
                               \/ stage[c] = "idle" /\ stage'[c] = "dialling"
                               \/ stage'[c] \in {"resolved", "rejected"}
  BY <1>2 DEF TypeOK, IdInv
<1> QED
  BY <1>1, <1>2, IdSteps DEF Outcome


LEMMA OwnAnswerStep ==
  ASSUME TypeOK, OwnInv, [Next]_vars
  PROVE  OwnAnswer'
<1> SUFFICES ASSUME NEW c \in Calls
             PROVE  /\ answer'[c] \in {c, NoCall}
                    /\ stage'[c] = "resolved"
                         => answer'[c] = c /\ c \notin Refused
  BY DEF OwnAnswer
<1>0. /\ answer[c] \in {c, NoCall}
      /\ stage[c] = "resolved" => answer[c] = c /\ c \notin Refused
  BY DEF OwnInv, OwnAnswer
<1>1. ASSUME NEW s \in Sockets, answers[s] # <<>>, stage[c] = "waiting",
             id[c] = Head(answers[s]).id,
             stage'[c] = Outcome(Head(answers[s])),
             answer'[c] = Head(answers[s]).call
      PROVE  /\ answer'[c] = c
             /\ stage'[c] = "resolved" => c \notin Refused
  <2>1. Head(answers[s]) \in OwnPiece
    BY <1>1, TailIn DEF OwnInv
  <2>2. Head(answers[s]).call = c
    BY <1>1, <2>1 DEF OwnInv, IdInv, OwnPiece, Piece
  <2> QED
    BY <1>1, <2>1, <2>2 DEF OwnPiece, Outcome
<1>2. CASE \E d \in Calls : /\ stage[d] \in {"idle", "dialling"}
                            /\ stage' = [stage EXCEPT ![d] = "waiting"]
                            /\ answer' = answer
  BY <1>0, <1>2 DEF TypeOK
<1>3. CASE /\ answer'[c] = answer[c]
           /\ stage'[c] \in {stage[c], "dialling", "rejected"}
  BY <1>0, <1>3
<1>4. \/ \E d \in Calls : /\ stage[d] \in {"idle", "dialling"}
                          /\ stage' = [stage EXCEPT ![d] = "waiting"]
                          /\ answer' = answer
      \/ /\ answer'[c] = answer[c]
         /\ stage'[c] \in {stage[c], "dialling", "rejected"}
      \/ \E s \in Sockets :
           /\ answers[s] # <<>> /\ stage[c] = "waiting"
           /\ id[c] = Head(answers[s]).id
           /\ stage'[c] = Outcome(Head(answers[s]))
           /\ answer'[c] = Head(answers[s]).call
  BY IdSteps
<1> QED
  BY <1>1, <1>2, <1>3, <1>4

\* A piece of the answer to a request carries the request's id.
LEMMA OwnPieces ==
  ASSUME NEW r \in SentRequest, NEW ok \in BOOLEAN, ok => r.call \notin Refused
  PROVE  Pieces(r, ok) \in Seq(OwnPiece)
<1> DEFINE P(part) == [id |-> r.id, call |-> r.call, part |-> part, ok |-> ok]
<1>1. P("head") \in OwnPiece /\ P("tail") \in OwnPiece
  BY DEF SentRequest, Request, OwnPiece, Piece
<1>2. Pieces(r, ok) = <<P("head"), P("tail")>>
  BY DEF Pieces
<1> HIDE DEF P
<1> QED
  BY <1>1, <1>2

LEMMA OwnStep == TypeOK /\ OwnInv /\ [Next]_vars => OwnInv'
<1> SUFFICES ASSUME TypeOK, OwnInv, [Next]_vars PROVE OwnInv'
  OBVIOUS
<1>1. IdInv' /\ \A c \in Calls : id[c] > 0 => id'[c] = id[c]
  BY IdStep DEF OwnInv
<1>2. SentRequest \subseteq SentRequest' /\ OwnPiece \subseteq OwnPiece'
  BY <1>1 DEF SentRequest, Request, OwnPiece, Piece
<1>3. requests' \in [Sockets -> Seq(SentRequest')]
  <2>1. requests \in [Sockets -> Seq(SentRequest')]
    BY <1>2, SeqMonotonic DEF OwnInv
  <2>2. ASSUME NEW c \in Calls, NEW s \in Sockets, Sends(c, s)
        PROVE  [id |-> NextId(s), call |-> c] \in SentRequest'
    BY <2>2 DEF TypeOK, Sends, NextId, SentRequest, Request
  <2> QED
    BY <2>1, <2>2, RequestsStep
<1>4. answers' \in [Sockets -> Seq(OwnPiece')]
  <2>1. answers \in [Sockets -> Seq(OwnPiece')]
    BY <1>2, SeqMonotonic DEF OwnInv
  <2>2. ASSUME NEW r \in SentRequest, NEW ok \in BOOLEAN,
               ok => r.call \notin Refused
        PROVE  Pieces(r, ok) \in Seq(OwnPiece')
    BY <1>2, <2>2, OwnPieces, SeqMonotonic
  <2>3. requests \in [Sockets -> Seq(SentRequest)]
    BY DEF OwnInv
  <2> QED
    BY <2>1, <2>2, <2>3, AnswersStep
<1>5. OwnAnswer'
  BY OwnAnswerStep
<1> QED
  BY <1>1, <1>3, <1>4, <1>5 DEF OwnInv

\* Whatever drops, however calls overlap and whatever is glued together in the
\* buffer, a call of the gateway client is settled by its own answer.
THEOREM AnswersOwn == Spec => []OwnAnswer
<1>1. Init => OwnInv
  BY DEF Init, OwnInv, IdInv, OwnAnswer
<1>2. TypeOK /\ OwnInv /\ [Next]_vars => OwnInv'
  BY OwnStep
<1>3. OwnInv => OwnAnswer
  BY DEF OwnInv
<1> QED
  BY <1>1, <1>2, <1>3, GatewayTypes, PTL DEF Spec

-----------------------------------------------------------------------------
(***************************************************************************)
(* One call dials at a time: the client's socket is the only one up        *)
(***************************************************************************)

\* Who dials, and that nothing else is up meanwhile.
OneSocket ==
  /\ \A c, d \in Calls :
       stage[c] = "dialling" /\ stage[d] = "dialling" => c = d
  /\ \A c \in Calls : stage[c] = "dialling" =>
       /\ socketOf[c] \in Sockets /\ conn[socketOf[c]] = "dialling"
       /\ ~Usable
  /\ \A c \in Calls : stage[c] = "waiting" =>
       /\ socketOf[c] \in Sockets
       /\ conn[socketOf[c]] \notin {"unused", "dialling"}
  /\ socket # NoSocket => conn[socket] \notin {"unused", "dialling"}
  /\ NoneLeftBehind

LEMMA OneSocketCall ==
  ASSUME ~Overlap, TypeOK, OneSocket, NEW c \in Calls, CallStep(c)
  PROVE  OneSocket'
<1> USE GatewayAssumption
<1>1. CASE Ask(c)
  <2>1. socket \in Sockets /\ conn[socket] \notin {"unused", "dialling"}
    BY <1>1 DEF Ask, Usable, TypeOK, OneSocket
  <2>2. /\ stage' = [stage EXCEPT ![c] = "waiting"]
        /\ socketOf' = [socketOf EXCEPT ![c] = socket]
        /\ conn' = conn /\ socket' = socket
    BY <1>1 DEF Ask, Sends
  <2> QED
    BY <2>1, <2>2 DEF TypeOK, OneSocket, NoneLeftBehind, Usable
<1>2. CASE Dial(c)
  <2>1. PICK s \in Sockets : /\ conn[s] = "unused"
                             /\ conn' = [conn EXCEPT ![s] = "dialling"]
                             /\ socketOf' = [socketOf EXCEPT ![c] = s]
    BY <1>2 DEF Dial
  <2>2. /\ stage' = [stage EXCEPT ![c] = "dialling"] /\ socket' = socket
        /\ \A d \in Calls : stage[d] # "dialling"
        /\ stage[c] = "idle" /\ ~Usable
    BY <1>2 DEF Dial
  <2>3. ~Usable'
    BY <2>1, <2>2 DEF TypeOK, OneSocket, Usable
  <2> QED
    BY <2>1, <2>2, <2>3 DEF TypeOK, OneSocket, NoneLeftBehind
<1>3. CASE Connected(c)
  <2> DEFINE s == socketOf[c]
  <2>1. /\ s \in Sockets /\ conn[s] = "dialling" /\ ~Usable
        /\ stage[c] = "dialling"
        /\ \A d \in Calls \ {c} : stage[d] # "dialling"
    BY <1>3 DEF Connected, OneSocket
  <2>2. PICK how \in {"open", "barred"} : conn' = [conn EXCEPT ![s] = how]
    BY <1>3 DEF Connected
  <2>3. /\ stage' = [stage EXCEPT ![c] = "waiting"] /\ socket' = s
        /\ socketOf' = [socketOf EXCEPT ![c] = s]
    BY <1>3 DEF Connected, Sends
  <2>4. \A t \in Sockets : conn[t] \notin {"open", "barred", "ended"}
    BY <2>1 DEF OneSocket, NoneLeftBehind, Usable
  <2>5. socketOf'[c] = s /\ \A d \in Calls \ {c} : socketOf'[d] = socketOf[d]
    BY <2>3 DEF TypeOK
  <2>6. /\ conn'[s] \in {"open", "barred"}
        /\ \A t \in Sockets \ {s} : conn'[t] = conn[t]
    BY <2>1, <2>2 DEF TypeOK
  <2>7. /\ \A d \in Calls : stage'[d] # "dialling"
        /\ \A d \in Calls \ {c} : stage'[d] = stage[d]
    BY <2>1, <2>3 DEF TypeOK
  <2>8. ASSUME NEW d \in Calls, stage'[d] = "waiting"
        PROVE  /\ socketOf'[d] \in Sockets
               /\ conn'[socketOf'[d]] \notin {"unused", "dialling"}
    BY <2>1, <2>5, <2>6, <2>7, <2>8 DEF OneSocket
  <2>9. NoneLeftBehind'
    BY <2>3, <2>4, <2>6 DEF NoneLeftBehind
  <2> QED
    BY <2>1, <2>3, <2>6, <2>7, <2>8, <2>9 DEF OneSocket
<1>4. CASE DialFails(c)
  <2> DEFINE s == socketOf[c]
  <2>1. /\ s \in Sockets /\ conn[s] = "dialling" /\ ~Usable
        /\ \A d \in Calls \ {c} : stage[d] # "dialling"
    BY <1>4 DEF DialFails, OneSocket
  <2>2. /\ stage' = [stage EXCEPT ![c] = "rejected"] /\ socket' = socket
        /\ conn' = [conn EXCEPT ![s] = "closed"] /\ socketOf' = socketOf
    BY <1>4 DEF DialFails
  <2> QED
    BY <2>1, <2>2 DEF TypeOK, OneSocket, NoneLeftBehind
<1> QED
  BY <1>1, <1>2, <1>3, <1>4 DEF CallStep

LEMMA OneSocketStep ==
  ASSUME ~Overlap, TypeOK, OneSocket, [Next]_vars
  PROVE  OneSocket'
<1> USE GatewayAssumption
\* The end of the client's socket, seen or not yet.
<1>1. ASSUME NEW s \in Sockets, Ends(s) \/ Unauthorized(s) \/ Hangup(s)
      PROVE  OneSocket'
  <2>1. /\ conn[s] \in {"open", "barred", "ended"}
        /\ UNCHANGED <<stage, socketOf, socket>>
    BY <1>1 DEF Ends, Unauthorized, Hangup, callVars
  <2>2. PICK how \in {"ended", "closed"} : conn' = [conn EXCEPT ![s] = how]
    BY <1>1 DEF Ends, Unauthorized, Hangup
  <2>3. s = socket /\ Usable
    BY <2>1 DEF OneSocket, NoneLeftBehind, Usable
  <2>4. \A c \in Calls : stage[c] # "dialling"
    BY <2>3 DEF OneSocket
  <2> QED
    BY <2>1, <2>2, <2>4 DEF TypeOK, OneSocket, NoneLeftBehind
<1>2. ASSUME NEW s \in Sockets, Receive(s) PROVE OneSocket'
  <2>1. UNCHANGED <<conn, socketOf, socket>>
    BY <1>2 DEF Receive
  <2>2. \A c \in Calls : stage'[c] \in {stage[c], "resolved", "rejected"}
    BY <1>2 DEF Receive, Outcome
  <2> QED
    BY <2>1, <2>2 DEF TypeOK, OneSocket, NoneLeftBehind, Usable
<1>3. ASSUME NEW s \in Sockets, Serve(s) PROVE OneSocket'
  BY <1>3 DEF Serve, OneSocket, NoneLeftBehind, Usable, callVars
<1>4. CASE Close
  <2>1. /\ socket \in Sockets /\ socket' = NoSocket
        /\ \A c \in Calls : stage[c] \notin {"dialling", "waiting"}
        /\ conn' = [conn EXCEPT ![socket] = "closed"] /\ stage' = stage
    BY <1>4 DEF Close, callVars, TypeOK
  <2> QED
    BY <2>1 DEF TypeOK, OneSocket, NoneLeftBehind
<1>5. CASE UNCHANGED vars
  BY <1>5 DEF vars, callVars, wireVars, OneSocket, NoneLeftBehind, Usable
<1> QED
  BY <1>1, <1>2, <1>3, <1>4, <1>5, OneSocketCall DEF Next, SocketStep

LEMMA OneSocketInit == Init => OneSocket
BY GatewayAssumption DEF Init, OneSocket, NoneLeftBehind

\* NoneLeftBehind, for a client whose calls never dial while another one
\* does: however many connections are refused or dropped, only the socket the
\* client knows is up.
THEOREM NoConnectionLeft == ~Overlap /\ Spec => []NoneLeftBehind
<1> SUFFICES ASSUME ~Overlap PROVE Spec => []NoneLeftBehind
  OBVIOUS
<1>1. TypeOK /\ OneSocket /\ [Next]_vars => OneSocket'
  BY OneSocketStep
<1>2. OneSocket => NoneLeftBehind
  BY DEF OneSocket
<1> QED
  BY <1>1, <1>2, OneSocketInit, GatewayTypes, PTL DEF Spec

-----------------------------------------------------------------------------
(***************************************************************************)
(* A connection carries answers one after the other, head and tail         *)
(***************************************************************************)

\* Neighbours are head and tail in turn, and a head is followed by its tail.
Alternating(q) ==
  \A i \in 1 .. Len(q) - 1 :
    /\ q[i].part # q[i + 1].part
    /\ q[i].part = "head" => q[i + 1].call = q[i].call

\* The last answer is complete; the first one is not, its head has gone.
EndsWhole(q) == q # <<>> => q[Len(q)].part = "tail"

StartsHalf(q) == q # <<>> /\ q[1].part = "tail"

\* Nothing follows an answer that belongs to the same call.
Once(q) == \A i, j \in 1 .. Len(q) :
             i < j /\ q[i].part = "tail" => q[i].call # q[j].call

LEMMA TailFacts ==
  ASSUME NEW S, NEW q \in Seq(S), q # <<>>
  PROVE  /\ Len(q) \in Nat \ {0} /\ Head(q) = q[1] /\ Tail(q) \in Seq(S)
         /\ Len(Tail(q)) = Len(q) - 1
         /\ \A i \in 1 .. Len(q) - 1 : Tail(q)[i] = q[i + 1]
         /\ Tail(q) = <<>> <=> Len(q) = 1
<1>1. /\ Len(q) \in Nat \ {0} /\ Head(q) = q[1] /\ Tail(q) \in Seq(S)
      /\ Len(Tail(q)) = Len(q) - 1
  OBVIOUS
<1>2. \A i \in 1 .. Len(q) - 1 : Tail(q)[i] = q[i + 1]
  OBVIOUS
<1>3. Tail(q) = <<>> <=> Len(Tail(q)) = 0
  BY <1>1, EmptySeq
<1>4. Tail(q) = <<>> <=> Len(q) = 1
  BY <1>1, <1>3
<1> QED
  BY <1>1, <1>2, <1>4

\* Taking the first piece of a stream.
LEMMA TailStream ==
  ASSUME NEW q \in Seq(Piece), q # <<>>, Alternating(q)
  PROVE  /\ Alternating(Tail(q))
         /\ EndsWhole(q) => EndsWhole(Tail(q))
         /\ Once(q) => Once(Tail(q))
         /\ Head(q).part = "tail" => ~StartsHalf(Tail(q))
         /\ Head(q).part = "head" /\ Tail(q) # <<>> =>
              StartsHalf(Tail(q)) /\ Tail(q)[1].call = Head(q).call
         /\ Head(q).part = "head" /\ EndsWhole(q) => Tail(q) # <<>>
<1> DEFINE r == Tail(q)
           n == Len(q)
<1>1. /\ n \in Nat \ {0} /\ Head(q) = q[1] /\ Len(r) = n - 1
      /\ \A i \in 1 .. n - 1 : r[i] = q[i + 1]
      /\ r = <<>> <=> n = 1
  BY TailFacts
<1>2. \A i \in 1 .. n : q[i] \in Piece
  OBVIOUS
<1> HIDE DEF r, n
<1>3. Alternating(r)
  <2> SUFFICES ASSUME NEW i \in 1 .. n - 2
               PROVE  /\ r[i].part # r[i + 1].part
                      /\ r[i].part = "head" => r[i + 1].call = r[i].call
    BY <1>1 DEF Alternating
  <2>1. i + 1 \in 1 .. n - 1 /\ r[i] = q[i + 1] /\ r[i + 1] = q[(i + 1) + 1]
    BY <1>1
  <2> QED
    BY <2>1 DEF Alternating, n
<1>4. EndsWhole(q) => EndsWhole(r)
  <2> SUFFICES ASSUME EndsWhole(q), r # <<>> PROVE r[n - 1].part = "tail"
    BY <1>1 DEF EndsWhole
  <2>1. n - 1 \in 1 .. n - 1 /\ (n - 1) + 1 = n
    BY <1>1
  <2>2. r[n - 1] = q[n]
    BY <1>1, <2>1
  <2> QED
    BY <2>2 DEF EndsWhole, n
<1>5. Once(q) => Once(r)
  <2> SUFFICES ASSUME Once(q), NEW i \in 1 .. n - 1, NEW j \in 1 .. n - 1,
                      i < j, r[i].part = "tail"
               PROVE  r[i].call # r[j].call
    BY <1>1 DEF Once
  <2>1. /\ i + 1 \in 1 .. n /\ j + 1 \in 1 .. n /\ i + 1 < j + 1
        /\ r[i] = q[i + 1] /\ r[j] = q[j + 1]
    BY <1>1
  <2> QED
    BY <2>1 DEF Once, n
<1>6. ASSUME r # <<>>
      PROVE  /\ r[1] = q[2] /\ q[1].part # q[2].part
             /\ q[1].part = "head" => q[2].call = q[1].call
  <2>1. 1 \in 1 .. n - 1 /\ 1 + 1 = 2
    BY <1>1, <1>6
  <2>2. r[1] = q[2]
    BY <1>1, <2>1
  <2> QED
    BY <2>1, <2>2 DEF Alternating, n
<1>7. q[1].part \in {"head", "tail"} /\ r # <<>> => q[2].part \in {"head", "tail"}
  BY <1>1, <1>2 DEF Piece
<1>8. q[1].part \in {"head", "tail"}
  BY <1>1, <1>2 DEF Piece
<1>9. Head(q).part = "head" /\ EndsWhole(q) => r # <<>>
  BY <1>1 DEF EndsWhole, n
<1> QED
  BY <1>1, <1>3, <1>4, <1>5, <1>6, <1>7, <1>8, <1>9 DEF StartsHalf, r

\* The pieces of one answer.
LEMMA PiecesFacts ==
  ASSUME NEW r \in Request, NEW ok \in BOOLEAN
  PROVE  /\ Pieces(r, ok) \in Seq(Piece) /\ Len(Pieces(r, ok)) = 2
         /\ Pieces(r, ok)[1].part = "head" /\ Pieces(r, ok)[1].call = r.call
         /\ Pieces(r, ok)[2].part = "tail" /\ Pieces(r, ok)[2].call = r.call
BY PiecesType DEF Pieces

\* One more answer on a stream.
LEMMA LongerStream ==
  ASSUME NEW q \in Seq(Piece), Alternating(q), EndsWhole(q),
         NEW p \in Seq(Piece), Len(p) = 2, p[1].part = "head",
         p[2].part = "tail", p[1].call = p[2].call
  PROVE  /\ Alternating(q \o p) /\ EndsWhole(q \o p) /\ q \o p # <<>>
         /\ StartsHalf(q \o p) <=> StartsHalf(q)
         /\ q # <<>> => (q \o p)[1] = q[1]
         /\ Len(q \o p) = Len(q) + 2
         /\ \A i \in 1 .. Len(q) : (q \o p)[i] = q[i]
         /\ (q \o p)[Len(q) + 1] = p[1] /\ (q \o p)[Len(q) + 2] = p[2]
<1> DEFINE r == q \o p
           n == Len(q)
<1>0. Len(q) \in Nat /\ (q = <<>> <=> Len(q) = 0)
  BY EmptySeq
<1>a. /\ q \o p \in Seq(Piece) /\ Len(q \o p) = Len(q) + Len(p)
      /\ \A i \in 1 .. Len(q) + Len(p) :
           (q \o p)[i] = IF i <= Len(q) THEN q[i] ELSE p[i - Len(q)]
  BY ConcatProperties
<1> HIDE DEF r, n
<1>1. /\ n \in Nat /\ r \in Seq(Piece) /\ Len(r) = n + 2
      /\ q = <<>> <=> n = 0
  BY <1>0, <1>a DEF r, n
<1>2. \A i \in 1 .. n + 2 : r[i] = IF i <= n THEN q[i] ELSE p[i - n]
  BY <1>a DEF r, n
<1>3. r[n + 1] = p[1] /\ r[n + 2] = p[2]
  <2>1. ASSUME NEW j \in 1 .. 2 PROVE r[n + j] = p[j]
    <3> DEFINE i == n + j
    <3>1. i \in 1 .. n + 2 /\ ~(i <= n) /\ i - n = j
      BY <1>1
    <3> HIDE DEF i
    <3>2. r[i] = p[i - n]
      BY <1>2, <3>1
    <3> QED
      BY <3>1, <3>2 DEF i
  <2> QED
    BY <2>1
<1>f. \A i \in 1 .. n : r[i] = q[i]
  <2>1. \A i \in 1 .. n : i \in 1 .. n + 2 /\ i <= n
    BY <1>1
  <2> QED
    BY <1>2, <2>1, Zenon
<1>4. r # <<>>
  BY <1>1
<1>l. Len(r) - 1 = n + 1
  BY <1>1
<1>5. Alternating(r)
  <2> SUFFICES ASSUME NEW i \in 1 .. n + 1
               PROVE  /\ r[i].part # r[i + 1].part
                      /\ r[i].part = "head" => r[i + 1].call = r[i].call
    BY <1>l, Zenon DEF Alternating
  <2>1. CASE i < n
    <3>1. i \in 1 .. n - 1 /\ i \in 1 .. n /\ i + 1 \in 1 .. n
      BY <1>1, <2>1
    <3>2. r[i] = q[i] /\ r[i + 1] = q[i + 1]
      BY <1>f, <3>1
    <3> QED
      BY <3>1, <3>2 DEF Alternating, n
  <2>2. CASE i = n
    <3>1. q # <<>> /\ n \in 1 .. n
      BY <1>1, <2>2
    <3>2. r[i].part = "tail" /\ r[i + 1] = p[1]
      BY <1>f, <1>3, <2>2, <3>1 DEF EndsWhole, n
    <3> QED
      BY <3>2
  <2>3. CASE i = n + 1
    <3>1. i + 1 = n + 2
      BY <1>1, <2>3
    <3>2. r[i] = p[1] /\ r[i + 1] = p[2]
      BY <1>3, <2>3, <3>1
    <3> QED
      BY <3>2
  <2> QED
    BY <1>1, <2>1, <2>2, <2>3
<1>6. EndsWhole(r)
  BY <1>1, <1>3 DEF EndsWhole
<1>7. q # <<>> => r[1] = q[1]
  BY <1>1, <1>f
<1>8. q = <<>> => r[1] = p[1]
  BY <1>1, <1>3
<1>9. StartsHalf(r) <=> StartsHalf(q)
  BY <1>4, <1>7, <1>8 DEF StartsHalf
<1> QED
  BY <1>1, <1>f, <1>3, <1>4, <1>5, <1>6, <1>7, <1>9 DEF r, n

\* What is left of a stream whose end is cut off.
LEMMA ShorterStream ==
  ASSUME NEW q \in Seq(Piece), Alternating(q), NEW n \in 0 .. Len(q)
  PROVE  /\ Alternating(SubSeq(q, 1, n))
         /\ StartsHalf(SubSeq(q, 1, n)) =>
              StartsHalf(q) /\ SubSeq(q, 1, n)[1] = q[1]
<1> DEFINE r == SubSeq(q, 1, n)
<1>1. Len(q) \in Nat /\ n \in Nat /\ n <= Len(q) /\ r \in Seq(Piece)
  BY PrefixIn, LenProperties
<1>2. Len(r) = n /\ \A i \in 1 .. n : r[i] = q[i]
  BY <1>1, SubSeqProperties
<1>3. r # <<>> => n > 0
  BY <1>1, <1>2, EmptySeq
<1>4. q = <<>> => n = 0
  BY <1>1
<1> HIDE DEF r
<1>5. Alternating(r)
  <2> SUFFICES ASSUME NEW i \in 1 .. n - 1
               PROVE  /\ r[i].part # r[i + 1].part
                      /\ r[i].part = "head" => r[i + 1].call = r[i].call
    BY <1>2 DEF Alternating
  <2>1. i \in 1 .. Len(q) - 1 /\ r[i] = q[i] /\ r[i + 1] = q[i + 1]
    BY <1>1, <1>2
  <2> QED
    BY <2>1 DEF Alternating
<1> QED
  BY <1>1, <1>2, <1>3, <1>4, <1>5 DEF StartsHalf, r

-----------------------------------------------------------------------------
(***************************************************************************)
(* What the wires and the buffer hold                                      *)
(***************************************************************************)

\* Only connections that are up carry anything.
Quiet ==
  \A s \in Sockets :
    /\ requests[s] # <<>> => conn[s] \in {"open", "barred"}
    /\ answers[s] # <<>> => conn[s] \in {"open", "barred", "ended"}

\* A connection carries whole answers, but for the first head, which the
\* buffer may hold, and for what a hangup cut off.
Streams ==
  \A s \in Sockets :
    /\ Alternating(answers[s])
    /\ EndsWhole(answers[s]) \/ (conn[s] = "ended" /\ hangups > 0)
    /\ StartsHalf(answers[s]) =>
         recvBuf # <<>> /\ recvBuf[Len(recvBuf)].call = answers[s][1].call

\* The buffer holds heads only: a tail ends the line.
Heads == \A i \in DOMAIN recvBuf : recvBuf[i].part = "head"

LEMMA OthersEmpty ==
  ASSUME OneSocket, Quiet, NEW s \in Sockets, s # socket
  PROVE  answers[s] = <<>> /\ requests[s] = <<>>
BY DEF OneSocket, NoneLeftBehind, Quiet

LEMMA EmptyStream ==
  /\ Alternating(<<>>) /\ EndsWhole(<<>>) /\ ~StartsHalf(<<>>) /\ Once(<<>>)
BY DEF Alternating, EndsWhole, StartsHalf, Once

LEMMA QuietStep ==
  ASSUME ~Overlap, TypeOK, OneSocket, Quiet, [Next]_vars
  PROVE  Quiet'
<1> USE GatewayAssumption
<1>1. ASSUME NEW c \in Calls, Ask(c) PROVE Quiet'
  <2>1. socket \in Sockets /\ conn[socket] \in {"open", "barred", "ended"}
    BY <1>1 DEF Ask, Usable, OneSocket, TypeOK, Conns
  <2>2. Sends(c, socket) /\ UNCHANGED answers /\ conn' = conn
    BY <1>1 DEF Ask
  <2> QED
    BY <2>1, <2>2 DEF TypeOK, Quiet, Sends
<1>2. ASSUME NEW c \in Calls, Connected(c) PROVE Quiet'
  <2> DEFINE s == socketOf[c]
  <2>1. s \in Sockets /\ conn[s] = "dialling"
    BY <1>2 DEF Connected, OneSocket
  <2>2. PICK how \in {"open", "barred"} : conn' = [conn EXCEPT ![s] = how]
    BY <1>2 DEF Connected
  <2>3. Sends(c, s) /\ UNCHANGED answers
    BY <1>2 DEF Connected
  <2>4. /\ conn' \in [Sockets -> Conns] /\ conn'[s] \in {"open", "barred"}
        /\ \A t \in Sockets \ {s} : conn'[t] = conn[t]
    BY <2>1, <2>2 DEF TypeOK, Conns
  <2> HIDE DEF s
  <2> QED
    BY <2>1, <2>3, <2>4 DEF TypeOK, Quiet, Sends
<1>3. ASSUME NEW c \in Calls, Dial(c) \/ DialFails(c) PROVE Quiet'
  <2> DEFINE Sets(s, how) == /\ conn[s] \in {"unused", "dialling"}
                             /\ conn' = [conn EXCEPT ![s] = how]
  <2>0. \E s \in Sockets : Sets(s, "dialling") \/ Sets(s, "closed")
    <3>1. CASE Dial(c)
      BY <3>1 DEF Dial
    <3>2. CASE DialFails(c)
      BY <3>2 DEF DialFails, OneSocket
    <3> QED
      BY <1>3, <3>1, <3>2
  <2>1. PICK s \in Sockets, how \in {"dialling", "closed"} : Sets(s, how)
    BY <2>0
  <2>2. UNCHANGED <<requests, answers>>
    BY <1>3 DEF Dial, DialFails
  <2> QED
    BY <2>1, <2>2 DEF TypeOK, Quiet
<1>4. ASSUME NEW s \in Sockets, SocketStep(s) PROVE Quiet'
  <2>1. CASE Receive(s)
    BY <2>1 DEF TypeOK, Quiet, Receive
  <2>2. CASE Ends(s)
    BY <2>2 DEF TypeOK, Quiet, Ends
  <2>3. CASE Serve(s)
    BY <2>3 DEF TypeOK, Quiet, Serve
  <2>4. CASE Unauthorized(s)
    BY <2>4 DEF TypeOK, Quiet, Unauthorized
  <2>5. CASE Hangup(s)
    BY <2>5 DEF TypeOK, Quiet, Hangup
  <2> QED
    BY <1>4, <2>1, <2>2, <2>3, <2>4, <2>5 DEF SocketStep
<1>5. CASE Close
  BY <1>5 DEF TypeOK, Quiet, Close
<1>6. CASE UNCHANGED vars
  BY <1>6 DEF vars, wireVars, Quiet
<1> QED
  BY <1>1, <1>2, <1>3, <1>4, <1>5, <1>6 DEF Next, CallStep

\* A piece that arrives.
LEMMA Arrival ==
  ASSUME TypeOK, NEW s \in Sockets, Receive(s)
  PROVE  LET piece == Head(answers[s]) IN
         /\ piece \in Piece /\ piece = answers[s][1]
         /\ answers[s] \in Seq(Piece)
         /\ answers'[s] = Tail(answers[s])
         /\ \A t \in Sockets \ {s} : answers'[t] = answers[t]
         /\ Len(recvBuf) \in Nat
         /\ piece.part = "tail" => recvBuf' = <<>>
         /\ piece.part = "head" =>
              /\ recvBuf' = Append(recvBuf, piece) /\ recvBuf' # <<>>
              /\ Len(recvBuf') = Len(recvBuf) + 1
              /\ recvBuf'[Len(recvBuf')] = piece
              /\ \A i \in 1 .. Len(recvBuf) : recvBuf'[i] = recvBuf[i]
<1>1. answers[s] \in Seq(Piece) /\ answers[s] # <<>> /\ recvBuf \in Seq(Piece)
  BY DEF TypeOK, Receive
<1>2. /\ Head(answers[s]) \in Piece /\ Head(answers[s]) = answers[s][1]
      /\ Len(recvBuf) \in Nat
  BY <1>1, TailFacts, TailIn
<1>3. /\ answers'[s] = Tail(answers[s])
      /\ \A t \in Sockets \ {s} : answers'[t] = answers[t]
  BY DEF TypeOK, Receive
<1>4. Head(answers[s]).part = "tail" => recvBuf' = <<>>
  BY DEF Receive, Rest
<1>5. Head(answers[s]).part = "head"
        => recvBuf' = Append(recvBuf, Head(answers[s]))
  BY DEF Receive
<1>6. LET r == Append(recvBuf, Head(answers[s])) IN
      /\ r # <<>> /\ Len(r) = Len(recvBuf) + 1 /\ r[Len(r)] = Head(answers[s])
      /\ \A i \in 1 .. Len(recvBuf) : r[i] = recvBuf[i]
  BY <1>1, <1>2
<1> QED
  BY <1>1, <1>2, <1>3, <1>4, <1>5, <1>6

LEMMA HeadsStep ==
  ASSUME TypeOK, Heads, [Next]_vars
  PROVE  Heads'
<1>1. ASSUME NEW s \in Sockets, Receive(s) PROVE Heads'
  <2> DEFINE piece == Head(answers[s])
  <2>1. CASE piece.part = "tail"
    <3>1. recvBuf' = <<>>
      BY <1>1, <2>1, Arrival
    <3> QED
      BY <3>1 DEF Heads
  <2>2. CASE piece.part = "head"
    <3>1. /\ recvBuf' = Append(recvBuf, piece) /\ piece \in Piece
          /\ recvBuf \in Seq(Piece)
      BY <1>1, <2>2, Arrival DEF TypeOK
    <3> HIDE DEF piece
    <3> QED
      BY <2>2, <3>1 DEF Heads
  <2>3. piece.part \in {"head", "tail"}
    BY <1>1, Arrival DEF Piece
  <2> QED
    BY <2>1, <2>2, <2>3
<1>2. ASSUME UNCHANGED recvBuf PROVE Heads'
  BY <1>2 DEF Heads
<1>3. ASSUME NEW s \in Sockets,
             Ends(s) \/ Serve(s) \/ Unauthorized(s) \/ Hangup(s)
      PROVE  UNCHANGED recvBuf
  BY <1>3 DEF Ends, Serve, Unauthorized, Hangup
<1>4. ASSUME NEW c \in Calls, CallStep(c) PROVE UNCHANGED recvBuf
  BY <1>4 DEF CallStep, Ask, Dial, Connected, DialFails
<1>5. Close \/ UNCHANGED vars => UNCHANGED recvBuf
  BY DEF Close, vars
<1> QED
  BY <1>1, <1>2, <1>3, <1>4, <1>5 DEF Next, SocketStep

\* A connection in use is the client's, and the others carry nothing.
LEMMA InUse ==
  ASSUME OneSocket, Quiet, NEW s \in Sockets,
         conn[s] \in {"open", "barred", "ended"}
  PROVE  /\ s = socket
         /\ \A t \in Sockets \ {s} : answers[t] = <<>> /\ requests[t] = <<>>
BY OthersEmpty DEF OneSocket, NoneLeftBehind

LEMMA ReceiveStreams ==
  ASSUME TypeOK, OneSocket, Quiet, Streams, NEW s \in Sockets, Receive(s)
  PROVE  Streams'
<1> DEFINE q == answers[s]
           piece == Head(q)
<1>1. /\ q \in Seq(Piece) /\ q # <<>> /\ answers'[s] = Tail(q)
      /\ piece.part \in {"head", "tail"}
      /\ conn[s] \in {"open", "barred", "ended"}
      /\ conn' = conn /\ hangups' = hangups
  BY Arrival DEF Receive, Piece
<1>2. Alternating(q) /\ (EndsWhole(q) \/ (conn[s] = "ended" /\ hangups > 0))
  BY DEF Streams
<1>3. /\ Alternating(Tail(q))
      /\ EndsWhole(q) => EndsWhole(Tail(q))
      /\ piece.part = "tail" => ~StartsHalf(Tail(q))
      /\ piece.part = "head" /\ Tail(q) # <<>> =>
           StartsHalf(Tail(q)) /\ Tail(q)[1].call = piece.call
  BY <1>1, <1>2, TailStream
<1>4. piece.part = "head" =>
        recvBuf' # <<>> /\ recvBuf'[Len(recvBuf')].call = piece.call
  BY Arrival
<1>5. \A t \in Sockets \ {s} : answers'[t] = <<>>
  BY <1>1, InUse, Arrival
<1>6. StartsHalf(answers'[s]) =>
        /\ recvBuf' # <<>>
        /\ recvBuf'[Len(recvBuf')].call = answers'[s][1].call
  BY <1>1, <1>3, <1>4 DEF StartsHalf
<1> HIDE DEF q, piece
<1>7. /\ Alternating(answers'[s])
      /\ EndsWhole(answers'[s]) \/ (conn'[s] = "ended" /\ hangups' > 0)
  BY <1>1, <1>2, <1>3
<1>8. \A t \in Sockets : t # s =>
        /\ Alternating(answers'[t]) /\ EndsWhole(answers'[t])
        /\ ~StartsHalf(answers'[t])
  BY <1>5, EmptyStream
<1> QED
  BY <1>6, <1>7, <1>8 DEF Streams

\* Serve and Unauthorized: one more answer, on a connection that carries
\* whole answers.
LEMMA AnswerStreams ==
  ASSUME TypeOK, OneSocket, Quiet, Streams, NEW s \in Sockets,
         NEW ok \in BOOLEAN, requests[s] # <<>>,
         conn[s] \in {"open", "barred"},
         answers' = [answers EXCEPT
                       ![s] = @ \o Pieces(Head(requests[s]), ok)],
         UNCHANGED <<recvBuf, hangups>>
  PROVE  Streams'
<1> DEFINE q == answers[s]
           p == Pieces(Head(requests[s]), ok)
<1>1. Head(requests[s]) \in Request
  BY TailIn DEF TypeOK
<1>2. /\ p \in Seq(Piece) /\ Len(p) = 2 /\ p[1].part = "head"
      /\ p[2].part = "tail" /\ p[1].call = p[2].call
  BY <1>1, PiecesFacts
<1>3. q \in Seq(Piece) /\ Alternating(q) /\ EndsWhole(q)
  BY DEF TypeOK, Streams
<1> HIDE DEF p
<1>4. /\ Alternating(q \o p) /\ EndsWhole(q \o p)
      /\ StartsHalf(q \o p) <=> StartsHalf(q)
      /\ q # <<>> => (q \o p)[1] = q[1]
  BY <1>2, <1>3, LongerStream
<1>5. StartsHalf(q) =>
        q # <<>> /\ recvBuf # <<>> /\ recvBuf[Len(recvBuf)].call = q[1].call
  BY DEF Streams, StartsHalf
<1>6. /\ answers'[s] = q \o p
      /\ \A t \in Sockets \ {s} : answers'[t] = <<>>
  BY InUse DEF TypeOK, p
<1>7. \A t \in Sockets \ {s} :
        /\ Alternating(answers'[t]) /\ EndsWhole(answers'[t])
        /\ ~StartsHalf(answers'[t])
  BY <1>6, EmptyStream
<1> HIDE DEF q
<1> QED
  BY <1>4, <1>5, <1>6, <1>7 DEF Streams

LEMMA HangupStreams ==
  ASSUME TypeOK, OneSocket, Quiet, Streams, NEW s \in Sockets, Hangup(s)
  PROVE  Streams'
<1> DEFINE q == answers[s]
<1>1. PICK n \in 0 .. Len(q) :
        answers' = [answers EXCEPT ![s] = SubSeq(q, 1, n)]
  BY DEF Hangup
<1>2. q \in Seq(Piece) /\ Alternating(q)
  BY DEF TypeOK, Streams
<1>3. /\ Alternating(SubSeq(q, 1, n))
      /\ StartsHalf(SubSeq(q, 1, n)) =>
           StartsHalf(q) /\ SubSeq(q, 1, n)[1] = q[1]
  BY <1>2, ShorterStream
<1>4. /\ answers'[s] = SubSeq(q, 1, n)
      /\ \A t \in Sockets \ {s} : answers'[t] = <<>>
  BY <1>1, InUse DEF TypeOK, Hangup
<1>5. conn'[s] = "ended" /\ hangups' > 0 /\ recvBuf' = recvBuf
  BY DEF Hangup, TypeOK
<1>6. StartsHalf(q) =>
        recvBuf # <<>> /\ recvBuf[Len(recvBuf)].call = q[1].call
  BY DEF Streams
<1>7. \A t \in Sockets \ {s} :
        /\ Alternating(answers'[t]) /\ EndsWhole(answers'[t])
        /\ ~StartsHalf(answers'[t])
  BY <1>4, EmptyStream
<1> HIDE DEF q
<1>8. StartsHalf(answers'[s]) =>
        recvBuf' # <<>> /\ recvBuf'[Len(recvBuf')].call = answers'[s][1].call
  BY <1>3, <1>4, <1>5, <1>6
<1> QED
  BY <1>3, <1>4, <1>5, <1>7, <1>8 DEF Streams

LEMMA StreamsStep ==
  ASSUME ~Overlap, TypeOK, OneSocket, Quiet, Streams, [Next]_vars
  PROVE  Streams'
<1>1. ASSUME NEW s \in Sockets, Serve(s) PROVE Streams'
  <2> DEFINE ok == Head(requests[s]).call \notin Refused
  <2>1. /\ conn[s] \in {"open", "barred"} /\ requests[s] # <<>>
        /\ answers' = [answers EXCEPT
                         ![s] = @ \o Pieces(Head(requests[s]), ok)]
        /\ UNCHANGED <<recvBuf, hangups>>
    BY <1>1 DEF Serve
  <2> HIDE DEF ok
  <2>2. ok \in BOOLEAN
    BY DEF ok
  <2> QED
    BY <2>1, <2>2, AnswerStreams
<1>2. ASSUME NEW s \in Sockets, Unauthorized(s) PROVE Streams'
  BY <1>2, AnswerStreams DEF Unauthorized
\* Whatever leaves the streams alone and ends no connection with a hangup.
<1>3. ASSUME UNCHANGED <<answers, recvBuf, hangups>>,
             \A s \in Sockets : conn[s] = "ended" =>
               conn'[s] = "ended" \/ answers[s] = <<>>
      PROVE  Streams'
  BY <1>3, EmptyStream DEF Streams
<1>4. ASSUME NEW s \in Sockets, Ends(s) PROVE Streams'
  BY <1>3, <1>4 DEF Ends, TypeOK
<1>5. ASSUME NEW c \in Calls, CallStep(c) PROVE Streams'
  <2>1. UNCHANGED <<answers, recvBuf, hangups>>
    BY <1>5 DEF CallStep, Ask, Dial, Connected, DialFails
  <2>2. ASSUME NEW s \in Sockets, conn[s] = "ended" PROVE conn'[s] = "ended"
    <3>1. CASE Ask(c)
      BY <2>2, <3>1 DEF Ask
    <3>2. CASE Dial(c)
      BY <2>2, <3>2 DEF Dial, TypeOK
    <3>3. CASE Connected(c) \/ DialFails(c)
      <4>1. socketOf[c] \in Sockets /\ conn[socketOf[c]] = "dialling"
        BY <3>3 DEF Connected, DialFails, OneSocket
      <4>2. s # socketOf[c]
        BY <2>2, <4>1
      <4> QED
        BY <2>2, <3>3, <4>2 DEF Connected, DialFails, TypeOK
    <3> QED
      BY <1>5, <3>1, <3>2, <3>3 DEF CallStep
  <2> QED
    BY <1>3, <2>1, <2>2
<1>6. CASE Close
  <2>1. /\ answers' = [answers EXCEPT ![socket] = <<>>]
        /\ conn' = [conn EXCEPT ![socket] = "closed"]
        /\ UNCHANGED <<recvBuf, hangups>> /\ socket \in Sockets
    BY <1>6 DEF Close, TypeOK
  <2>2. \A t \in Sockets : answers'[t] = <<>>
    BY <2>1, OthersEmpty DEF TypeOK
  <2> QED
    BY <2>2, EmptyStream DEF Streams
<1>7. CASE UNCHANGED vars
  BY <1>3, <1>7 DEF vars, wireVars
<1> QED
  BY <1>1, <1>2, <1>4, <1>5, <1>6, <1>7, ReceiveStreams, HangupStreams
     DEF Next, SocketStep

-----------------------------------------------------------------------------
(***************************************************************************)
(* Before the first hangup, the wires carry what calls wait for, once      *)
(***************************************************************************)

CallsIn(q) == {q[i].call : i \in DOMAIN q}

Orderly(r, q) ==
  /\ \A i, j \in DOMAIN r : r[i].call = r[j].call => i = j
  /\ CallsIn(r) \cap CallsIn(q) = {}
  /\ Once(q)

Waiting == {c \in Calls : stage[c] = "waiting"}

Calm ==
  hangups = 0 =>
    \A s \in Sockets :
      /\ Orderly(requests[s], answers[s])
      /\ CallsIn(requests[s]) \cup CallsIn(answers[s]) \subseteq Waiting

LEMMA CallsInEmpty == CallsIn(<<>>) = {}
BY DEF CallsIn

LEMMA CallsInTail ==
  ASSUME NEW S, NEW q \in Seq(S), q # <<>>
  PROVE  CallsIn(q) = {Head(q).call} \cup CallsIn(Tail(q))
<1> DEFINE r == Tail(q)
           n == Len(q)
<1>1. /\ n \in Nat \ {0} /\ Head(q) = q[1] /\ Len(r) = n - 1
      /\ \A i \in 1 .. n - 1 : r[i] = q[i + 1]
      /\ r \in Seq(S)
  BY TailFacts
<1>2. DOMAIN q = 1 .. n /\ DOMAIN r = 1 .. n - 1
  BY <1>1
<1> HIDE DEF r, n
<1>3. ASSUME NEW i \in 1 .. n PROVE q[i].call \in {q[1].call} \cup CallsIn(r)
  <2>1. CASE i = 1
    BY <2>1
  <2>2. CASE i # 1
    <3>1. i - 1 \in 1 .. n - 1 /\ (i - 1) + 1 = i
      BY <1>1, <2>2
    <3>2. r[i - 1] = q[i]
      BY <1>1, <3>1
    <3> QED
      BY <1>2, <3>1, <3>2 DEF CallsIn
  <2> QED
    BY <2>1, <2>2
<1>4. ASSUME NEW i \in 1 .. n - 1 PROVE r[i].call \in CallsIn(q)
  <2>1. i + 1 \in 1 .. n
    BY <1>1
  <2> QED
    BY <1>1, <1>2, <2>1 DEF CallsIn
<1>5. q[1].call \in CallsIn(q)
  BY <1>1, <1>2 DEF CallsIn
<1>6. CallsIn(q) \subseteq {q[1].call} \cup CallsIn(r)
  BY <1>2, <1>3 DEF CallsIn
<1>7. CallsIn(r) \subseteq CallsIn(q)
  BY <1>2, <1>4 DEF CallsIn
<1> QED
  BY <1>1, <1>5, <1>6, <1>7 DEF r

\* A request is put at the end of the requests.
LEMMA AddedRequest ==
  ASSUME NEW r \in Seq(Request), NEW q, NEW e \in Request, Orderly(r, q),
         e.call \notin CallsIn(r) \cup CallsIn(q)
  PROVE  /\ Orderly(Append(r, e), q)
         /\ CallsIn(Append(r, e)) = CallsIn(r) \cup {e.call}
<1> DEFINE t == Append(r, e)
<1>1. /\ Len(r) \in Nat /\ DOMAIN r = 1 .. Len(r)
      /\ DOMAIN t = 1 .. Len(r) + 1
      /\ \A i \in 1 .. Len(r) : t[i] = r[i]
      /\ t[Len(r) + 1] = e
  OBVIOUS
<1> HIDE DEF t
<1>2. CallsIn(t) = CallsIn(r) \cup {e.call}
  BY <1>1 DEF CallsIn
<1>3. \A i \in DOMAIN r : r[i].call # e.call
  BY DEF CallsIn
<1>4. \A i, j \in DOMAIN t : t[i].call = t[j].call => i = j
  BY <1>1, <1>3 DEF Orderly
<1> QED
  BY <1>2, <1>4 DEF Orderly, t

\* The first request becomes an answer.
LEMMA AnsweredRequest ==
  ASSUME NEW r \in Seq(Request), r # <<>>, NEW q \in Seq(Piece),
         Alternating(q), EndsWhole(q), Orderly(r, q), NEW ok \in BOOLEAN
  PROVE  LET p == Pieces(Head(r), ok) IN
         /\ Orderly(Tail(r), q \o p) /\ Orderly(<<>>, q \o p)
         /\ CallsIn(q \o p) = CallsIn(q) \cup {Head(r).call}
<1> DEFINE c == Head(r).call
           p == Pieces(Head(r), ok)
           u == q \o p
           n == Len(q)
<1>1. Head(r) \in Request
  BY TailIn
<1>2. /\ p \in Seq(Piece) /\ Len(p) = 2 /\ p[1].part = "head"
      /\ p[2].part = "tail" /\ p[1].call = c /\ p[2].call = c
  BY <1>1, PiecesFacts
<1> HIDE DEF p
<1>3. /\ n \in Nat /\ u \in Seq(Piece) /\ Len(u) = n + 2
      /\ \A i \in 1 .. n : u[i] = q[i]
      /\ u[n + 1] = p[1] /\ u[n + 2] = p[2]
  BY <1>2, LongerStream, ConcatProperties
<1>4. DOMAIN q = 1 .. n /\ DOMAIN u = 1 .. n + 2
  BY <1>3
<1> HIDE DEF u, n
<1>5. /\ u[n + 1].call = c /\ u[n + 1].part = "head" /\ u[n + 2].call = c
  BY <1>2, <1>3
<1>6. CallsIn(r) = {c} \cup CallsIn(Tail(r))
  BY CallsInTail
<1>7. c \notin CallsIn(q)
  BY <1>6 DEF Orderly
<1>8. CallsIn(u) = CallsIn(q) \cup {c}
  <2>1. \A i \in 1 .. n + 2 : i \in 1 .. n \/ i = n + 1 \/ i = n + 2
    BY <1>3
  <2>2. ASSUME NEW i \in 1 .. n + 2 PROVE u[i].call \in CallsIn(q) \cup {c}
    BY <1>3, <1>4, <1>5, <2>1 DEF CallsIn
  <2>3. ASSUME NEW i \in 1 .. n PROVE q[i].call \in CallsIn(u)
    <3>1. i \in 1 .. n + 2
      BY <1>3
    <3> QED
      BY <1>3, <1>4, <3>1 DEF CallsIn
  <2>4. c \in CallsIn(u)
    <3>1. n + 1 \in DOMAIN u
      BY <1>3, <1>4
    <3> QED
      BY <1>5, <3>1 DEF CallsIn
  <2> QED
    BY <1>4, <2>2, <2>3, <2>4 DEF CallsIn
<1>9. Once(u)
  <2> SUFFICES ASSUME NEW i \in 1 .. n + 2, NEW j \in 1 .. n + 2, i < j,
                      u[i].part = "tail"
               PROVE  u[i].call # u[j].call
    BY <1>3 DEF Once
  <2>1. i \in 1 .. n
    <3>1. i # n + 1
      BY <1>5
    <3> QED
      BY <1>3, <3>1
  <2>2. u[i] = q[i] /\ q[i].call \in CallsIn(q)
    BY <1>3, <1>4, <2>1 DEF CallsIn
  <2>3. CASE j \in 1 .. n
    BY <1>3, <2>1, <2>2, <2>3 DEF Orderly, Once, n
  <2>4. CASE j \notin 1 .. n
    <3>1. j = n + 1 \/ j = n + 2
      BY <1>3, <2>4
    <3> QED
      BY <1>5, <1>7, <2>2, <3>1
  <2> QED
    BY <2>3, <2>4
<1>t. LET t == Tail(r) IN
      /\ \A i, j \in DOMAIN t : t[i].call = t[j].call => i = j
      /\ c \notin CallsIn(t)
  <2> DEFINE t == Tail(r)
             m == Len(r)
  <2>1. /\ m \in Nat \ {0} /\ Head(r) = r[1] /\ Len(t) = m - 1
        /\ \A i \in 1 .. m - 1 : t[i] = r[i + 1]
        /\ t \in Seq(Request)
    BY TailFacts
  <2>2. DOMAIN r = 1 .. m /\ DOMAIN t = 1 .. m - 1
    BY <2>1
  <2> HIDE DEF t, m
  <2>3. \A i \in 1 .. m - 1 : i + 1 \in 1 .. m /\ i + 1 # 1 /\ 1 \in 1 .. m
    BY <2>1
  <2>4. ASSUME NEW i \in 1 .. m - 1, NEW j \in 1 .. m - 1,
               t[i].call = t[j].call
        PROVE  i = j
    <3>1. /\ i + 1 \in DOMAIN r /\ j + 1 \in DOMAIN r
          /\ r[i + 1].call = r[j + 1].call
      BY <2>1, <2>2, <2>3, <2>4
    <3>2. i + 1 = j + 1
      BY <3>1 DEF Orderly
    <3> QED
      BY <2>1, <3>2
  <2>5. ASSUME NEW i \in 1 .. m - 1 PROVE t[i].call # c
    BY <2>1, <2>2, <2>3 DEF Orderly
  <2> QED
    BY <2>2, <2>4, <2>5 DEF CallsIn, t
<1>a. Orderly(Tail(r), u)
  BY <1>6, <1>7, <1>8, <1>9, <1>t DEF Orderly
<1>b. Orderly(<<>>, u)
  BY <1>9, CallsInEmpty DEF Orderly
<1> QED
  BY <1>8, <1>a, <1>b DEF u, p

\* The first piece of the answers has arrived.
LEMMA ArrivedPiece ==
  ASSUME NEW r, NEW q \in Seq(Piece), q # <<>>, Orderly(r, q), Alternating(q)
  PROVE  /\ Orderly(r, Tail(q))
         /\ Head(q).part = "tail" =>
              Head(q).call \notin CallsIn(r) \cup CallsIn(Tail(q))
<1>1. CallsIn(q) = {Head(q).call} \cup CallsIn(Tail(q))
  BY CallsInTail
<1>2. Orderly(r, Tail(q))
  BY <1>1, TailStream DEF Orderly
<1>3. ASSUME Head(q).part = "tail" PROVE Head(q).call \notin CallsIn(Tail(q))
  <2> DEFINE t == Tail(q)
             n == Len(q)
  <2>1. /\ n \in Nat \ {0} /\ Head(q) = q[1] /\ Len(t) = n - 1
        /\ \A i \in 1 .. n - 1 : t[i] = q[i + 1]
        /\ t \in Seq(Piece)
    BY TailFacts
  <2>2. DOMAIN t = 1 .. n - 1
    BY <2>1
  <2> HIDE DEF t, n
  <2>3. ASSUME NEW i \in 1 .. n - 1 PROVE t[i].call # q[1].call
    <3>1. 1 \in 1 .. n /\ i + 1 \in 1 .. n /\ 1 < i + 1
      BY <2>1
    <3> QED
      BY <1>3, <2>1, <3>1 DEF Orderly, Once, n
  <2> QED
    BY <2>1, <2>2, <2>3 DEF CallsIn, t
<1> QED
  BY <1>1, <1>2, <1>3 DEF Orderly

\* A call that is sent now was not waiting, and a request for it is on the
\* wire unless the connection has ended.
LEMMA CalmSends ==
  ASSUME TypeOK, Calm, hangups = 0, NEW c \in Calls, NEW s \in Sockets,
         Sends(c, s), stage[c] # "waiting", UNCHANGED answers
  PROVE  \A t \in Sockets :
           /\ Orderly(requests'[t], answers'[t])
           /\ CallsIn(requests'[t]) \cup CallsIn(answers'[t]) \subseteq Waiting'
<1>1. Waiting' = Waiting \cup {c} /\ c \notin Waiting
  BY DEF Waiting, Sends, TypeOK
<1>2. ASSUME NEW t \in Sockets
      PROVE  /\ Orderly(requests[t], answers[t])
             /\ CallsIn(requests[t]) \cup CallsIn(answers[t]) \subseteq Waiting
             /\ requests[t] \in Seq(Request)
  BY DEF Calm, TypeOK
<1>3. CASE conn[s] = "ended"
  <2>1. requests' = requests
    BY <1>3 DEF Sends
  <2> QED
    BY <1>1, <1>2, <2>1
<1>4. CASE conn[s] # "ended"
  <2> DEFINE e == [id |-> NextId(s), call |-> c]
  <2>1. e \in Request /\ e.call = c
    BY DEF Request, NextId, TypeOK
  <2> HIDE DEF e
  <2>2. /\ requests'[s] = Append(requests[s], e)
        /\ \A t \in Sockets \ {s} : requests'[t] = requests[t]
    BY <1>4 DEF Sends, TypeOK, e
  <2>3. /\ Orderly(requests'[s], answers[s])
        /\ CallsIn(requests'[s]) = CallsIn(requests[s]) \cup {c}
    BY <1>1, <1>2, <2>1, <2>2, AddedRequest
  <2> QED
    BY <1>1, <1>2, <2>2, <2>3
<1> QED
  BY <1>3, <1>4

\* A piece that arrives is for the call that waits for its id.
LEMMA ForCall ==
  ASSUME TypeOK, OwnInv, NEW s \in Sockets, answers[s] # <<>>
  PROVE  /\ Head(answers[s]).call \in Calls
         /\ \A c \in Calls :
              id[c] = Head(answers[s]).id <=> c = Head(answers[s]).call
<1>1. Head(answers[s]) \in OwnPiece
  BY TailIn DEF OwnInv
<1> QED
  BY <1>1 DEF OwnInv, IdInv, OwnPiece, Piece

LEMMA CalmReceive ==
  ASSUME TypeOK, OwnInv, OneSocket, Quiet, Streams, Calm, hangups = 0,
         NEW s \in Sockets, Receive(s)
  PROVE  \A t \in Sockets :
           /\ Orderly(requests'[t], answers'[t])
           /\ CallsIn(requests'[t]) \cup CallsIn(answers'[t]) \subseteq Waiting'
<1> DEFINE q == answers[s]
           r == requests[s]
           piece == Head(q)
<1>1. /\ q \in Seq(Piece) /\ q # <<>> /\ answers'[s] = Tail(q)
      /\ \A t \in Sockets \ {s} : answers'[t] = answers[t]
      /\ piece \in Piece /\ requests' = requests
      /\ conn[s] \in {"open", "barred", "ended"}
  BY Arrival DEF Receive
<1>2. /\ Orderly(r, q) /\ CallsIn(r) \cup CallsIn(q) \subseteq Waiting
      /\ Alternating(q)
  BY DEF Calm, Streams
<1>3. /\ Orderly(r, Tail(q))
      /\ piece.part = "tail" =>
           piece.call \notin CallsIn(r) \cup CallsIn(Tail(q))
      /\ CallsIn(q) = {piece.call} \cup CallsIn(Tail(q))
  BY <1>1, <1>2, ArrivedPiece, CallsInTail
\* Only the call whose answer is complete stops waiting.
<1>4. ASSUME NEW c \in Waiting, c \notin Waiting'
      PROVE  piece.part = "tail" /\ c = piece.call
  <2>1. piece.part = "tail" /\ id[c] = piece.id
    BY <1>4 DEF Waiting, Receive
  <2> QED
    BY <1>4, <2>1, ForCall DEF Receive, Waiting
<1> QED
  <2>1. \A t \in Sockets \ {s} : answers'[t] = <<>> /\ requests'[t] = <<>>
    BY <1>1, InUse
  <2>2. \A t \in Sockets \ {s} :
          /\ Orderly(requests'[t], answers'[t])
          /\ CallsIn(requests'[t]) \cup CallsIn(answers'[t]) \subseteq Waiting'
    BY <2>1, CallsInEmpty, EmptyStream DEF Orderly
  <2>3. CallsIn(r) \cup CallsIn(Tail(q)) \subseteq Waiting'
    <3> SUFFICES ASSUME NEW c \in CallsIn(r) \cup CallsIn(Tail(q)),
                        c \notin Waiting'
                 PROVE  FALSE
      OBVIOUS
    <3>1. c \in Waiting /\ piece.call \in Waiting
      BY <1>2, <1>3
    <3>2. piece.part = "tail" /\ c = piece.call
      BY <1>4, <3>1
    <3> QED
      BY <1>3, <3>2
  <2> QED
    BY <1>1, <1>3, <2>2, <2>3

LEMMA CalmStep ==
  ASSUME ~Overlap, TypeOK, OwnInv, OneSocket, Quiet, Streams, Calm,
         [Next]_vars
  PROVE  Calm'
<1> DEFINE Fine == \A s \in Sockets :
             /\ Orderly(requests[s], answers[s])
             /\ CallsIn(requests[s]) \cup CallsIn(answers[s]) \subseteq Waiting
<1> SUFFICES ASSUME hangups' = 0 PROVE Fine'
  BY DEF Calm
<1>0. /\ \A s \in Sockets : ~Hangup(s)
      /\ hangups = 0
  <2>1. \A s \in Sockets : ~Hangup(s)
    BY DEF Hangup, TypeOK
  <2>2. ASSUME NEW s \in Sockets, SocketStep(s) PROVE hangups' = hangups
    BY <2>1, <2>2 DEF SocketStep, Receive, Ends, Serve, Unauthorized
  <2>3. ASSUME NEW c \in Calls, CallStep(c) PROVE hangups' = hangups
    BY <2>3 DEF CallStep, Ask, Dial, Connected, DialFails
  <2>4. hangups' = hangups
    BY <2>2, <2>3 DEF Next, Close, vars
  <2> QED
    BY <2>1, <2>4
<1>1. Fine
  BY <1>0 DEF Calm
\* What leaves the wires alone and lets no call stop waiting.
<1>2. ASSUME UNCHANGED <<requests, answers>>, Waiting \subseteq Waiting'
      PROVE  Fine'
  BY <1>1, <1>2
<1>3. ASSUME NEW c \in Calls, CallStep(c) PROVE Fine'
  <2>1. CASE Ask(c)
    <3>1. /\ Sends(c, socket) /\ stage[c] # "waiting" /\ UNCHANGED answers
          /\ socket \in Sockets
      BY <2>1 DEF Ask, Usable, TypeOK
    <3> QED
      BY <1>0, <3>1, CalmSends
  <2>2. CASE Connected(c)
    <3>1. /\ Sends(c, socketOf[c]) /\ stage[c] # "waiting"
          /\ UNCHANGED answers /\ socketOf[c] \in Sockets
      BY <2>2 DEF Connected, OneSocket
    <3> QED
      BY <1>0, <3>1, CalmSends
  <2>3. CASE Dial(c) \/ DialFails(c)
    <3>1. UNCHANGED <<requests, answers>> /\ Waiting \subseteq Waiting'
      BY <2>3 DEF Dial, DialFails, Waiting, TypeOK
    <3> QED
      BY <1>2, <3>1
  <2> QED
    BY <1>3, <2>1, <2>2, <2>3 DEF CallStep
\* An answer to the first request, and the rest of the requests or none.
<1>4. ASSUME NEW s \in Sockets, NEW ok \in BOOLEAN, requests[s] # <<>>,
             conn[s] \in {"open", "barred"}, stage' = stage,
             answers' = [answers EXCEPT
                           ![s] = @ \o Pieces(Head(requests[s]), ok)],
             requests' \in {[requests EXCEPT ![s] = Tail(@)],
                            [requests EXCEPT ![s] = <<>>]}
      PROVE  Fine'
  <2> DEFINE q == answers[s]
             r == requests[s]
             u == q \o Pieces(Head(r), ok)
  <2>1. /\ r \in Seq(Request) /\ q \in Seq(Piece) /\ Alternating(q)
        /\ EndsWhole(q) /\ Orderly(r, q)
        /\ CallsIn(r) \cup CallsIn(q) \subseteq Waiting
    BY <1>1, <1>4 DEF TypeOK, Streams
  <2>2. /\ Orderly(Tail(r), u) /\ Orderly(<<>>, u)
        /\ CallsIn(u) = CallsIn(q) \cup {Head(r).call}
    BY <1>4, <2>1, AnsweredRequest
  <2>3. CallsIn(r) = {Head(r).call} \cup CallsIn(Tail(r))
    BY <1>4, <2>1, CallsInTail
  <2>4. /\ answers'[s] = u /\ requests'[s] \in {Tail(r), <<>>}
        /\ \A t \in Sockets \ {s} :
             answers'[t] = answers[t] /\ requests'[t] = requests[t]
    BY <1>4 DEF TypeOK
  <2>5. Waiting' = Waiting
    BY <1>4 DEF Waiting
  <2> HIDE DEF q, r, u
  <2>6. /\ Orderly(requests'[s], answers'[s])
        /\ CallsIn(requests'[s]) \cup CallsIn(answers'[s]) \subseteq Waiting'
    BY <2>1, <2>2, <2>3, <2>4, <2>5, CallsInEmpty
  <2> QED
    BY <1>1, <2>4, <2>5, <2>6
<1>5. ASSUME NEW s \in Sockets, Serve(s) PROVE Fine'
  <2> DEFINE ok == Head(requests[s]).call \notin Refused
  <2>1. /\ answers' = [answers EXCEPT
                         ![s] = @ \o Pieces(Head(requests[s]), ok)]
        /\ requests' = [requests EXCEPT ![s] = Tail(@)] /\ stage' = stage
        /\ conn[s] \in {"open", "barred"} /\ requests[s] # <<>>
    BY <1>5 DEF Serve, callVars
  <2>2. ok \in BOOLEAN
    OBVIOUS
  <2> HIDE DEF ok, Fine
  <2> QED
    BY <1>4, <2>1, <2>2
<1>6. ASSUME NEW s \in Sockets, Unauthorized(s) PROVE Fine'
  <2> HIDE DEF Fine
  <2> QED
    BY <1>4, <1>6 DEF Unauthorized, callVars
<1>7. ASSUME NEW s \in Sockets, Ends(s) PROVE Fine'
  BY <1>2, <1>7 DEF Ends, callVars, Waiting
<1>8. CASE Close
  <2>1. /\ answers' = [answers EXCEPT ![socket] = <<>>]
        /\ requests' = [requests EXCEPT ![socket] = <<>>]
        /\ socket \in Sockets
    BY <1>8 DEF Close, TypeOK
  <2>2. \A s \in Sockets : answers'[s] = <<>> /\ requests'[s] = <<>>
    BY <2>1, OthersEmpty DEF TypeOK
  <2> QED
    BY <2>2, CallsInEmpty, EmptyStream DEF Orderly
<1>9. CASE UNCHANGED vars
  BY <1>2, <1>9 DEF vars, wireVars, callVars, Waiting
<1>10. ASSUME NEW s \in Sockets, Receive(s) PROVE Fine'
  BY <1>0, <1>10, CalmReceive
<1> HIDE DEF Fine
<1> QED
  BY <1>0, <1>3, <1>5, <1>6, <1>7, <1>8, <1>9, <1>10 DEF Next, SocketStep

-----------------------------------------------------------------------------
(***************************************************************************)
(* LossBounded                                                             *)
(***************************************************************************)

\* The buffer holds a head whose tail is not the next piece to arrive.
Leftover ==
  /\ recvBuf # <<>>
  /\ ~ (Len(recvBuf) = 1 /\ \E s \in Sockets : StartsHalf(answers[s]))

\* One call at most is missed, the one whose answer met what was left over.
Losses ==
  /\ \A c, d \in Calls : Missed(c) /\ Missed(d) => c = d
  /\ \A c \in Calls : Missed(c) => hangups > 0 /\ ~Leftover
  /\ Leftover => hangups > 0

LEMMA MissedCalls ==
  ASSUME TypeOK, OneSocket, NEW c \in Calls
  PROVE  Missed(c) <=> /\ stage[c] = "waiting" /\ socketOf[c] \in Sockets
                       /\ conn[socketOf[c]] = "open"
                       /\ c \notin CallsIn(requests[socketOf[c]])
                       /\ c \notin CallsIn(answers[socketOf[c]])
BY DEF Missed, CallsIn, OneSocket

\* A call is not missed all at once if it still has its request or its answer
\* on the wires.
LEMMA NotMissed ==
  ASSUME TypeOK, OneSocket, OneSocket', NEW c \in Calls, Missed(c)',
         stage[c] = "waiting", socketOf'[c] = socketOf[c],
         conn[socketOf[c]] = "open",
         LET s == socketOf[c] IN
         c \in CallsIn(requests[s]) \cup CallsIn(answers[s])
           => c \in CallsIn(requests'[s]) \cup CallsIn(answers'[s])
  PROVE  Missed(c)
<1>1. /\ socketOf'[c] \in Sockets
      /\ c \notin CallsIn(requests'[socketOf'[c]])
      /\ c \notin CallsIn(answers'[socketOf'[c]])
  BY DEF Missed, OneSocket, CallsIn
<1> QED
  BY <1>1, MissedCalls

\* A call of the client, or a step that leaves buffer and answers alone: no
\* call is missed that was not.
LEMMA LossesCall ==
  ASSUME TypeOK, OneSocket, OneSocket', Losses, NEW c \in Calls, CallStep(c)
  PROVE  Losses'
<1> USE GatewayAssumption
<1>0. UNCHANGED <<answers, recvBuf, hangups>>
  BY DEF CallStep, Ask, Dial, Connected, DialFails
<1>1. ASSUME NEW s \in Sockets, Sends(c, s)
      PROVE  /\ \A t \in Sockets : CallsIn(requests[t]) \subseteq CallsIn(requests'[t])
             /\ conn[s] # "ended" => c \in CallsIn(requests'[s])
             /\ socketOf'[c] = s
             /\ \A d \in Calls \ {c} :
                  stage'[d] = stage[d] /\ socketOf'[d] = socketOf[d]
  <2>1. /\ socketOf'[c] = s
        /\ \A d \in Calls \ {c} :
             stage'[d] = stage[d] /\ socketOf'[d] = socketOf[d]
    BY <1>1 DEF Sends, TypeOK
  <2>2. CASE conn[s] = "ended"
    BY <1>1, <2>1, <2>2 DEF Sends
  <2>3. CASE conn[s] # "ended"
    <3> DEFINE r == requests[s]
               e == [id |-> NextId(s), call |-> c]
               u == Append(r, e)
    <3>1. r \in Seq(Request) /\ e.call = c
      BY DEF TypeOK
    <3> HIDE DEF e
    <3>2. CallsIn(u) = CallsIn(r) \cup {c}
      <4>1. /\ Len(r) \in Nat /\ DOMAIN r = 1 .. Len(r)
            /\ DOMAIN u = 1 .. Len(r) + 1
            /\ \A i \in 1 .. Len(r) : u[i] = r[i]
            /\ u[Len(r) + 1] = e
        BY <3>1
      <4> HIDE DEF u
      <4> QED
        BY <3>1, <4>1 DEF CallsIn
    <3>3. /\ requests'[s] = u
          /\ \A t \in Sockets \ {s} : requests'[t] = requests[t]
      BY <1>1, <2>3 DEF Sends, TypeOK, e
    <3> QED
      BY <2>1, <3>2, <3>3
  <2> QED
    BY <2>2, <2>3
<1>2. ASSUME NEW d \in Calls, Missed(d)' PROVE Missed(d)
  <2>1. /\ stage'[d] = "waiting" /\ socketOf'[d] \in Sockets
        /\ conn'[socketOf'[d]] = "open"
        /\ d \notin CallsIn(requests'[socketOf'[d]])
    BY <1>2 DEF Missed, OneSocket, CallsIn
  <2>2. CASE Ask(c)
    <3>1. Sends(c, socket) /\ socket \in Sockets /\ conn' = conn
      BY <2>2 DEF Ask, Usable, TypeOK
    <3>2. d # c
      BY <1>1, <2>1, <3>1
    <3> QED
      BY <1>0, <1>1, <1>2, <2>1, <3>1, <3>2, NotMissed
  <2>3. CASE Dial(c)
    <3>1. d # c /\ stage'[d] = stage[d] /\ socketOf'[d] = socketOf[d]
      BY <2>1, <2>3 DEF Dial, TypeOK
    <3>2. conn[socketOf[d]] = "open" /\ requests' = requests
      BY <2>1, <2>3, <3>1 DEF Dial, TypeOK
    <3> QED
      BY <1>0, <1>2, <2>1, <3>1, <3>2, NotMissed
  <2>4. CASE Connected(c)
    <3> DEFINE s == socketOf[c]
    <3>1. Sends(c, s) /\ s \in Sockets /\ conn[s] = "dialling"
      BY <2>4 DEF Connected, OneSocket
    <3>2. d # c
      BY <1>1, <2>1, <3>1
    <3>3. /\ stage[d] = "waiting" /\ socketOf'[d] = socketOf[d]
          /\ socketOf[d] # s
      BY <1>1, <2>1, <3>1, <3>2 DEF OneSocket
    <3>4. conn[socketOf[d]] = "open"
      BY <2>1, <2>4, <3>1, <3>3 DEF Connected, TypeOK
    <3>5. CallsIn(requests[socketOf[d]]) \subseteq CallsIn(requests'[socketOf[d]])
      BY <1>1, <2>1, <3>1, <3>3
    <3> QED
      BY <1>0, <1>2, <3>3, <3>4, <3>5, NotMissed
  <2>5. CASE DialFails(c)
    <3>1. d # c /\ stage'[d] = stage[d] /\ socketOf' = socketOf
      BY <2>1, <2>5 DEF DialFails, TypeOK
    <3>2. conn[socketOf[d]] = "open" /\ requests' = requests
      BY <2>1, <2>5, <3>1 DEF DialFails, OneSocket, TypeOK
    <3> QED
      BY <1>0, <1>2, <2>1, <3>1, <3>2, NotMissed
  <2> QED
    BY <2>2, <2>3, <2>4, <2>5 DEF CallStep
<1>3. Leftover' <=> Leftover
  BY <1>0 DEF Leftover
<1> QED
  BY <1>0, <1>2, <1>3 DEF Losses

\* Half an answer is completed, or the next one begins, or the line that ends
\* is what was left over together with the answer to one call.
LEMMA LossesReceive ==
  ASSUME TypeOK, OwnInv, OneSocket, OneSocket', Quiet, Streams, Heads, Losses,
         NEW s \in Sockets, Receive(s)
  PROVE  Losses'
<1> DEFINE q == answers[s]
           piece == Head(q)
<1>0. PICK c \in Calls : /\ c = piece.call
                        /\ \A d \in Calls : id[d] = piece.id <=> d = c
  BY ForCall DEF Receive
<1>1. /\ q \in Seq(Piece) /\ q # <<>> /\ answers'[s] = Tail(q)
      /\ piece = q[1] /\ piece \in Piece
      /\ \A t \in Sockets \ {s} : answers'[t] = <<>> /\ answers[t] = <<>>
      /\ conn[s] \in {"open", "barred", "ended"} /\ s = socket
      /\ requests' = requests /\ conn' = conn /\ hangups' = hangups
      /\ socketOf' = socketOf
  BY Arrival, InUse DEF Receive
<1>2. /\ Alternating(q)
      /\ EndsWhole(q) \/ (conn[s] = "ended" /\ hangups > 0)
      /\ StartsHalf(q) =>
           recvBuf # <<>> /\ recvBuf[Len(recvBuf)].call = q[1].call
  BY DEF Streams
<1>3. /\ CallsIn(q) = {c} \cup CallsIn(Tail(q))
      /\ piece.part \in {"head", "tail"}
  BY <1>0, <1>1, CallsInTail DEF Piece
<1>4. ASSUME NEW d \in Calls, Missed(d)', d # c PROVE Missed(d)
  <2>1. stage[d] = "waiting" /\ conn[socketOf[d]] = "open"
    BY <1>1, <1>4 DEF Missed, Receive, Outcome
  <2>2. socketOf[d] \in Sockets
    BY <2>1 DEF OneSocket
  <2>3. d \in CallsIn(answers[socketOf[d]])
          => d \in CallsIn(answers'[socketOf[d]])
    BY <1>1, <1>3, <1>4, <2>2, CallsInEmpty
  <2> QED
    BY <1>1, <1>4, <2>1, <2>3, NotMissed
<1> HIDE DEF q, piece
<1>l. Len(recvBuf) \in Nat /\ (recvBuf # <<>> <=> Len(recvBuf) > 0)
  BY EmptySeq DEF TypeOK
<1>h. StartsHalf(q) <=> piece.part = "tail"
  BY <1>1 DEF StartsHalf
\* A head: the buffer holds it now, and its tail is next.
<1>5. CASE piece.part = "head"
  <2>1. /\ Len(recvBuf') = Len(recvBuf) + 1 /\ recvBuf' # <<>>
        /\ stage' = stage
    BY <1>5, Arrival DEF Receive, piece, q, TypeOK
  <2>2. ~ \E t \in Sockets : StartsHalf(answers[t])
    BY <1>1, <1>5, <1>h, EmptyStream DEF q
  <2>3. Leftover <=> recvBuf # <<>>
    BY <2>2 DEF Leftover
  <2>4. CASE Tail(q) = <<>>
    <3>1. conn[s] = "ended" /\ hangups > 0
      BY <1>1, <1>2, <1>5, <2>4, TailStream DEF piece
    <3>2. \A t \in Sockets : conn'[t] # "open"
      BY <1>1, <3>1 DEF OneSocket, NoneLeftBehind
    <3>3. \A d \in Calls : ~Missed(d)'
      BY <3>2 DEF Missed, OneSocket
    <3> QED
      BY <1>1, <3>1, <3>3 DEF Losses
  <2>5. CASE Tail(q) # <<>>
    <3>1. StartsHalf(answers'[s]) /\ answers'[s][1].call = c
      BY <1>0, <1>1, <1>2, <1>5, <2>5, TailStream DEF piece
    <3>2. Leftover' => Leftover
      BY <1>l, <2>1, <2>3, <3>1 DEF Leftover
    <3>3. c \in CallsIn(answers'[s])
      <4>1. Tail(q) \in Seq(Piece) /\ Tail(q) # <<>>
        BY <1>1, <2>5, TailFacts
      <4>2. Tail(q)[1] = Head(Tail(q))
        BY <4>1, TailFacts
      <4>3. Head(Tail(q)).call \in CallsIn(Tail(q))
        BY <4>1, CallsInTail
      <4> QED
        BY <1>1, <3>1, <4>2, <4>3
    <3>4. ~Missed(c)'
      <4>1. ASSUME Missed(c)' PROVE FALSE
        <5>1. conn'[socketOf'[c]] = "open" /\ socketOf'[c] \in Sockets
          BY <4>1 DEF Missed, OneSocket
        <5>2. socketOf'[c] = s
          BY <1>1, <5>1 DEF OneSocket, NoneLeftBehind
        <5> QED
          BY <3>3, <4>1, <5>2 DEF Missed, CallsIn
      <4> QED
        BY <4>1
    <3>5. \A d \in Calls : Missed(d)' => Missed(d)
      BY <1>4, <3>4
    <3> QED
      BY <1>1, <3>2, <3>5 DEF Losses
  <2> QED
    BY <2>4, <2>5
\* A tail: the line ends.
<1>6. CASE piece.part = "tail"
  <2>1. /\ recvBuf' = <<>> /\ recvBuf # <<>>
        /\ recvBuf[Len(recvBuf)].call = c
    BY <1>0, <1>1, <1>2, <1>6, <1>h, Arrival DEF piece, q
  <2>2. ~Leftover'
    BY <2>1 DEF Leftover
  <2>3. CASE Len(recvBuf) = 1
    <3> DEFINE line == Append(recvBuf, piece)
    <3>1. recvBuf \in Seq(Piece) /\ recvBuf[1].part = "head"
      BY <2>3 DEF TypeOK, Heads
    <3>2. Len(line) = 2 /\ line[1] = recvBuf[1] /\ line[2] = piece
      <4>1. /\ Len(line) = Len(recvBuf) + 1
            /\ \A i \in 1 .. Len(recvBuf) : line[i] = recvBuf[i]
            /\ line[Len(recvBuf) + 1] = piece
        BY <1>1, <3>1, AppendProperties
      <4> HIDE DEF line
      <4> QED
        BY <2>3, <4>1
    <3> HIDE DEF line
    <3>3. Parses(line)
      BY <1>0, <2>1, <2>3, <3>1, <3>2 DEF Parses
    <3>4. stage'[c] # "waiting"
      <4>1. stage'[c] = IF stage[c] = "waiting" THEN Outcome(piece)
                        ELSE stage[c]
        BY <1>0, <1>6, <3>3 DEF Receive, line, piece, q
      <4> QED
        BY <4>1 DEF Outcome
    <3>5. \A d \in Calls : Missed(d)' => Missed(d)
      BY <1>4, <3>4 DEF Missed
    <3> QED
      BY <1>1, <2>2, <3>5 DEF Losses
  <2>4. CASE Len(recvBuf) # 1
    <3>1. Leftover
      BY <2>1, <2>4 DEF Leftover
    <3>2. hangups > 0 /\ \A d \in Calls : ~Missed(d)
      BY <3>1 DEF Losses
    <3> QED
      BY <1>1, <1>4, <2>2, <3>2 DEF Losses
  <2> QED
    BY <2>3, <2>4
<1> QED
  BY <1>3, <1>5, <1>6

\* Serve and Unauthorized: the answer follows what was on its way.
LEMMA LossesAnswer ==
  ASSUME TypeOK, OneSocket, OneSocket', Quiet, Streams, Losses,
         NEW s \in Sockets, Serve(s) \/ Unauthorized(s)
  PROVE  Losses'
<1> DEFINE q == answers[s]
           r == requests[s]
<1>1. /\ r \in Seq(Request) /\ r # <<>> /\ conn[s] \in {"open", "barred"}
      /\ UNCHANGED <<callVars, recvBuf, hangups>>
  BY DEF Serve, Unauthorized, TypeOK
<1>2. q \in Seq(Piece) /\ Alternating(q) /\ EndsWhole(q)
  BY <1>1 DEF TypeOK, Streams
<1>3. PICK ok \in BOOLEAN :
        answers' = [answers EXCEPT ![s] = q \o Pieces(Head(r), ok)]
  BY DEF Serve, Unauthorized
<1> DEFINE p == Pieces(Head(r), ok)
<1>4. /\ p \in Seq(Piece) /\ Len(p) = 2 /\ p[1].part = "head"
      /\ p[2].part = "tail" /\ p[1].call = Head(r).call
      /\ p[2].call = Head(r).call
  BY <1>1, TailIn, PiecesFacts
<1>5. /\ answers'[s] = q \o p
      /\ \A t \in Sockets \ {s} : answers'[t] = answers[t]
  BY <1>3 DEF TypeOK
<1> HIDE DEF p
<1>6. /\ StartsHalf(q \o p) <=> StartsHalf(q)
      /\ Len(q) \in Nat /\ Len(q \o p) = Len(q) + 2
      /\ \A i \in 1 .. Len(q) : (q \o p)[i] = q[i]
      /\ (q \o p)[Len(q) + 1] = p[1] /\ q \o p \in Seq(Piece)
  BY <1>2, <1>4, LongerStream, ConcatProperties
<1>7. Leftover' <=> Leftover
  BY <1>1, <1>5, <1>6 DEF Leftover
<1>8. CallsIn(q) \cup {Head(r).call} \subseteq CallsIn(q \o p)
  <2> DEFINE u == q \o p
  <2>1. DOMAIN q = 1 .. Len(q) /\ DOMAIN u = 1 .. Len(q) + 2
    BY <1>2, <1>6
  <2> HIDE DEF u
  <2>2. /\ \A i \in 1 .. Len(q) : i \in DOMAIN u
        /\ Len(q) + 1 \in DOMAIN u
    BY <1>6, <2>1
  <2> QED
    BY <1>4, <1>6, <2>1, <2>2 DEF CallsIn, u
<1>9. CallsIn(r) = {Head(r).call} \cup CallsIn(Tail(r))
  BY <1>1, CallsInTail
<1>10. ASSUME NEW d \in Calls, Missed(d)' PROVE Missed(d)
  <2>1. CASE Unauthorized(s)
    <3>1. conn'[s] = "ended" /\ \A t \in Sockets \ {s} : conn'[t] = conn[t]
      BY <2>1 DEF Unauthorized, TypeOK
    <3>2. \A t \in Sockets : conn'[t] # "open"
      BY <1>1, <3>1 DEF OneSocket, NoneLeftBehind
    <3> QED
      BY <1>10, <3>2 DEF Missed, OneSocket
  <2>2. CASE Serve(s)
    <3>1. /\ requests'[s] = Tail(r) /\ conn' = conn
          /\ \A t \in Sockets \ {s} : requests'[t] = requests[t]
      BY <2>2 DEF Serve, TypeOK
    <3>2. /\ stage[d] = "waiting" /\ socketOf'[d] = socketOf[d]
          /\ conn[socketOf[d]] = "open"
      BY <1>1, <1>10, <3>1 DEF Missed, callVars
    <3>3. socketOf[d] \in Sockets
      BY <3>2 DEF OneSocket
    <3>4. ASSUME NEW t \in Sockets
          PROVE  CallsIn(requests[t]) \cup CallsIn(answers[t])
                   \subseteq CallsIn(requests'[t]) \cup CallsIn(answers'[t])
      BY <1>5, <1>8, <1>9, <3>1
    <3> QED
      BY <1>10, <3>2, <3>3, <3>4, NotMissed
  <2> QED
    BY <2>1, <2>2
<1> QED
  BY <1>1, <1>7, <1>10 DEF Losses

LEMMA LossesStep ==
  ASSUME ~Overlap, TypeOK, OwnInv, OneSocket, OneSocket', Quiet, Streams,
         Heads, Calm, Losses, [Next]_vars
  PROVE  Losses'
<1>1. ASSUME NEW s \in Sockets, Hangup(s) PROVE Losses'
  <2>1. /\ conn'[s] = "ended" /\ \A t \in Sockets \ {s} : conn'[t] = conn[t]
        /\ conn[s] \in {"open", "barred"} /\ hangups' > 0
    BY <1>1 DEF Hangup, TypeOK
  <2>2. \A t \in Sockets : conn'[t] # "open"
    BY <2>1 DEF OneSocket, NoneLeftBehind
  <2>3. \A c \in Calls : ~Missed(c)'
    BY <2>2 DEF Missed, OneSocket
  <2> QED
    BY <2>1, <2>3 DEF Losses
<1>2. ASSUME NEW s \in Sockets, Ends(s) PROVE Losses'
  <2>1. /\ UNCHANGED <<callVars, requests, answers, recvBuf, hangups>>
        /\ conn' = [conn EXCEPT ![s] = "closed"]
    BY <1>2 DEF Ends
  <2>2. \A c \in Calls : Missed(c)' => Missed(c)
    BY <2>1 DEF Missed, callVars, TypeOK
  <2>3. Leftover' <=> Leftover
    BY <2>1 DEF Leftover
  <2> QED
    BY <2>1, <2>2, <2>3 DEF Losses
\* Nobody waits when the client closes: what the buffer holds was left over.
<1>3. CASE Close
  <2>1. /\ \A c \in Calls : stage[c] # "waiting" /\ stage'[c] = stage[c]
        /\ recvBuf' = recvBuf /\ hangups' = hangups
    BY <1>3 DEF Close, callVars
  <2>2. \A c \in Calls : ~Missed(c)'
    BY <2>1 DEF Missed
  <2>3. ASSUME recvBuf # <<>>, hangups = 0 PROVE FALSE
    <3>1. \A s \in Sockets : CallsIn(answers[s]) = {}
      BY <2>1, <2>3 DEF Calm, Waiting
    <3>2. ASSUME NEW s \in Sockets, answers[s] # <<>> PROVE FALSE
      BY <3>1, <3>2, CallsInTail DEF TypeOK
    <3>3. Leftover
      BY <2>3, <3>2, EmptyStream DEF Leftover
    <3> QED
      BY <2>3, <3>3 DEF Losses
  <2>4. recvBuf' # <<>> => hangups' > 0
    BY <2>1, <2>3 DEF TypeOK
  <2> QED
    BY <2>2, <2>4 DEF Losses, Leftover
<1>4. CASE UNCHANGED vars
  <2>1. UNCHANGED <<stage, socketOf, conn, requests, answers, recvBuf, hangups>>
    BY <1>4 DEF vars, callVars, wireVars
  <2> QED
    BY <2>1 DEF Losses, Missed, Leftover
<1> QED
  BY <1>1, <1>2, <1>3, <1>4, LossesCall, LossesReceive, LossesAnswer
     DEF Next, SocketStep

InTurnInv == OwnInv /\ OneSocket /\ Quiet /\ Streams /\ Heads /\ Calm /\ Losses

LEMMA InTurnInit == Init => InTurnInv
<1> SUFFICES ASSUME Init PROVE InTurnInv
  OBVIOUS
<1>1. /\ \A s \in Sockets : answers[s] = <<>> /\ requests[s] = <<>>
      /\ recvBuf = <<>> /\ \A c \in Calls : stage[c] = "idle"
      /\ hangups = 0
  BY DEF Init
<1>2. OwnInv
  BY DEF Init, OwnInv, IdInv, OwnAnswer
<1>3. Quiet /\ Streams /\ Heads
  BY <1>1, EmptyStream DEF Quiet, Streams, Heads
<1>4. Calm
  BY <1>1, EmptyStream, CallsInEmpty DEF Calm, Orderly
<1>5. Losses
  BY <1>1 DEF Losses, Leftover, Missed
<1> QED
  BY <1>2, <1>3, <1>4, <1>5, OneSocketInit DEF InTurnInv

\* As many calls are missed as there were hangups, or fewer: none before the
\* first one, and never two.
LEMMA LossCount == TypeOK /\ Losses => LossBounded
<1> SUFFICES ASSUME TypeOK, Losses PROVE LossBounded
  OBVIOUS
<1> DEFINE M == {c \in Calls : Missed(c)}
<1>1. CASE M = {}
  <2>1. Cardinality(M) = 0
    BY <1>1, FS_EmptySet
  <2> HIDE DEF M
  <2>2. Cardinality(M) <= hangups /\ Cardinality(M) <= 1
    BY <2>1 DEF TypeOK
  <2> QED
    BY <2>2 DEF LossBounded, M
<1>2. CASE M # {}
  <2>1. PICK c \in Calls : Missed(c)
    BY <1>2
  <2>2. M = {c} /\ hangups > 0
    BY <2>1 DEF Losses
  <2>3. Cardinality(M) = 1
    BY <2>2, FS_Singleton
  <2> HIDE DEF M
  <2>4. Cardinality(M) <= hangups /\ Cardinality(M) <= 1
    BY <2>2, <2>3 DEF TypeOK
  <2> QED
    BY <2>4 DEF LossBounded, M
<1> QED
  BY <1>1, <1>2

\* LossBounded, for a client whose calls never dial while another one does:
\* whatever the executor cuts off, at most one call on the open connection
\* goes without the answer that was sent to it, and none unless a connection
\* was dropped before.
THEOREM LossesBounded == ~Overlap /\ Spec => []LossBounded
<1> SUFFICES ASSUME ~Overlap PROVE Spec => []LossBounded
  OBVIOUS
<1>1. TypeOK /\ InTurnInv /\ [Next]_vars => InTurnInv'
  <2> SUFFICES ASSUME TypeOK, InTurnInv, [Next]_vars PROVE InTurnInv'
    OBVIOUS
  <2>1. OwnInv' /\ OneSocket' /\ Quiet' /\ Streams' /\ Heads'
    BY OwnStep, OneSocketStep, QuietStep, StreamsStep, HeadsStep
       DEF InTurnInv
  <2>2. Calm' /\ Losses'
    BY <2>1, CalmStep, LossesStep DEF InTurnInv
  <2> QED
    BY <2>1, <2>2 DEF InTurnInv
<1>2. TypeOK /\ InTurnInv => LossBounded
  BY LossCount DEF InTurnInv
<1> QED
  BY <1>1, <1>2, InTurnInit, GatewayTypes, PTL DEF Spec
=============================================================================
