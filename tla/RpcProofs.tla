----------------------------- MODULE RpcProofs -----------------------------
(***************************************************************************)
(* What holds of the remote procedure calls for any number of servers and  *)
(* clients, in every cast: a reply queue has nothing but replies to its    *)
(* own client, so none takes the answer of another; a server has replied   *)
(* before it acknowledges; and of a request there is one copy for every    *)
(* queue that took it, which the named queue does not lose before there is *)
(* a reply, so that the replies are no more than the queues and the deaths.*)
(***************************************************************************)
EXTENDS Rpc, FiniteSetTheorems, TLAPS

\* A server that handles a request has one, and has replied to it before it is
\* about to acknowledge it.
HandInv ==
  \A s \in Servers :
    /\ server[s] \in {"handle", "publish", "ack"} => unacked[s] \in Clients
    /\ server[s] = "ack" => replies[unacked[s]] > 0

\* A reply queue has only replies to its own client.
InboxInv == \A c \in Clients : \A i \in 1 .. Len(inbox[c]) : inbox[c][i] = c

IInv == TypeOK /\ HandInv /\ InboxInv /\ AnswerIsMine

\* The programs of a cast are servers and clients, and read a queue there is.
LEMMA CastFacts ==
  ASSUME TypeOK
  PROVE  /\ Serving \subseteq Servers /\ Running \subseteq Clients
         /\ \A s \in Servers : QueueOf(s) \in Queues
         /\ NoRequest \notin Clients
  BY RpcAssumption DEF RpcAssumption, TypeOK, Serving, Running, QueueOf, Queues

\* What is at the front of a sequence of clients and what is behind it.
LEMMA HeadTail ==
  ASSUME NEW q \in Seq(Clients), q # << >>
  PROVE  /\ Head(q) \in Clients /\ Tail(q) \in Seq(Clients)
         /\ Head(q) = q[1] /\ 1 \in 1 .. Len(q)
         /\ \A i \in 1 .. Len(Tail(q)) : i + 1 \in 1 .. Len(q) /\ Tail(q)[i] = q[i + 1]
  OBVIOUS

\* What is behind the end of a sequence of clients, and what is before.
LEMMA Appended ==
  ASSUME NEW q \in Seq(Clients), NEW c \in Clients
  PROVE  /\ Append(q, c) \in Seq(Clients) /\ <<c>> \o q \in Seq(Clients)
         /\ Append(q, c) # << >>
         /\ \A i \in 1 .. Len(Append(q, c)) :
              Append(q, c)[i] = c \/ (i \in 1 .. Len(q) /\ Append(q, c)[i] = q[i])
<1>1. Len(Append(q, c)) = Len(q) + 1 /\ Len(q) \in Nat /\ Len(<< >>) = 0
  OBVIOUS
<1>2. Append(q, c) # << >>
  BY <1>1
<1> QED
  BY <1>2

\* The invariant holds at the start.
LEMMA InitIInv == Init => IInv
<1> SUFFICES ASSUME Init PROVE IInv
  OBVIOUS
<1>1. TypeOK
  BY DEF Init, TypeOK
<1>2. HandInv /\ InboxInv /\ AnswerIsMine
  BY DEF Init, HandInv, InboxInv, AnswerIsMine
<1> QED
  BY <1>1, <1>2 DEF IInv

-----------------------------------------------------------------------------
(***************************************************************************)
(* The steps of a server                                                   *)
(***************************************************************************)
LEMMA ServeStep == ASSUME IInv, NEW s \in Serving, Serve(s) PROVE IInv'
<1> USE CastFacts DEF IInv, Serve, Goto, At, clientVars
<1>1. TypeOK'
  BY DEF TypeOK
<1>2. HandInv'
  BY DEF HandInv, TypeOK
<1>3. InboxInv' /\ AnswerIsMine'
  BY DEF InboxInv, AnswerIsMine
<1> QED
  BY <1>1, <1>2, <1>3

LEMMA ConsumeStep == ASSUME IInv, NEW s \in Serving, Consume(s) PROVE IInv'
<1> USE CastFacts DEF IInv, Consume, Goto, At, clientVars
<1>1. s \in Servers /\ QueueOf(s) \in Queues
  OBVIOUS
<1>2. queue[QueueOf(s)] \in Seq(Clients) /\ queue[QueueOf(s)] # << >>
  BY <1>1 DEF TypeOK
<1>3. Head(queue[QueueOf(s)]) \in Clients /\ Tail(queue[QueueOf(s)]) \in Seq(Clients)
  BY <1>2, HeadTail
<1>4. TypeOK'
  BY <1>1, <1>3 DEF TypeOK
<1>5. HandInv'
  BY <1>1, <1>3 DEF HandInv, TypeOK
<1>6. InboxInv' /\ AnswerIsMine'
  BY DEF InboxInv, AnswerIsMine
<1> QED
  BY <1>4, <1>5, <1>6

LEMMA DropBareStep == ASSUME IInv, NEW s \in Serving, DropBare(s) PROVE IInv'
<1> USE CastFacts DEF IInv, DropBare, Acknowledge, Goto, At, clientVars, brokerVars
<1>1. TypeOK'
  BY DEF TypeOK
<1>2. HandInv'
  BY DEF HandInv, TypeOK
<1>3. InboxInv' /\ AnswerIsMine'
  BY DEF InboxInv, AnswerIsMine
<1> QED
  BY <1>1, <1>2, <1>3

\* A queue that goes leaves a broker of the right type.
LEMMA DropTypes ==
  ASSUME TypeOK, NEW s \in Servers, Drop(s)
  PROVE  /\ queue' \in [Queues -> Seq(Clients)] /\ exists' \subseteq Queues
         /\ unacked' \in [Servers -> Clients \cup {NoRequest}]
<1>1. << >> \in Seq(Clients)
  OBVIOUS
<1>2. queue' \in [Queues -> Seq(Clients)]
  BY <1>1 DEF Drop, TypeOK
<1> QED
  BY <1>2 DEF Drop, Acknowledge, TypeOK

LEMMA UnreadableStep == ASSUME IInv, NEW s \in Serving, Unreadable(s) PROVE IInv'
<1> USE CastFacts DEF IInv, Unreadable, Goto, At, clientVars
<1>1. TypeOK'
  <2>1. queue' \in [Queues -> Seq(Clients)] /\ exists' \subseteq Queues
        /\ unacked' \in [Servers -> Clients \cup {NoRequest}]
    <3>1. CASE Drop(s)
      BY <3>1, DropTypes
    <3>2. CASE UNCHANGED <<queue, exists, unacked>>
      BY <3>2 DEF TypeOK
    <3> QED
      BY <3>1, <3>2
  <2> QED
    BY <2>1 DEF TypeOK
<1> USE DEF Drop, Acknowledge
<1>2. HandInv'
  BY DEF HandInv, TypeOK
<1>3. InboxInv' /\ AnswerIsMine'
  BY DEF InboxInv, AnswerIsMine
<1> QED
  BY <1>1, <1>2, <1>3

LEMMA OverlookStep == ASSUME IInv, NEW s \in Serving, Overlook(s) PROVE IInv'
<1> USE CastFacts DEF IInv, Overlook, Goto, At, clientVars, brokerVars
<1>1. TypeOK'
  BY DEF TypeOK
<1>2. HandInv'
  BY DEF HandInv, TypeOK
<1>3. InboxInv' /\ AnswerIsMine'
  BY DEF InboxInv, AnswerIsMine
<1> QED
  BY <1>1, <1>2, <1>3

LEMMA PrepareStep == ASSUME IInv, NEW s \in Serving, Prepare(s) PROVE IInv'
<1> USE CastFacts DEF IInv, Prepare, Goto, At, clientVars, brokerVars
<1>1. TypeOK'
  BY DEF TypeOK
<1>2. HandInv'
  BY DEF HandInv, TypeOK
<1>3. InboxInv' /\ AnswerIsMine'
  BY DEF InboxInv, AnswerIsMine
<1> QED
  BY <1>1, <1>2, <1>3

\* The reply goes to the reply queue of the client it answers.
LEMMA ReplyStep == ASSUME IInv, NEW s \in Serving, Reply(s) PROVE IInv'
<1> USE DEF IInv, Reply, Goto, At, clientVars, brokerVars
<1>1. s \in Servers
  BY CastFacts
<1> DEFINE c == unacked[s]
<1>2. c \in Clients /\ inbox[c] \in Seq(Clients)
  BY <1>1 DEF HandInv, TypeOK
<1>3. \A d \in Clients : inbox'[d] = inbox[d] \/ (d = c /\ inbox'[d] = Append(inbox[d], c))
  BY <1>2 DEF TypeOK
<1>4. inbox' \in [Clients -> Seq(Clients)]
  BY <1>2, Appended DEF TypeOK
<1>5. replies' \in [Clients -> Nat] /\ replies'[c] > 0 /\ \A d \in Clients : replies'[d] >= replies[d]
  BY <1>2 DEF TypeOK
<1>6. TypeOK'
  BY <1>1, <1>4, <1>5 DEF TypeOK
<1>7. HandInv'
  <2> SUFFICES ASSUME NEW t \in Servers
               PROVE  /\ server'[t] \in {"handle", "publish", "ack"} => unacked[t] \in Clients
                      /\ server'[t] = "ack" => replies'[unacked[t]] > 0
    BY DEF HandInv
  <2>1. CASE t = s
    BY <2>1, <1>2, <1>5
  <2>2. CASE t # s
    <3>1. server'[t] = server[t]
      BY <2>2, <1>1 DEF TypeOK
    <3>2. /\ server[t] \in {"handle", "publish", "ack"} => unacked[t] \in Clients
          /\ server[t] = "ack" => replies[unacked[t]] > 0
      BY DEF HandInv
    <3>3. \A d \in Clients : replies[d] \in Nat /\ replies'[d] \in Nat
      BY <1>5 DEF TypeOK
    <3> QED
      BY <3>1, <3>2, <3>3, <1>5
  <2> QED
    BY <2>1, <2>2
<1>8. InboxInv'
  <2> SUFFICES ASSUME NEW d \in Clients, NEW i \in 1 .. Len(inbox'[d]) PROVE inbox'[d][i] = d
    BY DEF InboxInv
  <2>1. inbox[d] \in Seq(Clients) /\ \A j \in 1 .. Len(inbox[d]) : inbox[d][j] = d
    BY DEF InboxInv, TypeOK
  <2> QED
    BY <1>2, <1>3, <2>1, Appended
<1>9. AnswerIsMine'
  BY DEF AnswerIsMine
<1> QED
  BY <1>6, <1>7, <1>8, <1>9

LEMMA AckStep == ASSUME IInv, NEW s \in Serving, Ack(s) PROVE IInv'
<1> USE CastFacts DEF IInv, Ack, Acknowledge, Goto, At, clientVars, brokerVars
<1>1. TypeOK'
  BY DEF TypeOK
<1>2. HandInv'
  BY DEF HandInv, TypeOK
<1>3. InboxInv' /\ AnswerIsMine'
  BY DEF InboxInv, AnswerIsMine
<1> QED
  BY <1>1, <1>2, <1>3

LEMMA KillStep == ASSUME IInv, NEW s \in Serving, Kill(s) PROVE IInv'
<1> USE CastFacts DEF IInv, Kill, Goto, At, clientVars
<1>1. TypeOK'
  BY DEF TypeOK
<1>2. HandInv'
  BY DEF HandInv, TypeOK
<1>3. InboxInv' /\ AnswerIsMine'
  BY DEF InboxInv, AnswerIsMine
<1> QED
  BY <1>1, <1>2, <1>3

\* A request that goes back goes back to the front.
LEMMA CloseStep == ASSUME IInv, NEW s \in Serving, Close(s) PROVE IInv'
<1> USE DEF IInv, Close, Drop, Acknowledge, Goto, At, clientVars
<1>1. s \in Servers /\ QueueOf(s) \in Queues
  BY CastFacts
<1>2. queue' \in [Queues -> Seq(Clients)]
  <2>1. CASE Exclusive(s)
    BY <2>1, <1>1, DropTypes
  <2>2. CASE ~Exclusive(s)
    <3> DEFINE q == queue[QueueOf(s)]
               back == IF unacked[s] = NoRequest THEN q ELSE <<unacked[s]>> \o q
    <3>1. q \in Seq(Clients)
      BY <1>1 DEF TypeOK
    <3>2. back \in Seq(Clients)
      BY <1>1, <3>1, Appended DEF TypeOK
    <3>3. queue' = [queue EXCEPT ![QueueOf(s)] = back]
      BY <2>2
    <3> HIDE DEF back
    <3> QED
      BY <3>2, <3>3 DEF TypeOK
  <2> QED
    BY <2>1, <2>2
<1>3. TypeOK'
  BY <1>1, <1>2 DEF TypeOK
<1>4. HandInv'
  BY <1>1 DEF HandInv, TypeOK
<1>5. InboxInv' /\ AnswerIsMine'
  BY DEF InboxInv, AnswerIsMine
<1> QED
  BY <1>3, <1>4, <1>5

-----------------------------------------------------------------------------
(***************************************************************************)
(* The steps of a client                                                   *)
(***************************************************************************)
LEMMA SubscribeStep == ASSUME IInv, NEW c \in Running, Subscribe(c) PROVE IInv'
<1> USE CastFacts DEF IInv, Subscribe, Move, serverVars, brokerVars
<1>1. TypeOK'
  BY DEF TypeOK
<1>2. HandInv' /\ InboxInv'
  BY DEF HandInv, InboxInv
<1>3. AnswerIsMine'
  BY DEF AnswerIsMine, TypeOK
<1> QED
  BY <1>1, <1>2, <1>3

\* The request is behind what its targets already have.
LEMMA RequestStep == ASSUME IInv, NEW c \in Running, Request(c) PROVE IInv'
<1> USE CastFacts DEF IInv, Request, Move, serverVars
<1>1. queue' \in [Queues -> Seq(Clients)]
  <2>1. \A q \in Queues : Append(queue[q], c) \in Seq(Clients)
    BY Appended DEF TypeOK
  <2> QED
    BY <2>1 DEF TypeOK
<1>2. TypeOK'
  BY <1>1 DEF TypeOK
<1>3. HandInv' /\ InboxInv'
  BY DEF HandInv, InboxInv
<1>4. AnswerIsMine'
  BY DEF AnswerIsMine, TypeOK
<1> QED
  BY <1>2, <1>3, <1>4

LEMMA RequestFailsStep == ASSUME IInv, NEW c \in Running, RequestFails(c) PROVE IInv'
<1> USE CastFacts DEF IInv, RequestFails, Move, serverVars, brokerVars
<1>1. TypeOK'
  BY DEF TypeOK
<1>2. HandInv' /\ InboxInv'
  BY DEF HandInv, InboxInv
<1>3. AnswerIsMine'
  BY DEF AnswerIsMine, TypeOK
<1> QED
  BY <1>1, <1>2, <1>3

\* The answer comes from the reply queue, so it is an answer to this client.
LEMMA SettleStep ==
  ASSUME IInv, NEW c \in Running, inbox[c] # << >>, Settle(c),
         UNCHANGED <<brokerVars, serverVars, routed, replies>>
  PROVE  IInv'
<1> USE DEF IInv, Settle, Move, serverVars, brokerVars
<1>1. c \in Clients /\ inbox[c] \in Seq(Clients)
  BY CastFacts DEF TypeOK
<1>2. Head(inbox[c]) = c
  BY <1>1, HeadTail DEF InboxInv
<1>3. TypeOK'
  BY <1>1, <1>2 DEF TypeOK
<1>4. HandInv'
  BY DEF HandInv
<1>5. InboxInv'
  BY <1>1 DEF InboxInv, TypeOK
<1>6. AnswerIsMine'
  BY <1>1, <1>2 DEF AnswerIsMine, TypeOK
<1> QED
  BY <1>3, <1>4, <1>5, <1>6

LEMMA ReceiveStep == ASSUME IInv, NEW c \in Running, Receive(c) PROVE IInv'
<1>1. CASE CorId[Head(inbox[c])] = CorId[c]
  BY <1>1, SettleStep DEF Receive
<1>2. CASE CorId[Head(inbox[c])] # CorId[c]
  <2> USE DEF IInv, Receive, serverVars, brokerVars
  <2>1. c \in Clients /\ inbox[c] \in Seq(Clients) /\ inbox[c] # << >>
    BY CastFacts DEF TypeOK
  <2>2. inbox' = [inbox EXCEPT ![c] = Tail(@)] /\ UNCHANGED <<client, answer>>
    BY <1>2
  <2>3. TypeOK'
    BY <2>1, <2>2, HeadTail DEF TypeOK
  <2>4. HandInv'
    BY DEF HandInv
  <2>5. InboxInv'
    <3> SUFFICES ASSUME NEW d \in Clients, NEW i \in 1 .. Len(inbox'[d]) PROVE inbox'[d][i] = d
      BY DEF InboxInv
    <3>1. \A j \in 1 .. Len(inbox[d]) : inbox[d][j] = d
      BY DEF InboxInv
    <3>2. CASE d = c
      <4>1. inbox'[d] = Tail(inbox[c])
        BY <3>2, <2>1, <2>2 DEF TypeOK
      <4> QED
        BY <4>1, <3>1, <3>2, <2>1, HeadTail
    <3>3. CASE d # c
      BY <3>1, <3>3, <2>1, <2>2 DEF TypeOK
    <3> QED
      BY <3>2, <3>3
  <2>6. AnswerIsMine'
    BY <2>2 DEF AnswerIsMine
  <2> QED
    BY <2>3, <2>4, <2>5, <2>6
<1> QED
  BY <1>1, <1>2

LEMMA ReceiveAnyStep == ASSUME IInv, NEW c \in Running, ReceiveAny(c) PROVE IInv'
  BY SettleStep DEF ReceiveAny

LEMMA QuitStep == ASSUME IInv, NEW c \in Running, Quit(c) PROVE IInv'
<1> USE CastFacts DEF IInv, Quit, Move, serverVars, brokerVars
<1>1. TypeOK'
  BY DEF TypeOK
<1>2. HandInv'
  BY DEF HandInv
<1>3. InboxInv'
  BY DEF InboxInv, TypeOK
<1>4. AnswerIsMine'
  BY DEF AnswerIsMine, TypeOK
<1> QED
  BY <1>1, <1>2, <1>3, <1>4

-----------------------------------------------------------------------------
LEMMA NextIInv == IInv /\ [Next]_vars => IInv'
<1> SUFFICES ASSUME IInv, [Next]_vars PROVE IInv'
  OBVIOUS
<1>1. CASE UNCHANGED vars
  BY <1>1 DEF vars, IInv, TypeOK, HandInv, InboxInv, AnswerIsMine
<1>2. ASSUME NEW s \in Serving, ServerStep(s) \/ Serve(s) \/ Kill(s) PROVE IInv'
  BY <1>2, ServeStep, ConsumeStep, DropBareStep, UnreadableStep, OverlookStep, PrepareStep,
     ReplyStep, AckStep, KillStep, CloseStep DEF ServerStep
<1>3. ASSUME NEW c \in Running, ClientStep(c) \/ Subscribe(c) \/ Quit(c) PROVE IInv'
  BY <1>3, SubscribeStep, RequestStep, RequestFailsStep, ReceiveStep, ReceiveAnyStep, QuitStep
     DEF ClientStep
<1> QED
  BY <1>1, <1>2, <1>3 DEF Next

LEMMA Invariance == Spec => []IInv
  BY InitIInv, NextIInv, PTL DEF Spec

\* Every variable keeps its type, in every cast.
THEOREM TypeCorrect == Spec => []TypeOK
<1>1. IInv => TypeOK
  BY DEF IInv
<1> QED
  BY <1>1, Invariance, PTL

\* No client takes the answer of another, whoever compares correlation ids and
\* whatever ids are drawn.
THEOREM AnswersReachTheirClient == Spec => []AnswerIsMine
<1>1. IInv => AnswerIsMine
  BY DEF IInv
<1> QED
  BY <1>1, Invariance, PTL

\* Only a request that asks for no answer, or has had one, is acknowledged; of the
\* others some go with their queue.
LEMMA StepAnswers ==
  ASSUME IInv, [Next]_vars, NEW s \in Serving, NEW c \in Running,
         unacked[s] = c, unacked'[s] = NoRequest, server'[s] # "off", QueueOf(s) \in exists'
  PROVE  Kind(c) = "bare" \/ replies[c] > 0
<1>1. s \in Servers /\ c \in Clients /\ unacked'[s] # unacked[s]
  BY CastFacts DEF IInv
<1>2. CASE UNCHANGED vars \/ \E d \in Running : ClientStep(d) \/ Subscribe(d) \/ Quit(d)
  BY <1>1, <1>2 DEF vars, serverVars, ClientStep, Subscribe, Request, RequestFails, Receive,
     ReceiveAny, Quit
<1>3. ASSUME NEW t \in Serving, ServerStep(t) \/ Serve(t) \/ Kill(t)
      PROVE  Kind(c) = "bare" \/ replies[c] > 0
  <2>1. t \in Servers
    BY CastFacts DEF IInv
  <2>2. CASE t # s
    <3>1. unacked'[s] = unacked[s]
      BY <1>1, <1>3, <2>1, <2>2 DEF IInv, TypeOK, ServerStep, Serve, Kill, Consume, DropBare,
         Unreadable, Overlook, Prepare, Reply, Ack, Close, Drop, Acknowledge
    <3> QED
      BY <3>1, <1>1
  <2>3. CASE t = s
    <3>1. CASE Serve(s) \/ Kill(s) \/ Consume(s) \/ Overlook(s) \/ Prepare(s) \/ Reply(s)
      BY <3>1, <1>1, CastFacts DEF IInv, Serve, Kill, Consume, Overlook, Prepare, Reply
    <3>2. CASE DropBare(s)
      BY <3>2 DEF DropBare
    <3>3. CASE Unreadable(s)
      BY <3>3, <1>1 DEF Unreadable, Drop
    <3>4. CASE Ack(s)
      BY <3>4, <1>1 DEF Ack, At, IInv, HandInv
    <3>5. CASE Close(s)
      BY <3>5, <1>1 DEF Close, Goto, IInv, TypeOK
    <3> QED
      BY <1>3, <2>3, <3>1, <3>2, <3>3, <3>4, <3>5 DEF ServerStep
  <2> QED
    BY <2>2, <2>3
<1> QED
  BY <1>2, <1>3 DEF Next

\* No server acknowledges a request that it owes an answer and has not given, in
\* every cast.
THEOREM AckComesLast == Spec => AckMeansAnswered
<1>1. IInv /\ [Next]_vars =>
        [\A s \in Serving : \A c \in Running :
           unacked[s] = c /\ unacked'[s] = NoRequest /\ server'[s] # "off" /\ QueueOf(s) \in exists' =>
             Kind(c) = "bare" \/ replies[c] > 0]_vars
  BY StepAnswers
<1> QED
  BY <1>1, Invariance, PTL DEF Spec, AckMeansAnswered

-----------------------------------------------------------------------------
(***************************************************************************)
(* Where the copies of a request are                                       *)
(***************************************************************************)

\* A copy is that of a client that has sent its request, in a queue it was sent
\* to or from there.
Sent(c) == c \in Running /\ client[c] \notin {"start", "subscribed"}
Belongs(c, q) == Sent(c) /\ (Direct(c) => q = Run(c).queue)
PlaceInv ==
  /\ \A q \in Queues : \A c \in ToSet(queue[q]) : Belongs(c, q)
  /\ \A s \in Servers :
       unacked[s] \in Clients => s \in Serving /\ Belongs(unacked[s], QueueOf(s))

\* Of every queue that took a request there is at most one copy.
Once(q) == \A i, j \in 1 .. Len(q) : q[i] = q[j] => i = j
OneCopyInv ==
  /\ \A q \in Queues : Once(queue[q])
  /\ \A s \in Servers : unacked[s] \in Clients => unacked[s] \notin ToSet(queue[QueueOf(s)])
  /\ \A s, t \in Servers :
       s # t /\ unacked[s] \in Clients /\ unacked[s] = unacked[t] => QueueOf(s) # QueueOf(t)

\* A client that waits has in its inbox what a server is about to acknowledge.
RepliedInv ==
  \A s \in Servers :
    server[s] = "ack" /\ client[unacked[s]] = "waiting" => inbox[unacked[s]] # << >>

\* Of a request that was not sent there is nothing; a queue is that of a server.
UnsentInv ==
  /\ \A c \in Clients : ~Sent(c) => c \notin routed /\ replies[c] = 0
  /\ exists \subseteq QueuesServed

\* A server has the only copy of its queue, and is not going to be content with
\* a reply it has given: a direct server that was killed gives it back.
Holds(s, c) ==
  /\ unacked[s] = c
  /\ server[s] \in {"handle", "publish"} \/ (server[s] = "killed" /\ QueueOf(s) = "named")

\* The queues from which a request may still be replied to; each reply takes one
\* away, and a death gives one back at most.
Open(c) ==
  {q \in QueuesServed : c \in ToSet(queue[q]) \/ \E s \in Serving : QueueOf(s) = q /\ Holds(s, c)}
Deaths == IF Redelivering THEN deaths ELSE 0
CountInv ==
  \A c \in Clients : replies[c] + Cardinality(Open(c)) <= Cardinality(QueuesServed) + Deaths

CopyInv ==
  /\ IInv /\ PlaceInv /\ OneCopyInv /\ RepliedInv /\ UnsentInv
  /\ RequestKept /\ CountInv

\* What is in a sequence of clients that grows or shrinks at one of its ends.
LEMMA Ends ==
  ASSUME NEW q \in Seq(Clients), NEW c \in Clients
  PROVE  /\ q # << >> => ToSet(q) = {Head(q)} \cup ToSet(Tail(q))
         /\ ToSet(Append(q, c)) = ToSet(q) \cup {c} /\ ToSet(<<c>> \o q) = ToSet(q) \cup {c}
         /\ ToSet(<< >>) = {} /\ ToSet(q) \subseteq Clients
<1>1. ASSUME q # << >> PROVE ToSet(q) = {Head(q)} \cup ToSet(Tail(q))
  <2>1. /\ Head(q) = q[1] /\ 1 \in DOMAIN q
        /\ \A i \in DOMAIN q : i = 1 \/ (i - 1 \in DOMAIN Tail(q) /\ q[i] = Tail(q)[i - 1])
    BY <1>1
  <2>2. \A i \in DOMAIN Tail(q) : i + 1 \in DOMAIN q /\ Tail(q)[i] = q[i + 1]
    BY <1>1
  <2>3. ASSUME NEW x \in ToSet(q) PROVE x = Head(q) \/ x \in ToSet(Tail(q))
    BY <2>1 DEF ToSet
  <2>4. ASSUME NEW x \in ToSet(Tail(q)) PROVE x \in ToSet(q)
    BY <2>2 DEF ToSet
  <2>5. Head(q) \in ToSet(q)
    BY <2>1 DEF ToSet
  <2> QED
    BY <2>3, <2>4, <2>5
<1>2. ToSet(Append(q, c)) = ToSet(q) \cup {c}
  <2>1. Append(q, c)[Len(q) + 1] = c /\ \A i \in DOMAIN q : Append(q, c)[i] = q[i]
    OBVIOUS
  <2>2. DOMAIN Append(q, c) = (DOMAIN q) \cup {Len(q) + 1}
    OBVIOUS
  <2> QED
    BY <2>1, <2>2 DEF ToSet
<1>3. ToSet(<<c>> \o q) = ToSet(q) \cup {c}
  <2>1. /\ 1 \in DOMAIN (<<c>> \o q) /\ (<<c>> \o q)[1] = c
        /\ \A i \in DOMAIN q : i + 1 \in DOMAIN (<<c>> \o q) /\ (<<c>> \o q)[i + 1] = q[i]
    OBVIOUS
  <2>2. \A i \in DOMAIN (<<c>> \o q) : i = 1 \/ (i - 1 \in DOMAIN q /\ (<<c>> \o q)[i] = q[i - 1])
    OBVIOUS
  <2>3. ASSUME NEW x \in ToSet(<<c>> \o q) PROVE x = c \/ x \in ToSet(q)
    BY <2>1, <2>2 DEF ToSet
  <2>4. ASSUME NEW x \in ToSet(q) PROVE x \in ToSet(<<c>> \o q)
    BY <2>1 DEF ToSet
  <2>5. c \in ToSet(<<c>> \o q)
    BY <2>1 DEF ToSet
  <2> QED
    BY <2>3, <2>4, <2>5
<1>4. ToSet(<< >>) = {} /\ ToSet(q) \subseteq Clients
  BY DEF ToSet
<1> QED
  BY <1>1, <1>2, <1>3, <1>4

\* Nor does it get a client twice.
LEMMA EndsOnce ==
  ASSUME NEW q \in Seq(Clients), NEW c \in Clients, Once(q)
  PROVE  /\ Once(<< >>)
         /\ q # << >> => Once(Tail(q)) /\ Head(q) \notin ToSet(Tail(q))
         /\ c \notin ToSet(q) => Once(Append(q, c)) /\ Once(<<c>> \o q)
<1>1. ASSUME q # << >> PROVE Once(Tail(q)) /\ Head(q) \notin ToSet(Tail(q))
  <2>1. /\ Head(q) = q[1] /\ 1 \in 1 .. Len(q) /\ Len(Tail(q)) \in Nat
        /\ DOMAIN Tail(q) = 1 .. Len(Tail(q))
        /\ \A i \in 1 .. Len(Tail(q)) : i + 1 \in 1 .. Len(q) /\ Tail(q)[i] = q[i + 1]
    BY <1>1
  <2>2. Once(Tail(q))
    BY <2>1 DEF Once
  <2>3. Head(q) \notin ToSet(Tail(q))
    BY <2>1 DEF Once, ToSet
  <2> QED
    BY <2>2, <2>3
<1>2. ASSUME c \notin ToSet(q) PROVE Once(Append(q, c))
  <2>1. /\ Len(q) \in Nat /\ Len(Append(q, c)) = Len(q) + 1 /\ Append(q, c)[Len(q) + 1] = c
        /\ \A i \in 1 .. Len(q) : Append(q, c)[i] = q[i] /\ q[i] # c
    BY <1>2 DEF ToSet
  <2> QED
    BY <2>1 DEF Once
<1>3. ASSUME c \notin ToSet(q) PROVE Once(<<c>> \o q)
  <2>1. \A i \in 1 .. Len(q) : q[i] # c
    BY <1>3 DEF ToSet
  <2>2. /\ Len(q) \in Nat /\ Len(<<c>> \o q) = Len(q) + 1 /\ (<<c>> \o q)[1] = c
        /\ \A i \in 2 .. Len(q) + 1 : i - 1 \in 1 .. Len(q) /\ (<<c>> \o q)[i] = q[i - 1]
    OBVIOUS
  <2> QED
    BY <2>1, <2>2 DEF Once
<1> QED
  BY <1>1, <1>2, <1>3 DEF Once

\* The five things that the step of a server does with requests: nothing; the one
\* it had is acknowledged; it is lost with its exclusive queue; one is taken; one
\* is given back to the named queue.
Keeps(s)   == queue' = queue /\ unacked' = unacked
Clears(s)  == /\ unacked[s] \in Clients => Kind(unacked[s]) = "bare" \/ server[s] = "ack"
              /\ queue' = queue /\ unacked' = [unacked EXCEPT ![s] = NoRequest]
Loses(s)   == /\ QueueOf(s) # "named"
              /\ queue' = [queue EXCEPT ![QueueOf(s)] = << >>]
              /\ unacked' = [unacked EXCEPT ![s] = NoRequest]
Takes(s)   == /\ unacked[s] = NoRequest /\ queue[QueueOf(s)] # << >>
              /\ unacked' = [unacked EXCEPT ![s] = Head(queue[QueueOf(s)])]
              /\ queue' = [queue EXCEPT ![QueueOf(s)] = Tail(@)]
Returns(s) == /\ unacked[s] \in Clients /\ server[s] = "killed" /\ QueueOf(s) = "named"
              /\ queue' = [queue EXCEPT ![QueueOf(s)] = <<unacked[s]>> \o @]
              /\ unacked' = [unacked EXCEPT ![s] = NoRequest]

LEMMA ServerMoves ==
  ASSUME IInv, NEW s \in Serving, ServerStep(s) \/ Serve(s) \/ Kill(s)
  PROVE  /\ Keeps(s) \/ Clears(s) \/ Loses(s) \/ Takes(s) \/ Returns(s)
         /\ UNCHANGED clientVars
<1> USE DEF Keeps, Clears, Loses, Takes, Returns, brokerVars, clientVars, Acknowledge, Drop
<1>1. s \in Servers /\ "named" \notin Servers
  BY CastFacts, RpcAssumption DEF IInv, RpcAssumption
<1>2. CASE Serve(s) \/ Kill(s) \/ Overlook(s) \/ Prepare(s) \/ Reply(s)
  <2>1. queue' = queue /\ unacked' = unacked /\ UNCHANGED clientVars
    <3>1. CASE Serve(s)
      BY <3>1, Zenon DEF Serve
    <3>2. CASE Kill(s)
      BY <3>2 DEF Kill
    <3>3. CASE Overlook(s)
      BY <3>3 DEF Overlook
    <3>4. CASE Prepare(s)
      BY <3>4 DEF Prepare
    <3>5. CASE Reply(s)
      BY <3>5 DEF Reply
    <3> QED
      BY <1>2, <3>1, <3>2, <3>3, <3>4, <3>5
  <2> QED
    BY <2>1
<1>3. CASE Consume(s)
  BY <1>3 DEF Consume
<1>4. CASE DropBare(s) \/ Ack(s)
  BY <1>4 DEF DropBare, Ack, At
<1>5. CASE Unreadable(s)
  BY <1>1, <1>5 DEF Unreadable, QueueOf
<1>6. CASE Close(s)
  <2>1. CASE Exclusive(s)
    BY <1>1, <1>6, <2>1 DEF Close, QueueOf, Exclusive
  <2>2. CASE ~Exclusive(s) /\ unacked[s] = NoRequest
    <3>0. unacked[s] \notin Clients
      BY <2>2, CastFacts DEF IInv
    <3>1. queue \in [Queues -> Seq(Clients)]
      BY DEF IInv, TypeOK
    <3>2. queue' = [queue EXCEPT ![QueueOf(s)] = queue[QueueOf(s)]]
      BY <1>6, <2>2 DEF Close
    <3>3. queue' = queue
      BY <3>1, <3>2
    <3> QED
      BY <1>6, <2>2, <3>0, <3>3 DEF Close
  <2>3. CASE ~Exclusive(s) /\ unacked[s] # NoRequest
    <3>1. unacked[s] \in Clients
      BY <1>1, <2>3 DEF IInv, TypeOK
    <3> QED
      BY <1>6, <2>3, <3>1 DEF Close, QueueOf, Exclusive, At
  <2> QED
    BY <2>1, <2>2, <2>3
<1> QED
  BY <1>2, <1>3, <1>4, <1>5, <1>6 DEF ServerStep

\* A copy that moves stays where it belongs, and remains the only one.
LEMMA MovesKeepPlace ==
  ASSUME IInv, IInv', PlaceInv, OneCopyInv, NEW s \in Serving, UNCHANGED clientVars,
         Keeps(s) \/ Clears(s) \/ Loses(s) \/ Takes(s) \/ Returns(s)
  PROVE  PlaceInv' /\ OneCopyInv'
<1> USE DEF IInv, TypeOK, clientVars
<1> DEFINE Q == QueueOf(s)
<1>1. s \in Servers /\ Q \in Queues /\ NoRequest \notin Clients /\ queue[Q] \in Seq(Clients)
  BY CastFacts
<1>2. /\ Serving' = Serving /\ Running' = Running
      /\ \A t \in Servers : QueueOf(t)' = QueueOf(t)
      /\ \A c \in Clients, q \in Queues : Belongs(c, q)' <=> Belongs(c, q)
  BY DEF Serving, Running, QueueOf, Program, Served, Belongs, Sent, Direct, Run
<1>3. \A q \in Queues : ToSet(queue[q]) \subseteq Clients
  BY DEF ToSet
<1>4. /\ \A q \in Queues : q # Q => queue'[q] = queue[q]
      /\ \A t \in Servers : t # s => unacked'[t] = unacked[t]
  BY <1>1 DEF Keeps, Clears, Loses, Takes, Returns
<1> DEFINE Fits == /\ ToSet(queue'[Q]) \subseteq ToSet(queue[Q]) \cup ({unacked[s]} \cap Clients)
                   /\ unacked'[s] \in ToSet(queue[Q]) \cup {unacked[s], NoRequest}
                   /\ Once(queue'[Q])
                   /\ unacked'[s] \in Clients => unacked'[s] \notin ToSet(queue'[Q])
                   /\ \A t \in Servers : t # s /\ QueueOf(t) = Q /\ unacked[t] \in Clients =>
                        unacked[t] \notin ToSet(queue'[Q]) /\ unacked[t] # unacked'[s]
<1>5. Fits
  <2>1. CASE Keeps(s)
    BY <1>1, <2>1 DEF Keeps, OneCopyInv
  <2>2. CASE Clears(s)
    BY <1>1, <2>2 DEF Clears, OneCopyInv
  <2>3. CASE Loses(s)
    <3>1. queue'[Q] = << >> /\ unacked'[s] = NoRequest
      BY <1>1, <2>3 DEF Loses
    <3>2. ToSet(queue'[Q]) = {} /\ Once(queue'[Q])
      BY <3>1 DEF ToSet, Once
    <3> QED
      BY <1>1, <3>1, <3>2
  <2>4. CASE Takes(s)
    <3>1. queue[Q] # << >> /\ queue'[Q] = Tail(queue[Q]) /\ unacked'[s] = Head(queue[Q])
      BY <1>1, <2>4 DEF Takes
    <3>2. Head(queue[Q]) \in Clients
      BY <1>1, <3>1, HeadTail
    <3>3. /\ ToSet(queue[Q]) = {Head(queue[Q])} \cup ToSet(Tail(queue[Q]))
          /\ Once(Tail(queue[Q])) /\ Head(queue[Q]) \notin ToSet(Tail(queue[Q]))
      BY <1>1, <3>1, <3>2, Ends, EndsOnce DEF OneCopyInv
    <3> QED
      BY <1>1, <3>1, <3>2, <3>3 DEF OneCopyInv
  <2>5. CASE Returns(s)
    <3>1. queue'[Q] = <<unacked[s]>> \o queue[Q] /\ unacked'[s] = NoRequest /\ unacked[s] \in Clients
      BY <1>1, <2>5 DEF Returns
    <3>2. ToSet(queue'[Q]) = ToSet(queue[Q]) \cup {unacked[s]} /\ Once(queue'[Q])
      BY <1>1, <3>1, Ends, EndsOnce DEF OneCopyInv
    <3> QED
      BY <1>1, <3>1, <3>2 DEF OneCopyInv
  <2> QED
    BY <2>1, <2>2, <2>3, <2>4, <2>5
<1>6. PlaceInv'
  <2>1. \A q \in Queues : \A c \in ToSet(queue'[q]) : Belongs(c, q)
    <3>1. \A c \in ToSet(queue'[Q]) : Belongs(c, Q)
      BY <1>1, <1>5 DEF PlaceInv
    <3> QED
      BY <1>4, <3>1 DEF PlaceInv
  <2>2. \A t \in Servers : unacked'[t] \in Clients => t \in Serving /\ Belongs(unacked'[t], QueueOf(t))
    <3>1. unacked'[s] \in Clients => Belongs(unacked'[s], Q)
      BY <1>1, <1>5 DEF PlaceInv
    <3> QED
      BY <1>4, <3>1 DEF PlaceInv
  <2>3. \A q \in Queues : ToSet(queue'[q]) \subseteq Clients
    BY <1>1, <1>3, <1>4, <1>5
  <2> QED
    BY <1>1, <1>2, <2>1, <2>2, <2>3, CastFacts DEF PlaceInv
<1>7. OneCopyInv'
  <2>1. \A q \in Queues : Once(queue'[q])
    BY <1>4, <1>5 DEF OneCopyInv
  <2>2. \A t \in Servers : unacked'[t] \in Clients => unacked'[t] \notin ToSet(queue'[QueueOf(t)])
    BY <1>4, <1>5, CastFacts DEF OneCopyInv
  <2>3. \A t, u \in Servers :
          t # u /\ unacked'[t] \in Clients /\ unacked'[t] = unacked'[u] => QueueOf(t) # QueueOf(u)
    BY <1>4, <1>5 DEF OneCopyInv
  <2> QED
    BY <1>2, <2>1, <2>2, <2>3 DEF OneCopyInv
<1> QED
  BY <1>6, <1>7

-----------------------------------------------------------------------------
(***************************************************************************)
(* What the steps of a server make of it                                   *)
(***************************************************************************)

\* What a server step leaves of the other servers and of the replies.
LEMMA ServerAlone ==
  ASSUME IInv, NEW s \in Serving, ServerStep(s) \/ Serve(s) \/ Kill(s)
  PROVE  /\ \A t \in Servers : t # s => server'[t] = server[t] /\ unacked'[t] = unacked[t]
         /\ \A c \in Clients : inbox[c] # << >> => inbox'[c] # << >>
         /\ ~Reply(s) => UNCHANGED <<inbox, replies>> /\ server'[s] # "ack"
         /\ ~Kill(s) => UNCHANGED deaths
         /\ exists' \subseteq exists \cup {QueueOf(s)}
<1> USE DEF IInv, TypeOK, brokerVars, Acknowledge, Drop, Goto
<1>1. s \in Servers
  BY CastFacts
<1>2. CASE Serve(s)
  <2>1. /\ server' = [server EXCEPT ![s] = "consume"] /\ exists' = exists \cup {QueueOf(s)}
        /\ UNCHANGED <<inbox, replies, deaths, unacked>>
    BY <1>2, Zenon DEF Serve
  <2> QED
    BY <1>1, <2>1
<1>3. CASE Consume(s) \/ DropBare(s) \/ Overlook(s) \/ Prepare(s) \/ Ack(s)
  BY <1>1, <1>3 DEF Consume, DropBare, Overlook, Prepare, Ack
<1>4. CASE Unreadable(s)
  BY <1>1, <1>4 DEF Unreadable
<1>5. CASE Close(s)
  BY <1>1, <1>5 DEF Close
<1>6. CASE Kill(s)
  BY <1>1, <1>6 DEF Kill
<1>7. CASE Reply(s)
  <2>1. /\ server' = [server EXCEPT ![s] = "ack"] /\ UNCHANGED <<exists, deaths, unacked>>
        /\ unacked[s] \in Clients
        /\ inbox' \in {inbox, [inbox EXCEPT ![unacked[s]] = Append(@, unacked[s])]}
    BY <1>1, <1>7 DEF Reply, HandInv, At
  <2>2. Append(inbox[unacked[s]], unacked[s]) # << >>
    <3>1. inbox[unacked[s]] \in Seq(Clients)
      BY <2>1
    <3> QED
      BY <3>1, <2>1, Appended
  <2> QED
    BY <1>1, <1>7, <2>1, <2>2
<1> QED
  BY <1>2, <1>3, <1>4, <1>5, <1>6, <1>7 DEF ServerStep

\* No reply is forgotten before it is acknowledged.
LEMMA ServerReplies ==
  ASSUME CopyInv, IInv', NEW s \in Serving, ServerStep(s) \/ Serve(s) \/ Kill(s)
  PROVE  RepliedInv' /\ UnsentInv'
<1> USE DEF CopyInv, IInv, TypeOK
<1>1. /\ s \in Servers /\ QueueOf(s) \in QueuesServed
      /\ Serving' = Serving /\ Running' = Running /\ QueuesServed' = QueuesServed
      /\ UNCHANGED <<client, routed>>
  BY CastFacts, ServerMoves DEF clientVars, Serving, Running, QueuesServed, QueueOf, Program, Served
<1>2. exists' \subseteq QueuesServed
  BY <1>1, ServerAlone DEF UnsentInv
<1>3. CASE Reply(s)
  <2> DEFINE c == unacked[s]
  <2>1. /\ c \in Clients /\ Sent(c) /\ UNCHANGED unacked
        /\ replies' = [replies EXCEPT ![c] = @ + 1]
        /\ client[c] = "waiting" => inbox' = [inbox EXCEPT ![c] = Append(@, c)]
    BY <1>1, <1>3 DEF Reply, HandInv, At, PlaceInv, Belongs, brokerVars
  <2>2. client[c] = "waiting" => inbox'[c] # << >>
    <3>1. inbox[c] \in Seq(Clients)
      BY <2>1
    <3> QED
      BY <3>1, <2>1
  <2>3. RepliedInv'
    <3> SUFFICES ASSUME NEW t \in Servers, server'[t] = "ack", client[unacked[t]] = "waiting"
                 PROVE  inbox'[unacked[t]] # << >>
      BY <1>1, <2>1 DEF RepliedInv
    <3>1. CASE t = s
      BY <3>1, <2>2
    <3>2. CASE t # s
      <4>1. server[t] = "ack"
        BY <3>2, ServerAlone
      <4>2. unacked[t] \in Clients /\ inbox[unacked[t]] # << >>
        BY <4>1 DEF RepliedInv, HandInv
      <4> QED
        BY <4>2, ServerAlone
    <3> QED
      BY <3>1, <3>2
  <2>4. \A d \in Clients : ~Sent(d)' => d \notin routed' /\ replies'[d] = 0
    BY <1>1, <2>1 DEF UnsentInv, Sent
  <2> QED
    BY <1>2, <1>1, <2>3, <2>4 DEF UnsentInv
<1>4. CASE ~Reply(s)
  <2>1. /\ UNCHANGED <<inbox, replies>> /\ server'[s] # "ack"
        /\ \A t \in Servers : t # s => server'[t] = server[t] /\ unacked'[t] = unacked[t]
    BY <1>4, ServerAlone
  <2>2. RepliedInv'
    BY <1>1, <2>1 DEF RepliedInv
  <2>3. \A d \in Clients : ~Sent(d)' => d \notin routed' /\ replies'[d] = 0
    BY <1>1, <2>1 DEF UnsentInv, Sent
  <2> QED
    BY <1>2, <1>1, <2>2, <2>3 DEF UnsentInv
<1> QED
  BY <1>3, <1>4

\* "" is not the name of the named queue.
LEMMA NamedDirect == ASSUME NEW c, Run(c).queue = "named" PROVE Direct(c)
  BY Zenon DEF Direct

\* A request that is owed an answer does not leave the named queue and the hands of
\* its servers before the answer is there.
LEMMA ServerKeeps ==
  ASSUME CopyInv, IInv', NEW s \in Serving, ServerStep(s) \/ Serve(s) \/ Kill(s)
  PROVE  RequestKept'
<1> USE DEF CopyInv, IInv, TypeOK
<1>1. s \in Servers /\ UNCHANGED <<cast, client, routed>>
      /\ QueueOf(s) \in Queues /\ NoRequest \notin Clients
  BY CastFacts, ServerMoves DEF clientVars
<1> SUFFICES ASSUME NEW c \in Clients, Owed(c)
             PROVE  Queued(c)' \/ InHand(c)' \/ inbox'[c] # << >>
  BY <1>1 DEF RequestKept, Owed, Running, Run, Kind, Runs
<1>2. inbox[c] # << >> => inbox'[c] # << >>
  BY ServerAlone
<1> DEFINE Q == QueueOf(s)
<1>3. queue[Q] \in Seq(Clients)
  BY <1>1
<1>4. CASE Keeps(s)
  BY <1>2, <1>4 DEF Keeps, RequestKept, Queued, InHand
<1>5. CASE Clears(s)
  <2>1. CASE unacked[s] = c
    <3>1. server[s] = "ack" /\ client[c] = "waiting"
      BY <1>5, <2>1 DEF Clears, Owed
    <3> QED
      BY <1>1, <1>2, <2>1, <3>1 DEF RepliedInv
  <2>2. CASE unacked[s] # c
    <3>1. queue' = queue /\ \A t \in Servers : unacked[t] = c => unacked'[t] = c
      BY <1>1, <1>5, <2>2 DEF Clears
    <3> QED
      BY <1>2, <3>1 DEF RequestKept, Queued, InHand
  <2> QED
    BY <2>1, <2>2
<1>6. CASE Loses(s)
  <2>1. Q # "named" /\ Direct(c) /\ Run(c).queue = "named"
    BY <1>6, NamedDirect DEF Loses, Owed
  <2>2. unacked[s] # c /\ c \notin ToSet(queue[Q])
    BY <1>1, <2>1 DEF PlaceInv, Belongs
  <2> QED
    BY <1>1, <1>2, <1>6, <2>2 DEF Loses, RequestKept, Queued, InHand
<1>7. CASE Takes(s)
  <2>1. /\ queue[Q] # << >> /\ unacked[s] = NoRequest /\ unacked'[s] = Head(queue[Q])
        /\ queue'[Q] = Tail(queue[Q])
        /\ \A q \in Queues : q # Q => queue'[q] = queue[q]
        /\ \A t \in Servers : t # s => unacked'[t] = unacked[t]
    BY <1>1, <1>7 DEF Takes
  <2>2. ToSet(queue[Q]) = {Head(queue[Q])} \cup ToSet(Tail(queue[Q]))
    BY <1>3, <2>1, Ends
  <2>3. ASSUME Queued(c) PROVE Queued(c)' \/ InHand(c)'
    <3>1. PICK q \in Queues : c \in ToSet(queue[q])
      BY <2>3 DEF Queued
    <3>2. c \in ToSet(queue'[q]) \/ unacked'[s] = c
      BY <2>1, <2>2, <3>1
    <3> QED
      BY <1>1, <3>1, <3>2 DEF Queued, InHand
  <2>4. InHand(c) => InHand(c)'
    BY <1>1, <2>1 DEF InHand
  <2> QED
    BY <1>2, <2>3, <2>4 DEF RequestKept
<1>8. CASE Returns(s)
  <2>1. /\ unacked[s] \in Clients /\ queue'[Q] = <<unacked[s]>> \o queue[Q]
        /\ \A q \in Queues : q # Q => queue'[q] = queue[q]
        /\ \A t \in Servers : t # s => unacked'[t] = unacked[t]
    BY <1>1, <1>8 DEF Returns
  <2>2. ToSet(queue'[Q]) = ToSet(queue[Q]) \cup {unacked[s]}
    BY <1>3, <2>1, Ends
  <2> QED
    BY <1>1, <1>2, <2>1, <2>2 DEF RequestKept, Queued, InHand
<1> QED
  BY <1>4, <1>5, <1>6, <1>7, <1>8, ServerMoves

\* There are finitely many queues to count.
LEMMA OpenFinite ==
  ASSUME TypeOK, NEW c
  PROVE  /\ IsFiniteSet(Open(c)) /\ Cardinality(Open(c)) \in Nat
         /\ IsFiniteSet(QueuesServed) /\ Cardinality(QueuesServed) \in Nat
         /\ Cardinality(Open(c)) <= Cardinality(QueuesServed)
<1>1. IsFiniteSet(Servers \cup {"named"})
  BY RpcAssumption, FS_AddElement DEF RpcAssumption
<1>2. QueuesServed \subseteq Servers \cup {"named"}
  BY CastFacts DEF QueuesServed, Queues
<1>3. IsFiniteSet(QueuesServed)
  BY <1>1, <1>2, FS_Subset
<1>4. Open(c) \subseteq QueuesServed
  BY DEF Open
<1> QED
  BY <1>3, <1>4, FS_Subset, FS_CardinalityType

\* A queue is open for a request after a step of its server when it was before, or
\* the server was killed that was to acknowledge; a reply closes its queue.
LEMMA ServerOpens ==
  ASSUME CopyInv, IInv', NEW s \in Serving, ServerStep(s) \/ Serve(s) \/ Kill(s), NEW c \in Clients
  PROVE  /\ ~Kill(s) \/ QueueOf(s) # "named" => Open(c)' \subseteq Open(c)
         /\ Open(c)' \subseteq Open(c) \cup {QueueOf(s)}
         /\ Reply(s) /\ unacked[s] = c => QueueOf(s) \in Open(c) /\ QueueOf(s) \notin Open(c)'
<1> USE DEF CopyInv, IInv, TypeOK
<1> DEFINE Q == QueueOf(s)
<1>1. /\ s \in Servers /\ Serving \subseteq Servers /\ Q \in Queues /\ Q \in QueuesServed
      /\ Serving' = Serving /\ QueuesServed' = QueuesServed /\ NoRequest \notin Clients
      /\ \A t : QueueOf(t)' = QueueOf(t)
      /\ queue[Q] \in Seq(Clients)
  <2>1. UNCHANGED cast
    BY ServerMoves DEF clientVars
  <2>2. Serving' = Serving /\ QueuesServed' = QueuesServed /\ \A t : QueueOf(t)' = QueueOf(t)
    BY <2>1 DEF Serving, QueuesServed, QueueOf, Program, Served
  <2>3. Q \in QueuesServed
    BY DEF QueuesServed
  <2> QED
    BY <2>2, <2>3, CastFacts
<1>2. /\ \A t \in Servers : t # s => server'[t] = server[t] /\ unacked'[t] = unacked[t]
      /\ \A q \in Queues : q # Q => queue'[q] = queue[q]
  <2>1. \A t \in Servers : t # s => server'[t] = server[t] /\ unacked'[t] = unacked[t]
    BY ServerAlone
  <2>2. Keeps(s) \/ Clears(s) \/ Loses(s) \/ Takes(s) \/ Returns(s)
    BY ServerMoves
  <2>3. \A q \in Queues : q # Q => queue'[q] = queue[q]
    BY <1>1, <2>2 DEF Keeps, Clears, Loses, Takes, Returns
  <2> QED
    BY <2>1, <2>3
<1>3. ASSUME c \in ToSet(queue'[Q]) PROVE c \in ToSet(queue[Q]) \/ Holds(s, c)
  <2>1. CASE Keeps(s) \/ Clears(s)
    BY <1>3, <2>1 DEF Keeps, Clears
  <2>2. CASE Loses(s)
    BY <1>1, <1>3, <2>2, Ends DEF Loses
  <2>3. CASE Takes(s)
    <3>1. queue'[Q] = Tail(queue[Q]) /\ queue[Q] # << >>
      BY <1>1, <2>3 DEF Takes
    <3> QED
      BY <1>1, <1>3, <3>1, Ends
  <2>4. CASE Returns(s)
    <3>1. queue'[Q] = <<unacked[s]>> \o queue[Q] /\ unacked[s] \in Clients
      BY <1>1, <2>4 DEF Returns
    <3>2. c \in ToSet(queue[Q]) \cup {unacked[s]}
      BY <1>1, <1>3, <3>1, Ends
    <3> QED
      BY <2>4, <3>2 DEF Returns, Holds
  <2> QED
    BY <2>1, <2>2, <2>3, <2>4, ServerMoves
<1>4. ASSUME Holds(s, c)' PROVE c \in ToSet(queue[Q]) \/ Holds(s, c) \/ (Kill(s) /\ Q = "named")
  <2> USE <1>1, <1>4 DEF Holds, Goto, At
  <2>1. CASE Serve(s)
    <3>1. server' = [server EXCEPT ![s] = "consume"]
      BY <2>1, Zenon DEF Serve
    <3> QED
      BY <3>1
  <2>2. CASE Kill(s)
    BY <2>2, <1>1 DEF Kill
  <2>3. CASE Consume(s)
    <3>1. c = Head(queue[Q]) /\ queue[Q] # << >>
      BY <2>3 DEF Consume
    <3> QED
      BY <1>1, <3>1, Ends
  <2>4. CASE Prepare(s)
    BY <2>4 DEF Prepare
  <2>5. CASE DropBare(s) \/ Unreadable(s) \/ Overlook(s) \/ Reply(s) \/ Ack(s) \/ Close(s)
    BY <2>5 DEF DropBare, Unreadable, Overlook, Reply, Ack, Close
  <2> QED
    BY <2>1, <2>2, <2>3, <2>4, <2>5 DEF ServerStep
<1>5. ASSUME NEW q \in Open(c)' PROVE q \in Open(c) \/ (q = Q /\ Kill(s) /\ Q = "named")
  <2>0. q \in QueuesServed /\ q \in Queues
    BY <1>1, <1>5, CastFacts DEF Open, QueuesServed
  <2>1. CASE c \in ToSet(queue'[q])
    BY <1>1, <1>2, <1>3, <2>0, <2>1 DEF Open
  <2>2. ASSUME NEW t \in Serving, QueueOf(t) = q, Holds(t, c)'
        PROVE  q \in Open(c) \/ (q = Q /\ Kill(s) /\ Q = "named")
    <3>1. CASE t = s
      BY <1>1, <1>4, <2>0, <2>2, <3>1 DEF Open
    <3>2. CASE t # s
      <4>1. Holds(t, c)
        BY <1>1, <1>2, <2>2, <3>2 DEF Holds
      <4> QED
        BY <2>0, <2>2, <4>1 DEF Open
    <3> QED
      BY <3>1, <3>2
  <2> QED
    BY <1>1, <1>5, <2>1, <2>2 DEF Open
<1>6. ASSUME Reply(s), unacked[s] = c PROVE Q \in Open(c) /\ Q \notin Open(c)'
  <2>1. server[s] = "publish" /\ server'[s] = "ack" /\ UNCHANGED <<queue, unacked>>
    BY <1>1, <1>6 DEF Reply, At, Goto, brokerVars
  <2>2. Q \in Open(c)
    BY <1>1, <1>6, <2>1 DEF Open, Holds
  <2>3. c \notin ToSet(queue'[Q])
    BY <1>1, <1>6, <2>1 DEF OneCopyInv
  <2>4. ASSUME NEW t \in Serving, QueueOf(t) = Q PROVE ~Holds(t, c)'
    <3>1. CASE t = s
      BY <2>1, <3>1 DEF Holds
    <3>2. CASE t # s
      BY <1>1, <1>6, <2>1, <2>4, <3>2 DEF OneCopyInv, Holds
    <3> QED
      BY <3>1, <3>2
  <2> QED
    BY <1>1, <2>2, <2>3, <2>4 DEF Open
<1> QED
  BY <1>5, <1>6

\* So the replies and the queues that are left do not outgrow the queues there are
\* and the deaths.
LEMMA ServerCounts ==
  ASSUME CopyInv, IInv', NEW s \in Serving, ServerStep(s) \/ Serve(s) \/ Kill(s)
  PROVE  CountInv'
<1> USE DEF CopyInv, IInv
<1> DEFINE Q == QueueOf(s)
<1>1. /\ QueuesServed' = QueuesServed /\ (Redelivering' <=> Redelivering)
      /\ Q = "named" => Redelivering
      /\ s \in Servers /\ replies \in [Clients -> Nat] /\ deaths \in Nat
  <2>1. UNCHANGED cast
    BY ServerMoves DEF clientVars
  <2>2. QueuesServed' = QueuesServed /\ (Redelivering' <=> Redelivering)
    BY <2>1 DEF Serving, QueuesServed, QueueOf, Program, Served, Redelivering
  <2>3. s \in Servers /\ "named" \notin Servers
    BY CastFacts, RpcAssumption DEF RpcAssumption
  <2>4. Q = "named" => Redelivering
    BY <2>3 DEF QueueOf, Redelivering
  <2> QED
    BY <2>2, <2>3, <2>4 DEF TypeOK
<1> SUFFICES ASSUME NEW c \in Clients
             PROVE  replies'[c] + Cardinality(Open(c)') <= Cardinality(QueuesServed) + Deaths'
  BY <1>1 DEF CountInv
<1>2. /\ replies[c] + Cardinality(Open(c)) <= Cardinality(QueuesServed) + Deaths
      /\ IsFiniteSet(Open(c)) /\ Cardinality(Open(c)) \in Nat /\ Cardinality(QueuesServed) \in Nat
      /\ replies[c] \in Nat /\ Deaths \in Nat
  BY <1>1, OpenFinite DEF CountInv, Deaths
<1>3. CASE Kill(s)
  <2>1. UNCHANGED replies /\ deaths' = deaths + 1
    BY <1>3 DEF Kill
  <2>2. CASE Q = "named"
    <3>1. Deaths' = Deaths + 1
      BY <1>1, <2>1, <2>2 DEF Deaths
    <3>2. Open(c)' \subseteq Open(c) \cup {Q}
      BY ServerOpens
    <3>3. Cardinality(Open(c)') <= Cardinality(Open(c)) + 1 /\ Cardinality(Open(c)') \in Nat
      <4>1. /\ IsFiniteSet(Open(c) \cup {Q})
            /\ Cardinality(Open(c) \cup {Q}) \in {Cardinality(Open(c)), Cardinality(Open(c)) + 1}
        BY <1>2, FS_AddElement
      <4>2. IsFiniteSet(Open(c)') /\ Cardinality(Open(c)') <= Cardinality(Open(c) \cup {Q})
        BY <3>2, <4>1, FS_Subset
      <4>3. Cardinality(Open(c)') \in Nat
        BY <4>2, FS_CardinalityType
      <4> QED
        BY <1>2, <4>1, <4>2, <4>3
    <3> QED
      BY <1>2, <2>1, <3>1, <3>3
  <2>3. CASE Q # "named"
    <3>1. Deaths' >= Deaths /\ Deaths' \in Nat
      BY <1>1, <2>1 DEF Deaths
    <3>2. Open(c)' \subseteq Open(c)
      BY <2>3, ServerOpens
    <3>3. Cardinality(Open(c)') <= Cardinality(Open(c)) /\ Cardinality(Open(c)') \in Nat
      BY <1>2, <3>2, FS_Subset, FS_CardinalityType
    <3> QED
      BY <1>2, <2>1, <3>1, <3>3
  <2> QED
    BY <2>2, <2>3
<1>4. CASE ~Kill(s)
  <2>1. Open(c)' \subseteq Open(c) /\ UNCHANGED deaths
    BY <1>4, ServerOpens, ServerAlone
  <2>2. Deaths' = Deaths
    BY <1>1, <2>1 DEF Deaths
  <2>3. Cardinality(Open(c)') <= Cardinality(Open(c)) /\ Cardinality(Open(c)') \in Nat
    BY <1>2, <2>1, FS_Subset, FS_CardinalityType
  <2>4. CASE Reply(s) /\ unacked[s] = c
    <3>1. replies'[c] = replies[c] + 1
      BY <1>1, <2>4 DEF Reply
    <3>2. Q \in Open(c) /\ Open(c)' \subseteq Open(c) \ {Q}
      BY <2>1, <2>4, ServerOpens
    <3>3. IsFiniteSet(Open(c) \ {Q}) /\ Cardinality(Open(c) \ {Q}) = Cardinality(Open(c)) - 1
      BY <1>2, <3>2, FS_RemoveElement
    <3>4. Cardinality(Open(c)') <= Cardinality(Open(c) \ {Q})
      BY <3>2, <3>3, FS_Subset
    <3> QED
      BY <1>2, <2>2, <2>3, <3>1, <3>3, <3>4
  <2>5. CASE ~(Reply(s) /\ unacked[s] = c)
    <3>1. replies'[c] = replies[c]
      <4>1. CASE Reply(s)
        BY <1>1, <2>5, <4>1 DEF Reply, HandInv, At
      <4>2. CASE ~Reply(s)
        BY <4>2, ServerAlone
      <4> QED
        BY <4>1, <4>2
    <3> QED
      BY <1>2, <2>2, <2>3, <3>1
  <2> QED
    BY <2>4, <2>5
<1> QED
  BY <1>3, <1>4

LEMMA ServerCopies ==
  ASSUME CopyInv, IInv', NEW s \in Serving, ServerStep(s) \/ Serve(s) \/ Kill(s)
  PROVE  CopyInv'
  BY ServerMoves, MovesKeepPlace, ServerReplies, ServerKeeps, ServerCounts DEF CopyInv

-----------------------------------------------------------------------------
(***************************************************************************)
(* What the steps of a client make of it                                   *)
(***************************************************************************)

\* Some steps of a client touch no copy: the queues and the servers are as they
\* were, no client goes back to before its request, and one that does not send
\* its own leaves the others where they are.
Elsewhere(c) ==
  /\ UNCHANGED <<brokerVars, serverVars, routed, replies>>
  /\ \A d \in Clients : d # c => client'[d] = client[d] /\ inbox'[d] = inbox[d]
  /\ client'[c] # "waiting"
  /\ Sent(c) => Sent(c)'

\* A client that subscribes, fails to send, is answered or gives up.
LEMMA ClientAlone ==
  ASSUME IInv, NEW c \in Running,
         Subscribe(c) \/ RequestFails(c) \/ Receive(c) \/ ReceiveAny(c) \/ Quit(c)
  PROVE  Elsewhere(c)
<1> USE DEF IInv, TypeOK, Move
<1>1. c \in Clients /\ inbox[c] \in Seq(Clients)
  BY CastFacts
<1>2. CASE Subscribe(c)
  BY <1>1, <1>2 DEF Subscribe, Elsewhere, Sent
<1>3. CASE RequestFails(c)
  <2>1. UNCHANGED <<brokerVars, serverVars, inbox, routed, replies>> /\ Move(c, "quit")
    BY <1>3, Zenon DEF RequestFails
  <2> QED
    BY <1>1, <2>1 DEF Elsewhere, Sent, serverVars, Running
<1>4. CASE (Receive(c) \/ ReceiveAny(c)) /\ Settle(c)
  BY <1>1, <1>4 DEF Receive, ReceiveAny, Settle, Elsewhere, Sent, serverVars, Running
<1>5. CASE Receive(c) /\ ~Settle(c)
  <2>1. inbox[c] # << >> /\ CorId[Head(inbox[c])] # CorId[c]
    BY <1>5 DEF Receive
  <2> QED
    BY <1>1, <2>1, HeadTail DEF InboxInv
<1>6. CASE Quit(c)
  BY <1>1, <1>6 DEF Quit, Elsewhere, Sent, serverVars, Running
<1> QED
  BY <1>2, <1>3, <1>4, <1>5, <1>6 DEF ReceiveAny

LEMMA ElsewhereCopies ==
  ASSUME CopyInv, IInv', NEW c \in Running, Elsewhere(c)
  PROVE  CopyInv'
<1> USE DEF CopyInv, Elsewhere, brokerVars, serverVars
<1>1. /\ c \in Clients /\ Serving' = Serving /\ Running' = Running /\ QueuesServed' = QueuesServed
      /\ \A s : QueueOf(s)' = QueueOf(s)
      /\ \A d \in Clients : Sent(d) => Sent(d)'
  BY CastFacts DEF IInv, Serving, Running, QueuesServed, QueueOf, Program, Served, Sent
<1>2. \A d \in Clients : \A q : Belongs(d, q) => Belongs(d, q)'
  BY <1>1, Zenon DEF Belongs, Direct, Run
<1>3. PlaceInv'
  <2>1. \A q \in Queues : ToSet(queue[q]) \subseteq Clients
    BY DEF IInv, TypeOK, ToSet
  <2> QED
    BY <1>1, <1>2, <2>1 DEF PlaceInv
<1>4. OneCopyInv'
  BY <1>1 DEF OneCopyInv
<1>5. RepliedInv'
  <2> SUFFICES ASSUME NEW s \in Servers, server[s] = "ack", client'[unacked[s]] = "waiting"
               PROVE  inbox'[unacked[s]] # << >>
    BY DEF RepliedInv
  <2> QED
    BY <1>1 DEF RepliedInv, IInv, HandInv
<1>6. UnsentInv'
  BY <1>1 DEF UnsentInv
<1>7. RequestKept'
  <2> SUFFICES ASSUME NEW d \in Clients, Owed(d)' PROVE Queued(d)' \/ InHand(d)' \/ inbox'[d] # << >>
    BY DEF RequestKept
  <2>1. d # c /\ Owed(d)
    BY <1>1 DEF Owed, Run, Kind, Runs
  <2> QED
    BY <2>1 DEF RequestKept, Queued, InHand
<1>8. CountInv'
  <2>1. \A d \in Clients : Open(d)' = Open(d)
    BY <1>1 DEF Open, Holds
  <2>2. Deaths' = Deaths
    BY <1>1 DEF Deaths, Redelivering, Program, Served
  <2> QED
    BY <1>1, <2>1, <2>2 DEF CountInv
<1> QED
  BY <1>3, <1>4, <1>5, <1>6, <1>7, <1>8

\* A request that is sent gets one copy in each of its queues, and had none.
LEMMA RequestCopies ==
  ASSUME CopyInv, IInv', NEW c \in Running, Request(c)
  PROVE  CopyInv'
<1> USE DEF CopyInv
<1>1. /\ client[c] = "subscribed" /\ client' = [client EXCEPT ![c] = "waiting"]
      /\ queue' = [q \in Queues |-> IF q \in Targets(c) THEN Append(queue[q], c) ELSE queue[q]]
      /\ routed' = IF Targets(c) = {} THEN routed ELSE routed \cup {c}
      /\ UNCHANGED <<cast, server, unacked, exists, deaths, inbox, answer, replies>>
  BY Zenon DEF Request, Move, serverVars
<1>2. /\ c \in Clients /\ Serving \subseteq Servers /\ Serving' = Serving /\ Running' = Running
      /\ QueuesServed' = QueuesServed /\ \A s : QueueOf(s)' = QueueOf(s)
      /\ \A s \in Servers : QueueOf(s) \in Queues
      /\ \A q \in Queues : queue[q] \in Seq(Clients)
      /\ \A q \in Queues : ToSet(queue[q]) \subseteq Clients
      /\ client \in [Clients -> {"start", "subscribed", "waiting", "done", "quit"}]
      /\ NoRequest \notin Clients
  BY <1>1, CastFacts DEF IInv, TypeOK, Serving, Running, QueuesServed, QueueOf, Program, Served, ToSet
<1>3. /\ ~Sent(c) /\ Sent(c)' /\ c \notin routed /\ replies[c] = 0
      /\ \A d \in Clients : d # c => client'[d] = client[d] /\ (Sent(d)' <=> Sent(d))
  BY <1>1, <1>2 DEF Sent, UnsentInv
<1>4. /\ \A q \in Queues : c \notin ToSet(queue[q])
      /\ \A s \in Servers : unacked[s] # c
  BY <1>2, <1>3 DEF PlaceInv, Belongs
<1>5. /\ \A q \in Queues : ToSet(queue'[q]) = ToSet(queue[q]) \cup (IF q \in Targets(c) THEN {c} ELSE {})
      /\ \A q \in Queues : Once(queue'[q])
  <2> SUFFICES ASSUME NEW q \in Queues
               PROVE  /\ ToSet(queue'[q]) = ToSet(queue[q]) \cup (IF q \in Targets(c) THEN {c} ELSE {})
                      /\ Once(queue'[q])
    OBVIOUS
  <2>1. Once(queue[q]) /\ queue[q] \in Seq(Clients) /\ c \notin ToSet(queue[q])
    BY <1>2, <1>4 DEF OneCopyInv
  <2>2. CASE q \in Targets(c)
    BY <1>1, <1>2, <2>1, <2>2, Ends, EndsOnce
  <2>3. CASE q \notin Targets(c)
    BY <1>1, <2>1, <2>3
  <2> QED
    BY <2>2, <2>3
<1>6. /\ Targets(c) \subseteq exists /\ exists \subseteq QueuesServed /\ exists \subseteq Queues
      /\ \A q \in Targets(c) : Direct(c) => q = Run(c).queue
  BY DEF Targets, UnsentInv, IInv, TypeOK
<1>7. PlaceInv'
  <2>1. \A d \in Clients : \A q : Direct(d)' = Direct(d) /\ Run(d)' = Run(d)
    BY <1>1, Zenon DEF Direct, Run
  <2>2. \A d \in Clients : \A q : Belongs(d, q) => Belongs(d, q)'
    BY <1>3, <2>1 DEF Belongs
  <2>3. \A q \in Targets(c) : Belongs(c, q)'
    BY <1>2, <1>3, <1>6, <2>1 DEF Belongs
  <2> QED
    BY <1>1, <1>2, <1>5, <2>2, <2>3 DEF PlaceInv
<1>8. OneCopyInv'
  <2>1. \A s \in Servers : unacked[s] \in Clients => unacked[s] \notin ToSet(queue'[QueueOf(s)])
    BY <1>2, <1>4, <1>5 DEF OneCopyInv
  <2> QED
    BY <1>1, <1>2, <1>5, <2>1 DEF OneCopyInv
<1>9. RepliedInv'
  <2> SUFFICES ASSUME NEW s \in Servers, server[s] = "ack", client'[unacked[s]] = "waiting"
               PROVE  inbox[unacked[s]] # << >>
    BY <1>1 DEF RepliedInv
  <2> QED
    BY <1>3, <1>4 DEF RepliedInv, IInv, HandInv
<1>10. UnsentInv'
  BY <1>1, <1>2, <1>3 DEF UnsentInv
<1>11. RequestKept'
  <2> SUFFICES ASSUME NEW d \in Clients, Owed(d)' PROVE Queued(d)' \/ InHand(d)' \/ inbox'[d] # << >>
    BY DEF RequestKept
  <2>1. CASE d = c
    <3>1. Targets(c) # {}
      BY <1>1, <1>3, <2>1 DEF Owed
    <3> QED
      BY <1>5, <1>6, <2>1, <3>1 DEF Queued
  <2>2. CASE d # c
    <3>1. Owed(d)
      BY <1>1, <1>3, <2>2 DEF Owed, Run, Kind, Runs, Running
    <3> QED
      BY <1>1, <1>5, <3>1 DEF RequestKept, Queued, InHand
  <2> QED
    BY <2>1, <2>2
<1>12. CountInv'
  <2> SUFFICES ASSUME NEW d \in Clients
               PROVE  replies[d] + Cardinality(Open(d)') <= Cardinality(QueuesServed) + Deaths'
    BY <1>1, <1>2 DEF CountInv
  <2>1. /\ Deaths' = Deaths /\ Deaths \in Nat
        /\ IsFiniteSet(QueuesServed) /\ Cardinality(QueuesServed) \in Nat
    BY <1>1, OpenFinite DEF Deaths, Redelivering, Program, Served, Serving, IInv, TypeOK
  <2>2. CASE d = c
    <3>1. Open(d)' \subseteq QueuesServed
      BY <1>2 DEF Open
    <3>2. Cardinality(Open(d)') <= Cardinality(QueuesServed) /\ Cardinality(Open(d)') \in Nat
      BY <2>1, <3>1, FS_Subset, FS_CardinalityType
    <3> QED
      BY <1>3, <2>1, <2>2, <3>2
  <2>3. CASE d # c
    <3>1. \A q \in Queues : d \in ToSet(queue'[q]) <=> d \in ToSet(queue[q])
      BY <1>5, <2>3
    <3>2. QueuesServed \subseteq Queues
      BY <1>2 DEF QueuesServed
    <3>3. Open(d)' = Open(d)
      BY <1>1, <1>2, <3>1, <3>2 DEF Open, Holds
    <3> QED
      BY <2>1, <3>3 DEF CountInv
  <2> QED
    BY <2>2, <2>3
<1> QED
  BY <1>7, <1>8, <1>9, <1>10, <1>11, <1>12

-----------------------------------------------------------------------------
LEMMA InitCopyInv == Init => CopyInv
<1> SUFFICES ASSUME Init PROVE CopyInv
  OBVIOUS
<1>1. IInv /\ NoRequest \notin Clients
  BY InitIInv, CastFacts DEF IInv
<1>2. \A q \in Queues : queue[q] = << >> /\ ToSet(queue[q]) = {}
  BY DEF Init, ToSet
<1>3. PlaceInv /\ OneCopyInv /\ RepliedInv /\ UnsentInv
  BY <1>1, <1>2 DEF Init, PlaceInv, OneCopyInv, Once, RepliedInv, UnsentInv, QueuesServed
<1>4. RequestKept
  BY DEF Init, RequestKept, Owed
<1>5. CountInv
  <2> SUFFICES ASSUME NEW c \in Clients
               PROVE  replies[c] + Cardinality(Open(c)) <= Cardinality(QueuesServed) + Deaths
    BY DEF CountInv
  <2>1. replies[c] = 0 /\ Deaths = 0
    BY DEF Init, Deaths
  <2>2. Cardinality(Open(c)) <= Cardinality(QueuesServed)
        /\ Cardinality(Open(c)) \in Nat /\ Cardinality(QueuesServed) \in Nat
    BY <1>1, OpenFinite DEF IInv
  <2> QED
    BY <2>1, <2>2
<1> QED
  BY <1>1, <1>3, <1>4, <1>5 DEF CopyInv

LEMMA NextCopyInv == CopyInv /\ [Next]_vars => CopyInv'
<1> SUFFICES ASSUME CopyInv, [Next]_vars PROVE CopyInv'
  OBVIOUS
<1>1. IInv'
  BY NextIInv DEF CopyInv
<1>2. CASE UNCHANGED vars
  <2>1. /\ Serving' = Serving /\ Running' = Running /\ QueuesServed' = QueuesServed
        /\ \A s : QueueOf(s)' = QueueOf(s)
    BY <1>2 DEF vars, Serving, Running, QueuesServed, QueueOf, Program, Served
  <2>2. \A c, q : Belongs(c, q)' = Belongs(c, q) /\ Sent(c)' = Sent(c)
    <3>1. \A c : Sent(c)' = Sent(c) /\ Direct(c)' = Direct(c) /\ Run(c)' = Run(c)
      BY <1>2, Zenon DEF vars, Sent, Running, Direct, Run
    <3> QED
      BY <3>1 DEF Belongs
  <2>3. \A c : Open(c)' = Open(c) /\ Owed(c)' = Owed(c) /\ Queued(c)' = Queued(c) /\ InHand(c)' = InHand(c)
    BY <1>2, <2>1 DEF vars, Open, Holds, Owed, Run, Kind, Runs, Queued, InHand
  <2>4. Deaths' = Deaths
    BY <1>2, <2>1 DEF vars, Deaths, Redelivering, Program, Served
  <2>5. PlaceInv' /\ OneCopyInv' /\ RepliedInv' /\ UnsentInv'
    BY <1>2, <2>1, <2>2 DEF CopyInv, vars, PlaceInv, OneCopyInv, RepliedInv, UnsentInv
  <2>6. RequestKept' /\ CountInv'
    BY <1>2, <2>1, <2>3, <2>4 DEF CopyInv, vars, RequestKept, CountInv
  <2> QED
    BY <1>1, <2>5, <2>6 DEF CopyInv
<1>3. ASSUME NEW s \in Serving, ServerStep(s) \/ Serve(s) \/ Kill(s) PROVE CopyInv'
  BY <1>1, <1>3, ServerCopies
<1>4. ASSUME NEW c \in Running, ClientStep(c) \/ Subscribe(c) \/ Quit(c) PROVE CopyInv'
  BY <1>1, <1>4, RequestCopies, ClientAlone, ElsewhereCopies DEF ClientStep, CopyInv
<1> QED
  BY <1>2, <1>3, <1>4 DEF Next

LEMMA Copies == Spec => []CopyInv
  BY InitCopyInv, NextCopyInv, PTL DEF Spec

\* A request that the named queue took is not lost while its client waits, whoever
\* is killed and when, in every cast.
THEOREM RequestsAreKept == Spec => []RequestKept
<1>1. CopyInv => RequestKept
  BY DEF CopyInv
<1> QED
  BY <1>1, Copies, PTL

\* There is a reply for each queue that served a request and one for each death at
\* most, and none for a death when no server reads the named queue.
THEOREM RepliesAreBounded == Spec => []RepliesBounded
<1>1. ASSUME CopyInv PROVE RepliesBounded
  <2> SUFFICES ASSUME NEW c \in Clients
               PROVE  replies[c] <= Cardinality(QueuesServed) + Deaths
    BY DEF RepliesBounded, Deaths
  <2>1. replies[c] + Cardinality(Open(c)) <= Cardinality(QueuesServed) + Deaths
    BY <1>1 DEF CopyInv, CountInv
  <2>2. Cardinality(Open(c)) \in Nat /\ Cardinality(QueuesServed) \in Nat
    BY <1>1, OpenFinite DEF CopyInv, IInv
  <2>3. replies[c] \in Nat /\ Deaths \in Nat
    BY <1>1 DEF CopyInv, IInv, TypeOK, Deaths
  <2> QED
    BY <2>1, <2>2, <2>3
<1> QED
  BY <1>1, Copies, PTL
=============================================================================
