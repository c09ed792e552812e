-------------------------------- MODULE Rpc --------------------------------
(***************************************************************************)
(* Remote procedure calls over the message broker: the server programs     *)
(* connection_server, echo_exchange_server and echo_direct_server, the     *)
(* client programs connection_request, disconnection_request, fetch_status,*)
(* rpc_request and direct_request_perms, each of which sends one request,  *)
(* and as much of the broker as they use.                                  *)
(*                                                                         *)
(* A request is named by its client, a reply by the request it answers.    *)
(* A direct server reads a queue with a name, shared by all direct servers *)
(* and there to stay; the others read an exclusive queue of their own that *)
(* is bound to the exchange and lives as long as their connection.         *)
(***************************************************************************)
EXTENDS SequencesExt, Topics

CONSTANTS
  Servers, Clients,
  Casts,      \* what the programs are started with, by name; see the assumption
  CorId,      \* the correlation id each client draws
  Exchanges,  \* the exchanges there are
  Keys,       \* the routing keys
  NoRequest   \* no request at all

\* "bare" and "unreadable" are no programs of ours: they publish a request without
\* correlation id or reply-to, and one that cannot be decoded.
ClientPrograms == {"connection_request", "disconnection_request", "fetch_status",
                   "rpc_request", "direct_request", "bare", "unreadable"}

\* "" is an option that is not given; "named" is the queue with a name.
Queues == Servers \cup {"named"}
ServerOptions == [program : {"echo_direct_server", "echo_exchange_server", "connection_server"},
                  exchange : STRING, topics : Seq(SUBSET Keys)]
ClientOptions == [program : ClientPrograms, exchange : STRING,
                  queue : Queues \cup {""}, key : Keys]

\* A cast says which servers and clients there are and, as a bound, how many
\* servers are killed.
ASSUME RpcAssumption ==
  /\ "named" \notin Servers /\ NoRequest \notin Clients /\ IsFiniteSet(Servers)
  /\ "connection" \in Keys
  /\ \A x \in DOMAIN Casts :
       /\ Casts[x].kills \in Nat
       /\ DOMAIN Casts[x].serves \subseteq Servers /\ DOMAIN Casts[x].runs \subseteq Clients
       /\ \A s \in DOMAIN Casts[x].serves : Casts[x].serves[s] \in ServerOptions
       /\ \A c \in DOMAIN Casts[x].runs : Casts[x].runs[c] \in ClientOptions

VARIABLES
  cast,      \* the name of the cast of this behaviour
  queue,     \* the requests in each queue
  exists,    \* the queues there are
  unacked,   \* the request delivered to a server and not acknowledged
  server,    \* where each server program is
  client,    \* where each client program is
  inbox,     \* the reply queue of each client
  answer,    \* the reply a client stopped waiting with
  deaths,    \* how many servers were killed
  routed,    \* history: the requests that a queue took
  replies    \* history: the replies published to each request

vars == <<cast, queue, exists, unacked, server, client, inbox, answer, deaths, routed, replies>>

Serving == DOMAIN Casts[cast].serves
Running == DOMAIN Casts[cast].runs
Served(s) == Casts[cast].serves[s]
Run(c) == Casts[cast].runs[c]
Program(s) == Served(s).program
Runs(c) == Run(c).program

\* What the servers tell apart in a request.
Kind(c) == CASE Runs(c) = "connection_request"     -> "connection"
             [] Runs(c) \in {"bare", "unreadable"} -> Runs(c)
             [] OTHER                               -> "other"

QueueOf(s) == IF Program(s) = "echo_direct_server" THEN "named" ELSE s

\* Mutant: every server declares its queue exclusive.
ExclusiveAll(s) == TRUE

\* Whether the queue goes when its server does.
Exclusive(s) == Program(s) # "echo_direct_server"

\* The exchange and the routing key of a request; rpc_request has a default.
ExchangeOf(c) ==
  CASE Runs(c) \in {"connection_request", "disconnection_request"} -> "subcontractor.service"
    [] Runs(c) = "fetch_status"                                    -> "resource_request.service"
    [] Runs(c) = "rpc_request" /\ Run(c).exchange = ""       -> "resource_request"
    [] OTHER                                                       -> Run(c).exchange
KeyOf(c) == IF Runs(c) \in {"connection_request", "disconnection_request"}
            THEN "connection" ELSE Run(c).key

\* A request that goes to a queue and not through an exchange.
Direct(c) == Run(c).queue # ""

\* The queue of a server is bound by the topics it was started with.
IsBound(s, c) ==
  /\ Served(s).exchange = ExchangeOf(c)
  /\ Matches(Bindings(Served(s).topics, Keys), KeyOf(c))

\* The queues that take a request.
Targets(c) ==
  IF Direct(c) THEN exists \cap {Run(c).queue}
  ELSE {s \in exists \cap Servers : IsBound(s, c)}

TypeOK ==
  /\ cast \in DOMAIN Casts
  /\ queue \in [Queues -> Seq(Clients)]
  /\ exists \subseteq Queues
  /\ unacked \in [Servers -> Clients \cup {NoRequest}]
  /\ server \in [Servers -> {"off", "consume", "handle", "publish", "ack", "crashed", "killed"}]
  /\ client \in [Clients -> {"start", "subscribed", "waiting", "done", "quit"}]
  /\ inbox \in [Clients -> Seq(Clients)]
  /\ answer \in [Clients -> Clients \cup {NoRequest}]
  /\ deaths \in Nat
  /\ routed \subseteq Clients
  /\ replies \in [Clients -> Nat]

Init ==
  /\ cast \in DOMAIN Casts
  /\ queue = [q \in Queues |-> << >>]
  /\ exists = {}
  /\ unacked = [s \in Servers |-> NoRequest]
  /\ server = [s \in Servers |-> "off"]
  /\ client = [c \in Clients |-> "start"]
  /\ inbox = [c \in Clients |-> << >>]
  /\ answer = [c \in Clients |-> NoRequest]
  /\ deaths = 0
  /\ routed = {}
  /\ replies = [c \in Clients |-> 0]

\* The variables of a side, with the cast, which nothing changes.
clientVars == <<cast, client, answer, routed>>
serverVars == <<cast, server, unacked>>
brokerVars == <<queue, exists, deaths>>

-----------------------------------------------------------------------------
(***************************************************************************)
(* Servers                                                                 *)
(***************************************************************************)
At(s, p) == server[s] = p
Goto(s, p) == server' = [server EXCEPT ![s] = p]

\* Mutant: the queue that is declared is not the one that is read.
ServeMisnamed(s) ==
  /\ At(s, "off")
  /\ exists' = exists \cup {"declared"}
  /\ Goto(s, "consume")
  /\ UNCHANGED <<queue, deaths, unacked, clientVars, inbox, replies>>

\* The connection, queue_declare, queue_bind, basic_qos and basic_consume.  A
\* program that is to bind its queue to an exchange that is not there ends.
Serve(s) ==
  /\ At(s, "off")
  /\ Exclusive(s) => Served(s).exchange \in Exchanges \cup {""}
  /\ exists' = exists \cup {QueueOf(s)}
  /\ Goto(s, "consume")
  /\ UNCHANGED <<queue, deaths, unacked, clientVars, inbox, replies>>

\* consume_message returns.  With basic_qos (1) the broker delivers nothing to
\* a channel that has not acknowledged its last message.
Consume(s) ==
  /\ At(s, "consume")
  /\ unacked[s] = NoRequest
  /\ queue[QueueOf(s)] # << >>
  /\ unacked' = [unacked EXCEPT ![s] = Head(queue[QueueOf(s)])]
  /\ queue' = [queue EXCEPT ![QueueOf(s)] = Tail(@)]
  /\ Goto(s, "handle")
  /\ UNCHANGED <<exists, deaths, clientVars, inbox, replies>>

Acknowledge(s) == unacked' = [unacked EXCEPT ![s] = NoRequest]

\* A request without correlation id or reply-to is acknowledged and dropped.
DropBare(s) ==
  /\ At(s, "handle")
  /\ Kind(unacked[s]) = "bare"
  /\ Acknowledge(s)
  /\ Goto(s, "consume")
  /\ UNCHANGED <<brokerVars, clientVars, inbox, replies>>

\* Mutant: the request is acknowledged before it is decoded.
UnreadableAcked(s) ==
  /\ At(s, "handle")
  /\ Program(s) # "echo_direct_server" /\ Kind(unacked[s]) = "unreadable"
  /\ Acknowledge(s)
  /\ Goto(s, "crashed")
  /\ UNCHANGED <<brokerVars, clientVars, inbox, replies>>

\* An exclusive queue goes, with what is in it and what it had delivered.
Drop(s) ==
  /\ queue' = [queue EXCEPT ![QueueOf(s)] = << >>]
  /\ exists' = exists \ {QueueOf(s)}
  /\ Acknowledge(s)

\* The decoder throws, the service process ends and destroys its copy of the
\* connection, which it has from its parent by fork.  Whether that ends the
\* connection for the broker is up to the library; the parent waits for Return.
Unreadable(s) ==
  /\ At(s, "handle")
  /\ Program(s) # "echo_direct_server" /\ Kind(unacked[s]) = "unreadable"
  /\ Goto(s, "crashed")
  /\ Drop(s) \/ UNCHANGED <<queue, exists, unacked>>
  /\ UNCHANGED <<deaths, clientVars, inbox, replies>>

\* A connection server that gets another request goes on to the next one; the
\* acknowledgement is in the branch it does not take.
Overlook(s) ==
  /\ At(s, "handle")
  /\ Program(s) = "connection_server" /\ Kind(unacked[s]) = "other"
  /\ Goto(s, "consume")
  /\ UNCHANGED <<brokerVars, unacked, clientVars, inbox, replies>>

\* What each program answers.
Understands(s) ==
  CASE Program(s) = "echo_direct_server"   -> {"connection", "other", "unreadable"}
    [] Program(s) = "echo_exchange_server" -> {"connection", "other"}
    [] Program(s) = "connection_server"    -> {"connection"}

Prepare(s) ==
  /\ At(s, "handle")
  /\ Kind(unacked[s]) \in Understands(s)
  /\ Goto(s, "publish")
  /\ UNCHANGED <<brokerVars, unacked, clientVars, inbox, replies>>

\* Mutant: the reply goes to all who wait for one.
ReplyToAll(s) ==
  /\ At(s, "publish")
  /\ LET c == unacked[s]
     IN  /\ inbox' = [d \in Clients |-> IF client[d] \in {"subscribed", "waiting"}
                                        THEN Append(inbox[d], c) ELSE inbox[d]]
         /\ replies' = [replies EXCEPT ![c] = @ + 1]
  /\ Goto(s, "ack")
  /\ UNCHANGED <<brokerVars, unacked, clientVars>>

\* The reply goes to the reply queue of the request, if that is still there.
Reply(s) ==
  /\ At(s, "publish")
  /\ LET c == unacked[s]
     IN  /\ inbox' = IF client[c] \in {"subscribed", "waiting"}
                     THEN [inbox EXCEPT ![c] = Append(@, c)] ELSE inbox
         /\ replies' = [replies EXCEPT ![c] = @ + 1]
  /\ Goto(s, "ack")
  /\ UNCHANGED <<brokerVars, unacked, clientVars>>

\* Mutants: the acknowledgement is forgotten, or the request is put back.
AckForgotten(s) ==
  /\ At(s, "ack")
  /\ Goto(s, "consume")
  /\ UNCHANGED <<brokerVars, unacked, clientVars, inbox, replies>>

AckRequeued(s) ==
  /\ At(s, "ack")
  /\ queue' = [queue EXCEPT ![QueueOf(s)] = Append(@, unacked[s])]
  /\ Acknowledge(s)
  /\ Goto(s, "consume")
  /\ UNCHANGED <<exists, deaths, clientVars, inbox, replies>>

Ack(s) ==
  /\ At(s, "ack")
  /\ Acknowledge(s)
  /\ Goto(s, "consume")
  /\ UNCHANGED <<brokerVars, clientVars, inbox, replies>>

\* Return is pressed: SIGKILL, wherever the service process is, and main returns.
Kill(s) ==
  /\ server[s] \notin {"off", "killed"}
  /\ deaths < Casts[cast].kills
  /\ deaths' = deaths + 1
  /\ Goto(s, "killed")
  /\ UNCHANGED <<queue, exists, unacked, clientVars, inbox, replies>>

\* The connection ends with the processes that hold it: an exclusive queue goes,
\* a named one gets the unacknowledged request back at its front.
Close(s) ==
  /\ At(s, "killed")
  /\ IF Exclusive(s) THEN Drop(s)
     ELSE /\ queue' = [queue EXCEPT ![QueueOf(s)] =
                         IF unacked[s] = NoRequest THEN @ ELSE <<unacked[s]>> \o @]
          /\ Acknowledge(s)
          /\ UNCHANGED exists
  /\ Goto(s, "off")
  /\ UNCHANGED <<deaths, clientVars, inbox, replies>>

-----------------------------------------------------------------------------
(***************************************************************************)
(* Clients                                                                 *)
(***************************************************************************)
Move(c, p) == client' = [client EXCEPT ![c] = p]

\* The connection, the exclusive reply queue, and basic_consume on it.
Subscribe(c) ==
  /\ client[c] = "start"
  /\ Move(c, "subscribed")
  /\ UNCHANGED <<brokerVars, serverVars, inbox, answer, routed, replies>>

\* basic_publish: a copy for every target, and nothing is said when there is none.
Request(c) ==
  /\ client[c] = "subscribed"
  /\ Direct(c) \/ ExchangeOf(c) \in Exchanges
  /\ queue' = [q \in Queues |-> IF q \in Targets(c) THEN Append(queue[q], c) ELSE queue[q]]
  /\ routed' = IF Targets(c) = {} THEN routed ELSE routed \cup {c}
  /\ Move(c, "waiting")
  /\ UNCHANGED <<exists, deaths, serverVars, inbox, answer, replies>>

\* Publishing to an exchange that is not there ends the program.
RequestFails(c) ==
  /\ client[c] = "subscribed"
  /\ ~Direct(c) /\ ExchangeOf(c) \notin Exchanges
  /\ Move(c, "quit")
  /\ UNCHANGED <<brokerVars, serverVars, inbox, answer, routed, replies>>

ComparesIds(c) == Runs(c) # "rpc_request"

\* The client has its answer; at the end of the program its reply queue goes.
Settle(c) ==
  /\ Move(c, "done")
  /\ answer' = [answer EXCEPT ![c] = Head(inbox[c])]
  /\ inbox' = [inbox EXCEPT ![c] = << >>]

\* One turn of the loop on consume_message, which compares correlation ids.  The
\* broker takes a reply as acknowledged.
Receive(c) ==
  /\ client[c] = "waiting"
  /\ inbox[c] # << >>
  /\ ComparesIds(c)
  /\ IF CorId[Head(inbox[c])] = CorId[c]
     THEN Settle(c)
     ELSE /\ inbox' = [inbox EXCEPT ![c] = Tail(@)]
          /\ UNCHANGED <<client, answer>>
  /\ UNCHANGED <<brokerVars, serverVars, routed, replies>>

\* rpc_request takes the first message, whatever its correlation id.
ReceiveAny(c) ==
  /\ client[c] = "waiting"
  /\ inbox[c] # << >>
  /\ ~ComparesIds(c)
  /\ Settle(c)
  /\ UNCHANGED <<brokerVars, serverVars, routed, replies>>

\* Whoever runs the client gives up waiting.
Quit(c) ==
  /\ client[c] \in {"subscribed", "waiting"}
  /\ Move(c, "quit")
  /\ inbox' = [inbox EXCEPT ![c] = << >>]
  /\ UNCHANGED <<brokerVars, serverVars, answer, routed, replies>>

-----------------------------------------------------------------------------
ServerStep(s) ==
  Consume(s) \/ DropBare(s) \/ Unreadable(s) \/ Overlook(s) \/ Prepare(s)
  \/ Reply(s) \/ Ack(s) \/ Close(s)

ClientStep(c) == Request(c) \/ RequestFails(c) \/ Receive(c) \/ ReceiveAny(c)

Next ==
  \/ \E s \in Serving : ServerStep(s) \/ Serve(s) \/ Kill(s)
  \/ \E c \in Running : ClientStep(c) \/ Subscribe(c) \/ Quit(c)

\* The programs run once started; nobody has to start or stop one.
Fairness ==
  /\ \A s \in Servers : WF_vars(s \in Serving /\ ServerStep(s))
  /\ \A c \in Clients : WF_vars(c \in Running /\ ClientStep(c))

Spec == Init /\ [][Next]_vars /\ Fairness

-----------------------------------------------------------------------------
(***************************************************************************)
(* Properties                                                              *)
(***************************************************************************)

\* A client takes no answer but the one to its own request, even when it does
\* not compare correlation ids and all clients draw the same one.
AnswerIsMine == \A c \in Clients : client[c] = "done" => answer[c] = c

\* Where a request may be: in the hands of a server, or in a queue.
InHand(c) == \E s \in Servers : unacked[s] = c
Queued(c) == \E q \in Queues : c \in ToSet(queue[q])

\* A request that the named queue took, and its server owes an answer.
Owed(c) ==
  /\ c \in Running /\ Run(c).queue = "named"
  /\ client[c] = "waiting" /\ c \in routed /\ Kind(c) # "bare"

\* Such a request is not lost, whoever is killed and when: as long as its client
\* waits it is in the queue, in the hands of a server, or its reply is there.
RequestKept == \A c \in Clients : Owed(c) => Queued(c) \/ InHand(c) \/ inbox[c] # << >>

\* The price is a second reply: one for each queue that took a copy, and one more
\* for each server that died, no others.  Without a queue that outlives its server
\* there is no second reply, deaths or not: an exclusive queue takes with it what
\* it had delivered and not been paid for.
QueuesServed == {QueueOf(s) : s \in Serving}
Redelivering == \E s \in Serving : Program(s) = "echo_direct_server"
RepliesBounded ==
  \A c \in Clients :
    replies[c] <= Cardinality(QueuesServed) + (IF Redelivering THEN deaths ELSE 0)

\* No server acknowledges a request that it owes an answer and has not given.  (A
\* request that goes with its queue is not acknowledged.)
AckMeansAnswered ==
  [][\A s \in Serving : \A c \in Running :
       unacked[s] = c /\ unacked'[s] = NoRequest /\ server'[s] # "off" /\ QueueOf(s) \in exists' =>
         Kind(c) = "bare" \/ replies[c] > 0]_vars

\* With a server of the named queue that stays up, every request it took is
\* answered.
Up == \E s \in Serving :
        QueueOf(s) = "named" /\ server[s] \notin {"off", "crashed", "killed"}
RoutedAnswered == <>[]Up => \A c \in Clients : Owed(c) ~> (client[c] \in {"done", "quit"})

\* "[x] Awaiting RPC requests": a server that awaits a request takes one that
\* is there.
AwaitingServes ==
  \A s \in Servers :
    (At(s, "consume") /\ queue[QueueOf(s)] # << >>) ~> ~At(s, "consume")
=============================================================================
