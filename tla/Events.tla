------------------------------- MODULE Events -------------------------------
(***************************************************************************)
(* Events over the message broker: event_listener, which ends with the     *)
(* first event it hears, the listeners of the tests of permissions, which  *)
(* hear events until Return is pressed, and those who publish:             *)
(* status_event_producer, the producers of the tests of permissions and    *)
(* whoever answers an asynchronous request to the queue of a listener.     *)
(* Nobody acknowledges an event (no_ack): the broker hands over all it has *)
(* and forgets it.                                                         *)
(***************************************************************************)
EXTENDS SequencesExt, Topics

CONSTANTS
  Listeners,
  Publications,  \* the events, each published at most once
  Casts,         \* what the programs are started with, by name
  Exchanges,     \* the exchanges there are
  Keys,          \* the routing keys
  Names,         \* the names a queue may be given
  Nobody         \* the owner of a queue that is not there

\* An option that is not given; of the options topic_0 to topic_3 that is {}.
NotGiven == ""

ListenerOptions ==
  [program : {"event_listener", "exchange_event_listener", "direct_event_listener"},
   queue : Names \cup {NotGiven}, exchange : STRING, topics : [1 .. 4 -> SUBSET Keys]]
EventOptions == [exchange : STRING, queue : Names \cup Listeners \cup {NotGiven}, key : Keys]

\* A cast says which listeners and events there are, and which queues.
ASSUME EventsAssumption ==
  /\ Nobody \notin Listeners \cup {"everyone"} /\ "everyone" \notin Listeners /\ NotGiven \notin Names
  /\ Listeners \cap Names = {}
  /\ \A x \in DOMAIN Casts :
       /\ Casts[x].lasting \subseteq Names
       /\ DOMAIN Casts[x].listens \subseteq Listeners
       /\ DOMAIN Casts[x].sends \subseteq Publications
       /\ \A l \in DOMAIN Casts[x].listens : Casts[x].listens[l] \in ListenerOptions
       /\ \A e \in DOMAIN Casts[x].sends : Casts[x].sends[e] \in EventOptions

VARIABLES
  cast,       \* the name of the cast of this behaviour
  owner,      \* who may use each queue: a listener, "everyone", or it is not there
  queue,      \* the events in each queue
  listener,   \* where each listener is
  bound,      \* how many of its topics are bound
  connected,  \* its connection is not cut
  buffer,     \* what was delivered to it and not heard
  heard,      \* what it heard since it was started
  sender,     \* what became of each event: "ready", "sent" or "failed"
  published,  \* history: the events in the order of their publication
  since,      \* history: how many there were when the listener had its queue
  ready       \* history: how many there were when it began to consume

vars == <<cast, owner, queue, listener, bound, connected, buffer, heard, sender,
          published, since, ready>>
programVars == <<listener, bound, connected, buffer, heard, since, ready>>
eventVars == <<cast, sender, published>>

QueueNames == Names \cup Listeners
Lasting == Casts[cast].lasting
Listening == DOMAIN Casts[cast].listens
Sending == DOMAIN Casts[cast].sends
Option(l) == Casts[cast].listens[l]
Event(e) == Casts[cast].sends[e]

\* A queue without a name gets one from the broker.
QueueOf(l) == IF Option(l).queue = NotGiven THEN l ELSE Option(l).queue

\* The queue of direct_event_listener is there before it.
Declares(l) == Option(l).program # "direct_event_listener"
OneShot(l) == Option(l).program = "event_listener"

\* Mutant: the queue is not declared exclusive.
NotExclusive(l) == FALSE

Exclusive(l) == Declares(l)

\* The topics a listener binds, none when it has no exchange.
TopicsOf(l) ==
  IF Option(l).exchange = NotGiven THEN << >> ELSE Bindings(Option(l).topics, Keys)

Direct(e) == Event(e).queue # NotGiven

\* status_event_producer has a default.
ExchangeOf(e) == IF Event(e).exchange = NotGiven THEN "log.event" ELSE Event(e).exchange

\* An event that an exchange gives to a queue with the first n topics of l.
Matched(l, n, e) ==
  /\ ~Direct(e) /\ Option(l).exchange = ExchangeOf(e)
  /\ Matches(SubSeq(TopicsOf(l), 1, n), Event(e).key)

Targets(e) ==
  IF Direct(e) THEN {q \in {Event(e).queue} : owner[q] # Nobody}
  ELSE {QueueOf(l) : l \in {k \in Listening : listener[k] \in {"binding", "listening"}
                              /\ connected[k] /\ Declares(k) /\ Matched(k, bound[k], e)}}

TypeOK ==
  /\ cast \in DOMAIN Casts
  /\ owner \in [QueueNames -> Listeners \cup {"everyone", Nobody}]
  /\ queue \in [QueueNames -> Seq(Publications)]
  /\ listener \in [Listeners -> {"off", "binding", "listening", "ended", "failed"}]
  /\ bound \in [Listeners -> 0 .. 4]
  /\ \A l \in Listening : bound[l] <= Len(TopicsOf(l))
  /\ connected \in [Listeners -> BOOLEAN]
  /\ buffer \in [Listeners -> Seq(Publications)]
  /\ heard \in [Listeners -> Seq(Publications)]
  /\ sender \in [Publications -> {"ready", "sent", "failed"}]
  /\ published \in Seq(Publications)
  /\ since \in [Listeners -> 0 .. Len(published)]
  /\ ready \in [Listeners -> 0 .. Len(published)]

Init ==
  /\ cast \in DOMAIN Casts
  /\ owner = [q \in QueueNames |-> IF q \in Lasting THEN "everyone" ELSE Nobody]
  /\ queue = [q \in QueueNames |-> << >>]
  /\ listener = [l \in Listeners |-> "off"]
  /\ bound = [l \in Listeners |-> 0]
  /\ connected = [l \in Listeners |-> FALSE]
  /\ buffer = [l \in Listeners |-> << >>]
  /\ heard = [l \in Listeners |-> << >>]
  /\ sender = [e \in Publications |-> "ready"]
  /\ published = << >>
  /\ since = [l \in Listeners |-> 0]
  /\ ready = [l \in Listeners |-> 0]

-----------------------------------------------------------------------------
(***************************************************************************)
(* Listeners                                                               *)
(***************************************************************************)
Idle(l) == listener[l] \in {"off", "ended", "failed"}
Goto(l, p) == listener' = [listener EXCEPT ![l] = p]

\* A connection, and a new run of the program on it.
Connect(l) ==
  /\ connected' = [connected EXCEPT ![l] = TRUE]
  /\ heard' = [heard EXCEPT ![l] = << >>]
  /\ bound' = [bound EXCEPT ![l] = 0]
  /\ since' = [since EXCEPT ![l] = Len(published)]
  /\ ready' = [ready EXCEPT ![l] = Len(published)]
  /\ UNCHANGED <<buffer, eventVars>>

\* The connection ends, and with it the queue that was exclusive to it.
Disconnect(l) ==
  /\ connected' = [connected EXCEPT ![l] = FALSE]
  /\ IF owner[QueueOf(l)] = l
     THEN /\ owner' = [owner EXCEPT ![QueueOf(l)] = Nobody]
          /\ queue' = [queue EXCEPT ![QueueOf(l)] = << >>]
     ELSE UNCHANGED <<owner, queue>>

CanDeclare(l) ==
  owner[QueueOf(l)] \in {Nobody} \cup (IF Exclusive(l) THEN {} ELSE {"everyone"})

\* queue_declare.
Declare(l) ==
  /\ Idle(l) /\ Declares(l) /\ CanDeclare(l)
  /\ Connect(l)
  /\ owner' = [owner EXCEPT ![QueueOf(l)] = IF Exclusive(l) THEN l ELSE "everyone"]
  /\ Goto(l, "binding")
  /\ UNCHANGED queue

\* The name is in use: an exception, which ends the program.
NameTaken(l) ==
  /\ Idle(l) /\ Declares(l) /\ ~CanDeclare(l)
  /\ Goto(l, "failed")
  /\ UNCHANGED <<owner, queue, bound, connected, buffer, heard, since, ready, eventVars>>

\* Mutant: one topic too many.
BindMore(l) ==
  /\ listener[l] = "binding"
  /\ bound[l] <= Len(TopicsOf(l))
  /\ Option(l).exchange \in Exchanges
  /\ bound' = [bound EXCEPT ![l] = @ + 1]
  /\ UNCHANGED <<owner, queue, listener, connected, buffer, heard, since, ready, eventVars>>

\* One queue_bind; an event may come between two.
Bind(l) ==
  /\ listener[l] = "binding"
  /\ bound[l] < Len(TopicsOf(l))
  /\ Option(l).exchange \in Exchanges
  /\ bound' = [bound EXCEPT ![l] = @ + 1]
  /\ UNCHANGED <<owner, queue, listener, connected, buffer, heard, since, ready, eventVars>>

BindFails(l) ==
  /\ listener[l] = "binding"
  /\ bound[l] < Len(TopicsOf(l))
  /\ Option(l).exchange \notin Exchanges
  /\ Disconnect(l)
  /\ Goto(l, "failed")
  /\ UNCHANGED <<bound, buffer, heard, since, ready, eventVars>>

\* Mutant: basic_consume after the first topic.
ConsumeEarly(l) ==
  /\ listener[l] = "binding"
  /\ bound[l] = IF TopicsOf(l) = << >> THEN 0 ELSE 1
  /\ Goto(l, "listening")
  /\ ready' = [ready EXCEPT ![l] = Len(published)]
  /\ UNCHANGED <<owner, queue, bound, connected, buffer, heard, since, eventVars>>

\* basic_consume.
Consume(l) ==
  /\ listener[l] = "binding"
  /\ bound[l] = Len(TopicsOf(l))
  /\ Goto(l, "listening")
  /\ ready' = [ready EXCEPT ![l] = Len(published)]
  /\ UNCHANGED <<owner, queue, bound, connected, buffer, heard, since, eventVars>>

\* direct_event_listener: basic_consume on a queue that is there.
ConsumeLasting(l) ==
  /\ Idle(l) /\ ~Declares(l)
  /\ owner[QueueOf(l)] = "everyone"
  /\ Connect(l)
  /\ Goto(l, "listening")
  /\ UNCHANGED <<owner, queue>>

\* The broker, which does not wait for the listener to ask.
Deliver(l) ==
  /\ listener[l] = "listening" /\ connected[l]
  /\ queue[QueueOf(l)] # << >>
  /\ buffer' = [buffer EXCEPT ![l] = Append(@, Head(queue[QueueOf(l)]))]
  /\ queue' = [queue EXCEPT ![QueueOf(l)] = Tail(@)]
  /\ UNCHANGED <<owner, listener, bound, connected, heard, since, ready, eventVars>>

Listen(l) ==
  /\ listener[l] = "listening"
  /\ buffer[l] # << >>
  /\ heard' = [heard EXCEPT ![l] = Append(@, Head(buffer[l]))]
  /\ UNCHANGED <<bound, since, ready, eventVars>>

\* The callback, for each event.
HearAll(l) ==
  /\ Listen(l) /\ ~OneShot(l)
  /\ buffer' = [buffer EXCEPT ![l] = Tail(@)]
  /\ UNCHANGED <<owner, queue, listener, connected>>

\* Mutant: there is no break in the loop.
HearOn(l) ==
  /\ Listen(l) /\ OneShot(l)
  /\ buffer' = [buffer EXCEPT ![l] = Tail(@)]
  /\ UNCHANGED <<owner, queue, listener, connected>>

\* consume_message, the break, and the end of the program.
HearFirst(l) ==
  /\ Listen(l) /\ OneShot(l)
  /\ buffer' = [buffer EXCEPT ![l] = << >>]
  /\ Disconnect(l)
  /\ Goto(l, "ended")

\* Ctrl-C anywhere, or Return.
Interrupt(l) ==
  /\ ~Idle(l)
  /\ Disconnect(l)
  /\ buffer' = [buffer EXCEPT ![l] = << >>]
  /\ Goto(l, "off")
  /\ UNCHANGED <<bound, heard, since, ready, eventVars>>

\* Something ends the connection of an event_listener.  Each consume_message
\* throws from now on, but for what had already arrived, and the loop goes on.
Cut(l) ==
  /\ OneShot(l) /\ listener[l] = "listening" /\ connected[l]
  /\ Disconnect(l)
  /\ buffer' \in {buffer, [buffer EXCEPT ![l] = << >>]}
  /\ UNCHANGED <<listener, bound, heard, since, ready, eventVars>>

-----------------------------------------------------------------------------
(***************************************************************************)
(* Producers                                                               *)
(***************************************************************************)

\* basic_publish: a copy for every queue, and nothing is said when there is none.
Publish(e) ==
  /\ sender[e] = "ready"
  /\ Direct(e) \/ ExchangeOf(e) \in Exchanges
  /\ sender' = [sender EXCEPT ![e] = "sent"]
  /\ queue' = [q \in QueueNames |-> IF q \in Targets(e) THEN Append(queue[q], e) ELSE queue[q]]
  /\ published' = Append(published, e)
  /\ UNCHANGED <<cast, owner, programVars>>

\* Publishing to an exchange that is not there ends the program.
PublishFails(e) ==
  /\ sender[e] = "ready"
  /\ ~Direct(e) /\ ExchangeOf(e) \notin Exchanges
  /\ sender' = [sender EXCEPT ![e] = "failed"]
  /\ UNCHANGED <<cast, owner, queue, programVars, published>>

-----------------------------------------------------------------------------
Hear(l) == Deliver(l) \/ HearAll(l) \/ HearFirst(l)

Next ==
  \/ \E l \in Listening :
       \/ Declare(l) \/ NameTaken(l) \/ Bind(l) \/ BindFails(l) \/ Consume(l)
       \/ ConsumeLasting(l) \/ Hear(l) \/ Interrupt(l) \/ Cut(l)
  \/ \E e \in Sending : Publish(e) \/ PublishFails(e)

\* A listener hears what there is; nobody has to start or stop one.
Spec == Init /\ [][Next]_vars
             /\ \A l \in Listeners : WF_vars(l \in Listening /\ Hear(l))

-----------------------------------------------------------------------------
(***************************************************************************)
(* Properties                                                              *)
(***************************************************************************)

\* When an event was published, 0 for one that was not.
When(e) == IF \E i \in DOMAIN published : published[i] = e
           THEN CHOOSE i \in DOMAIN published : published[i] = e ELSE 0

\* What a listener is there to hear, by the options it was given.
MeantFor(l, e) ==
  \/ Direct(e) /\ Event(e).queue = QueueOf(l)
  \/ Declares(l) /\ Matched(l, Len(TopicsOf(l)), e)

\* What a listener hears was meant for it and published while it was there, not
\* left by another that had a queue of the same name before; events come in the
\* order of their publication, and no two listeners of one queue hear the same.
HeardWasDue ==
  \A l \in Listening :
    /\ \A i \in DOMAIN heard[l] :
         /\ MeantFor(l, heard[l][i])
         /\ Declares(l) => When(heard[l][i]) > since[l]
         /\ \A j \in 1 .. i - 1 : When(heard[l][j]) < When(heard[l][i])
    /\ \A k \in Listening \ {l} :
         QueueOf(k) = QueueOf(l) => ToSet(heard[k]) \cap ToSet(heard[l]) = {}

\* An event meant for a listener that was consuming when it was published is
\* heard, or on its way; of an event_listener that has ended only those are lost
\* that came after the one it heard.
Waiting(l) == listener[l] = "listening" /\ connected[l]
NothingMissed ==
  \A l \in Listening : \A e \in Sending :
    Declares(l) /\ MeantFor(l, e) /\ When(e) > ready[l] =>
      /\ Waiting(l) => e \in ToSet(queue[QueueOf(l)] \o buffer[l] \o heard[l])
      /\ listener[l] = "ended" => When(Head(heard[l])) <= When(e)

\* A listener that waits ends once an event that is meant for it is published.
WaitingEnds ==
  \A l \in Listeners :
    (l \in Listening /\ OneShot(l) /\ Waiting(l)
       /\ \E e \in Sending : MeantFor(l, e) /\ When(e) > ready[l]) ~> ~Waiting(l)
=============================================================================
