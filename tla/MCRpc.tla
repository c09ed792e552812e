------------------------------- MODULE MCRpc -------------------------------
EXTENDS Rpc
CONSTANTS s1, s2, c1, c2, c3

\* All client programs start from the same seed, so their ids are the same.
SameCorId == [c \in Clients |-> 1]

TwoExchanges == {"subcontractor.service", "resource_request.service"}
TwoKeys == {"connection", "PS_I0"}

\* The scripts give one topic, "#"; the others try the options.
Everything  == <<TwoKeys, {}, {}, {}>>
NoTopics    == <<{}, {}, {}, {}>>
OneByOne    == <<{"PS_I0"}, {"connection"}, {}, TwoKeys>>
Gap         == <<{"PS_I0"}, {}, {"connection"}, {}>>

Service(p, x, t) == [program |-> p, exchange |-> x, topics |-> t]
DirectService    == Service("echo_direct_server", "", NoTopics)

Through(p, x, k) == [program |-> p, exchange |-> x, queue |-> "", key |-> k]
To(p, q)         == [program |-> p, exchange |-> "", queue |-> q, key |-> "PS_I0"]
Plain(p)         == Through(p, "", "PS_I0")

Cast(serves, runs, kills) == [serves |-> serves, runs |-> runs, kills |-> kills]

\* Two servers on the named queue.
OnNamedQueue ==
  Cast(s1 :> DirectService @@ s2 :> DirectService,
       c1 :> To("direct_request", "named") @@ c2 :> To("rpc_request", "named")
         @@ c3 :> To("bare", "named"), 2)

\* CMSLAPP_Connection_Server.sh and CMSLAPP_System_Echo_Server.sh.
OnExchange ==
  Cast(s1 :> Service("echo_exchange_server", "subcontractor.service", Everything)
         @@ s2 :> Service("connection_server", "subcontractor.service", Everything),
       c1 :> Plain("connection_request")
         @@ c2 :> Through("unreadable", "subcontractor.service", "PS_I0")
         @@ c3 :> Through("rpc_request", "subcontractor.service", "PS_I0"), 0)

\* A connection server that is killed and started again.
OnRestarted ==
  Cast(s1 :> Service("connection_server", "subcontractor.service", Everything),
       c1 :> Plain("connection_request") @@ c2 :> Plain("disconnection_request")
         @@ c3 :> Plain("connection_request"), 1)

\* As VoltageRead2.sh: a request to the exclusive queue of a server, which is
\* bound by all topics up to the first that is missing; an rpc_request without
\* options, whose exchange is nowhere declared.
OnMonitoring ==
  Cast(s1 :> Service("echo_exchange_server", "resource_request.service", OneByOne)
         @@ s2 :> Service("echo_exchange_server", "resource_request.service", Gap),
       c1 :> Plain("fetch_status") @@ c2 :> To("rpc_request", s1)
         @@ c3 :> Plain("rpc_request"), 1)

AllCasts == <<OnNamedQueue, OnExchange, OnRestarted, OnMonitoring>>

\* CMSLAPP_Connection_Server.sh, connected to and disconnected from.
Disconnection ==
  <<Cast(s1 :> Service("connection_server", "subcontractor.service", Everything),
         c1 :> Plain("connection_request") @@ c2 :> Plain("disconnection_request"), 0)>>
=============================================================================
