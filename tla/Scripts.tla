------------------------------ MODULE Scripts ------------------------------
(***************************************************************************)
(* The programs that set up the broker, each as the sequence of its calls: *)
(* vire_domains, add_tmpuser_wxCVbn and del_tmpuser_wxCVbn, which provide  *)
(* for the rest of the system, and the *_perms programs, which set up what *)
(* they need, use it and clean up.  Virtual hosts have short names here:   *)
(* "gate" for /supernemo/demonstrator/cms/vire/clients/gate, and so on.    *)
(***************************************************************************)
EXTENDS Broker

\* exchange_declare for each of several exchanges.
Exchanges(v, names) == [i \in DOMAIN names |-> Put(Exchange(v, names[i]))]
Admin(v) == <<Put(Perms(v, "supernemo_adm", AllRights))>>

-----------------------------------------------------------------------------
(***************************************************************************)
(* vire_domains                                                            *)
(***************************************************************************)
Users == <<Put(User("vireserver")), Put(User("cmslapp"))>>

OneService(v, e) ==
  <<Put(Vhost(v)), Put(Exchange(v, e))>> \o Admin(v)
    \o <<Grant(v, "vireserver", Service(e))>>

Gate    == OneService("gate", "gate.service")
Control == OneService("control", "resource_request.service")

MonitoringEvents == {"log.event", "alarm.event", "pubsub.event"}
Monitoring ==
  LET v == "monitoring"
      q == "resource_request.service"
      producer == UNION {EventProducer(e) : e \in MonitoringEvents}
      listener == UNION {EventListener(e) : e \in MonitoringEvents}
  IN  <<Put(Vhost(v))>>
      \o Exchanges(v, <<q, "log.event", "alarm.event", "pubsub.event", "pubsub.event">>)
      \o Admin(v)
      \o <<Grant(v, "vireserver", Service(q) \cup Request(q) \cup producer \cup listener),
           Grant(v, "cmslapp", Service(q) \cup producer)>>

\* Mutant: what is listened to is not the name of the exchange, as for cmslapp
\* in vire_domains_old.
PartnerMistyped(service, event, otherService, otherEvent) ==
  Service(service) \cup Request(otherService)
    \cup EventProducer(event) \cup EventListener("vire_server.event")

\* A partner serves its own service, asks the other's, tells of its own events
\* and listens to the other's.
Partner(service, event, otherService, otherEvent) ==
  Service(service) \cup Request(otherService)
    \cup EventProducer(event) \cup EventListener(otherEvent)

Cmslapp ==
  LET v == "cmslapp"
      vs == "vireserver.service"     ve == "vireserver.event"
      ss == "subcontractor.service"  se == "subcontractor.event"
  IN  <<Put(Vhost(v))>> \o Exchanges(v, <<vs, ve, ss, se>>) \o Admin(v)
      \o <<Grant(v, "vireserver", Partner(vs, ve, ss, se)),
           Grant(v, "cmslapp", Partner(ss, se, vs, ve))>>

VireDomains == Users \o Gate \o Control \o Monitoring \o Cmslapp

-----------------------------------------------------------------------------
(***************************************************************************)
(* add_tmpuser_wxCVbn and del_tmpuser_wxCVbn, with the virtual host that   *)
(* is the client's own                                                     *)
(***************************************************************************)
Tmp == "wxCVbn"

AddTmpuser ==
  LET listener == UNION {EventListener(e) : e \in MonitoringEvents}
  IN  <<Put(User(Tmp)),
        Grant("control", Tmp, Request("resource_request.service")),
        Grant("monitoring", Tmp, Request("resource_request.service") \cup listener),
        Put(Vhost(Tmp))>>
      \o Exchanges(Tmp, <<"vireserver.service", "vireserver.event">>)
      \o <<Grant(Tmp, Tmp, Request("vireserver.service") \cup EventListener("vireserver.event")),
           Grant(Tmp, "vireserver",
                 Service("vireserver.service") \cup EventProducer("vireserver.event"))>>
      \o Admin(Tmp)

\* Mutant: the virtual host goes before its user.
DelTmpuserSwapped == <<Delete(Vhost(Tmp)), Delete(User(Tmp))>>

DelTmpuser == <<Delete(User(Tmp)), Delete(Vhost(Tmp))>>

-----------------------------------------------------------------------------
(***************************************************************************)
(* The *_perms programs: services and event listeners bring a virtual host *)
(* and a queue or exchange with them, requests and event producers expect  *)
(* them.  "connect" is the connection to the broker with all that is done  *)
(* on it at once, "work" what follows until the program cleans up.         *)
(***************************************************************************)
Here == "PERM_Tests"
Connect == [op |-> "connect"]
Work    == [op |-> "work"]

\* Mutant: the virtual host stays.
HostKeepsVhost(thing, user, rights) ==
  <<Put(Vhost(Here)), Put(thing), Put(User(user)), Grant(Here, user, rights),
    Connect, Work, Delete(User(user)), Delete(thing)>>

Host(thing, user, rights) ==
  <<Put(Vhost(Here)), Put(thing), Put(User(user)), Grant(Here, user, rights),
    Connect, Work, Delete(User(user)), Delete(thing), Delete(Vhost(Here))>>

Guest(user, rights) ==
  <<Put(User(user)), Grant(Here, user, rights), Connect, Work, Delete(User(user))>>

\* Mutant: a listener whose last lines are copied from the service.
DirectEventListenerCopied ==
  <<Put(Vhost(Here)), Put(Queue(Here, "queue.event")), Put(User("q_evt_listener")),
    Grant(Here, "q_evt_listener", DirectEventListener("queue.event")), Connect, Work,
    Delete(User("q_evt_listener")), Delete(Queue(Here, "queue.service")),
    Delete(Vhost(Here))>>

DirectServicePerms ==
  Host(Queue(Here, "queue.service"), "q_service", DirectService("queue.service"))
ExchangeServicePerms ==
  Host(Exchange(Here, "exchange.service"), "ex_service", Service("exchange.service"))
DirectEventListenerPerms ==
  Host(Queue(Here, "queue.event"), "q_evt_listener", DirectEventListener("queue.event"))
ExchangeEventListenerPerms ==
  Host(Exchange(Here, "exchange.event"), "ex_evt_listener", EventListener("exchange.event"))

DirectRequestPerms         == Guest("q_request", DirectRequest)
ExchangeRequestPerms       == Guest("ex_request", Request("exchange.service"))
DirectEventProducerPerms   == Guest("q_event_producer", DirectEventProducer)
ExchangeEventProducerPerms == Guest("ex_event_producer", EventProducer("exchange.event"))

\* perms.cxx, on a virtual host of its own.
PermsTest ==
  LET v == "The_Mothers"
      e == "Won_Ton_On"
      q == "Ya_Hozna"
  IN  <<Put(Vhost(v)), Put(Exchange(v, e)), Put(Queue(v, q)), Put(User("Zappa")),
        Put(Perms(v, "Zappa", {<<"write", e>>, <<"read", e>>})), Connect, Work,
        Delete(User("Zappa")), Delete(Queue(v, q)), Delete(Exchange(v, e)),
        Delete(Vhost(v))>>

-----------------------------------------------------------------------------
Domains == {"vire_domains", "add_tmpuser", "del_tmpuser"}
Hosts   == {"direct_service", "exchange_service", "direct_listener",
            "exchange_listener", "perms"}
Guests  == {"direct_request", "exchange_request", "direct_producer",
            "exchange_producer"}
Programs == Domains \cup Hosts \cup Guests

Script == [p \in Programs |->
  CASE p = "vire_domains"      -> VireDomains
    [] p = "add_tmpuser"       -> AddTmpuser
    [] p = "del_tmpuser"       -> DelTmpuser
    [] p = "direct_service"    -> DirectServicePerms
    [] p = "exchange_service"  -> ExchangeServicePerms
    [] p = "direct_listener"   -> DirectEventListenerPerms
    [] p = "exchange_listener" -> ExchangeEventListenerPerms
    [] p = "direct_request"    -> DirectRequestPerms
    [] p = "exchange_request"  -> ExchangeRequestPerms
    [] p = "direct_producer"   -> DirectEventProducerPerms
    [] p = "exchange_producer" -> ExchangeEventProducerPerms
    [] p = "perms"             -> PermsTest]

\* The permissions a program connects with: those it has just set.
Credentials(p) ==
  LET perms == CHOOSE i \in DOMAIN Script[p] :
                 Script[p][i].op \in {"put", "grant"} /\ Kind(Script[p][i].object) = "perms"
  IN  Name(Script[p][perms].object)

\* What has to be there for what follows the connection: a queue to consume,
\* an exchange to bind a queue to or to publish a request to.
Uses(p) ==
  CASE p = "direct_service"    -> {Queue(Here, "queue.service")}
    [] p = "direct_listener"   -> {Queue(Here, "queue.event")}
    [] p \in {"exchange_service", "exchange_request"} -> {Exchange(Here, "exchange.service")}
    [] p = "exchange_listener" -> {Exchange(Here, "exchange.event")}
    [] p = "perms"             -> {Exchange("The_Mothers", "Won_Ton_On")}
    [] OTHER                   -> {}
=============================================================================
