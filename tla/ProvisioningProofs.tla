------------------------- MODULE ProvisioningProofs -------------------------
(***************************************************************************)
(* What holds of the programs that set up the broker, whichever of them    *)
(* are run together, as often as one likes and with any number of faults.  *)
(* No two programs give the same user rights on the same virtual host, so  *)
(* that adding takes nothing away, and no program deletes what another     *)
(* provides for, but for the virtual host that the tests share: and that   *)
(* takes the permissions, and with them the connections, away with it.     *)
(***************************************************************************)
EXTENDS Provisioning, SequenceTheorems, TLAPS

\* Telling of all that there is to monitor, and listening to it.
Tells == UNION {EventProducer(e) : e \in MonitoringEvents}
Hears == UNION {EventListener(e) : e \in MonitoringEvents}

\* The rights each user has on each virtual host, whoever gives them.
RightsOf(v, u) ==
  CASE u = "supernemo_adm" -> AllRights
    [] v = "gate" /\ u = "vireserver" -> Service("gate.service")
    [] v = "control" /\ u = "vireserver" -> Service("resource_request.service")
    [] v = "control" /\ u = Tmp -> Request("resource_request.service")
    [] v = "monitoring" /\ u = "vireserver" ->
         Service("resource_request.service") \cup Request("resource_request.service")
           \cup Tells \cup Hears
    [] v = "monitoring" /\ u = "cmslapp" ->
         Service("resource_request.service") \cup Tells
    [] v = "monitoring" /\ u = Tmp ->
         Request("resource_request.service") \cup Hears
    [] v = "cmslapp" /\ u = "vireserver" ->
         Partner("vireserver.service", "vireserver.event",
                 "subcontractor.service", "subcontractor.event")
    [] v = "cmslapp" /\ u = "cmslapp" ->
         Partner("subcontractor.service", "subcontractor.event",
                 "vireserver.service", "vireserver.event")
    [] v = Tmp /\ u = Tmp -> Request("vireserver.service") \cup EventListener("vireserver.event")
    [] v = Tmp /\ u = "vireserver" ->
         Service("vireserver.service") \cup EventProducer("vireserver.event")
    [] v = Here /\ u = "q_service" -> DirectService("queue.service")
    [] v = Here /\ u = "ex_service" -> Service("exchange.service")
    [] v = Here /\ u = "q_evt_listener" -> DirectEventListener("queue.event")
    [] v = Here /\ u = "ex_evt_listener" -> EventListener("exchange.event")
    [] v = Here /\ u = "ex_request" -> Request("exchange.service")
    [] v = Here /\ u = "ex_event_producer" -> EventProducer("exchange.event")
    [] v = "The_Mothers" /\ u = "Zappa" -> {<<"write", "Won_Ton_On">>, <<"read", "Won_Ton_On">>}
    [] OTHER -> {}

\* The objects that the programs ever add, and more of the same kinds.
IsThing(o) ==
  \/ Kind(o) \in {"user", "vhost"} /\ o = <<o[1], o[2]>>
  \/ Kind(o) \in {"exchange", "queue"} /\ o = <<o[1], o[2], o[3]>>
  \/ Kind(o) = "perms" /\ o = Perms(o[2], o[3], RightsOf(o[2], o[3]))

\* The objects on the broker, of which the administrator is never deleted, and
\* the places of the programs.
ObjectInv ==
  /\ at \in [Programs -> Nat]
  /\ \A o \in objects : IsThing(o)
  /\ User("supernemo_adm") \in objects
  /\ connected \cap Domains = {}

\* What vire_domains has added stays, but for the users, whose results it does not
\* look at.
VireUsers == {User("vireserver"), User("cmslapp")}
VireInv ==
  \A j \in DOMAIN VireDomains :
    \/ status["vire_domains"] = "running" /\ j < at["vire_domains"]
    \/ "vire_domains" \in standing
    => VireDomains[j].object \in objects \cup VireUsers

\* What add_tmpuser has added stays, as long as del_tmpuser does not run.
TmpInv ==
  /\ \/ status["add_tmpuser"] = "running" /\ ~crossed
     \/ "add_tmpuser" \in standing
     => status["del_tmpuser"] # "running"
  /\ \A j \in DOMAIN AddTmpuser :
       \/ status["add_tmpuser"] = "running" /\ ~crossed /\ j < at["add_tmpuser"]
       \/ "add_tmpuser" \in standing
       => AddTmpuser[j].object \in objects

\* Permissions on the virtual host of the temporary user come after its exchanges.
TmpExchanges == {Exchange(Tmp, "vireserver.service"), Exchange(Tmp, "vireserver.event")}
GrantInv ==
  /\ status["add_tmpuser"] = "running" /\ Vhost(Tmp) \in objects =>
       /\ at["add_tmpuser"] > 5 => Exchange(Tmp, "vireserver.service") \in objects
       /\ at["add_tmpuser"] > 6 => Exchange(Tmp, "vireserver.event") \in objects
  /\ \A o \in objects : Kind(o) = "perms" /\ o[2] = Tmp => TmpExchanges \subseteq objects
  /\ cast \subseteq Domains =>
       \A o \in objects : Kind(o) = "perms" =>
         o[2] \in {"gate", "control", "monitoring", "cmslapp", Tmp}

\* The temporary user goes before its virtual host, and comes before it; while it
\* is missing add_tmpuser cannot but fail.
OrphanInv ==
  ~reported /\ Vhost(Tmp) \in objects /\ User(Tmp) \notin objects =>
    \/ status["del_tmpuser"] = "running" /\ at["del_tmpuser"] = 2
    \/ status["add_tmpuser"] = "running" /\ at["add_tmpuser"] \in 2 .. 7

\* A host at work has its permissions as long as its connection, and as long as
\* these what it serves.
HostInv ==
  \A p \in connected \cap Hosts : Runs(p, "work") =>
    Uses(p) \subseteq objects /\ \E o \in objects : Name(o) = Credentials(p)

\* A test answers for what it sets up: it is going to remove it, or has ended with
\* an exception.
Removes(c, o) == c.op = "delete" /\ (c.object = o \/ c.object \in DependsOn(o))
Dooms(p, o) ==
  status[p] = "running" /\ \E i \in at[p] .. Len(Script[p]) : Removes(Script[p][i], o)
AnswersFor(p, o) == SetsUp(p, o) /\ (Dooms(p, o) \/ status[p] = "aborted")
LeftInv ==
  cast \cap Domains = {} /\ faults = 0 =>
    \A o \in objects \ {User("supernemo_adm")} : \E p \in cast : AnswersFor(p, o)

-----------------------------------------------------------------------------
(***************************************************************************)
(* Objects                                                                 *)
(***************************************************************************)

\* What the objects of each kind depend on, and how they are told apart.
LEMMA Kinds ==
  ASSUME NEW v, NEW x
  PROVE  /\ IsThing(User(v)) /\ Kind(User(v)) = "user" /\ DependsOn(User(v)) = {}
         /\ IsThing(Vhost(v)) /\ Kind(Vhost(v)) = "vhost" /\ DependsOn(Vhost(v)) = {}
         /\ IsThing(Exchange(v, x)) /\ Kind(Exchange(v, x)) = "exchange"
         /\ DependsOn(Exchange(v, x)) = {Vhost(v)}
         /\ IsThing(Queue(v, x)) /\ Kind(Queue(v, x)) = "queue"
         /\ DependsOn(Queue(v, x)) = {Vhost(v)}
         /\ IsThing(Perms(v, x, RightsOf(v, x))) /\ Kind(Perms(v, x, RightsOf(v, x))) = "perms"
         /\ DependsOn(Perms(v, x, RightsOf(v, x))) = {Vhost(v), User(x)}
<1> USE DEF IsThing, Kind, DependsOn
<1>1. IsThing(User(v)) /\ Kind(User(v)) = "user" /\ DependsOn(User(v)) = {}
  BY DEF User
<1>2. IsThing(Vhost(v)) /\ Kind(Vhost(v)) = "vhost" /\ DependsOn(Vhost(v)) = {}
  BY DEF Vhost
<1>3. /\ IsThing(Exchange(v, x)) /\ Kind(Exchange(v, x)) = "exchange"
      /\ DependsOn(Exchange(v, x)) = {Vhost(v)}
  BY DEF Exchange
<1>4. /\ IsThing(Queue(v, x)) /\ Kind(Queue(v, x)) = "queue"
      /\ DependsOn(Queue(v, x)) = {Vhost(v)}
  BY DEF Queue
<1>5. /\ IsThing(Perms(v, x, RightsOf(v, x))) /\ Kind(Perms(v, x, RightsOf(v, x))) = "perms"
      /\ DependsOn(Perms(v, x, RightsOf(v, x))) = {Vhost(v), User(x)}
  <2> DEFINE r == RightsOf(v, x)
  <2>1. Perms(v, x, r)[1] = "perms" /\ Perms(v, x, r)[2] = v /\ Perms(v, x, r)[3] = x
    BY DEF Perms
  <2> QED
    BY <2>1
<1> QED
  BY <1>1, <1>2, <1>3, <1>4, <1>5

\* The same name, the same object.
LEMMA NamesDiffer ==
  ASSUME NEW x, NEW y, IsThing(x), IsThing(y), Name(x) = Name(y)
  PROVE  x = y
<1>1. CASE Kind(x) = "perms" /\ Kind(y) = "perms"
  <2>1. x[2] = y[2] /\ x[3] = y[3]
    BY <1>1 DEF Name
  <2> QED
    BY <1>1, <2>1 DEF IsThing, Kind
<1>2. CASE Kind(x) # "perms" /\ Kind(y) # "perms"
  BY <1>2 DEF Name
<1>3. CASE Kind(x) = "perms" /\ Kind(y) # "perms"
  <2>1. y = <<"perms", x[2], x[3]>>
    BY <1>3 DEF Name
  <2> QED
    BY <1>3, <2>1 DEF Kind
<1>4. CASE Kind(x) # "perms" /\ Kind(y) = "perms"
  <2>1. x = <<"perms", y[2], y[3]>>
    BY <1>4 DEF Name
  <2> QED
    BY <1>4, <2>1 DEF Kind
<1> QED
  BY <1>1, <1>2, <1>3, <1>4

\* Adding takes nothing away.
LEMMA Adding ==
  ASSUME NEW S, \A x \in S : IsThing(x), NEW o, IsThing(o), NEW op, op # "delete"
  PROVE  After(S, op, o) = S \cup {o}
  BY NamesDiffer DEF After

\* An object depends on a user, on a virtual host, or on both.
LEMMA Dependence ==
  ASSUME NEW o, IsThing(o), NEW d \in DependsOn(o)
  PROVE  /\ Kind(d) \in {"user", "vhost"} /\ DependsOn(d) = {}
         /\ Kind(o) \in {"exchange", "queue"} => d = Vhost(o[2])
         /\ Kind(o) = "perms" => d \in {Vhost(o[2]), User(o[3])}
<1>1. /\ Kind(o) \in {"exchange", "queue"} => d = Vhost(o[2])
      /\ Kind(o) = "perms" => d \in {Vhost(o[2]), User(o[3])}
      /\ Kind(o) \in {"exchange", "queue", "perms"}
  BY DEF IsThing, DependsOn
<1> QED
  BY <1>1, Kinds

-----------------------------------------------------------------------------
(***************************************************************************)
(* Scripts                                                                 *)
(***************************************************************************)

\* What the programs that clean up after themselves bring with them.
UserOf == [direct_service    |-> "q_service",      exchange_service  |-> "ex_service",
           direct_listener   |-> "q_evt_listener", exchange_listener |-> "ex_evt_listener",
           direct_request    |-> "q_request",      exchange_request  |-> "ex_request",
           direct_producer   |-> "q_event_producer",
           exchange_producer |-> "ex_event_producer", perms |-> "Zappa"]
ThingOf == [direct_service    |-> Queue(Here, "queue.service"),
            exchange_service  |-> Exchange(Here, "exchange.service"),
            direct_listener   |-> Queue(Here, "queue.event"),
            exchange_listener |-> Exchange(Here, "exchange.event"),
            perms             |-> Exchange("The_Mothers", "Won_Ton_On")]
SharedHosts == Hosts \ {"perms"}

\* The scripts of hosts and guests, one call after the other.
LEMMA HostScript ==
  ASSUME NEW p \in SharedHosts
  PROVE  /\ Len(Script[p]) = 9 /\ DOMAIN Script[p] = 1 .. 9
         /\ Script[p][1] = Put(Vhost(Here)) /\ Script[p][2] = Put(ThingOf[p])
         /\ Script[p][3] = Put(User(UserOf[p]))
         /\ Script[p][4] = Grant(Here, UserOf[p], RightsOf(Here, UserOf[p]))
         /\ Script[p][5] = Connect /\ Script[p][6] = Work
         /\ Script[p][7] = Delete(User(UserOf[p])) /\ Script[p][8] = Delete(ThingOf[p])
         /\ Script[p][9] = Delete(Vhost(Here))
<1>1. Script[p] = Host(ThingOf[p], UserOf[p], RightsOf(Here, UserOf[p]))
  <2>1. CASE p = "direct_service"
    BY <2>1 DEF Script, Programs, Hosts, ThingOf, UserOf, RightsOf, DirectServicePerms, Here, Tmp
  <2>2. CASE p = "exchange_service"
    BY <2>2 DEF Script, Programs, Hosts, ThingOf, UserOf, RightsOf, ExchangeServicePerms, Here, Tmp
  <2>3. CASE p = "direct_listener"
    BY <2>3 DEF Script, Programs, Hosts, ThingOf, UserOf, RightsOf, DirectEventListenerPerms, Here,
       Tmp
  <2>4. CASE p = "exchange_listener"
    BY <2>4 DEF Script, Programs, Hosts, ThingOf, UserOf, RightsOf, ExchangeEventListenerPerms, Here,
       Tmp
  <2> QED
    BY <2>1, <2>2, <2>3, <2>4 DEF SharedHosts, Hosts
<1> QED
  BY <1>1 DEF Host

LEMMA GuestScript ==
  ASSUME NEW p \in Guests
  PROVE  /\ Len(Script[p]) = 5 /\ DOMAIN Script[p] = 1 .. 5
         /\ Script[p][1] = Put(User(UserOf[p]))
         /\ Script[p][2] = Grant(Here, UserOf[p], RightsOf(Here, UserOf[p]))
         /\ Script[p][3] = Connect /\ Script[p][4] = Work
         /\ Script[p][5] = Delete(User(UserOf[p]))
<1>1. Script[p] = Guest(UserOf[p], RightsOf(Here, UserOf[p]))
  <2>1. CASE p = "direct_request"
    BY <2>1 DEF Script, Programs, Guests, UserOf, RightsOf, DirectRequestPerms, DirectRequest, Here,
       Tmp
  <2>2. CASE p = "exchange_request"
    BY <2>2 DEF Script, Programs, Guests, UserOf, RightsOf, ExchangeRequestPerms, Here, Tmp
  <2>3. CASE p = "direct_producer"
    BY <2>3 DEF Script, Programs, Guests, UserOf, RightsOf, DirectEventProducerPerms,
       DirectEventProducer, Here, Tmp
  <2>4. CASE p = "exchange_producer"
    BY <2>4 DEF Script, Programs, Guests, UserOf, RightsOf, ExchangeEventProducerPerms, Here, Tmp
  <2> QED
    BY <2>1, <2>2, <2>3, <2>4 DEF Guests
<1> QED
  BY <1>1 DEF Guest

LEMMA PermsScript ==
  /\ Len(Script["perms"]) = 11 /\ DOMAIN Script["perms"] = 1 .. 11
  /\ Script["perms"][1] = Put(Vhost("The_Mothers")) /\ Script["perms"][2] = Put(ThingOf["perms"])
  /\ Script["perms"][3] = Put(Queue("The_Mothers", "Ya_Hozna"))
  /\ Script["perms"][4] = Put(User("Zappa"))
  /\ Script["perms"][5] = Put(Perms("The_Mothers", "Zappa", RightsOf("The_Mothers", "Zappa")))
  /\ Script["perms"][6] = Connect /\ Script["perms"][7] = Work
  /\ Script["perms"][8] = Delete(User("Zappa"))
  /\ Script["perms"][9] = Delete(Queue("The_Mothers", "Ya_Hozna"))
  /\ Script["perms"][10] = Delete(ThingOf["perms"])
  /\ Script["perms"][11] = Delete(Vhost("The_Mothers"))
<1>1. Script["perms"] = PermsTest
  BY DEF Script, Programs, Hosts
<1>2. RightsOf("The_Mothers", "Zappa") = {<<"write", "Won_Ton_On">>, <<"read", "Won_Ton_On">>}
  BY DEF RightsOf, Tmp
<1>3. ThingOf["perms"] = Exchange("The_Mothers", "Won_Ton_On")
  BY DEF ThingOf
<1> QED
  BY <1>1, <1>2, <1>3 DEF PermsTest

\* One sequence after the other, when both are given entry by entry.
OfLength(s, n) == s = [i \in 1 .. n |-> s[i]]
EntriesOf(s, n) == {s[i] : i \in 1 .. n}
Follows(st, s, m, t, n) ==
  /\ OfLength(st, m + n) /\ Len(st) = m + n /\ DOMAIN st = 1 .. m + n
  /\ \A i \in 1 .. m + n : st[i] = IF i <= m THEN s[i] ELSE t[i - m]
  /\ EntriesOf(st, m + n) = EntriesOf(s, m) \cup EntriesOf(t, n)
LEMMA Joined ==
  ASSUME NEW m \in Nat, NEW n \in Nat, NEW s, NEW t, OfLength(s, m), OfLength(t, n)
  PROVE  Follows(s \o t, s, m, t, n)
<1> DEFINE T == EntriesOf(s, m) \cup EntriesOf(t, n)
<1>1. s \in [1 .. m -> T] /\ t \in [1 .. n -> T]
  BY DEF OfLength, EntriesOf
<1>2. s \in Seq(T) /\ t \in Seq(T) /\ Len(s) = m /\ Len(t) = n
  <2>1. \A k \in Nat : \A q \in [1 .. k -> T] : q \in Seq(T) /\ Len(q) = k
    BY SeqDef
  <2> QED
    BY <1>1, <2>1
<1> HIDE DEF T
<1>3. /\ s \o t \in Seq(T) /\ Len(s \o t) = m + n
      /\ \A i \in 1 .. m + n : (s \o t)[i] = IF i <= m THEN s[i] ELSE t[i - m]
  BY <1>2, ConcatProperties
<1>4. DOMAIN (s \o t) = 1 .. m + n /\ OfLength(s \o t, m + n)
  BY <1>3 DEF OfLength
<1>5. \A i \in 1 .. m : (s \o t)[i] = s[i]
  BY <1>3
<1>6. ASSUME NEW i \in 1 .. n
      PROVE  (s \o t)[m + i] = t[i]
  <2>1. m + i \in 1 .. m + n /\ ~(m + i <= m) /\ (m + i) - m = i
    OBVIOUS
  <2> QED
    BY <1>3, <2>1
<1>7. EntriesOf(s \o t, m + n) = EntriesOf(s, m) \cup EntriesOf(t, n)
  <2>1. ASSUME NEW i \in 1 .. m + n
        PROVE  (s \o t)[i] \in EntriesOf(s, m) \cup EntriesOf(t, n)
    <3>1. CASE i <= m
      BY <1>3, <3>1 DEF EntriesOf
    <3>2. CASE ~(i <= m)
      BY <1>3, <3>2 DEF EntriesOf
    <3> QED
      BY <3>1, <3>2
  <2>2. ASSUME NEW i \in 1 .. m
        PROVE  s[i] \in EntriesOf(s \o t, m + n)
    <3>1. i \in 1 .. m + n
      OBVIOUS
    <3> QED
      BY <1>5, <3>1 DEF EntriesOf
  <2>3. ASSUME NEW i \in 1 .. n
        PROVE  t[i] \in EntriesOf(s \o t, m + n)
    <3>1. m + i \in 1 .. m + n
      OBVIOUS
    <3> QED
      BY <1>6, <3>1 DEF EntriesOf
  <2> QED
    BY <2>1, <2>2, <2>3 DEF EntriesOf
<1> QED
  BY <1>3, <1>4, <1>7 DEF Follows

LEMMA AddScript ==
  /\ Len(Script["add_tmpuser"]) = 9 /\ DOMAIN Script["add_tmpuser"] = 1 .. 9
  /\ Script["add_tmpuser"] = AddTmpuser
  /\ AddTmpuser[1] = Put(User(Tmp))
  /\ AddTmpuser[2] = Grant("control", Tmp, RightsOf("control", Tmp))
  /\ AddTmpuser[3] = Grant("monitoring", Tmp, RightsOf("monitoring", Tmp))
  /\ AddTmpuser[4] = Put(Vhost(Tmp))
  /\ AddTmpuser[5] = Put(Exchange(Tmp, "vireserver.service"))
  /\ AddTmpuser[6] = Put(Exchange(Tmp, "vireserver.event"))
  /\ AddTmpuser[7] = Grant(Tmp, Tmp, RightsOf(Tmp, Tmp))
  /\ AddTmpuser[8] = Grant(Tmp, "vireserver", RightsOf(Tmp, "vireserver"))
  /\ AddTmpuser[9] = Put(Perms(Tmp, "supernemo_adm", RightsOf(Tmp, "supernemo_adm")))
<1> DEFINE listener == UNION {EventListener(e) : e \in MonitoringEvents}
           A == <<Put(User(Tmp)), Grant("control", Tmp, Request("resource_request.service")),
                  Grant("monitoring", Tmp, Request("resource_request.service") \cup listener),
                  Put(Vhost(Tmp))>>
           B == Exchanges(Tmp, <<"vireserver.service", "vireserver.event">>)
           C == <<Grant(Tmp, Tmp, Request("vireserver.service") \cup EventListener("vireserver.event")),
                  Grant(Tmp, "vireserver",
                        Service("vireserver.service") \cup EventProducer("vireserver.event"))>>
<1>1. Script["add_tmpuser"] = AddTmpuser
  BY DEF Script, Programs, Domains
<1>2. AddTmpuser = ((A \o B) \o C) \o Admin(Tmp)
  BY DEF AddTmpuser
<1>3. B = <<Put(Exchange(Tmp, "vireserver.service")), Put(Exchange(Tmp, "vireserver.event"))>>
  BY DEF Exchanges
<1>4. /\ RightsOf("control", Tmp) = Request("resource_request.service")
      /\ RightsOf("monitoring", Tmp) = Request("resource_request.service") \cup listener
      /\ RightsOf(Tmp, Tmp) = Request("vireserver.service") \cup EventListener("vireserver.event")
      /\ RightsOf(Tmp, "vireserver")
           = Service("vireserver.service") \cup EventProducer("vireserver.event")
      /\ RightsOf(Tmp, "supernemo_adm") = AllRights
  <2>1. Hears = listener
    BY DEF Hears
  <2> HIDE DEF listener
  <2> QED
    BY <2>1 DEF RightsOf, Tmp
<1> HIDE DEF listener
<1>5. /\ A[1] = Put(User(Tmp)) /\ A[2] = Grant("control", Tmp, RightsOf("control", Tmp))
      /\ A[3] = Grant("monitoring", Tmp, RightsOf("monitoring", Tmp)) /\ A[4] = Put(Vhost(Tmp))
      /\ OfLength(A, 4)
  BY <1>4 DEF OfLength
<1>6. /\ B[1] = Put(Exchange(Tmp, "vireserver.service"))
      /\ B[2] = Put(Exchange(Tmp, "vireserver.event"))
      /\ OfLength(B, 2)
  <2> HIDE DEF B
  <2> QED
    BY <1>3 DEF OfLength
<1>7. /\ C[1] = Grant(Tmp, Tmp, RightsOf(Tmp, Tmp))
      /\ C[2] = Grant(Tmp, "vireserver", RightsOf(Tmp, "vireserver"))
      /\ OfLength(C, 2)
  <2>1. OfLength(C, 2)
    BY DEF OfLength
  <2>2. C[1] = Grant(Tmp, Tmp, RightsOf(Tmp, Tmp))
    BY <1>4
  <2>3. C[2] = Grant(Tmp, "vireserver", RightsOf(Tmp, "vireserver"))
    BY <1>4
  <2> QED
    BY <2>1, <2>2, <2>3
<1>8. /\ Admin(Tmp)[1] = Put(Perms(Tmp, "supernemo_adm", RightsOf(Tmp, "supernemo_adm")))
      /\ OfLength(Admin(Tmp), 1)
  BY <1>4 DEF Admin, OfLength
<1> HIDE DEF A, B, C
<1> DEFINE AB == A \o B
           ABC == AB \o C
           D == Admin(Tmp)
<1>9. Follows(AB, A, 4, B, 2)
  BY <1>5, <1>6, Joined
<1>10. OfLength(AB, 6)
  BY <1>9 DEF Follows
<1>11. Follows(ABC, AB, 6, C, 2)
  BY <1>7, <1>10, Joined
<1>12. OfLength(ABC, 8)
  BY <1>11, 6 + 2 = 8 DEF Follows
<1>13. Follows(AddTmpuser, ABC, 8, D, 1)
  BY <1>2, <1>8, <1>12, Joined
<1> HIDE DEF AB, ABC, D
<1>14. Len(AddTmpuser) = 9 /\ DOMAIN AddTmpuser = 1 .. 9
  BY <1>13 DEF Follows
<1>15. \A i \in 1 .. 9 : AddTmpuser[i] = IF i <= 8 THEN ABC[i] ELSE D[i - 8]
  BY <1>13 DEF Follows
<1>16. \A i \in 1 .. 8 : ABC[i] = IF i <= 6 THEN AB[i] ELSE C[i - 6]
  BY <1>11 DEF Follows
<1>17. \A i \in 1 .. 6 : AB[i] = IF i <= 4 THEN A[i] ELSE B[i - 4]
  BY <1>9 DEF Follows
<1>18. /\ \A i \in 1 .. 4 : AddTmpuser[i] = A[i]
       /\ \A i \in 5 .. 6 : AddTmpuser[i] = B[i - 4]
       /\ \A i \in 7 .. 8 : AddTmpuser[i] = C[i - 6]
  BY <1>15, <1>16, <1>17
<1>19. /\ AddTmpuser[5] = B[1] /\ AddTmpuser[6] = B[2]
       /\ AddTmpuser[7] = C[1] /\ AddTmpuser[8] = C[2]
       /\ AddTmpuser[9] = D[1]
  BY <1>15, <1>18
<1> QED
  BY <1>1, <1>5, <1>6, <1>7, <1>8, <1>14, <1>18, <1>19 DEF D

LEMMA DelScript ==
  /\ Len(Script["del_tmpuser"]) = 2 /\ DOMAIN Script["del_tmpuser"] = 1 .. 2
  /\ Script["del_tmpuser"] = DelTmpuser
  /\ DelTmpuser[1] = Delete(User(Tmp)) /\ DelTmpuser[2] = Delete(Vhost(Tmp))
  BY DEF Script, Programs, Domains, DelTmpuser

\* The virtual hosts of vire_domains, with what each is set up with.
AdminCall(v) == Put(Perms(v, "supernemo_adm", RightsOf(v, "supernemo_adm")))
GrantCall(v, u) == Grant(v, u, RightsOf(v, u))
VireExchanges ==
  [gate       |-> {"gate.service"},
   control    |-> {"resource_request.service"},
   monitoring |-> {"resource_request.service", "log.event", "alarm.event", "pubsub.event"},
   cmslapp    |-> {"vireserver.service", "vireserver.event",
                   "subcontractor.service", "subcontractor.event"}]
VireGrantees ==
  [gate |-> {"vireserver"}, control |-> {"vireserver"},
   monitoring |-> {"vireserver", "cmslapp"}, cmslapp |-> {"vireserver", "cmslapp"}]
VireVhosts == {"gate", "control", "monitoring", "cmslapp"}
CallsOn(v) ==
  {Put(Vhost(v)), AdminCall(v)} \cup {Put(Exchange(v, e)) : e \in VireExchanges[v]}
    \cup {GrantCall(v, u) : u \in VireGrantees[v]}

LEMMA OneServiceCalls ==
  ASSUME NEW v, NEW e, RightsOf(v, "supernemo_adm") = AllRights,
         RightsOf(v, "vireserver") = Service(e)
  PROVE  /\ OfLength(OneService(v, e), 4)
         /\ EntriesOf(OneService(v, e), 4)
              = {Put(Vhost(v)), Put(Exchange(v, e)), AdminCall(v), GrantCall(v, "vireserver")}
<1> DEFINE A == <<Put(Vhost(v)), Put(Exchange(v, e))>>
           G == <<Grant(v, "vireserver", Service(e))>>
           D == Admin(v)
           AD == A \o D
<1>1. OfLength(A, 2) /\ EntriesOf(A, 2) = {Put(Vhost(v)), Put(Exchange(v, e))}
  BY DEF OfLength, EntriesOf
<1>2. OfLength(D, 1) /\ EntriesOf(D, 1) = {AdminCall(v)}
  BY DEF OfLength, EntriesOf, Admin, AdminCall
<1>3. OfLength(G, 1) /\ EntriesOf(G, 1) = {GrantCall(v, "vireserver")}
  BY DEF OfLength, EntriesOf, GrantCall
<1>4. OneService(v, e) = AD \o G
  BY DEF OneService
<1> HIDE DEF A, D, G
<1>5. Follows(AD, A, 2, D, 1)
  BY <1>1, <1>2, Joined
<1> HIDE DEF AD
<1>6. OfLength(AD, 3)
  BY <1>5, 2 + 1 = 3 DEF Follows
<1>7. Follows(OneService(v, e), AD, 3, G, 1)
  BY <1>3, <1>4, <1>6, Joined
<1>8. EntriesOf(AD, 3) = EntriesOf(A, 2) \cup EntriesOf(D, 1)
  BY <1>5, 2 + 1 = 3 DEF Follows
<1>9. /\ OfLength(OneService(v, e), 4)
      /\ EntriesOf(OneService(v, e), 4) = EntriesOf(AD, 3) \cup EntriesOf(G, 1)
  BY <1>7, 3 + 1 = 4 DEF Follows
<1> QED
  BY <1>1, <1>2, <1>3, <1>8, <1>9

\* One virtual host of vire_domains with several exchanges and two grants.
VhostSetUp(st, v, B, n, G) ==
  /\ OfLength(st, n + 4)
  /\ EntriesOf(st, n + 4)
       = {Put(Vhost(v)), AdminCall(v)} \cup EntriesOf(B, n) \cup EntriesOf(G, 2)
LEMMA DomainCalls ==
  ASSUME NEW v, NEW n \in Nat, NEW B, NEW G, OfLength(B, n), OfLength(G, 2),
         RightsOf(v, "supernemo_adm") = AllRights
  PROVE  VhostSetUp(<<Put(Vhost(v))>> \o B \o Admin(v) \o G, v, B, n, G)
<1> DEFINE A == <<Put(Vhost(v))>>
           D == Admin(v)
           AB == A \o B
           ABD == AB \o D
           all == ABD \o G
<1>1. OfLength(A, 1) /\ EntriesOf(A, 1) = {Put(Vhost(v))}
  BY DEF OfLength, EntriesOf
<1>2. OfLength(D, 1) /\ EntriesOf(D, 1) = {AdminCall(v)}
  BY DEF OfLength, EntriesOf, Admin, AdminCall
<1>3. <<Put(Vhost(v))>> \o B \o Admin(v) \o G = all
  OBVIOUS
<1> HIDE DEF A, D
<1>4. Follows(AB, A, 1, B, n)
  BY <1>1, Joined
<1> HIDE DEF AB
<1>5. OfLength(AB, n + 1) /\ EntriesOf(AB, n + 1) = EntriesOf(A, 1) \cup EntriesOf(B, n)
  BY <1>4, 1 + n = n + 1 DEF Follows
<1>6. Follows(ABD, AB, n + 1, D, 1)
  BY <1>2, <1>5, Joined, n + 1 \in Nat
<1> HIDE DEF ABD
<1>7. OfLength(ABD, n + 2) /\ EntriesOf(ABD, n + 2) = EntriesOf(AB, n + 1) \cup EntriesOf(D, 1)
  BY <1>6, (n + 1) + 1 = n + 2 DEF Follows
<1>8. Follows(all, ABD, n + 2, G, 2)
  BY <1>7, Joined, n + 2 \in Nat
<1> HIDE DEF all
<1>9. OfLength(all, n + 4) /\ EntriesOf(all, n + 4) = EntriesOf(ABD, n + 2) \cup EntriesOf(G, 2)
  BY <1>8, (n + 2) + 2 = n + 4 DEF Follows
<1> QED
  BY <1>1, <1>2, <1>3, <1>5, <1>7, <1>9 DEF VhostSetUp

LEMMA GateCalls == OfLength(Gate, 4) /\ EntriesOf(Gate, 4) = CallsOn("gate")
<1>1. /\ RightsOf("gate", "supernemo_adm") = AllRights
      /\ RightsOf("gate", "vireserver") = Service("gate.service")
  BY DEF RightsOf, Tmp
<1>2. VireExchanges["gate"] = {"gate.service"} /\ VireGrantees["gate"] = {"vireserver"}
  BY DEF VireExchanges, VireGrantees
<1> QED
  BY <1>1, <1>2, OneServiceCalls DEF Gate, CallsOn

LEMMA ControlCalls == OfLength(Control, 4) /\ EntriesOf(Control, 4) = CallsOn("control")
<1>1. /\ RightsOf("control", "supernemo_adm") = AllRights
      /\ RightsOf("control", "vireserver") = Service("resource_request.service")
  BY DEF RightsOf, Tmp
<1>2. /\ VireExchanges["control"] = {"resource_request.service"}
      /\ VireGrantees["control"] = {"vireserver"}
  BY DEF VireExchanges, VireGrantees
<1> QED
  BY <1>1, <1>2, OneServiceCalls DEF Control, CallsOn

LEMMA MonitoringCalls ==
  OfLength(Monitoring, 9) /\ EntriesOf(Monitoring, 9) = CallsOn("monitoring")
<1> DEFINE v == "monitoring"
           q == "resource_request.service"
           producer == UNION {EventProducer(e) : e \in MonitoringEvents}
           listener == UNION {EventListener(e) : e \in MonitoringEvents}
           names == <<q, "log.event", "alarm.event", "pubsub.event", "pubsub.event">>
           B == Exchanges(v, names)
           G == <<Grant(v, "vireserver", Service(q) \cup Request(q) \cup producer \cup listener),
                  Grant(v, "cmslapp", Service(q) \cup producer)>>
<1>1. Monitoring = <<Put(Vhost(v))>> \o B \o Admin(v) \o G
  BY DEF Monitoring
<1>2. /\ RightsOf(v, "supernemo_adm") = AllRights
      /\ RightsOf(v, "vireserver") = Service(q) \cup Request(q) \cup producer \cup listener
      /\ RightsOf(v, "cmslapp") = Service(q) \cup producer
  <2>1. RightsOf(v, "supernemo_adm") = AllRights
    BY DEF RightsOf, Tmp
  <2>2. RightsOf(v, "vireserver") = Service(q) \cup Request(q) \cup Tells \cup Hears
    BY DEF RightsOf, Tmp
  <2>3. RightsOf(v, "cmslapp") = Service(q) \cup Tells
    BY DEF RightsOf, Tmp
  <2>4. Tells = producer /\ Hears = listener
    BY DEF Tells, Hears
  <2> QED
    BY <2>1, <2>2, <2>3, <2>4
<1>3. VireGrantees[v] = {"vireserver", "cmslapp"}
  BY DEF VireGrantees
<1>4. OfLength(G, 2) /\ EntriesOf(G, 2) = {GrantCall(v, u) : u \in VireGrantees[v]}
  <2>1. OfLength(G, 2) /\ EntriesOf(G, 2) = {G[1], G[2]}
    <3>1. OfLength(G, 2)
      BY DEF OfLength
    <3> HIDE DEF G
    <3> QED
      BY <3>1 DEF EntriesOf
  <2>2. G[1] = GrantCall(v, "vireserver") /\ G[2] = GrantCall(v, "cmslapp")
    BY <1>2 DEF GrantCall
  <2> HIDE DEF G, v
  <2> QED
    BY <2>1, <2>2, <1>3
<1>5. OfLength(B, 5) /\ EntriesOf(B, 5) = {Put(Exchange(v, e)) : e \in VireExchanges[v]}
  <2>1. DOMAIN names = 1 .. 5 /\ {names[i] : i \in 1 .. 5} = VireExchanges[v]
    BY DEF VireExchanges
  <2> HIDE DEF names
  <2>2. B = [i \in 1 .. 5 |-> Put(Exchange(v, names[i]))]
    BY <2>1 DEF Exchanges
  <2> HIDE DEF B, v
  <2>3. OfLength(B, 5)
    BY <2>2 DEF OfLength
  <2>4. \A i \in 1 .. 5 : B[i] = Put(Exchange(v, names[i]))
    BY <2>2
  <2>5. EntriesOf(B, 5) = {Put(Exchange(v, e)) : e \in VireExchanges[v]}
    BY <2>1, <2>4 DEF EntriesOf
  <2> QED
    BY <2>3, <2>5
<1> HIDE DEF B, G
<1>6. VhostSetUp(Monitoring, v, B, 5, G)
  BY <1>1, <1>2, <1>4, <1>5, DomainCalls
<1> HIDE DEF v
<1>7. /\ OfLength(Monitoring, 9)
      /\ EntriesOf(Monitoring, 9)
           = {Put(Vhost(v)), AdminCall(v)} \cup EntriesOf(B, 5) \cup EntriesOf(G, 2)
  BY <1>6, 5 + 4 = 9 DEF VhostSetUp
<1>8. EntriesOf(Monitoring, 9) = CallsOn(v)
  BY <1>4, <1>5, <1>7 DEF CallsOn
<1> QED
  BY <1>7, <1>8 DEF v

LEMMA CmslappCalls ==
  OfLength(Cmslapp, 8) /\ EntriesOf(Cmslapp, 8) = CallsOn("cmslapp")
<1> DEFINE v == "cmslapp"
           vs == "vireserver.service"
           ve == "vireserver.event"
           ss == "subcontractor.service"
           se == "subcontractor.event"
           names == <<vs, ve, ss, se>>
           B == Exchanges(v, names)
           G == <<Grant(v, "vireserver", Partner(vs, ve, ss, se)),
                  Grant(v, "cmslapp", Partner(ss, se, vs, ve))>>
<1>1. Cmslapp = <<Put(Vhost(v))>> \o B \o Admin(v) \o G
  BY DEF Cmslapp
<1>2. /\ RightsOf(v, "supernemo_adm") = AllRights
      /\ RightsOf(v, "vireserver") = Partner(vs, ve, ss, se)
      /\ RightsOf(v, "cmslapp") = Partner(ss, se, vs, ve)
  BY DEF RightsOf, Tmp
<1>3. VireGrantees[v] = {"vireserver", "cmslapp"}
  BY DEF VireGrantees
<1>4. OfLength(G, 2) /\ EntriesOf(G, 2) = {GrantCall(v, u) : u \in VireGrantees[v]}
  <2>1. OfLength(G, 2) /\ EntriesOf(G, 2) = {G[1], G[2]}
    <3>1. OfLength(G, 2)
      BY DEF OfLength
    <3> HIDE DEF G
    <3> QED
      BY <3>1 DEF EntriesOf
  <2>2. G[1] = GrantCall(v, "vireserver") /\ G[2] = GrantCall(v, "cmslapp")
    BY <1>2 DEF GrantCall
  <2> HIDE DEF G, v
  <2> QED
    BY <2>1, <2>2, <1>3
<1>5. OfLength(B, 4) /\ EntriesOf(B, 4) = {Put(Exchange(v, e)) : e \in VireExchanges[v]}
  <2>1. DOMAIN names = 1 .. 4 /\ {names[i] : i \in 1 .. 4} = VireExchanges[v]
    BY DEF VireExchanges
  <2> HIDE DEF names
  <2>2. B = [i \in 1 .. 4 |-> Put(Exchange(v, names[i]))]
    BY <2>1 DEF Exchanges
  <2> HIDE DEF B, v
  <2>3. OfLength(B, 4)
    BY <2>2 DEF OfLength
  <2>4. \A i \in 1 .. 4 : B[i] = Put(Exchange(v, names[i]))
    BY <2>2
  <2>5. EntriesOf(B, 4) = {Put(Exchange(v, e)) : e \in VireExchanges[v]}
    BY <2>1, <2>4 DEF EntriesOf
  <2> QED
    BY <2>3, <2>5
<1> HIDE DEF B, G
<1>6. VhostSetUp(Cmslapp, v, B, 4, G)
  BY <1>1, <1>2, <1>4, <1>5, DomainCalls
<1> HIDE DEF v
<1>7. /\ OfLength(Cmslapp, 8)
      /\ EntriesOf(Cmslapp, 8)
           = {Put(Vhost(v)), AdminCall(v)} \cup EntriesOf(B, 4) \cup EntriesOf(G, 2)
  BY <1>6, 4 + 4 = 8 DEF VhostSetUp
<1>8. EntriesOf(Cmslapp, 8) = CallsOn(v)
  BY <1>4, <1>5, <1>7 DEF CallsOn
<1> QED
  BY <1>7, <1>8 DEF v

\* vire_domains adds its users first, and then what CallsOn tells.
LEMMA VireScript ==
  /\ Script["vire_domains"] = VireDomains
  /\ Len(VireDomains) = 27 /\ DOMAIN VireDomains = 1 .. 27 /\ Len(Users) = 2
  /\ VireDomains[1] = Put(User("vireserver")) /\ VireDomains[2] = Put(User("cmslapp"))
  /\ EntriesOf(VireDomains, 27)
       = {Put(User("vireserver")), Put(User("cmslapp"))} \cup CallsOn("gate")
         \cup CallsOn("control") \cup CallsOn("monitoring") \cup CallsOn("cmslapp")
<1> DEFINE UG == Users \o Gate
           UGC == UG \o Control
           UGCM == UGC \o Monitoring
<1>1. Script["vire_domains"] = VireDomains
  BY DEF Script, Programs, Domains
<1>2. /\ Len(Users) = 2 /\ OfLength(Users, 2)
      /\ Users[1] = Put(User("vireserver")) /\ Users[2] = Put(User("cmslapp"))
      /\ EntriesOf(Users, 2) = {Put(User("vireserver")), Put(User("cmslapp"))}
  BY DEF Users, OfLength, EntriesOf
<1>3. VireDomains = UGCM \o Cmslapp
  BY DEF VireDomains
<1>4. Follows(UG, Users, 2, Gate, 4)
  BY <1>2, GateCalls, Joined
<1> HIDE DEF UG
<1>5. OfLength(UG, 6) /\ EntriesOf(UG, 6) = EntriesOf(Users, 2) \cup EntriesOf(Gate, 4)
  BY <1>4, 2 + 4 = 6 DEF Follows
<1>6. Follows(UGC, UG, 6, Control, 4)
  BY <1>5, ControlCalls, Joined
<1> HIDE DEF UGC
<1>7. OfLength(UGC, 10) /\ EntriesOf(UGC, 10) = EntriesOf(UG, 6) \cup EntriesOf(Control, 4)
  BY <1>6, 6 + 4 = 10 DEF Follows
<1>8. Follows(UGCM, UGC, 10, Monitoring, 9)
  BY <1>7, MonitoringCalls, Joined
<1> HIDE DEF UGCM
<1>9. OfLength(UGCM, 19) /\ EntriesOf(UGCM, 19) = EntriesOf(UGC, 10) \cup EntriesOf(Monitoring, 9)
  BY <1>8, 10 + 9 = 19 DEF Follows
<1>10. Follows(VireDomains, UGCM, 19, Cmslapp, 8)
  BY <1>3, <1>9, CmslappCalls, Joined
<1>11. /\ Len(VireDomains) = 27 /\ DOMAIN VireDomains = 1 .. 27
       /\ EntriesOf(VireDomains, 27) = EntriesOf(UGCM, 19) \cup EntriesOf(Cmslapp, 8)
  BY <1>10, 19 + 8 = 27 DEF Follows
<1>12. \A i \in 1 .. 2 : VireDomains[i] = Users[i]
  <2>1. \A i \in 1 .. 6 : UG[i] = IF i <= 2 THEN Users[i] ELSE Gate[i - 2]
    BY <1>4 DEF Follows
  <2>2. \A i \in 1 .. 10 : UGC[i] = IF i <= 6 THEN UG[i] ELSE Control[i - 6]
    BY <1>6 DEF Follows
  <2>3. \A i \in 1 .. 19 : UGCM[i] = IF i <= 10 THEN UGC[i] ELSE Monitoring[i - 10]
    BY <1>8 DEF Follows
  <2>4. \A i \in 1 .. 27 : VireDomains[i] = IF i <= 19 THEN UGCM[i] ELSE Cmslapp[i - 19]
    BY <1>10 DEF Follows
  <2> QED
    BY <2>1, <2>2, <2>3, <2>4
<1>13. VireDomains[1] = Put(User("vireserver")) /\ VireDomains[2] = Put(User("cmslapp"))
  BY <1>2, <1>12
<1> QED
  BY <1>1, <1>2, <1>5, <1>7, <1>9, <1>11, <1>13, GateCalls, ControlCalls, MonitoringCalls,
     CmslappCalls

-----------------------------------------------------------------------------
(***************************************************************************)
(* What each program may do to the objects                                 *)
(***************************************************************************)
TestUsers == {"q_service", "ex_service", "q_evt_listener", "ex_evt_listener", "q_request",
              "ex_request", "q_event_producer", "ex_event_producer", "Zappa"}
TestVhosts == {Here, "The_Mothers"}

\* An object of the system, or with Tmp of its temporary user too.
Lasting(o, t) ==
  /\ IsThing(o)
  /\ Kind(o) = "user" => o[2] \in {"supernemo_adm", "vireserver", "cmslapp"} \cup t
  /\ Kind(o) # "user" => o[2] \in VireVhosts \cup t
  /\ Kind(o) = "perms" => o[3] \in {"supernemo_adm", "vireserver", "cmslapp"} \cup t

\* An object of the tests of permissions.
Passing(o) ==
  /\ IsThing(o)
  /\ Kind(o) = "user" => o[2] \in TestUsers
  /\ Kind(o) # "user" => o[2] \in TestVhosts

\* What the call c of p may be, and what comes after it.
MayAdd(p, o) ==
  /\ p # "del_tmpuser"
  /\ p = "vire_domains" => Lasting(o, {})
  /\ p = "add_tmpuser" => Lasting(o, {Tmp})
  /\ p \notin Domains => Passing(o)
MayDelete(p, o) ==
  /\ p \notin {"vire_domains", "add_tmpuser"}
  /\ p = "del_tmpuser" => o \in {User(Tmp), Vhost(Tmp)}
  /\ p \notin Domains => Passing(o) /\ Kind(o) # "perms"
Sound(p, i) ==
  LET c == Script[p][i] IN
  /\ c.op \in {"put", "grant", "delete", "connect", "work"}
  /\ c.op \in {"connect", "work"} => p \notin Domains /\ i + 1 \in DOMAIN Script[p]
  /\ c.op = "connect" => Script[p][i + 1].op = "work"
  /\ c.op \in {"put", "grant"} => MayAdd(p, c.object)
  /\ c.op = "delete" => MayDelete(p, c.object)
  /\ c.op \in {"put", "grant"} /\ p \notin Domains =>
       \E k \in i + 1 .. Len(Script[p]) : Removes(Script[p][k], c.object)

\* What a user, a virtual host, an exchange, a queue or permissions of the tests
\* are to the definitions above.
LEMMA PassingKinds ==
  /\ \A u \in TestUsers : Passing(User(u)) /\ Kind(User(u)) # "perms"
  /\ \A v \in TestVhosts : Passing(Vhost(v)) /\ Kind(Vhost(v)) # "perms"
  /\ \A v \in TestVhosts : \A x :
       /\ Passing(Queue(v, x)) /\ Kind(Queue(v, x)) # "perms"
       /\ Passing(Exchange(v, x)) /\ Kind(Exchange(v, x)) # "perms"
       /\ Passing(Perms(v, x, RightsOf(v, x)))
<1>1. \A u \in TestUsers : Passing(User(u)) /\ Kind(User(u)) # "perms"
  <2> TAKE u \in TestUsers
  <2>1. User(u)[2] = u
    BY DEF User
  <2> QED
    BY <2>1, Kinds DEF Passing
<1>2. \A v \in TestVhosts : Passing(Vhost(v)) /\ Kind(Vhost(v)) # "perms"
  <2> TAKE v \in TestVhosts
  <2>1. Vhost(v)[2] = v
    BY DEF Vhost
  <2> QED
    BY <2>1, Kinds DEF Passing
<1>3. ASSUME NEW v \in TestVhosts, NEW x
      PROVE  /\ Passing(Queue(v, x)) /\ Kind(Queue(v, x)) # "perms"
             /\ Passing(Exchange(v, x)) /\ Kind(Exchange(v, x)) # "perms"
             /\ Passing(Perms(v, x, RightsOf(v, x)))
  <2>1. Queue(v, x)[2] = v /\ Exchange(v, x)[2] = v /\ Perms(v, x, RightsOf(v, x))[2] = v
    BY DEF Queue, Exchange, Perms
  <2> QED
    BY <2>1, Kinds DEF Passing
<1> QED
  BY <1>1, <1>2, <1>3

LEMMA HostSound ==
  ASSUME NEW p \in SharedHosts, NEW i \in DOMAIN Script[p]
  PROVE  Sound(p, i)
<1> DEFINE u == UserOf[p]
           o == ThingOf[p]
           r == RightsOf(Here, u)
           n == Perms(Here, u, r)
<1>1. p \notin Domains /\ u \in TestUsers /\ Here \in TestVhosts
  BY DEF SharedHosts, Hosts, Domains, UserOf, TestUsers, TestVhosts
<1>2. \E x : o \in {Queue(Here, x), Exchange(Here, x)}
  BY DEF SharedHosts, Hosts, ThingOf
<1>3. /\ Passing(User(u)) /\ Kind(User(u)) # "perms"
      /\ Passing(Vhost(Here)) /\ Kind(Vhost(Here)) # "perms"
      /\ Passing(o) /\ Kind(o) # "perms" /\ Passing(n)
  BY <1>1, <1>2, PassingKinds
<1>4. User(u) \in DependsOn(n)
  BY Kinds
<1>5. /\ Len(Script[p]) = 9 /\ DOMAIN Script[p] = 1 .. 9
      /\ Script[p][1] = Put(Vhost(Here)) /\ Script[p][2] = Put(o)
      /\ Script[p][3] = Put(User(u)) /\ Script[p][4] = [op |-> "grant", object |-> n]
      /\ Script[p][5] = Connect /\ Script[p][6] = Work
      /\ Script[p][7] = Delete(User(u)) /\ Script[p][8] = Delete(o)
      /\ Script[p][9] = Delete(Vhost(Here))
  BY HostScript DEF Grant
<1> HIDE DEF u, o, r, n
<1>6. /\ Removes(Script[p][9], Vhost(Here)) /\ Removes(Script[p][8], o)
      /\ Removes(Script[p][7], User(u)) /\ Removes(Script[p][7], n)
  BY <1>4, <1>5 DEF Removes, Delete
<1>7. p \notin {"vire_domains", "add_tmpuser", "del_tmpuser"}
  BY <1>1 DEF Domains
<1>8. CASE i \in 1 .. 4
  <2>1. /\ Script[p][i].op \in {"put", "grant"}
        /\ Script[p][i].object \in {Vhost(Here), o, User(u), n}
    BY <1>5, <1>8 DEF Put
  <2>2. MayAdd(p, Script[p][i].object)
    BY <2>1, <1>3, <1>7 DEF MayAdd
  <2>3. \E k \in i + 1 .. Len(Script[p]) : Removes(Script[p][k], Script[p][i].object)
    <3>1. CASE i = 1
      BY <3>1, <1>5, <1>6 DEF Put
    <3>2. CASE i = 2
      BY <3>2, <1>5, <1>6 DEF Put
    <3>3. CASE i = 3
      BY <3>3, <1>5, <1>6 DEF Put
    <3>4. CASE i = 4
      BY <3>4, <1>5, <1>6
    <3> QED
      BY <1>8, <3>1, <3>2, <3>3, <3>4
  <2> QED
    BY <2>1, <2>2, <2>3 DEF Sound
<1>9. CASE i \in 5 .. 6
  BY <1>1, <1>5, <1>9 DEF Sound, Connect, Work
<1>10. CASE i \in 7 .. 9
  <2>1. /\ Script[p][i].op = "delete"
        /\ Script[p][i].object \in {Vhost(Here), o, User(u)}
    BY <1>5, <1>10 DEF Delete
  <2>2. MayDelete(p, Script[p][i].object)
    BY <2>1, <1>3, <1>7 DEF MayDelete
  <2> QED
    BY <2>1, <2>2 DEF Sound
<1> QED
  BY <1>5, <1>8, <1>9, <1>10

LEMMA GuestSound ==
  ASSUME NEW p \in Guests, NEW i \in DOMAIN Script[p]
  PROVE  Sound(p, i)
<1> DEFINE u == UserOf[p]
           n == Perms(Here, u, RightsOf(Here, u))
<1>1. p \notin Domains /\ u \in TestUsers /\ Here \in TestVhosts
  BY DEF Guests, Domains, UserOf, TestUsers, TestVhosts
<1>2. Passing(User(u)) /\ Kind(User(u)) # "perms" /\ Passing(n) /\ User(u) \in DependsOn(n)
  BY <1>1, PassingKinds, Kinds
<1>3. /\ Len(Script[p]) = 5 /\ DOMAIN Script[p] = 1 .. 5
      /\ Script[p][1] = Put(User(u)) /\ Script[p][2] = [op |-> "grant", object |-> n]
      /\ Script[p][3] = Connect /\ Script[p][4] = Work /\ Script[p][5] = Delete(User(u))
  BY GuestScript DEF Grant
<1> HIDE DEF u, n
<1>4. Removes(Script[p][5], User(u)) /\ Removes(Script[p][5], n)
  BY <1>2, <1>3 DEF Removes, Delete
<1>5. p \notin {"vire_domains", "add_tmpuser", "del_tmpuser"}
  BY <1>1 DEF Domains
<1>6. CASE i \in 1 .. 2
  <2>1. Script[p][i].op \in {"put", "grant"} /\ Script[p][i].object \in {User(u), n}
    BY <1>3, <1>6 DEF Put
  <2>2. MayAdd(p, Script[p][i].object)
    BY <2>1, <1>2, <1>5 DEF MayAdd
  <2>3. Removes(Script[p][5], Script[p][i].object) /\ 5 \in i + 1 .. Len(Script[p])
    BY <2>1, <1>3, <1>4, <1>6
  <2> QED
    BY <2>1, <2>2, <2>3 DEF Sound
<1>7. CASE i \in 3 .. 4
  BY <1>1, <1>3, <1>7 DEF Sound, Connect, Work
<1>8. CASE i = 5
  <2>1. Script[p][i].op = "delete" /\ Script[p][i].object = User(u)
    BY <1>3, <1>8 DEF Delete
  <2>2. MayDelete(p, Script[p][i].object)
    BY <2>1, <1>2, <1>5 DEF MayDelete
  <2> QED
    BY <2>1, <2>2 DEF Sound
<1> QED
  BY <1>3, <1>6, <1>7, <1>8

LEMMA PermsSound ==
  ASSUME NEW i \in DOMAIN Script["perms"]
  PROVE  Sound("perms", i)
<1> DEFINE p == "perms"
           v == "The_Mothers"
           u == "Zappa"
           o == ThingOf["perms"]
           q == Queue(v, "Ya_Hozna")
           n == Perms(v, u, RightsOf(v, u))
<1>1. p \notin Domains /\ u \in TestUsers /\ v \in TestVhosts
  BY DEF Domains, TestUsers, TestVhosts
<1>2. o = Exchange(v, "Won_Ton_On")
  BY DEF ThingOf
<1>3. /\ Passing(User(u)) /\ Kind(User(u)) # "perms"
      /\ Passing(Vhost(v)) /\ Kind(Vhost(v)) # "perms"
      /\ Passing(o) /\ Kind(o) # "perms" /\ Passing(q) /\ Kind(q) # "perms" /\ Passing(n)
  BY <1>1, <1>2, PassingKinds
<1>4. User(u) \in DependsOn(n)
  BY Kinds
<1>5. p \notin {"vire_domains", "add_tmpuser", "del_tmpuser"}
  OBVIOUS
<1>6. /\ Len(Script[p]) = 11 /\ DOMAIN Script[p] = 1 .. 11
      /\ Script[p][1] = Put(Vhost(v)) /\ Script[p][2] = Put(o)
      /\ Script[p][3] = Put(q) /\ Script[p][4] = Put(User(u)) /\ Script[p][5] = Put(n)
      /\ Script[p][6] = Connect /\ Script[p][7] = Work
      /\ Script[p][8] = Delete(User(u)) /\ Script[p][9] = Delete(q)
      /\ Script[p][10] = Delete(o) /\ Script[p][11] = Delete(Vhost(v))
  BY PermsScript
<1> SUFFICES ASSUME i \in DOMAIN Script[p]
             PROVE  Sound(p, i)
  OBVIOUS
<1> HIDE DEF p, v, u, o, q, n
<1>7. /\ Removes(Script[p][11], Vhost(v)) /\ Removes(Script[p][10], o)
      /\ Removes(Script[p][9], q) /\ Removes(Script[p][8], User(u))
      /\ Removes(Script[p][8], n)
  BY <1>4, <1>6 DEF Removes, Delete
<1>8. CASE i \in 1 .. 5
  <2>1. /\ Script[p][i].op = "put"
        /\ Script[p][i].object \in {Vhost(v), o, q, User(u), n}
    BY <1>6, <1>8 DEF Put
  <2>2. MayAdd(p, Script[p][i].object)
    BY <2>1, <1>3, <1>5 DEF MayAdd
  <2>3. \E k \in i + 1 .. Len(Script[p]) : Removes(Script[p][k], Script[p][i].object)
    <3>1. CASE i = 1
      BY <3>1, <1>6, <1>7 DEF Put
    <3>2. CASE i = 2
      BY <3>2, <1>6, <1>7 DEF Put
    <3>3. CASE i = 3
      BY <3>3, <1>6, <1>7 DEF Put
    <3>4. CASE i = 4
      BY <3>4, <1>6, <1>7 DEF Put
    <3>5. CASE i = 5
      BY <3>5, <1>6, <1>7 DEF Put
    <3> QED
      BY <1>8, <3>1, <3>2, <3>3, <3>4, <3>5
  <2> QED
    BY <2>1, <2>2, <2>3 DEF Sound
<1>9. CASE i \in 6 .. 7
  BY <1>1, <1>6, <1>9 DEF Sound, Connect, Work
<1>10. CASE i \in 8 .. 11
  <2>1. /\ Script[p][i].op = "delete"
        /\ Script[p][i].object \in {Vhost(v), o, q, User(u)}
    BY <1>6, <1>10 DEF Delete
  <2>2. MayDelete(p, Script[p][i].object)
    BY <2>1, <1>3, <1>5 DEF MayDelete
  <2> QED
    BY <2>1, <2>2 DEF Sound
<1> QED
  BY <1>6, <1>8, <1>9, <1>10

LEMMA LastingKinds ==
  ASSUME NEW t
  PROVE  /\ \A u \in {"supernemo_adm", "vireserver", "cmslapp"} \cup t : Lasting(User(u), t)
         /\ \A v \in VireVhosts \cup t :
              /\ Lasting(Vhost(v), t)
              /\ \A x : Lasting(Exchange(v, x), t)
              /\ \A u \in {"supernemo_adm", "vireserver", "cmslapp"} \cup t :
                   Lasting(Perms(v, u, RightsOf(v, u)), t)
<1>1. ASSUME NEW u \in {"supernemo_adm", "vireserver", "cmslapp"} \cup t
      PROVE  Lasting(User(u), t)
  <2>1. User(u)[2] = u
    BY DEF User
  <2> QED
    BY <2>1, Kinds DEF Lasting
<1>2. ASSUME NEW v \in VireVhosts \cup t
      PROVE  Lasting(Vhost(v), t)
  <2>1. Vhost(v)[2] = v
    BY DEF Vhost
  <2> QED
    BY <2>1, Kinds DEF Lasting
<1>3. ASSUME NEW v \in VireVhosts \cup t, NEW x
      PROVE  Lasting(Exchange(v, x), t)
  <2>1. Exchange(v, x)[2] = v
    BY DEF Exchange
  <2> QED
    BY <2>1, Kinds DEF Lasting
<1>4. ASSUME NEW v \in VireVhosts \cup t,
             NEW u \in {"supernemo_adm", "vireserver", "cmslapp"} \cup t
      PROVE  Lasting(Perms(v, u, RightsOf(v, u)), t)
  <2>1. /\ Perms(v, u, RightsOf(v, u))[2] = v
        /\ Perms(v, u, RightsOf(v, u))[3] = u
    BY DEF Perms
  <2> QED
    BY <2>1, Kinds DEF Lasting
<1> QED
  BY <1>1, <1>2, <1>3, <1>4

LEMMA AddSound ==
  ASSUME NEW i \in DOMAIN Script["add_tmpuser"]
  PROVE  Sound("add_tmpuser", i)
<1>1. Tmp \in VireVhosts \cup {Tmp} /\ "control" \in VireVhosts /\ "monitoring" \in VireVhosts
  BY DEF VireVhosts
<1> DEFINE n1 == Perms("control", Tmp, RightsOf("control", Tmp))
           n2 == Perms("monitoring", Tmp, RightsOf("monitoring", Tmp))
           n3 == Perms(Tmp, Tmp, RightsOf(Tmp, Tmp))
           n4 == Perms(Tmp, "vireserver", RightsOf(Tmp, "vireserver"))
           n5 == Perms(Tmp, "supernemo_adm", RightsOf(Tmp, "supernemo_adm"))
           e1 == Exchange(Tmp, "vireserver.service")
           e2 == Exchange(Tmp, "vireserver.event")
           c  == Script["add_tmpuser"][i]
<1>2. \A o \in {User(Tmp), Vhost(Tmp), n1, n2, n3, n4, n5, e1, e2} : Lasting(o, {Tmp})
  <2> DEFINE us == {"supernemo_adm", "vireserver", "cmslapp"} \cup {Tmp}
             vs == VireVhosts \cup {Tmp}
  <2>1. /\ \A u \in us : Lasting(User(u), {Tmp})
        /\ \A v \in vs : Lasting(Vhost(v), {Tmp}) /\ \A x : Lasting(Exchange(v, x), {Tmp})
        /\ \A v \in vs, u \in us : Lasting(Perms(v, u, RightsOf(v, u)), {Tmp})
    BY LastingKinds
  <2>2. /\ "control" \in vs /\ "monitoring" \in vs /\ Tmp \in vs
        /\ Tmp \in us /\ "vireserver" \in us /\ "supernemo_adm" \in us
    BY <1>1
  <2> HIDE DEF us, vs
  <2>3. Lasting(n1, {Tmp}) /\ Lasting(n2, {Tmp}) /\ Lasting(n3, {Tmp})
    BY <2>1, <2>2
  <2>4. Lasting(n4, {Tmp}) /\ Lasting(n5, {Tmp}) /\ Lasting(e1, {Tmp}) /\ Lasting(e2, {Tmp})
    BY <2>1, <2>2
  <2>5. Lasting(User(Tmp), {Tmp}) /\ Lasting(Vhost(Tmp), {Tmp})
    BY <2>1, <2>2
  <2> HIDE DEF n1, n2, n3, n4, n5, e1, e2
  <2> QED
    BY <2>3, <2>4, <2>5
<1>3. /\ c.op \in {"put", "grant"}
      /\ c.object \in {User(Tmp), Vhost(Tmp), n1, n2, n3, n4, n5, e1, e2}
  BY AddScript DEF Put, Grant
<1> HIDE DEF n1, n2, n3, n4, n5, e1, e2
<1>4. MayAdd("add_tmpuser", c.object)
  BY <1>2, <1>3 DEF MayAdd, Domains
<1> QED
  BY <1>3, <1>4 DEF Sound, Domains

LEMMA DelSound ==
  ASSUME NEW i \in DOMAIN Script["del_tmpuser"]
  PROVE  Sound("del_tmpuser", i)
<1>1. /\ Script["del_tmpuser"][i].op = "delete"
      /\ Script["del_tmpuser"][i].object \in {User(Tmp), Vhost(Tmp)}
  BY DelScript DEF Delete
<1> QED
  BY <1>1 DEF Sound, MayDelete, Domains

LEMMA VireSound ==
  ASSUME NEW i \in DOMAIN Script["vire_domains"]
  PROVE  Sound("vire_domains", i)
<1> DEFINE c == Script["vire_domains"][i]
<1>1. c \in EntriesOf(VireDomains, 27)
  BY VireScript DEF EntriesOf
<1>2. CASE c \in {Put(User("vireserver")), Put(User("cmslapp"))}
  <2>1. c.op = "put" /\ c.object \in {User("vireserver"), User("cmslapp")}
    BY <1>2 DEF Put
  <2>2. Lasting(c.object, {})
    BY <2>1, LastingKinds
  <2> QED
    BY <2>1, <2>2 DEF Sound, MayAdd, Domains
<1>3. ASSUME NEW v \in VireVhosts, c \in CallsOn(v)
      PROVE  Sound("vire_domains", i)
  <2>1. VireGrantees[v] \subseteq {"vireserver", "cmslapp"}
    BY DEF VireVhosts, VireGrantees
  <2>2. /\ c.op \in {"put", "grant"}
        /\ \/ c.object = Vhost(v)
           \/ c.object = Perms(v, "supernemo_adm", RightsOf(v, "supernemo_adm"))
           \/ \E e \in VireExchanges[v] : c.object = Exchange(v, e)
           \/ \E u \in VireGrantees[v] : c.object = Perms(v, u, RightsOf(v, u))
    BY <1>3 DEF CallsOn, Put, AdminCall, GrantCall, Grant
  <2>3. Lasting(c.object, {})
    <3> DEFINE us == {"supernemo_adm", "vireserver", "cmslapp"}
               o == c.object
    <3>1. us \cup {} = us /\ VireVhosts \cup {} = VireVhosts
      OBVIOUS
    <3>2. /\ Lasting(Vhost(v), {}) /\ \A x : Lasting(Exchange(v, x), {})
          /\ \A u \in us : Lasting(Perms(v, u, RightsOf(v, u)), {})
      BY <3>1, LastingKinds
    <3>3. VireGrantees[v] \subseteq us /\ "supernemo_adm" \in us
      BY <2>1
    <3>4. \/ o = Vhost(v) \/ \E e \in VireExchanges[v] : o = Exchange(v, e)
          \/ \E u \in us : o = Perms(v, u, RightsOf(v, u))
      BY <2>2, <3>3
    <3> HIDE DEF us, o
    <3>5. Lasting(o, {})
      BY <3>2, <3>4
    <3> QED
      BY <3>5 DEF o
  <2> QED
    BY <2>2, <2>3 DEF Sound, MayAdd, Domains
<1> QED
  BY <1>1, <1>2, <1>3, VireScript DEF VireVhosts

LEMMA CallsAreSound ==
  ASSUME NEW p \in Programs, NEW i \in DOMAIN Script[p]
  PROVE  Sound(p, i)
  BY HostSound, GuestSound, PermsSound, AddSound, DelSound, VireSound
  DEF Programs, Domains, SharedHosts, Hosts

\* No program deletes what is lasting, and with it only del_tmpuser what is the
\* temporary user's.
LEMMA Survival ==
  ASSUME NEW t, t \subseteq {Tmp}, NEW o, Lasting(o, t), NEW p \in Programs, NEW d,
         MayDelete(p, d), p = "del_tmpuser" => t = {}
  PROVE  ~Removes(Delete(d), o)
<1>1. Delete(d).object = d
  BY DEF Delete
<1>2. \A x : User(x)[2] = x /\ Vhost(x)[2] = x
  BY DEF User, Vhost
<1> DEFINE us == {"supernemo_adm", "vireserver", "cmslapp"} \cup t
           vs == VireVhosts \cup t
<1>3. CASE p = "del_tmpuser"
  <2>1. Tmp \notin us /\ Tmp \notin vs
    BY <1>3 DEF Tmp, VireVhosts
  <2>2. d \in {User(Tmp), Vhost(Tmp)} /\ d[2] = Tmp
    BY <1>2, <1>3 DEF MayDelete
  <2>3. Kind(User(Tmp)) = "user" /\ Kind(Vhost(Tmp)) = "vhost"
    BY Kinds
  <2>4. d # o
    BY <2>1, <2>2, <2>3 DEF Lasting
  <2>5. d \notin DependsOn(o)
    <3> SUFFICES ASSUME d \in DependsOn(o)
                 PROVE  FALSE
      OBVIOUS
    <3>1. Kind(o) \in {"exchange", "queue", "perms"}
      BY DEF Lasting, IsThing, DependsOn
    <3>2. d = Vhost(o[2]) \/ (Kind(o) = "perms" /\ d = User(o[3]))
      <4>1. IsThing(o)
        BY DEF Lasting
      <4>2. /\ Kind(o) \in {"exchange", "queue"} => d = Vhost(o[2])
            /\ Kind(o) = "perms" => d \in {Vhost(o[2]), User(o[3])}
        BY <4>1, Dependence
      <4> QED
        BY <3>1, <4>2
    <3> QED
      BY <3>1, <3>2, <1>2, <2>1, <2>2 DEF Lasting
  <2> QED
    BY <1>1, <2>4, <2>5 DEF Removes
<1>4. CASE p # "del_tmpuser"
  <2>1. us \cap TestUsers = {} /\ vs \cap TestVhosts = {}
    BY DEF Tmp, VireVhosts, TestUsers, TestVhosts, Here
  <2>2. Passing(d)
    BY <1>4 DEF MayDelete, Domains
  <2>3. d # o
    BY <2>1, <2>2 DEF Passing, Lasting
  <2>4. d \notin DependsOn(o)
    <3> SUFFICES ASSUME d \in DependsOn(o)
                 PROVE  FALSE
      OBVIOUS
    <3>1. Kind(o) \in {"exchange", "queue", "perms"}
      BY DEF Lasting, IsThing, DependsOn
    <3>2. d = Vhost(o[2]) \/ (Kind(o) = "perms" /\ d = User(o[3]))
      <4>1. IsThing(o)
        BY DEF Lasting
      <4>2. /\ Kind(o) \in {"exchange", "queue"} => d = Vhost(o[2])
            /\ Kind(o) = "perms" => d \in {Vhost(o[2]), User(o[3])}
        BY <4>1, Dependence
      <4> QED
        BY <3>1, <4>2
    <3>3. Kind(Vhost(o[2])) = "vhost" /\ Kind(User(o[3])) = "user"
      BY Kinds
    <3> QED
      BY <3>1, <3>2, <3>3, <1>2, <2>1, <2>2 DEF Lasting, Passing
  <2> QED
    BY <1>1, <2>3, <2>4 DEF Removes
<1> QED
  BY <1>3, <1>4

-----------------------------------------------------------------------------
(***************************************************************************)
(* A call, whether the broker does it, refuses it, or it fails             *)
(***************************************************************************)
GoesOn(p) ==
  /\ Ignores(p) \/ (Possible(p) /\ objects' = Outcome(p))
  /\ reported' = reported
  /\ \/ /\ at[p] < Len(Script[p]) /\ at' = [at EXCEPT ![p] = @ + 1]
        /\ status' = status /\ standing' = standing
     \/ /\ ~(at[p] < Len(Script[p])) /\ at' = at
        /\ status' = [status EXCEPT ![p] = "success"] /\ p \notin connected'
        /\ standing' = IF p = "add_tmpuser" /\ crossed THEN standing ELSE standing \cup {p}
GivesUp(p) ==
  /\ ~Ignores(p) /\ reported' = TRUE
  /\ at' = at /\ standing' = standing /\ status' = [status EXCEPT ![p] = "failure"]
CallStep(p) ==
  /\ Calls(p)
  /\ cast' = cast /\ crossed' = crossed
  /\ objects' = objects \/ (Possible(p) /\ objects' = Outcome(p))
  /\ connected' \subseteq StillConnected(objects')
  /\ asked' = StillAsked(objects', connected')
  /\ faults' \in 0 .. MaxFaults /\ faults' >= faults
  /\ faults' = faults /\ Possible(p) => objects' = Outcome(p)
  /\ GoesOn(p) \/ GivesUp(p)

LEMMA Calling ==
  ASSUME NEW p \in Programs, faults \in 0 .. MaxFaults,
         Perform(p) \/ Refused(p) \/ Fault(p)
  PROVE  CallStep(p)
<1>0. Calls(p) /\ cast' = cast /\ crossed' = crossed
  BY DEF Perform, Refused, Fault, Unsuccessful
<1>00. MaxFaults \in Nat
  BY ProvisioningAssumption
<1>1. ASSUME NEW objs, Proceed(p, objs, StillConnected(objs)), reported' = reported,
             Ignores(p) \/ (Possible(p) /\ objs = Outcome(p))
      PROVE  /\ objects' = objs /\ connected' \subseteq StillConnected(objs)
             /\ asked' = StillAsked(objs, connected') /\ GoesOn(p)
  <2>1. objects' = objs /\ connected' \subseteq StillConnected(objs)
        /\ asked' = StillAsked(objs, connected')
    BY <1>1 DEF Proceed, Leave, Become
  <2>2. CASE at[p] < Len(Script[p])
    BY <1>1, <2>1, <2>2 DEF Proceed, GoesOn
  <2>3. CASE ~(at[p] < Len(Script[p]))
    BY <1>1, <2>1, <2>3 DEF Proceed, Leave, Become, GoesOn
  <2> QED
    BY <2>1, <2>2, <2>3
<1>2. ASSUME NEW objs, Unsuccessful(p, objs)
      PROVE  /\ objects' = objs /\ connected' \subseteq StillConnected(objs)
             /\ asked' = StillAsked(objs, connected') /\ (GoesOn(p) \/ GivesUp(p))
  <2>1. CASE Ignores(p)
    BY <1>1, <1>2, <2>1 DEF Unsuccessful
  <2>2. CASE ~Ignores(p)
    BY <1>2, <2>2 DEF Unsuccessful, Fail, Become, GivesUp
  <2> QED
    BY <2>1, <2>2
<1>3. CASE Perform(p)
  <2>1. /\ Possible(p) /\ faults' = faults /\ reported' = reported
        /\ Proceed(p, Outcome(p), StillConnected(Outcome(p)))
    BY <1>3 DEF Perform
  <2>2. /\ objects' = Outcome(p) /\ connected' \subseteq StillConnected(Outcome(p))
        /\ asked' = StillAsked(Outcome(p), connected') /\ GoesOn(p)
    BY <1>1, <2>1
  <2> QED
    BY <1>0, <1>00, <2>1, <2>2 DEF CallStep
<1>4. CASE Refused(p)
  <2>1. ~Possible(p) /\ faults' = faults /\ Unsuccessful(p, objects)
    BY <1>4 DEF Refused
  <2> QED
    BY <1>0, <1>00, <1>2, <2>1 DEF CallStep
<1>5. CASE Fault(p)
  <2>1. Possible(p) /\ faults < MaxFaults /\ faults' = faults + 1
    BY <1>5 DEF Fault
  <2>2. PICK objs \in {objects, Outcome(p)} : Unsuccessful(p, objs)
    BY <1>5 DEF Fault
  <2>3. faults' \in 0 .. MaxFaults /\ faults' >= faults /\ faults' # faults
    BY <1>00, <2>1
  <2>4. /\ objects' = objs /\ connected' \subseteq StillConnected(objs)
        /\ asked' = StillAsked(objs, connected') /\ (GoesOn(p) \/ GivesUp(p))
    BY <1>2, <2>2
  <2> QED
    BY <1>0, <2>1, <2>2, <2>3, <2>4 DEF CallStep
<1> QED
  BY <1>3, <1>4, <1>5

\* What becomes of the objects.
Deletes(p, o) == Entry(p).op = "delete" /\ Removes(Entry(p), o)
Adds(p, o) == Entry(p).op \in {"put", "grant"} /\ Possible(p) /\ o = Entry(p).object
Effect(p) ==
  /\ \A o \in objects' : o \in objects \/ Adds(p, o)
  /\ \A o \in objects : o \in objects' \/ Deletes(p, o)
  /\ Possible(p) /\ objects' = Outcome(p) /\ Entry(p).op # "delete" => Entry(p).object \in objects'
  /\ Possible(p) /\ objects' = Outcome(p) => \A o : Deletes(p, o) => o \notin objects'
  /\ \A o \in objects' : DependsOn(o) \subseteq objects' /\ IsThing(o)

LEMMA Effects ==
  ASSUME \A o \in objects : DependsOn(o) \subseteq objects /\ IsThing(o),
         NEW p \in Programs, at[p] \in DOMAIN Script[p], CallStep(p)
  PROVE  Effect(p)
<1> DEFINE c == Entry(p)
<1>1. Sound(p, at[p]) /\ c.op \in {"put", "grant", "delete"}
  BY CallsAreSound DEF CallStep, Calls
<1>2. CASE objects' = objects /\ ~(Possible(p) /\ objects' = Outcome(p))
  BY <1>2 DEF Effect
<1>3. CASE Possible(p) /\ objects' = Outcome(p) /\ c.op = "delete"
  <2>1. objects' = {x \in objects : x # c.object /\ c.object \notin DependsOn(x)}
    BY <1>3 DEF Outcome, After, Prepared
  <2>2. MayDelete(p, c.object) /\ c.object \in objects
    BY <1>1, <1>3 DEF Sound, Entry, Possible, Accepts, Prepared
  <2>3. IsThing(c.object) /\ Kind(c.object) \in {"user", "vhost", "exchange", "queue"}
    BY <2>2, Kinds DEF MayDelete, Passing, IsThing, Domains
  <2>4. \A o \in objects : o \in objects' \/ Deletes(p, o)
    BY <1>3, <2>1 DEF Deletes, Removes
  <2>5. \A o : Deletes(p, o) => o \notin objects'
    BY <1>3, <2>1 DEF Deletes, Removes
  <2>6. ASSUME NEW o \in objects', NEW d \in DependsOn(o)
        PROVE  d \in objects'
    <3>1. d \in objects /\ DependsOn(d) = {} /\ d # c.object
      BY <2>1, Dependence
    <3> QED
      BY <2>1, <3>1
  <2> QED
    BY <1>3, <2>1, <2>4, <2>5, <2>6 DEF Effect
<1>4. CASE Possible(p) /\ objects' = Outcome(p) /\ c.op # "delete"
  <2>1. IsThing(c.object) /\ DependsOn(c.object) \subseteq objects
    <3>1. MayAdd(p, c.object)
      BY <1>1, <1>4 DEF Sound, Entry
    <3>2. IsThing(c.object)
      BY <3>1 DEF MayAdd, Lasting, Passing, Domains
    <3>3. DependsOn(c.object) \subseteq objects
      BY <1>4 DEF Possible, Accepts, Prepared
    <3> QED
      BY <3>2, <3>3
  <2>2. objects' = objects \cup {c.object}
    BY <1>4, <2>1, Adding DEF Outcome, Prepared
  <2> QED
    BY <1>1, <1>4, <2>1, <2>2 DEF Effect, Adds, Deletes
<1> QED
  BY <1>2, <1>3, <1>4 DEF CallStep

LEMMA Lengths ==
  ASSUME NEW p \in Programs
  PROVE  Len(Script[p]) \in Nat /\ DOMAIN Script[p] = 1 .. Len(Script[p]) /\ 1 \in DOMAIN Script[p]
  BY HostScript, GuestScript, PermsScript, AddScript, DelScript, VireScript
  DEF Programs, Domains, SharedHosts, Hosts

-----------------------------------------------------------------------------
(***************************************************************************)
(* Types                                                                   *)
(***************************************************************************)
LEMMA TypeInit == Init => TypeOK /\ ObjectInv
<1> SUFFICES ASSUME Init
             PROVE  TypeOK /\ ObjectInv
  OBVIOUS
<1>1. /\ IsThing(User("supernemo_adm")) /\ DependsOn(User("supernemo_adm")) = {}
      /\ objects = {User("supernemo_adm")}
  BY Kinds DEF Init
<1>2. \A p \in Programs : at[p] \in DOMAIN Script[p]
  BY Lengths DEF Init
<1>3. TypeOK
  BY <1>1, <1>2, ProvisioningAssumption DEF TypeOK, Init, Statuses
<1>4. ObjectInv
  BY <1>1 DEF ObjectInv, Init
<1> QED
  BY <1>3, <1>4

\* No call takes away what is lasting.
LEMMA LastingStays ==
  ASSUME NEW p \in Programs, at[p] \in DOMAIN Script[p], Effect(p),
         NEW t, t \subseteq {Tmp}, p = "del_tmpuser" => t = {},
         NEW o \in objects, Lasting(o, t)
  PROVE  o \in objects'
<1>1. Entry(p).op = "delete" => MayDelete(p, Entry(p).object)
  BY CallsAreSound DEF Sound, Entry
<1>2. \A d : MayDelete(p, d) => ~Removes(Delete(d), o)
  BY Survival
<1>3. ~Deletes(p, o)
  BY <1>1, <1>2 DEF Deletes, Removes, Delete
<1> QED
  BY <1>3 DEF Effect

LEMMA TypeCall ==
  ASSUME TypeOK, ObjectInv, NEW p \in cast, CallStep(p)
  PROVE  TypeOK' /\ ObjectInv'
<1>1. p \in Programs /\ cast' = cast /\ cast \in Casts /\ status[p] = "running"
  BY ProvisioningAssumption DEF TypeOK, CallStep, Calls
<1>2. Effect(p)
  BY <1>1, Effects DEF TypeOK, ObjectInv
<1>3. status' \in [Programs -> Statuses] /\ \A q \in Programs \ {p} : status'[q] = status[q]
  BY <1>1 DEF TypeOK, CallStep, GoesOn, GivesUp, Statuses
<1>4. at' \in [Programs -> Nat] /\ \A q \in Programs \ {p} : at'[q] = at[q]
  BY <1>1 DEF ObjectInv, CallStep, GoesOn, GivesUp
<1>5. \A q \in Programs : at'[q] \in DOMAIN Script[q]
  <2>1. at'[p] \in DOMAIN Script[p]
    <3>1. at[p] \in 1 .. Len(Script[p]) /\ Len(Script[p]) \in Nat
      BY <1>1, Lengths DEF TypeOK
    <3>2. at'[p] = at[p] \/ (at[p] < Len(Script[p]) /\ at'[p] = at[p] + 1)
      BY <1>1 DEF ObjectInv, CallStep, GoesOn, GivesUp
    <3> QED
      BY <1>1, <3>1, <3>2, Lengths
  <2> QED
    BY <1>4, <2>1 DEF TypeOK
<1>6. connected' \subseteq connected /\ \A q \in connected' : q \in cast /\ status'[q] = "running"
  <2>1. connected' \subseteq connected
    BY DEF CallStep, StillConnected
  <2>2. p \in connected' => status'[p] = "running"
    <3>1. CASE GoesOn(p)
      BY <1>1, <3>1 DEF GoesOn
    <3>2. CASE GivesUp(p)
      <4>1. p \notin connected
        BY <1>1, <3>2 DEF GivesUp, Ignores, ObjectInv
      <4> QED
        BY <2>1, <4>1
    <3> QED
      BY <3>1, <3>2 DEF CallStep
  <2> QED
    BY <1>3, <2>1, <2>2, ProvisioningAssumption DEF TypeOK
<1>7. asked' \subseteq asked \cap connected'
  BY DEF CallStep, StillAsked
<1>8. ASSUME NEW q \in asked'
      PROVE  status'[q] = "running" /\ Script[q][at'[q]].op = "work" /\ q \in connected'
  <2>1. q \in Programs /\ status[q] = "running" /\ Script[q][at[q]].op = "work" /\ q # p
    BY <1>7, ProvisioningAssumption DEF TypeOK, Runs, Entry, CallStep, Calls
  <2> QED
    BY <1>3, <1>4, <1>7, <2>1
<1>9. standing' \subseteq cast
  BY DEF TypeOK, CallStep, GoesOn, GivesUp
<1>10. TypeOK'
  BY <1>1, <1>2, <1>3, <1>5, <1>6, <1>8, <1>9 DEF TypeOK, Effect, CallStep, Runs, Entry
<1>11. ObjectInv'
  <2>1. User("supernemo_adm") \in objects'
    <3>1. Lasting(User("supernemo_adm"), {})
      BY LastingKinds
    <3> QED
      BY <1>1, <1>2, <3>1, LastingStays DEF TypeOK, ObjectInv
  <2> QED
    BY <1>2, <1>4, <1>6, <2>1 DEF ObjectInv, Effect
<1> QED
  BY <1>10, <1>11

\* The steps that are no calls leave the objects as they are.
LEMMA TypeLaunch ==
  ASSUME TypeOK, ObjectInv, NEW p \in cast, Launch(p)
  PROVE  TypeOK' /\ ObjectInv'
<1>1. /\ p \in Programs /\ cast' = cast /\ objects' = objects /\ connected' = connected
      /\ asked' = asked /\ faults' = faults /\ p \notin connected
      /\ status' = [status EXCEPT ![p] = "running"] /\ at' = [at EXCEPT ![p] = 1]
      /\ standing' \subseteq standing
  BY ProvisioningAssumption DEF TypeOK, Launch
<1>2. \A q \in Programs : at'[q] \in DOMAIN Script[q]
  BY <1>1, Lengths DEF TypeOK, ObjectInv
<1>3. connected' \subseteq {q \in cast' : status'[q] = "running"}
  BY <1>1, ProvisioningAssumption DEF TypeOK
<1>4. asked' \subseteq {q \in connected' : Runs(q, "work")'}
  BY <1>1, ProvisioningAssumption DEF TypeOK, ObjectInv, Runs, Entry
<1>5. status' \in [Programs -> Statuses] /\ at' \in [Programs -> Nat]
  BY <1>1 DEF TypeOK, ObjectInv, Statuses
<1> QED
  BY <1>1, <1>2, <1>3, <1>4, <1>5 DEF TypeOK, ObjectInv

LEMMA TypeConnects ==
  ASSUME TypeOK, ObjectInv, NEW p \in cast, Connects(p)
  PROVE  TypeOK' /\ ObjectInv'
<1>1. /\ p \in Programs /\ cast' = cast /\ objects' = objects /\ standing' = standing
      /\ connected' = connected \cup {p} /\ asked' \subseteq asked \cup {p} /\ faults' = faults
      /\ status' = status /\ at' = [at EXCEPT ![p] = at[p] + 1]
      /\ status[p] = "running" /\ Script[p][at[p]].op = "connect"
  BY ProvisioningAssumption DEF TypeOK, Connects, Runs, Entry, history
<1>2. /\ p \notin Domains /\ at[p] + 1 \in DOMAIN Script[p]
      /\ Script[p][at[p] + 1].op = "work"
  BY <1>1, CallsAreSound DEF TypeOK, Sound
<1>3. /\ \A q \in Programs : at'[q] \in DOMAIN Script[q]
      /\ at' \in [Programs -> Nat]
  BY <1>1, <1>2 DEF TypeOK, ObjectInv
<1>4. asked' \subseteq {q \in connected' : Runs(q, "work")'}
  BY <1>1, <1>2, ProvisioningAssumption DEF TypeOK, ObjectInv, Runs, Entry
<1>5. connected' \subseteq {q \in cast' : status'[q] = "running"} /\ connected' \cap Domains = {}
  BY <1>1, <1>2 DEF TypeOK, ObjectInv
<1> QED
  BY <1>1, <1>3, <1>4, <1>5 DEF TypeOK, ObjectInv

LEMMA TypeWorkEnds ==
  ASSUME TypeOK, ObjectInv, NEW p \in cast, WorkEnds(p)
  PROVE  TypeOK' /\ ObjectInv'
<1>1. /\ p \in Programs /\ cast' = cast /\ objects' = objects /\ standing' = standing
      /\ connected' = connected /\ asked' = asked \ {p} /\ faults' = faults
      /\ status' = status /\ at' = [at EXCEPT ![p] = at[p] + 1]
      /\ status[p] = "running" /\ Script[p][at[p]].op = "work"
  BY ProvisioningAssumption DEF TypeOK, WorkEnds, Runs, Entry, history
<1>2. at[p] + 1 \in DOMAIN Script[p]
  BY <1>1, CallsAreSound DEF TypeOK, Sound
<1>3. /\ \A q \in Programs : at'[q] \in DOMAIN Script[q]
      /\ at' \in [Programs -> Nat]
  BY <1>1, <1>2 DEF TypeOK, ObjectInv
<1>4. asked' \subseteq {q \in connected' : Runs(q, "work")'}
  BY <1>1, <1>2, ProvisioningAssumption DEF TypeOK, ObjectInv, Runs, Entry
<1> QED
  BY <1>1, <1>3, <1>4 DEF TypeOK, ObjectInv

LEMMA TypeAbort ==
  ASSUME TypeOK, ObjectInv, NEW p \in cast, Abort(p)
  PROVE  TypeOK' /\ ObjectInv'
<1>1. /\ p \in Programs /\ cast' = cast /\ objects' = objects /\ standing' = standing
      /\ connected' = connected \ {p} /\ asked' \subseteq asked \cap connected' /\ faults' = faults
      /\ status' = [status EXCEPT ![p] = "aborted"] /\ at' = at
  BY ProvisioningAssumption DEF TypeOK, Abort, Become, StillAsked, history
<1>2. connected' \subseteq {q \in cast' : status'[q] = "running"}
  BY <1>1, ProvisioningAssumption DEF TypeOK
<1>3. asked' \subseteq {q \in connected' : Runs(q, "work")'}
  BY <1>1, ProvisioningAssumption DEF TypeOK, ObjectInv, Runs, Entry
<1>4. status' \in [Programs -> Statuses]
  BY <1>1 DEF TypeOK, Statuses
<1> QED
  BY <1>1, <1>2, <1>3, <1>4 DEF TypeOK, ObjectInv

\* What a step is; only the tests of permissions end with an exception.
LEMMA Steps ==
  ASSUME TypeOK, Next
  PROVE  \E p \in cast : \/ Launch(p) \/ CallStep(p) \/ Connects(p) \/ WorkEnds(p)
                         \/ (Abort(p) /\ p \notin Domains)
<1>1. PICK p \in cast : \/ Launch(p) \/ Perform(p) \/ Refused(p) \/ Fault(p) \/ Connects(p)
                        \/ CannotConnect(p) \/ WorkEnds(p) \/ WorkFails(p)
  BY DEF Next
<1>2. ASSUME CannotConnect(p) \/ WorkFails(p)
      PROVE  Abort(p) /\ p \notin Domains
  <2>1. Abort(p) /\ Entry(p).op \in {"connect", "work"} /\ p \in Programs
    BY <1>2, ProvisioningAssumption DEF CannotConnect, WorkFails, Runs, TypeOK
  <2> QED
    BY <2>1, CallsAreSound DEF Sound, Entry, TypeOK
<1>3. Perform(p) \/ Refused(p) \/ Fault(p) => CallStep(p)
  BY Calling, ProvisioningAssumption DEF TypeOK
<1> QED
  BY <1>1, <1>2, <1>3

LEMMA TypeStep ==
  ASSUME TypeOK, ObjectInv, [Next]_vars
  PROVE  TypeOK' /\ ObjectInv'
<1>1. CASE Next
  BY <1>1, Steps, TypeLaunch, TypeCall, TypeConnects, TypeWorkEnds, TypeAbort
<1>2. CASE UNCHANGED vars
  BY <1>2 DEF TypeOK, ObjectInv, vars, Runs, Entry
<1> QED
  BY <1>1, <1>2

\* The types are right whatever programs are run together: nothing on the broker
\* lacks what it needs, and no program has a connection that does not run.
THEOREM TypeCorrect == Spec => []TypeOK
<1>1. Init => TypeOK /\ ObjectInv
  BY TypeInit
<1>2. TypeOK /\ ObjectInv /\ [Next]_vars => TypeOK' /\ ObjectInv'
  BY TypeStep
<1> QED
  BY <1>1, <1>2, PTL DEF Spec

-----------------------------------------------------------------------------
(***************************************************************************)
(* Connected hosts                                                         *)
(***************************************************************************)
VhostOf(p) == IF p = "perms" THEN "The_Mothers" ELSE Here

\* The calls of hosts and guests by their parts.
LEMMA HostEntries ==
  ASSUME NEW p \in SharedHosts
  PROVE  LET s == Script[p]
             n == Perms(Here, UserOf[p], RightsOf(Here, UserOf[p]))
         IN  /\ DOMAIN s = 1 .. 9
             /\ s[1].op = "put" /\ s[2].op = "put" /\ s[3].op = "put" /\ s[4].op = "grant"
             /\ s[5].op = "connect" /\ s[6].op = "work"
             /\ s[7].op = "delete" /\ s[8].op = "delete" /\ s[9].op = "delete"
             /\ s[1].object = Vhost(Here) /\ s[2].object = ThingOf[p]
             /\ s[3].object = User(UserOf[p]) /\ s[4].object = n
             /\ s[7].object = User(UserOf[p]) /\ s[8].object = ThingOf[p]
             /\ s[9].object = Vhost(Here)
<1> DEFINE s == Script[p]
<1>1. /\ DOMAIN s = 1 .. 9 /\ s[1] = Put(Vhost(Here)) /\ s[2] = Put(ThingOf[p])
      /\ s[3] = Put(User(UserOf[p]))
      /\ s[4] = Grant(Here, UserOf[p], RightsOf(Here, UserOf[p]))
      /\ s[5] = Connect /\ s[6] = Work /\ s[7] = Delete(User(UserOf[p]))
      /\ s[8] = Delete(ThingOf[p]) /\ s[9] = Delete(Vhost(Here))
  BY HostScript
<1> HIDE DEF s
<1>2. /\ s[1].op = "put" /\ s[2].op = "put" /\ s[3].op = "put"
      /\ s[1].object = Vhost(Here) /\ s[2].object = ThingOf[p] /\ s[3].object = User(UserOf[p])
  BY <1>1 DEF Put
<1>3. s[4].op = "grant" /\ s[4].object = Perms(Here, UserOf[p], RightsOf(Here, UserOf[p]))
  BY <1>1 DEF Grant
<1>4. s[5].op = "connect" /\ s[6].op = "work"
  BY <1>1 DEF Connect, Work
<1>5. /\ s[7].op = "delete" /\ s[8].op = "delete" /\ s[9].op = "delete"
      /\ s[7].object = User(UserOf[p]) /\ s[8].object = ThingOf[p] /\ s[9].object = Vhost(Here)
  BY <1>1 DEF Delete
<1> QED
  BY <1>1, <1>2, <1>3, <1>4, <1>5 DEF s

LEMMA GuestEntries ==
  ASSUME NEW p \in Guests
  PROVE  LET s == Script[p]
         IN  /\ DOMAIN s = 1 .. 5
             /\ s[1].op = "put" /\ s[2].op = "grant" /\ s[3].op = "connect" /\ s[4].op = "work"
             /\ s[5].op = "delete" /\ s[5].object = User(UserOf[p])
<1> DEFINE s == Script[p]
<1>1. /\ DOMAIN s = 1 .. 5 /\ s[1] = Put(User(UserOf[p]))
      /\ s[2] = Grant(Here, UserOf[p], RightsOf(Here, UserOf[p]))
      /\ s[3] = Connect /\ s[4] = Work /\ s[5] = Delete(User(UserOf[p]))
  BY GuestScript
<1> HIDE DEF s
<1>2. /\ s[1].op = "put" /\ s[2].op = "grant" /\ s[3].op = "connect" /\ s[4].op = "work"
      /\ s[5].op = "delete" /\ s[5].object = User(UserOf[p])
  BY <1>1 DEF Put, Grant, Connect, Work, Delete
<1> QED
  BY <1>1, <1>2 DEF s

\* What a host at work relies on, which no other program deletes by itself.
LEMMA HostNeeds ==
  ASSUME NEW p \in Hosts
  PROVE  /\ Credentials(p) = <<"perms", VhostOf(p), UserOf[p]>>
         /\ Uses(p) = {ThingOf[p]} /\ DependsOn(ThingOf[p]) = {Vhost(VhostOf(p))}
         /\ \A i \in DOMAIN Script[p] :
              i + 1 \in DOMAIN Script[p] /\ Script[p][i + 1].op = "work"
                => Script[p][i].op = "connect"
         /\ Script[p][1].op # "work"
<1> DEFINE v == VhostOf(p)
           u == UserOf[p]
           n == Perms(v, u, RightsOf(v, u))
           P(i) == Script[p][i].op \in {"put", "grant"} /\ Kind(Script[p][i].object) = "perms"
           k == IF p = "perms" THEN 5 ELSE 4
<1>1. Uses(p) = {ThingOf[p]}
  BY DEF Hosts, Uses, ThingOf
<1>2. DependsOn(ThingOf[p]) = {Vhost(v)} /\ Kind(ThingOf[p]) # "perms"
  BY Kinds DEF Hosts, ThingOf, VhostOf
<1>3. \A x, y : Kind(User(x)) # "perms" /\ Kind(Vhost(x)) # "perms" /\ Kind(Queue(x, y)) # "perms"
  BY Kinds
<1>4. Kind(n) = "perms" /\ Name(n) = <<"perms", v, u>>
  <2>1. n[2] = v /\ n[3] = u
    BY DEF Perms
  <2> QED
    BY <2>1, Kinds DEF Name
<1>5. p = "perms" => u = "Zappa"
  BY DEF UserOf
<1>6. /\ k \in DOMAIN Script[p] /\ Script[p][k].op \in {"put", "grant"} /\ Script[p][k].object = n
      /\ \A i \in DOMAIN Script[p] : P(i) => i = k
  <2>1. CASE p = "perms"
    <3>1. Script[p][k].op = "put" /\ Script[p][k].object = n
      BY <2>1, <1>5, PermsScript DEF Put, VhostOf
    <3>2. ASSUME NEW i \in DOMAIN Script[p], i # k
          PROVE  ~P(i)
      <4>1. CASE i \in 1 .. 4
        BY <2>1, <3>2, <4>1, <1>2, <1>3, PermsScript DEF Put
      <4>2. CASE i \in 6 .. 11
        BY <2>1, <3>2, <4>2, PermsScript DEF Delete, Connect, Work
      <4> QED
        BY <2>1, <3>2, <4>1, <4>2, PermsScript
    <3> QED
      BY <2>1, <3>1, <3>2, PermsScript
  <2>2. CASE p # "perms"
    <3>0. p \in SharedHosts /\ v = Here
      BY <2>2 DEF SharedHosts, VhostOf
    <3>1. Script[p][k].op = "grant" /\ Script[p][k].object = n
      BY <2>2, <3>0, HostEntries
    <3>2. ASSUME NEW i \in DOMAIN Script[p], i # k
          PROVE  ~P(i)
      <4>1. i \in {1, 2, 3, 5, 6, 7, 8, 9}
        BY <2>2, <3>0, <3>2, HostEntries
      <4>2. i \in 1 .. 3 => Kind(Script[p][i].object) # "perms"
        BY <3>0, <1>2, <1>3, HostEntries
      <4>3. i \in 5 .. 9 => Script[p][i].op \notin {"put", "grant"}
        BY <3>0, HostEntries
      <4> QED
        BY <4>1, <4>2, <4>3
    <3> QED
      BY <2>2, <3>0, <3>1, <3>2, HostEntries
  <2> QED
    BY <2>1, <2>2
<1>7. Credentials(p) = <<"perms", v, u>>
  <2> DEFINE c == CHOOSE i \in DOMAIN Script[p] : P(i)
  <2>1. P(k)
    BY <1>4, <1>6
  <2>2. c \in DOMAIN Script[p] /\ P(c)
    BY <2>1, <1>6
  <2>3. c = k
    BY <2>2, <1>6
  <2>4. Credentials(p) = Name(Script[p][c].object)
    BY DEF Credentials
  <2> HIDE DEF c, P, k
  <2> QED
    BY <2>3, <2>4, <1>4, <1>6
<1>8. /\ Script[p][1].op # "work"
      /\ \A i \in DOMAIN Script[p] :
           i + 1 \in DOMAIN Script[p] /\ Script[p][i + 1].op = "work" => Script[p][i].op = "connect"
  <2>1. CASE p = "perms"
    BY <2>1, PermsScript DEF Put, Delete, Connect, Work
  <2>2. CASE p # "perms"
    <3>1. p \in SharedHosts
      BY <2>2 DEF SharedHosts
    <3> QED
      BY <3>1, HostEntries
  <2> QED
    BY <2>1, <2>2
<1> QED
  BY <1>1, <1>2, <1>7, <1>8

LEMMA OnlyItsOwn ==
  ASSUME NEW p \in Hosts, NEW q \in Programs, q # p, NEW i \in DOMAIN Script[q],
         Script[q][i].op = "delete"
  PROVE  Script[q][i].object # ThingOf[p]
<1>1. Kind(ThingOf[p]) \in {"exchange", "queue"}
  BY Kinds DEF Hosts, ThingOf
<1>2. \A x : Kind(User(x)) = "user" /\ Kind(Vhost(x)) = "vhost"
  BY Kinds
<1>3. CASE q \in SharedHosts
  <2>1. ThingOf[q] # ThingOf[p]
    BY <1>3 DEF SharedHosts, Hosts, ThingOf, Queue, Exchange, Here
  <2>2. Script[q][i].object \in {User(UserOf[q]), ThingOf[q], Vhost(Here)}
    BY <1>3, HostEntries
  <2> QED
    BY <1>1, <1>2, <2>1, <2>2
<1>4. CASE q \in Guests
  <2>1. Script[q][i].object = User(UserOf[q])
    BY <1>4, GuestEntries
  <2> QED
    BY <1>1, <1>2, <2>1
<1>5. CASE q = "perms"
  <2>1. ThingOf[q] # ThingOf[p] /\ Queue("The_Mothers", "Ya_Hozna") # ThingOf[p]
    BY <1>5 DEF Hosts, ThingOf, Queue, Exchange, Here
  <2>2. Script[q][i].object \in {User("Zappa"), Queue("The_Mothers", "Ya_Hozna"), ThingOf[q],
                                 Vhost("The_Mothers")}
    BY <1>5, PermsScript DEF Put, Grant, Delete, Connect, Work
  <2> QED
    BY <1>1, <1>2, <2>1, <2>2
<1>6. CASE q \in Domains
  <2>1. MayDelete(q, Script[q][i].object)
    BY CallsAreSound DEF Sound
  <2>2. Script[q][i].object \in {User(Tmp), Vhost(Tmp)}
    BY <1>6, <2>1 DEF MayDelete, Domains
  <2> QED
    BY <1>1, <1>2, <2>2
<1> QED
  BY <1>3, <1>4, <1>5, <1>6 DEF Programs, SharedHosts

LEMMA HostCall ==
  ASSUME TypeOK, ObjectInv, HostInv, NEW q \in cast, CallStep(q)
  PROVE  HostInv'
<1>1. q \in Programs /\ Effect(q) /\ Calls(q) /\ TypeOK' /\ ObjectInv'
  BY Effects, TypeCall, ProvisioningAssumption DEF TypeOK, ObjectInv, CallStep
<1> SUFFICES ASSUME NEW p \in connected' \cap Hosts, Runs(p, "work")'
             PROVE  Uses(p) \subseteq objects' /\ \E o \in objects' : Name(o) = Credentials(p)
  BY DEF HostInv
<1>2. p \in Programs /\ status'[p] = "running" /\ Script[p][at'[p]].op = "work"
  BY DEF Programs, Runs, Entry
<1>3. p \in connected /\ \E o \in objects' : Name(o) = Credentials(p)
  BY DEF CallStep, StillConnected
<1>4. p # q
  <2> SUFFICES ASSUME p = q
               PROVE  FALSE
    OBVIOUS
  <2>1. Script[p][at[p]].op \in {"put", "grant", "delete"} /\ at[p] \in DOMAIN Script[p]
    BY <1>1 DEF Calls, Entry, TypeOK
  <2>2. CASE at' = [at EXCEPT ![p] = at[p] + 1]
    <3>1. at'[p] = at[p] + 1 /\ at'[p] \in DOMAIN Script[p]
      BY <1>1, <1>2, <2>2 DEF TypeOK, ObjectInv
    <3> QED
      BY <1>2, <2>1, <3>1, HostNeeds
  <2>3. CASE at' = at
    BY <1>2, <2>1, <2>3
  <2> QED
    BY <2>2, <2>3 DEF CallStep, GoesOn, GivesUp
<1>5. Runs(p, "work")
  <2>1. status'[p] = status[p] /\ at'[p] = at[p]
    BY <1>1, <1>2, <1>4 DEF TypeOK, ObjectInv, CallStep, GoesOn, GivesUp
  <2> QED
    BY <1>2, <2>1 DEF Runs, Entry
<1>6. ThingOf[p] \in objects
  BY <1>3, <1>5, HostNeeds DEF HostInv
<1>7. Vhost(VhostOf(p)) \in objects'
  <2>1. PICK o \in objects' : Name(o) = <<"perms", VhostOf(p), UserOf[p]>>
    BY <1>3, HostNeeds
  <2>2. IsThing(o) /\ DependsOn(o) \subseteq objects'
    BY <1>1 DEF Effect
  <2>3. Kind(o) = "perms" /\ o[2] = VhostOf(p)
    <3>1. CASE Kind(o) = "perms"
      BY <2>1, <3>1 DEF Name
    <3>2. CASE Kind(o) # "perms"
      BY <2>1, <3>2 DEF Name, Kind
    <3> QED
      BY <3>1, <3>2
  <2>4. Vhost(o[2]) \in DependsOn(o)
    BY <2>3 DEF DependsOn
  <2> QED
    BY <2>2, <2>3, <2>4
<1>8. ThingOf[p] \in objects'
  <2> SUFFICES ASSUME ThingOf[p] \notin objects'
               PROVE  FALSE
    OBVIOUS
  <2>1. Deletes(q, ThingOf[p]) /\ Possible(q) /\ objects' = Outcome(q)
    BY <1>1, <1>6 DEF Effect, CallStep
  <2>2. Entry(q).object # ThingOf[p]
    BY <1>1, <1>4, <2>1, OnlyItsOwn DEF TypeOK, Deletes, Entry
  <2>3. Entry(q).object = Vhost(VhostOf(p))
    BY <2>1, <2>2, HostNeeds DEF Deletes, Removes
  <2>4. Deletes(q, Vhost(VhostOf(p)))
    BY <2>1, <2>3 DEF Deletes, Removes
  <2> QED
    BY <1>1, <1>7, <2>1, <2>4 DEF Effect
<1> QED
  BY <1>3, <1>8, HostNeeds

LEMMA HostStep ==
  ASSUME TypeOK, ObjectInv, HostInv, [Next]_vars
  PROVE  HostInv'
<1>1. ASSUME NEW q \in cast, Launch(q) \/ Connects(q) \/ WorkEnds(q) \/ Abort(q)
      PROVE  HostInv'
  <2>1. objects' = objects /\ q \in Programs
    BY <1>1, ProvisioningAssumption DEF Launch, Connects, WorkEnds, Abort, Become, TypeOK
  <2> SUFFICES ASSUME NEW p \in connected' \cap Hosts, Runs(p, "work")'
               PROVE  Uses(p) \subseteq objects /\ \E o \in objects : Name(o) = Credentials(p)
    BY <2>1 DEF HostInv
  <2>2. p \in Programs /\ status'[p] = "running" /\ Script[p][at'[p]].op = "work"
    BY DEF Programs, Runs, Entry
  <2>3. CASE p # q
    <3>1. p \in connected /\ status'[p] = status[p] /\ at'[p] = at[p]
      <4>1. p \in connected
        BY <1>1, <2>3 DEF Launch, Connects, WorkEnds, Abort, Become
      <4>2. status'[p] = status[p]
        BY <1>1, <2>1, <2>2, <2>3 DEF TypeOK, Launch, Connects, WorkEnds, Abort
      <4>3. at'[p] = at[p]
        BY <1>1, <2>1, <2>2, <2>3 DEF ObjectInv, Launch, Connects, WorkEnds, Abort
      <4> QED
        BY <4>1, <4>2, <4>3
    <3> QED
      BY <2>2, <3>1 DEF HostInv, Runs, Entry
  <2>4. CASE p = q
    <3>1. CASE Launch(q)
      BY <2>2, <2>4, <3>1, HostNeeds DEF Launch, TypeOK, ObjectInv
    <3>2. CASE Connects(q)
      BY <2>4, <3>2 DEF Connects, MayConnect
    <3>3. CASE WorkEnds(q)
      <4>1. at'[p] = at[p] + 1 /\ Script[p][at[p]].op = "work" /\ at[p] \in DOMAIN Script[p]
        BY <2>2, <2>4, <3>3 DEF WorkEnds, Runs, Entry, TypeOK, ObjectInv
      <4>2. at[p] + 1 \in DOMAIN Script[p]
        BY <2>2, <4>1, CallsAreSound DEF Sound
      <4> QED
        BY <2>2, <4>1, <4>2, HostNeeds
    <3>4. CASE Abort(q)
      BY <2>4, <3>4 DEF Abort, Become
    <3> QED
      BY <1>1, <3>1, <3>2, <3>3, <3>4
  <2> QED
    BY <2>3, <2>4
<1>2. CASE Next
  BY <1>1, <1>2, Steps, HostCall
<1>3. CASE UNCHANGED vars
  BY <1>3 DEF HostInv, vars, Runs, Entry
<1> QED
  BY <1>2, <1>3

\* A host that is connected and at work keeps its queue or exchange, although the
\* virtual host goes, and may come back, whenever another host ends: with the
\* virtual host go the permissions, and the broker closes the connection.
THEOREM ConnectedKeepTheirs == Spec => []ConnectedIsWhole
<1>1. Init => TypeOK /\ ObjectInv /\ HostInv
  BY TypeInit DEF Init, HostInv
<1>2. TypeOK /\ ObjectInv /\ HostInv /\ [Next]_vars => TypeOK' /\ ObjectInv' /\ HostInv'
  BY TypeStep, HostStep
<1>3. HostInv => ConnectedIsWhole
  BY DEF HostInv, ConnectedIsWhole
<1> QED
  BY <1>1, <1>2, <1>3, PTL DEF Spec

-----------------------------------------------------------------------------
(***************************************************************************)
(* What is left                                                            *)
(***************************************************************************)
LEMMA LeftCall ==
  ASSUME TypeOK, ObjectInv, LeftInv, NEW q \in cast, CallStep(q)
  PROVE  LeftInv'
<1> SUFFICES ASSUME cast' \cap Domains = {}, faults' = 0,
                    NEW o \in objects', o # User("supernemo_adm")
             PROVE  \E p \in cast' : AnswersFor(p, o)'
  BY DEF LeftInv
<1>1. /\ q \in Programs /\ cast' = cast /\ q \notin Domains /\ status[q] = "running"
      /\ at[q] \in DOMAIN Script[q] /\ Entry(q).op \in {"put", "grant", "delete"}
  BY ProvisioningAssumption DEF TypeOK, CallStep, Calls
<1>2. faults = 0 /\ faults' = faults
  BY DEF CallStep, TypeOK
<1>3. Effect(q)
  BY <1>1, Effects DEF TypeOK, ObjectInv
<1>4. GoesOn(q)
  BY <1>1 DEF CallStep, GivesUp, Ignores
<1>5. \A p \in Programs \ {q} : status'[p] = status[p] /\ at'[p] = at[p]
  BY <1>4 DEF GoesOn, TypeOK, ObjectInv
<1>6. at[q] \in Nat /\ Len(Script[q]) \in Nat
  BY <1>1, Lengths DEF ObjectInv
<1>7. ASSUME NEW k \in at[q] + 1 .. Len(Script[q]), Removes(Script[q][k], o)
      PROVE  Dooms(q, o)'
  <2>1. at[q] < Len(Script[q])
    BY <1>6
  <2>2. status'[q] = "running" /\ at'[q] = at[q] + 1
    BY <1>1, <1>4, <2>1 DEF GoesOn, ObjectInv
  <2> QED
    BY <1>7, <2>2 DEF Dooms
<1>8. CASE o \in objects
  <2>1. PICK p \in cast : AnswersFor(p, o)
    BY <1>1, <1>2, <1>8 DEF LeftInv
  <2>2. CASE p # q
    <3>1. status'[p] = status[p] /\ at'[p] = at[p]
      BY <1>5, <2>2, ProvisioningAssumption DEF TypeOK
    <3> QED
      BY <1>1, <2>1, <3>1 DEF AnswersFor, Dooms, SetsUp
  <2>3. CASE p = q
    <3>1. SetsUp(q, o) /\ Dooms(q, o)
      BY <1>1, <2>1, <2>3 DEF AnswersFor
    <3>2. PICK i \in at[q] .. Len(Script[q]) : Removes(Script[q][i], o)
      BY <3>1 DEF Dooms
    <3>3. i # at[q]
      <4> SUFFICES ASSUME i = at[q]
                   PROVE  FALSE
        OBVIOUS
      <4>1. Deletes(q, o)
        BY <3>2 DEF Deletes, Removes, Entry
      <4>2. CASE Possible(q)
        <5>1. objects' = Outcome(q)
          BY <1>2, <4>2 DEF CallStep
        <5> QED
          BY <1>3, <4>1, <4>2, <5>1 DEF Effect
      <4>3. CASE ~Possible(q)
        <5>1. Entry(q).object \notin objects
          BY <4>1, <4>3 DEF Possible, Accepts, Prepared, Deletes
        <5> QED
          BY <1>8, <4>1, <5>1 DEF Deletes, Removes, TypeOK
      <4> QED
        BY <4>2, <4>3
    <3>4. i \in at[q] + 1 .. Len(Script[q])
      BY <1>6, <3>3
    <3> QED
      BY <1>1, <1>7, <3>1, <3>2, <3>4 DEF AnswersFor, SetsUp
  <2> QED
    BY <2>2, <2>3
<1>9. CASE o \notin objects
  <2>1. Adds(q, o)
    BY <1>3, <1>9 DEF Effect
  <2>2. SetsUp(q, o)
    BY <1>1, <2>1 DEF Adds, Entry, SetsUp
  <2>3. \E k \in at[q] + 1 .. Len(Script[q]) : Removes(Script[q][k], o)
    BY <1>1, <2>1, CallsAreSound DEF Sound, Adds, Entry
  <2> QED
    BY <1>1, <1>7, <2>2, <2>3 DEF AnswersFor, SetsUp
<1> QED
  BY <1>8, <1>9

\* A test that is started again is going to remove all that it sets up.
LEMMA LaunchDooms ==
  ASSUME TypeOK, ObjectInv, NEW q \in cast, q \notin Domains, Launch(q),
         NEW o, SetsUp(q, o)
  PROVE  AnswersFor(q, o)'
<1>1. q \in Programs /\ status'[q] = "running" /\ at'[q] = 1
  BY ProvisioningAssumption DEF Launch, TypeOK, ObjectInv
<1>2. PICK i \in DOMAIN Script[q] :
        Script[q][i].op \in {"put", "grant"} /\ Script[q][i].object = o
  BY DEF SetsUp
<1>3. PICK k \in i + 1 .. Len(Script[q]) : Removes(Script[q][k], o)
  BY <1>1, <1>2, CallsAreSound DEF Sound
<1>4. k \in 1 .. Len(Script[q])
  BY <1>1, <1>2, <1>3, Lengths
<1> QED
  BY <1>1, <1>3, <1>4 DEF AnswersFor, Dooms, SetsUp

LEMMA LeftStep ==
  ASSUME TypeOK, ObjectInv, LeftInv, [Next]_vars
  PROVE  LeftInv'
<1>1. ASSUME NEW q \in cast, Launch(q) \/ Connects(q) \/ WorkEnds(q) \/ Abort(q)
      PROVE  LeftInv'
  <2>1. objects' = objects /\ cast' = cast /\ faults' = faults
    BY <1>1 DEF Launch, Connects, WorkEnds, Abort, Become
  <2> SUFFICES ASSUME cast \cap Domains = {},
                      NEW o \in objects, NEW p \in cast, AnswersFor(p, o)
               PROVE  AnswersFor(p, o)'
    BY <2>1 DEF LeftInv
  <2>2. p \in Programs /\ q \in Programs /\ at[p] \in Nat /\ Len(Script[p]) \in Nat
    BY Lengths, ProvisioningAssumption DEF TypeOK, ObjectInv
  <2>3. CASE p # q
    <3>1. status'[p] = status[p]
      BY <1>1, <2>2, <2>3 DEF TypeOK, Launch, Connects, WorkEnds, Abort
    <3>2. at'[p] = at[p]
      BY <1>1, <2>2, <2>3 DEF ObjectInv, Launch, Connects, WorkEnds, Abort
    <3> QED
      BY <3>1, <3>2 DEF AnswersFor, Dooms, SetsUp
  <2>4. CASE p = q /\ Launch(q)
    BY <2>1, <2>4, LaunchDooms DEF AnswersFor
  <2>5. CASE p = q /\ Abort(q)
    <3>1. status'[p] = "aborted"
      BY <2>2, <2>5 DEF Abort, TypeOK
    <3> QED
      BY <3>1 DEF AnswersFor, SetsUp
  <2>6. CASE p = q /\ (Connects(q) \/ WorkEnds(q))
    <3>1. /\ Entry(p).op \in {"connect", "work"} /\ status[p] = "running"
          /\ status' = status /\ at'[p] = at[p] + 1
      BY <2>2, <2>6 DEF Connects, WorkEnds, Runs, ObjectInv
    <3>2. PICK i \in at[p] .. Len(Script[p]) : Removes(Script[p][i], o)
      BY <3>1 DEF AnswersFor, Dooms
    <3>3. i # at[p]
      BY <3>1, <3>2 DEF Removes, Entry
    <3>4. i \in at[p] + 1 .. Len(Script[p])
      BY <2>2, <3>3
    <3> QED
      BY <3>1, <3>2, <3>4 DEF AnswersFor, Dooms, SetsUp
  <2> QED
    BY <1>1, <2>3, <2>4, <2>5, <2>6
<1>2. CASE Next
  BY <1>1, <1>2, Steps, LeftCall
<1>3. CASE UNCHANGED vars
  BY <1>3 DEF LeftInv, AnswersFor, Dooms, SetsUp, vars
<1> QED
  BY <1>2, <1>3

\* The tests of permissions share a virtual host that the first one to end deletes
\* under the others.  All the same, when all have ended and no call failed without
\* need, nothing is left but what one of them had set up that ended with an
\* exception and was not started again.
THEOREM TheTestsCleanUp == Spec => []NothingLeft
<1>1. Init => TypeOK /\ ObjectInv /\ LeftInv
  BY TypeInit DEF Init, LeftInv
<1>2. TypeOK /\ ObjectInv /\ LeftInv /\ [Next]_vars => TypeOK' /\ ObjectInv' /\ LeftInv'
  BY TypeStep, LeftStep
<1>3. TypeOK /\ LeftInv => NothingLeft
  <2> SUFFICES ASSUME TypeOK, LeftInv, AtRest, cast \cap Domains = {}, faults = 0,
                      NEW o \in objects \ {User("supernemo_adm")}
               PROVE  \E p \in cast : status[p] = "aborted" /\ SetsUp(p, o)
    BY DEF NothingLeft
  <2>1. PICK p \in cast : AnswersFor(p, o)
    BY DEF LeftInv
  <2>2. status[p] # "running"
    BY ProvisioningAssumption DEF AtRest, TypeOK
  <2> QED
    BY <2>1, <2>2 DEF AnswersFor, Dooms
<1> QED
  BY <1>1, <1>2, <1>3, PTL DEF Spec

-----------------------------------------------------------------------------
(***************************************************************************)
(* What has been provided                                                  *)
(***************************************************************************)

\* The calls of vire_domains and add_tmpuser all add, and do not connect.
LEMMA DomainsAdd ==
  ASSUME NEW p \in {"vire_domains", "add_tmpuser"}, NEW i \in DOMAIN Script[p]
  PROVE  Script[p][i].op \in {"put", "grant"} /\ MayAdd(p, Script[p][i].object)
  BY CallsAreSound DEF Sound, MayDelete, Programs, Domains

\* Programs that connect or work are not those that provide.
LEMMA ProvidersDoNotConnect ==
  ASSUME TypeOK, NEW q \in cast, Connects(q) \/ WorkEnds(q)
  PROVE  q \notin Domains
<1>1. q \in Programs /\ at[q] \in DOMAIN Script[q] /\ Script[q][at[q]].op \in {"connect", "work"}
  BY ProvisioningAssumption DEF TypeOK, Connects, WorkEnds, Runs, Entry
<1> QED
  BY <1>1, CallsAreSound DEF Sound

LEMMA VireCall ==
  ASSUME TypeOK, ObjectInv, VireInv, NEW q \in cast, CallStep(q)
  PROVE  VireInv'
<1> DEFINE vire == "vire_domains"
           Due(j) == (status[vire] = "running" /\ j < at[vire]) \/ vire \in standing
<1>1. q \in Programs /\ vire \in Programs /\ at[q] \in DOMAIN Script[q] /\ Effect(q)
  BY Effects, ProvisioningAssumption DEF TypeOK, ObjectInv, Programs, Domains
<1> SUFFICES ASSUME NEW j \in DOMAIN VireDomains, Due(j)', VireDomains[j].object \notin VireUsers
             PROVE  VireDomains[j].object \in objects'
  BY DEF VireInv
<1>2. Lasting(VireDomains[j].object, {})
  BY DomainsAdd, VireScript DEF MayAdd
<1>3. CASE Due(j)
  <2>1. VireDomains[j].object \in objects
    BY <1>3 DEF VireInv
  <2> QED
    BY <1>1, <1>2, <2>1, LastingStays
<1>4. CASE ~Due(j)
  <2>1. q = vire
    <3> SUFFICES ASSUME q # vire
                 PROVE  FALSE
      OBVIOUS
    <3>1. status'[vire] = status[vire] /\ at'[vire] = at[vire]
      BY <1>1 DEF CallStep, GoesOn, GivesUp, TypeOK, ObjectInv
    <3>2. vire \in standing' => vire \in standing
      BY DEF CallStep, GoesOn, GivesUp
    <3> QED
      BY <1>4, <3>1, <3>2
  <2>2. status[vire] = "running"
    BY <2>1 DEF CallStep, Calls
  <2>3. GoesOn(q)
    <3> SUFFICES ASSUME GivesUp(q)
                 PROVE  FALSE
      BY DEF CallStep
    <3>1. status'[vire] # "running" /\ standing' = standing
      BY <1>1, <2>1 DEF GivesUp, TypeOK
    <3> QED
      BY <1>4, <3>1
  <2>4. at[vire] \in 1 .. 27 /\ j \in 1 .. 27 /\ Len(Script[vire]) = 27
    BY <1>1, <2>1, VireScript
  <2>5. j = at[vire]
    <3>1. ~(j < at[vire])
      BY <1>4, <2>2
    <3>2. CASE at[q] < Len(Script[q])
      <4>1. at'[vire] = at[vire] + 1 /\ standing' = standing
        BY <2>1, <2>3, <3>2, <1>1 DEF GoesOn, ObjectInv
      <4> QED
        BY <1>4, <2>4, <3>1, <4>1
    <3>3. CASE ~(at[q] < Len(Script[q]))
      BY <2>1, <2>4, <3>1, <3>3
    <3> QED
      BY <3>2, <3>3
  <2>6. VireDomains[j] = Entry(q) /\ Entry(q).op # "delete"
    BY <2>1, <2>5, VireScript, DomainsAdd DEF Entry
  <2>7. ~Ignores(q)
    <3>1. j \notin 1 .. 2
      BY VireScript DEF VireUsers, Put
    <3> QED
      BY <2>1, <2>4, <2>5, <3>1, VireScript DEF Ignores, Domains
  <2> QED
    BY <1>1, <2>3, <2>6, <2>7 DEF GoesOn, Effect
<1> QED
  BY <1>3, <1>4

LEMMA VireStep ==
  ASSUME TypeOK, ObjectInv, VireInv, [Next]_vars
  PROVE  VireInv'
<1> DEFINE vire == "vire_domains"
<1>0. vire \in Programs /\ vire \in Domains
  BY DEF Programs, Domains
<1>1. ASSUME NEW q \in cast, Launch(q) \/ Connects(q) \/ WorkEnds(q) \/ Abort(q)
      PROVE  VireInv'
  <2>1. objects' = objects /\ standing' \subseteq standing /\ q \in Programs
    BY <1>1, ProvisioningAssumption
    DEF Launch, Connects, WorkEnds, Abort, Become, history, TypeOK
  <2>2. status'[vire] = "running" => at'[vire] = 1 \/ (status[vire] = "running" /\ at'[vire] = at[vire])
    <3>1. CASE Launch(q)
      BY <1>0, <2>1, <3>1 DEF Launch, TypeOK, ObjectInv
    <3>2. CASE Connects(q) \/ WorkEnds(q)
      <4>1. q # vire
        BY <1>0, <3>2, ProvidersDoNotConnect
      <4> QED
        BY <1>0, <2>1, <3>2, <4>1 DEF Connects, WorkEnds, TypeOK, ObjectInv
    <3>3. CASE Abort(q)
      BY <1>0, <2>1, <3>3 DEF Abort, TypeOK
    <3> QED
      BY <1>1, <3>1, <3>2, <3>3
  <2> QED
    BY <2>1, <2>2, VireScript DEF VireInv
<1>2. CASE Next
  BY <1>1, <1>2, Steps, VireCall
<1>3. CASE UNCHANGED vars
  BY <1>3 DEF VireInv, vars
<1> QED
  BY <1>2, <1>3

LEMMA VireInit == Init => VireInv
  BY DEF Init, VireInv, Programs, Domains

\* When vire_domains has succeeded all that it sets up is there.
LEMMA Provided ==
  ASSUME TypeOK, VireInv, "vire_domains" \in standing
  PROVE  /\ VireUsers \subseteq objects
         /\ \A v \in VireVhosts : \A c \in CallsOn(v) : c.object \in objects
<1>1. ASSUME NEW v \in VireVhosts, NEW c \in CallsOn(v)
      PROVE  c.object \in objects \cup VireUsers
  <2>1. c \in EntriesOf(VireDomains, 27)
    BY VireScript DEF VireVhosts
  <2>2. \E j \in DOMAIN VireDomains : VireDomains[j] = c
    BY <2>1, VireScript DEF EntriesOf
  <2> QED
    BY <2>2 DEF VireInv
<1>2. ASSUME NEW v \in VireVhosts, NEW u \in VireGrantees[v]
      PROVE  User(u) \in objects
  <2> DEFINE n == Perms(v, u, RightsOf(v, u))
  <2>1. GrantCall(v, u) \in CallsOn(v) /\ GrantCall(v, u).object = n
    BY DEF CallsOn, GrantCall, Grant
  <2>2. n \notin VireUsers
    <3>1. Kind(n) = "perms" /\ \A x : Kind(User(x)) = "user"
      BY Kinds
    <3> QED
      BY <3>1 DEF VireUsers
  <2>3. User(u) \in DependsOn(n)
    BY Kinds
  <2> QED
    BY <1>1, <2>1, <2>2, <2>3 DEF TypeOK
<1>3. "cmslapp" \in VireVhosts /\ VireGrantees["cmslapp"] = {"vireserver", "cmslapp"}
  BY DEF VireVhosts, VireGrantees
<1>4. VireUsers \subseteq objects
  BY <1>2, <1>3 DEF VireUsers
<1> QED
  BY <1>1, <1>4

\* vire_domains looks at the results of neither add_user; all the same, when it
\* has reported success everything it sets up is there, and stays, whatever the
\* other programs do: the permissions it has set could not have been without
\* the users.
THEOREM SuccessIsProvision == Spec => []SuccessMeansProvided
<1>1. Init => TypeOK /\ ObjectInv /\ VireInv
  BY TypeInit, VireInit
<1>2. TypeOK /\ ObjectInv /\ VireInv /\ [Next]_vars => TypeOK' /\ ObjectInv' /\ VireInv'
  BY TypeStep, VireStep
<1>3. TypeOK /\ VireInv => SuccessMeansProvided
  BY Provided DEF VireInv, SuccessMeansProvided
<1> QED
  BY <1>1, <1>2, <1>3, PTL DEF Spec

LEMMA TmpCall ==
  ASSUME TypeOK, ObjectInv, TmpInv, NEW q \in cast, CallStep(q)
  PROVE  TmpInv'
<1> DEFINE add == "add_tmpuser"
           del == "del_tmpuser"
           Guarded == (status[add] = "running" /\ ~crossed) \/ add \in standing
           Due(j) == (status[add] = "running" /\ ~crossed /\ j < at[add]) \/ add \in standing
<1>1. /\ q \in Programs /\ add \in Programs /\ del \in Programs
      /\ at[q] \in DOMAIN Script[q] /\ Effect(q) /\ status[q] = "running" /\ crossed' = crossed
  BY Effects, ProvisioningAssumption
  DEF TypeOK, ObjectInv, Programs, Domains, CallStep, Calls
<1>2. Guarded => status[del] # "running"
  BY DEF TmpInv
<1>3. \A p \in Programs : status'[p] = "running" => status[p] = "running"
  BY <1>1 DEF CallStep, GoesOn, GivesUp, TypeOK
<1>4. add \in standing' => Guarded
  BY <1>1 DEF CallStep, GoesOn, GivesUp
<1>5. Guarded' => Guarded
  BY <1>1, <1>3, <1>4
<1>6. Guarded' => status'[del] # "running"
  BY <1>1, <1>2, <1>3, <1>5
<1>7. ASSUME NEW j \in DOMAIN AddTmpuser, Due(j)'
      PROVE  AddTmpuser[j].object \in objects'
  <2>1. Guarded
    BY <1>5, <1>7
  <2>2. Lasting(AddTmpuser[j].object, {Tmp})
    BY DomainsAdd, AddScript DEF MayAdd
  <2>3. CASE Due(j)
    <3>1. AddTmpuser[j].object \in objects
      BY <2>3 DEF TmpInv
    <3>2. q # del
      BY <1>1, <1>2, <2>1
    <3> QED
      BY <1>1, <2>2, <3>1, <3>2, LastingStays
  <2>4. CASE ~Due(j)
    <3>1. q = add
      <4> SUFFICES ASSUME q # add
                   PROVE  FALSE
        OBVIOUS
      <4>1. status'[add] = status[add] /\ at'[add] = at[add]
        BY <1>1 DEF CallStep, GoesOn, GivesUp, TypeOK, ObjectInv
      <4>2. add \in standing' => add \in standing
        BY DEF CallStep, GoesOn, GivesUp
      <4> QED
        BY <1>1, <1>7, <2>4, <4>1, <4>2
    <3>2. ~Ignores(q)
      BY <3>1 DEF Ignores, Domains
    <3>3. GoesOn(q)
      <4> SUFFICES ASSUME GivesUp(q)
                   PROVE  FALSE
        BY DEF CallStep
      <4>1. status'[add] # "running" /\ standing' = standing
        BY <1>1, <3>1 DEF GivesUp, TypeOK
      <4> QED
        BY <1>7, <2>4, <4>1
    <3>4. at[add] \in 1 .. 9 /\ j \in 1 .. 9 /\ Len(Script[add]) = 9
      BY <1>1, <3>1, AddScript
    <3>5. ~crossed /\ ~(j < at[add])
      BY <1>1, <2>1, <2>4, <3>1
    <3>6. j = at[add]
      <4>1. CASE at[q] < Len(Script[q])
        <5>1. at'[add] = at[add] + 1 /\ standing' = standing
          BY <3>1, <3>3, <4>1, <1>1 DEF GoesOn, ObjectInv
        <5> QED
          BY <1>7, <2>4, <3>4, <3>5, <5>1
      <4>2. CASE ~(at[q] < Len(Script[q]))
        BY <3>1, <3>4, <3>5, <4>2
      <4> QED
        BY <4>1, <4>2
    <3>7. AddTmpuser[j] = Entry(q) /\ Entry(q).op # "delete"
      BY <3>1, <3>6, AddScript, DomainsAdd DEF Entry
    <3> QED
      BY <1>1, <3>2, <3>3, <3>7 DEF GoesOn, Effect
  <2> QED
    BY <2>3, <2>4
<1> QED
  BY <1>6, <1>7 DEF TmpInv

LEMMA TmpStep ==
  ASSUME TypeOK, ObjectInv, TmpInv, [Next]_vars
  PROVE  TmpInv'
<1> DEFINE add == "add_tmpuser"
           del == "del_tmpuser"
<1>0. add \in Programs /\ add \in Domains /\ del \in Programs /\ del \in Domains
  BY DEF Programs, Domains
<1>1. ASSUME NEW q \in cast, Launch(q)
      PROVE  TmpInv'
  <2>1. /\ q \in Programs /\ objects' = objects
        /\ status' = [status EXCEPT ![q] = "running"] /\ at' = [at EXCEPT ![q] = 1]
        /\ standing' \subseteq standing
    BY <1>1, ProvisioningAssumption DEF Launch, TypeOK
  <2>2. CASE q = add
    <3>1. add \notin standing' /\ (crossed' <=> status[del] = "running")
      BY <1>1, <2>2 DEF Launch
    <3>2. status'[del] = status[del] /\ at'[add] = 1
      BY <1>0, <2>1, <2>2 DEF TypeOK, ObjectInv
    <3> QED
      BY <3>1, <3>2, AddScript DEF TmpInv
  <2>3. CASE q = del
    <3>1. add \notin standing' /\ crossed'
      BY <1>1, <2>3 DEF Launch
    <3> QED
      BY <3>1 DEF TmpInv
  <2>4. CASE q # add /\ q # del
    <3>1. crossed' = crossed
      BY <1>1, <2>4 DEF Launch
    <3>2. status'[del] = status[del] /\ status'[add] = status[add] /\ at'[add] = at[add]
      BY <1>0, <2>1, <2>4 DEF TypeOK, ObjectInv
    <3> QED
      BY <2>1, <3>1, <3>2 DEF TmpInv
  <2> QED
    BY <2>2, <2>3, <2>4
<1>2. ASSUME NEW q \in cast, Connects(q) \/ WorkEnds(q)
      PROVE  TmpInv'
  <2>1. /\ q \in Programs /\ objects' = objects /\ status' = status /\ standing' = standing
        /\ crossed' = crossed /\ at' = [at EXCEPT ![q] = at[q] + 1]
    BY <1>2, ProvisioningAssumption DEF Connects, WorkEnds, history, TypeOK
  <2>2. at'[add] = at[add]
    BY <1>0, <1>2, <2>1, ProvidersDoNotConnect DEF ObjectInv
  <2> QED
    BY <2>1, <2>2 DEF TmpInv
<1>3. ASSUME NEW q \in cast, Abort(q)
      PROVE  TmpInv'
  <2>1. /\ q \in Programs /\ objects' = objects /\ standing' = standing
        /\ crossed' = crossed /\ at' = at /\ status' = [status EXCEPT ![q] = "aborted"]
    BY <1>3, ProvisioningAssumption DEF Abort, Become, history, TypeOK
  <2>2. /\ status'[add] = "running" => status[add] = "running"
        /\ status'[del] = "running" => status[del] = "running"
    BY <1>0, <2>1 DEF TypeOK
  <2> QED
    BY <2>1, <2>2 DEF TmpInv
<1>4. CASE Next
  BY <1>1, <1>2, <1>3, <1>4, Steps, TmpCall
<1>5. CASE UNCHANGED vars
  BY <1>5 DEF TmpInv, vars
<1> QED
  BY <1>4, <1>5

LEMMA TmpInit == Init => TmpInv
  BY DEF Init, TmpInv, Programs, Domains

\* Once vire_domains has succeeded, and for the temporary user add_tmpuser too
\* without del_tmpuser since or meanwhile, everything that the scripts beside
\* the programs do is permitted.
THEOREM TheScriptsArePermitted == Spec => []ScriptsPermitted
<1> DEFINE Inv == TypeOK /\ ObjectInv /\ VireInv /\ TmpInv
<1>1. Init => Inv
  BY TypeInit, VireInit, TmpInit
<1>2. Inv /\ [Next]_vars => Inv'
  BY TypeStep, VireStep, TmpStep
<1>3. Inv => ScriptsPermitted
  <2> SUFFICES ASSUME Inv
               PROVE  ScriptsPermitted
    OBVIOUS
  <2>1. ASSUME NEW v, NEW u, NEW right, right \subseteq RightsOf(v, u),
               Perms(v, u, RightsOf(v, u)) \in objects
        PROVE  Permitted(<<u, v, right>>)
    <3> DEFINE n == Perms(v, u, RightsOf(v, u))
    <3>1. Name(n) = <<"perms", v, u>> /\ n[4] = RightsOf(v, u)
      <4>1. n[2] = v /\ n[3] = u /\ n[4] = RightsOf(v, u)
        BY DEF Perms
      <4> QED
        BY <4>1, Kinds DEF Name
    <3> QED
      BY <2>1, <3>1 DEF Permitted
  <2>2. ASSUME "vire_domains" \in standing, NEW use \in ShippedUses
        PROVE  Permitted(use)
    <3>1. ASSUME NEW v \in VireVhosts, NEW u \in VireGrantees[v]
          PROVE  Perms(v, u, RightsOf(v, u)) \in objects
      <4>1. GrantCall(v, u) \in CallsOn(v) /\ GrantCall(v, u).object = Perms(v, u, RightsOf(v, u))
        BY DEF CallsOn, GrantCall, Grant
      <4> QED
        BY <2>2, <4>1, Provided
    <3>2. /\ Perms("cmslapp", "cmslapp", RightsOf("cmslapp", "cmslapp")) \in objects
          /\ Perms("cmslapp", "vireserver", RightsOf("cmslapp", "vireserver")) \in objects
          /\ Perms("monitoring", "cmslapp", RightsOf("monitoring", "cmslapp")) \in objects
          /\ Perms("monitoring", "vireserver", RightsOf("monitoring", "vireserver")) \in objects
      BY <3>1 DEF VireVhosts, VireGrantees
    <3>3. /\ Service("subcontractor.service") \subseteq RightsOf("cmslapp", "cmslapp")
          /\ EventListener("vireserver.event") \subseteq RightsOf("cmslapp", "cmslapp")
      BY DEF RightsOf, Tmp, Partner
    <3>4. /\ Service("vireserver.service") \subseteq RightsOf("cmslapp", "vireserver")
          /\ EventListener("subcontractor.event") \subseteq RightsOf("cmslapp", "vireserver")
          /\ Request("subcontractor.service") \subseteq RightsOf("cmslapp", "vireserver")
      BY DEF RightsOf, Tmp, Partner
    <3>5. EventProducer("pubsub.event") \subseteq Tells
      BY DEF Tells, MonitoringEvents
    <3>6. /\ Service("resource_request.service") \subseteq RightsOf("monitoring", "cmslapp")
          /\ EventProducer("pubsub.event") \subseteq RightsOf("monitoring", "vireserver")
      BY <3>5 DEF RightsOf, Tmp
    <3> QED
      BY <2>1, <3>2, <3>3, <3>4, <3>6 DEF ShippedUses
  <2>3. ASSUME "add_tmpuser" \in standing, NEW use \in TmpuserUses
        PROVE  Permitted(use)
    <3>1. /\ Perms("monitoring", Tmp, RightsOf("monitoring", Tmp)) \in objects
          /\ Perms(Tmp, Tmp, RightsOf(Tmp, Tmp)) \in objects
      BY <2>3, AddScript DEF TmpInv, Grant
    <3>2. EventListener("pubsub.event") \subseteq Hears /\ EventListener("log.event") \subseteq Hears
      BY DEF Hears, MonitoringEvents
    <3>3. /\ Request("resource_request.service") \subseteq RightsOf("monitoring", Tmp)
          /\ EventListener("pubsub.event") \subseteq RightsOf("monitoring", Tmp)
          /\ EventListener("log.event") \subseteq RightsOf("monitoring", Tmp)
          /\ EventListener("vireserver.event") \subseteq RightsOf(Tmp, Tmp)
      BY <3>2 DEF RightsOf, Tmp
    <3> QED
      BY <2>1, <3>1, <3>3 DEF TmpuserUses
  <2> QED
    BY <2>2, <2>3 DEF ScriptsPermitted
<1> QED
  BY <1>1, <1>2, <1>3, PTL DEF Spec

-----------------------------------------------------------------------------
(***************************************************************************)
(* The temporary user and its virtual host                                 *)
(***************************************************************************)

\* Nobody but add_tmpuser adds what is on the virtual host of the temporary user.
LEMMA OnlyAddTmpuser ==
  ASSUME NEW q \in Programs, at[q] \in DOMAIN Script[q], NEW o, Adds(q, o),
         Kind(o) # "user", o[2] = Tmp
  PROVE  q = "add_tmpuser"
<1>1. MayAdd(q, o)
  BY CallsAreSound DEF Sound, Adds, Entry
<1>2. q = "vire_domains" => FALSE
  BY <1>1 DEF MayAdd, Lasting, VireVhosts, Tmp
<1>3. q \notin Domains => FALSE
  BY <1>1 DEF MayAdd, Passing, TestVhosts, Tmp, Here
<1> QED
  BY <1>1, <1>2, <1>3 DEF MayAdd, Domains

LEMMA TmpObjects ==
  /\ Lasting(User(Tmp), {Tmp}) /\ Lasting(Vhost(Tmp), {Tmp})
  /\ \A x \in TmpExchanges : Lasting(x, {Tmp}) /\ DependsOn(x) = {Vhost(Tmp)} /\ Kind(x) = "exchange"
  /\ Vhost(Tmp)[2] = Tmp /\ User(Tmp)[2] = Tmp
  /\ Kind(Vhost(Tmp)) = "vhost" /\ Kind(User(Tmp)) = "user"
<1>1. Tmp \in VireVhosts \cup {Tmp} /\ Tmp \in {"supernemo_adm", "vireserver", "cmslapp"} \cup {Tmp}
  OBVIOUS
<1>2. \A x \in TmpExchanges : Lasting(x, {Tmp}) /\ DependsOn(x) = {Vhost(Tmp)} /\ Kind(x) = "exchange"
  <2>1. ASSUME NEW e
        PROVE  /\ Lasting(Exchange(Tmp, e), {Tmp}) /\ DependsOn(Exchange(Tmp, e)) = {Vhost(Tmp)}
               /\ Kind(Exchange(Tmp, e)) = "exchange"
    BY <1>1, LastingKinds, Kinds
  <2> QED
    BY <2>1 DEF TmpExchanges
<1>3. Lasting(User(Tmp), {Tmp}) /\ Lasting(Vhost(Tmp), {Tmp})
  BY <1>1, LastingKinds
<1>4. Vhost(Tmp)[2] = Tmp /\ User(Tmp)[2] = Tmp
  BY DEF Vhost, User
<1> QED
  BY <1>2, <1>3, <1>4, Kinds

LEMMA OrphanCall ==
  ASSUME TypeOK, ObjectInv, OrphanInv, NEW q \in cast, CallStep(q)
  PROVE  OrphanInv'
<1> DEFINE add == "add_tmpuser"
           del == "del_tmpuser"
           Excused == \/ status[del] = "running" /\ at[del] = 2
                      \/ status[add] = "running" /\ at[add] \in 2 .. 7
<1> SUFFICES ASSUME ~reported', Vhost(Tmp) \in objects', User(Tmp) \notin objects'
             PROVE  Excused'
  BY DEF OrphanInv
<1>1. /\ q \in Programs /\ add \in Programs /\ del \in Programs
      /\ at[q] \in DOMAIN Script[q] /\ Effect(q) /\ status[q] = "running"
  BY Effects, ProvisioningAssumption
  DEF TypeOK, ObjectInv, Programs, Domains, CallStep, Calls
<1>2. GoesOn(q) /\ ~reported
  BY DEF CallStep, GoesOn, GivesUp
<1>3. at[q] < Len(Script[q]) => status'[q] = "running" /\ at'[q] = at[q] + 1
  BY <1>1, <1>2 DEF GoesOn, ObjectInv
<1>4. \A p \in Programs \ {q} : status'[p] = status[p] /\ at'[p] = at[p]
  BY <1>2 DEF GoesOn, TypeOK, ObjectInv
<1>5. q \in Domains /\ q # "vire_domains" => Possible(q) /\ objects' = Outcome(q)
  BY <1>2 DEF GoesOn, Ignores
<1>6. CASE q = del
  <2>1. at[del] \in 1 .. 2 /\ Len(Script[del]) = 2
    BY <1>1, <1>6, DelScript
  <2>2. CASE at[del] = 1
    BY <1>3, <1>6, <2>1, <2>2
  <2>3. CASE at[del] = 2
    <3>1. Deletes(q, Vhost(Tmp))
      BY <1>6, <2>3, DelScript DEF Deletes, Removes, Entry, Delete
    <3> QED
      BY <1>1, <1>5, <1>6, <3>1 DEF Effect, Domains
  <2> QED
    BY <2>1, <2>2, <2>3
<1>7. CASE q = add
  <2>1. /\ at[add] \in 1 .. 9 /\ Len(Script[add]) = 9 /\ Entry(q) = AddTmpuser[at[add]]
        /\ Entry(q).op \in {"put", "grant"}
    BY <1>1, <1>7, AddScript, DomainsAdd DEF Entry
  <2>2. Possible(q) /\ objects' = Outcome(q) /\ Entry(q).object \in objects'
    BY <1>1, <1>5, <1>7, <2>1 DEF Effect, Domains
  <2>3. objects \subseteq objects'
    BY <1>1, <2>1 DEF Effect, Deletes
  <2>4. at[add] # 1
    BY <2>1, <2>2, AddScript DEF Put
  <2>5. at[add] \notin {2, 3, 7}
    <3>1. DependsOn(Entry(q).object) \subseteq objects
      BY <2>1, <2>2 DEF Possible, Accepts, Prepared
    <3>2. at[add] \in {2, 3, 7} =>
            \E v \in {"control", "monitoring", Tmp} : Entry(q).object = Perms(v, Tmp, RightsOf(v, Tmp))
      BY <2>1, AddScript DEF Grant
    <3>3. at[add] \in {2, 3, 7} => User(Tmp) \in DependsOn(Entry(q).object)
      BY <3>2, Kinds
    <3> QED
      BY <2>3, <3>1, <3>3
  <2>6. CASE at[add] \in 4 .. 6
    BY <1>3, <1>7, <2>1, <2>6
  <2>7. CASE at[add] \in 8 .. 9
    <3>1. Kind(Entry(q).object) = "perms"
      <4>1. \A u : Kind(Perms(Tmp, u, RightsOf(Tmp, u))) = "perms"
        BY Kinds
      <4>2. \E u : Entry(q).object = Perms(Tmp, u, RightsOf(Tmp, u))
        BY <2>1, <2>7, AddScript DEF Grant, Put
      <4> QED
        BY <4>1, <4>2
    <3>2. Vhost(Tmp) \in objects
      BY <1>1, <3>1, TmpObjects DEF Effect, Adds
    <3>3. status[del] = "running" /\ at[del] = 2
      BY <1>2, <2>3, <2>7, <3>2 DEF OrphanInv
    <3> QED
      BY <1>1, <1>4, <1>7, <3>3
  <2> QED
    BY <2>1, <2>4, <2>5, <2>6, <2>7
<1>8. CASE q # del /\ q # add
  <2>1. Vhost(Tmp) \in objects
    BY <1>1, <1>8, OnlyAddTmpuser, TmpObjects DEF Effect
  <2>2. User(Tmp) \notin objects
    BY <1>1, <1>8, LastingStays, TmpObjects
  <2> QED
    BY <1>1, <1>2, <1>4, <1>8, <2>1, <2>2 DEF OrphanInv
<1> QED
  BY <1>6, <1>7, <1>8

LEMMA OrphanStep ==
  ASSUME TypeOK, ObjectInv, OrphanInv, [Next]_vars
  PROVE  OrphanInv'
<1> DEFINE add == "add_tmpuser"
           del == "del_tmpuser"
<1>0. add \in Programs /\ add \in Domains /\ del \in Programs /\ del \in Domains
  BY DEF Programs, Domains
<1>1. ASSUME NEW q \in cast, Launch(q)
      PROVE  OrphanInv'
  <2>1. /\ q \in Programs /\ objects' = objects /\ reported' = reported /\ status[q] # "running"
        /\ status' = [status EXCEPT ![q] = "running"] /\ at' = [at EXCEPT ![q] = 1]
    BY <1>1, ProvisioningAssumption DEF Launch, TypeOK
  <2>2. \A p \in {add, del} : status[p] = "running" => status'[p] = "running" /\ at'[p] = at[p]
    BY <1>0, <2>1 DEF TypeOK, ObjectInv
  <2> QED
    BY <2>1, <2>2 DEF OrphanInv
<1>2. ASSUME NEW q \in cast, Connects(q) \/ WorkEnds(q) \/ (Abort(q) /\ q \notin Domains)
      PROVE  OrphanInv'
  <2>1. q \in Programs /\ objects' = objects /\ reported' = reported
    BY <1>2, ProvisioningAssumption DEF Connects, WorkEnds, Abort, Become, history, TypeOK
  <2>2. q \notin Domains
    BY <1>2, ProvidersDoNotConnect
  <2>3. \A p \in {add, del} : status'[p] = status[p]
    BY <1>0, <1>2, <2>1, <2>2 DEF Connects, WorkEnds, Abort, TypeOK
  <2>4. \A p \in {add, del} : at'[p] = at[p]
    BY <1>0, <1>2, <2>1, <2>2 DEF Connects, WorkEnds, Abort, ObjectInv
  <2> QED
    BY <2>1, <2>3, <2>4 DEF OrphanInv
<1>3. CASE Next
  <2>1. PICK q \in cast : \/ Launch(q) \/ CallStep(q) \/ Connects(q) \/ WorkEnds(q)
                          \/ (Abort(q) /\ q \notin Domains)
    BY <1>3, Steps
  <2> QED
    BY <1>1, <1>2, <2>1, OrphanCall
<1>4. CASE UNCHANGED vars
  BY <1>4 DEF OrphanInv, vars
<1> QED
  BY <1>3, <1>4

\* The virtual host of the temporary user is not left behind without its user
\* unless some program has reported a failure, in whatever order the programs
\* that add and delete the two overlap.
THEOREM OrphansAreReported == Spec => []OrphanReported
<1>1. Init => TypeOK /\ ObjectInv /\ OrphanInv
  <2>1. Init => OrphanInv
    <3>1. Vhost(Tmp) # User("supernemo_adm")
      BY DEF Vhost, User
    <3> QED
      BY <3>1 DEF Init, OrphanInv
  <2> QED
    BY <2>1, TypeInit
<1>2. TypeOK /\ ObjectInv /\ OrphanInv /\ [Next]_vars => TypeOK' /\ ObjectInv' /\ OrphanInv'
  BY TypeStep, OrphanStep
<1>3. OrphanInv => OrphanReported
  BY DEF OrphanInv, OrphanReported, AtRest, Programs, Domains
<1> QED
  BY <1>1, <1>2, <1>3, PTL DEF Spec

LEMMA GrantCalls ==
  ASSUME TypeOK, ObjectInv, GrantInv, NEW q \in cast, CallStep(q)
  PROVE  GrantInv'
<1> DEFINE add == "add_tmpuser"
           e1 == Exchange(Tmp, "vireserver.service")
           e2 == Exchange(Tmp, "vireserver.event")
<1>1. /\ q \in Programs /\ add \in Programs /\ cast' = cast
      /\ at[q] \in DOMAIN Script[q] /\ Effect(q) /\ status[q] = "running"
  BY Effects, ProvisioningAssumption
  DEF TypeOK, ObjectInv, Programs, Domains, CallStep, Calls
<1>2. \A p \in Programs \ {q} : status'[p] = status[p] /\ at'[p] = at[p]
  BY DEF CallStep, GoesOn, GivesUp, TypeOK, ObjectInv
<1>3. TmpExchanges = {e1, e2}
  BY DEF TmpExchanges
<1>4. ASSUME NEW x \in TmpExchanges, x \in objects, Vhost(Tmp) \in objects'
      PROVE  x \in objects'
  <2>1. CASE q # "del_tmpuser"
    BY <1>1, <1>4, <2>1, LastingStays, TmpObjects
  <2>2. CASE q = "del_tmpuser"
    <3> SUFFICES ASSUME x \notin objects'
                 PROVE  FALSE
      OBVIOUS
    <3>1. Deletes(q, x) /\ Possible(q) /\ objects' = Outcome(q)
      BY <1>1, <1>4 DEF Effect, CallStep
    <3>2. Entry(q).object \in {User(Tmp), Vhost(Tmp)}
      BY <1>1, <2>2, DelScript DEF Entry, Delete
    <3>3. Entry(q).object = Vhost(Tmp)
      BY <3>1, <3>2, TmpObjects DEF Deletes, Removes
    <3>4. Deletes(q, Vhost(Tmp))
      BY <3>1, <3>3 DEF Deletes, Removes
    <3> QED
      BY <1>1, <1>4, <3>1, <3>4 DEF Effect
  <2> QED
    BY <2>1, <2>2
<1>5. q = add =>
        /\ at[add] \in 1 .. 9 /\ Len(Script[add]) = 9 /\ Entry(q) = AddTmpuser[at[add]]
        /\ Entry(q).op \in {"put", "grant"} /\ ~Ignores(q)
  BY <1>1, AddScript, DomainsAdd DEF Entry, Ignores, Domains
<1>6. ASSUME status'[add] = "running", Vhost(Tmp) \in objects', NEW x, NEW n \in 5 .. 6,
             AddTmpuser[n].object = x, x \in TmpExchanges, at'[add] > n,
             status[add] = "running" /\ Vhost(Tmp) \in objects /\ at[add] > n => x \in objects
      PROVE  x \in objects'
  <2>1. CASE q # add
    <3>1. Vhost(Tmp) \in objects
      BY <1>1, <1>6, <2>1, OnlyAddTmpuser, TmpObjects DEF Effect
    <3>2. x \in objects
      BY <1>1, <1>2, <1>6, <2>1, <3>1
    <3> QED
      BY <1>4, <1>6, <3>2
  <2>2. CASE q = add
    <3>1. GoesOn(q)
      BY <1>1, <1>6, <2>2 DEF CallStep, GivesUp, TypeOK
    <3>2. /\ at[add] < 9 /\ at'[add] = at[add] + 1 /\ Entry(q).object \in objects'
      <4>1. Possible(q) /\ objects' = Outcome(q)
        BY <1>5, <2>2, <3>1 DEF GoesOn
      <4>2. Entry(q).object \in objects'
        BY <1>1, <1>5, <2>2, <4>1 DEF Effect
      <4>3. at[q] < Len(Script[q])
        BY <1>1, <1>6, <2>2, <3>1 DEF GoesOn, TypeOK
      <4> QED
        BY <1>1, <1>5, <2>2, <3>1, <4>2, <4>3 DEF GoesOn, ObjectInv
    <3>3. CASE at[add] = n
      BY <1>5, <1>6, <2>2, <3>2, <3>3
    <3>4. CASE at[add] # n
      <4>1. at[add] > n
        BY <1>5, <1>6, <2>2, <3>2, <3>4
      <4>2. at[add] \in 6 .. 8
        BY <1>5, <2>2, <3>2, <4>1
      <4>3. Entry(q).object # Vhost(Tmp)
        <5>1. at[add] = 6 => Entry(q).object = e2
          BY <1>5, <2>2, AddScript DEF Put
        <5>2. at[add] \in 7 .. 8 => \E u : Entry(q).object = Perms(Tmp, u, RightsOf(Tmp, u))
          BY <1>5, <2>2, AddScript DEF Grant
        <5>3. Kind(e2) = "exchange" /\ \A u : Kind(Perms(Tmp, u, RightsOf(Tmp, u))) = "perms"
          BY Kinds
        <5> QED
          BY <4>2, <5>1, <5>2, <5>3, TmpObjects
      <4>4. Vhost(Tmp) \in objects
        BY <1>1, <1>6, <4>3 DEF Effect, Adds
      <4> QED
        BY <1>1, <1>4, <1>6, <2>2, <4>1, <4>4
    <3> QED
      BY <3>3, <3>4
  <2> QED
    BY <2>1, <2>2
<1>7. AddTmpuser[5].object = e1 /\ AddTmpuser[6].object = e2
  BY AddScript DEF Put
<1>8. status'[add] = "running" /\ Vhost(Tmp) \in objects' /\ at'[add] > 5 => e1 \in objects'
  BY <1>3, <1>6, <1>7 DEF GrantInv
<1>9. status'[add] = "running" /\ Vhost(Tmp) \in objects' /\ at'[add] > 6 => e2 \in objects'
  BY <1>3, <1>6, <1>7 DEF GrantInv
<1>10. ASSUME NEW o \in objects', Kind(o) = "perms", o[2] = Tmp
       PROVE  TmpExchanges \subseteq objects'
  <2>1. Vhost(Tmp) \in objects' /\ Vhost(Tmp) \in DependsOn(o)
    BY <1>1, <1>10 DEF Effect, DependsOn
  <2>2. CASE o \in objects
    BY <1>4, <1>10, <2>1, <2>2 DEF GrantInv
  <2>3. CASE o \notin objects
    <3>1. Adds(q, o)
      BY <1>1, <2>3 DEF Effect
    <3>2. q = add
      BY <1>1, <1>10, <3>1, OnlyAddTmpuser
    <3>3. Vhost(Tmp) \in objects
      BY <2>1, <3>1, <1>5, <3>2 DEF Adds, Possible, Accepts, Prepared
    <3>4. at[add] > 6
      <4> SUFFICES ASSUME at[add] \in 1 .. 6
                   PROVE  FALSE
        BY <1>5, <3>2
      <4>1. o = AddTmpuser[at[add]].object
        BY <1>5, <3>1, <3>2 DEF Adds
      <4>2. /\ Kind(e1) # "perms" /\ Kind(e2) # "perms"
            /\ Kind(User(Tmp)) # "perms" /\ Kind(Vhost(Tmp)) # "perms"
        BY Kinds
      <4>3. at[add] \in 2 .. 3
        BY <1>7, <1>10, <4>1, <4>2, AddScript DEF Put
      <4>4. o[2] \in {"control", "monitoring"}
        <5>1. \E v \in {"control", "monitoring"} : o = Perms(v, Tmp, RightsOf(v, Tmp))
          BY <4>1, <4>3, AddScript DEF Grant
        <5> QED
          BY <5>1 DEF Perms
      <4> QED
        BY <1>10, <4>4 DEF Tmp
    <3>5. e1 \in objects /\ e2 \in objects
      <4>1. at[add] > 5
        BY <1>5, <3>2, <3>4
      <4> QED
        BY <1>1, <3>2, <3>3, <3>4, <4>1 DEF GrantInv
    <3> QED
      BY <1>3, <1>4, <2>1, <3>5
  <2> QED
    BY <2>2, <2>3
<1>11. ASSUME cast \subseteq Domains, NEW o \in objects', Kind(o) = "perms"
       PROVE  o[2] \in {"gate", "control", "monitoring", "cmslapp", Tmp}
  <2>1. CASE o \in objects
    BY <1>11, <2>1 DEF GrantInv
  <2>2. CASE o \notin objects
    <3>1. Adds(q, o) /\ q \in Domains
      BY <1>1, <1>11, <2>2 DEF Effect
    <3>2. MayAdd(q, o)
      BY <1>1, <3>1, CallsAreSound DEF Sound, Adds, Entry
    <3>3. \E t \in {{}, {Tmp}} : Lasting(o, t)
      BY <3>1, <3>2 DEF MayAdd, Domains
    <3> QED
      BY <1>11, <3>3 DEF Lasting, VireVhosts
  <2> QED
    BY <2>1, <2>2
<1> QED
  BY <1>1, <1>8, <1>9, <1>10, <1>11 DEF GrantInv

LEMMA GrantStep ==
  ASSUME TypeOK, ObjectInv, GrantInv, [Next]_vars
  PROVE  GrantInv'
<1> DEFINE add == "add_tmpuser"
<1>0. add \in Programs /\ add \in Domains
  BY DEF Programs, Domains
<1>1. ASSUME NEW q \in cast,
             Launch(q) \/ Connects(q) \/ WorkEnds(q) \/ (Abort(q) /\ q \notin Domains)
      PROVE  GrantInv'
  <2>1. q \in Programs /\ objects' = objects /\ cast' = cast
    BY <1>1, ProvisioningAssumption DEF Launch, Connects, WorkEnds, Abort, Become, history, TypeOK
  <2>2. status'[add] = "running" => at'[add] = 1 \/ (status[add] = "running" /\ at'[add] = at[add])
    <3>1. CASE Launch(q)
      BY <1>0, <2>1, <3>1 DEF Launch, TypeOK, ObjectInv
    <3>2. CASE Connects(q) \/ WorkEnds(q)
      <4>1. q # add
        BY <1>0, <3>2, ProvidersDoNotConnect
      <4> QED
        BY <1>0, <2>1, <3>2, <4>1 DEF Connects, WorkEnds, TypeOK, ObjectInv
    <3>3. CASE Abort(q)
      BY <1>0, <2>1, <3>3 DEF Abort, TypeOK
    <3> QED
      BY <1>1, <3>1, <3>2, <3>3
  <2> QED
    BY <2>1, <2>2 DEF GrantInv
<1>2. CASE Next
  <2>1. PICK q \in cast : \/ Launch(q) \/ CallStep(q) \/ Connects(q) \/ WorkEnds(q)
                          \/ (Abort(q) /\ q \notin Domains)
    BY <1>2, Steps
  <2> QED
    BY <1>1, <2>1, GrantCalls
<1>3. CASE UNCHANGED vars
  BY <1>3 DEF GrantInv, vars
<1> QED
  BY <1>2, <1>3

\* All rights on a virtual host are rights to its exchanges.
LEMMA RightsToExchanges ==
  ASSUME NEW u
  PROVE  /\ \A v \in VireVhosts : \A r \in RightsOf(v, u) \ AllRights : r[2] \in VireExchanges[v]
         /\ \A r \in RightsOf(Tmp, u) \ AllRights : r[2] \in {"vireserver.service", "vireserver.event"}
<1> USE DEF Service, Request, EventProducer, EventListener, Partner
<1>1. \A r \in Tells \cup Hears : r[2] \in MonitoringEvents
  BY DEF Tells, Hears
<1>2. \A r \in RightsOf("gate", u) \ AllRights : r[2] \in VireExchanges["gate"]
  BY DEF RightsOf, VireExchanges, Tmp, Here
<1>3. \A r \in RightsOf("control", u) \ AllRights : r[2] \in VireExchanges["control"]
  BY DEF RightsOf, VireExchanges, Tmp, Here
<1>4. \A r \in RightsOf("monitoring", u) \ AllRights : r[2] \in VireExchanges["monitoring"]
  <2>1. \/ RightsOf("monitoring", u) \subseteq AllRights
        \/ RightsOf("monitoring", u) \subseteq
             Service("resource_request.service") \cup Request("resource_request.service")
               \cup Tells \cup Hears
    BY DEF RightsOf, Tmp, Here
  <2> QED
    BY <1>1, <2>1 DEF VireExchanges, MonitoringEvents
<1>5. \A r \in RightsOf("cmslapp", u) \ AllRights : r[2] \in VireExchanges["cmslapp"]
  BY DEF RightsOf, VireExchanges, Tmp, Here
<1>6. \A r \in RightsOf(Tmp, u) \ AllRights : r[2] \in {"vireserver.service", "vireserver.event"}
  BY DEF RightsOf, Tmp, Here
<1> QED
  BY <1>2, <1>3, <1>4, <1>5, <1>6 DEF VireVhosts

LEMMA TmpHasNoMore == ASSUME NEW v PROVE RightsOf(v, Tmp) \subseteq TmpuserRights
<1>1. Hears \subseteq TmpuserRights
  BY DEF Hears, TmpuserRights
<1>2. /\ Request("resource_request.service") \subseteq TmpuserRights
      /\ Request("vireserver.service") \subseteq TmpuserRights
      /\ EventListener("vireserver.event") \subseteq TmpuserRights
  BY DEF TmpuserRights
<1> HIDE DEF TmpuserRights
<1> QED
  BY <1>1, <1>2 DEF RightsOf, Tmp, Here

\* The programs that provide for the system are not run beside the tests.
Apart == \A c \in Casts : c \subseteq Domains \/ c \cap Domains = {}

\* The temporary user neither serves requests nor tells of events, in no virtual
\* host and at no time; and once vire_domains has succeeded permissions only name
\* exchanges that are declared, wherever a program stopped or stops.  The second
\* is not so of the tests of permissions, that give rights to queues, and is only
\* said of brokers on which these are not run.
THEOREM NoRightIsUndue == ASSUME Apart PROVE Spec => []NoUndueRight
<1> DEFINE Inv == TypeOK /\ ObjectInv /\ VireInv /\ GrantInv
<1>1. Init => Inv
  <2>1. Init => GrantInv
    <3>1. Kind(User("supernemo_adm")) # "perms" /\ Vhost(Tmp) # User("supernemo_adm")
      <4>1. Kind(User("supernemo_adm")) = "user" /\ Kind(Vhost(Tmp)) = "vhost"
        BY Kinds
      <4> QED
        BY <4>1
    <3> QED
      BY <3>1 DEF Init, GrantInv
  <2> QED
    BY <2>1, TypeInit, VireInit
<1>2. Inv /\ [Next]_vars => Inv'
  BY TypeStep, VireStep, GrantStep
<1>3. Inv => NoUndueRight
  <2> SUFFICES ASSUME Inv, NEW o \in objects, Kind(o) = "perms"
               PROVE  /\ o[3] = Tmp => o[4] \subseteq TmpuserRights
                      /\ "vire_domains" \in standing =>
                           \A r \in o[4] \ AllRights : Exchange(o[2], r[2]) \in objects
    BY DEF NoUndueRight
  <2>1. o[4] = RightsOf(o[2], o[3])
    <3>1. o = Perms(o[2], o[3], RightsOf(o[2], o[3]))
      BY DEF ObjectInv, IsThing
    <3> QED
      BY <3>1 DEF Perms
  <2>2. o[3] = Tmp => o[4] \subseteq TmpuserRights
    BY <2>1, TmpHasNoMore
  <2>3. ASSUME "vire_domains" \in standing, NEW r \in o[4] \ AllRights
        PROVE  Exchange(o[2], r[2]) \in objects
    <3>1. cast \subseteq Domains
      BY <2>3 DEF TypeOK, Apart, Domains
    <3>2. o[2] \in VireVhosts \cup {Tmp}
      BY <3>1 DEF GrantInv, VireVhosts
    <3>3. CASE o[2] \in VireVhosts
      <4>1. r[2] \in VireExchanges[o[2]]
        BY <2>1, <2>3, <3>3, RightsToExchanges
      <4>2. /\ Put(Exchange(o[2], r[2])) \in CallsOn(o[2])
            /\ Put(Exchange(o[2], r[2])).object = Exchange(o[2], r[2])
        BY <4>1 DEF CallsOn, Put
      <4> QED
        BY <2>3, <3>3, <4>2, Provided
    <3>4. CASE o[2] = Tmp
      <4>1. r[2] \in {"vireserver.service", "vireserver.event"}
        BY <2>1, <2>3, <3>4, RightsToExchanges
      <4>2. TmpExchanges \subseteq objects
        BY <3>4 DEF GrantInv
      <4> QED
        BY <3>4, <4>1, <4>2 DEF TmpExchanges
    <3> QED
      BY <3>2, <3>3, <3>4
  <2> QED
    BY <2>2, <2>3
<1> QED
  BY <1>1, <1>2, <1>3, PTL DEF Spec
=============================================================================
