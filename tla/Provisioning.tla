---------------------------- MODULE Provisioning ----------------------------
(***************************************************************************)
(* The programs of Scripts at work on one broker, several at a time and    *)
(* again and again, with calls that fail.  vire_domains, add_tmpuser and   *)
(* del_tmpuser stop at the first call that fails and report it, but for    *)
(* the first two calls of vire_domains; the *_perms programs go on         *)
(* whatever a call returns, and end with an exception when they cannot     *)
(* connect.                                                                *)
(***************************************************************************)
EXTENDS Scripts, FiniteSets

CONSTANTS
  Casts,     \* sets of programs; one of them is on the scene
  MaxFaults  \* bound: calls that fail although the broker could do them

ASSUME ProvisioningAssumption ==
  /\ Casts \subseteq SUBSET Programs
  /\ MaxFaults \in Nat

VARIABLES
  cast,       \* the programs that are run
  objects,    \* what there is on the broker
  status,     \* whether each program runs, and how its last run ended
  at,         \* the next call of each program
  perms,      \* the rights in the object of type permissions of each program
  connected,  \* the programs with a connection that is alive
  asked,      \* the requests that are with a service
  faults,     \* how many calls failed without need
  standing,   \* history: the programs whose success has not been undone since
  crossed,    \* history: del_tmpuser ran during the last run of add_tmpuser
  reported    \* history: a program has reported a failure

vars == <<cast, objects, status, at, perms, connected, asked, faults, standing,
          crossed, reported>>
history == <<standing, crossed, reported>>

Statuses == {"never", "running", "success", "failure", "aborted"}

Entry(p) == Script[p][at[p]]
Runs(p, op) == status[p] = "running" /\ Entry(p).op = op

\* The broker needs nothing it does not have, a connection is that of a program
\* at work, and no more requests are under way than there are.
TypeOK ==
  /\ cast \in Casts
  /\ \A o \in objects : DependsOn(o) \subseteq objects
  /\ status \in [Programs -> Statuses]
  /\ \A p \in Programs : at[p] \in DOMAIN Script[p]
  /\ connected \subseteq {p \in cast : status[p] = "running"}
  /\ asked \subseteq {p \in connected : Runs(p, "work")}
  /\ faults \in 0 .. MaxFaults
  /\ standing \subseteq cast

\* supernemo_adm is there before all programs.
Init ==
  /\ cast \in Casts
  /\ objects = {User("supernemo_adm")}
  /\ status = [p \in Programs |-> "never"]
  /\ at = [p \in Programs |-> 1]
  /\ perms = [p \in Programs |-> {}]
  /\ connected = {}
  /\ asked = {}
  /\ faults = 0
  /\ standing = {}
  /\ crossed = FALSE
  /\ reported = FALSE

-----------------------------------------------------------------------------
(***************************************************************************)
(* Connections and requests, in what they depend on the broker's objects   *)
(***************************************************************************)
ServiceOf(p) == IF p = "direct_request" THEN "direct_service" ELSE "exchange_service"

\* The broker closes the connections of a user that has lost the permissions.
StillConnected(objs) == {p \in connected : Credentials(p) \in {Name(o) : o \in objs}}

\* A request is lost with the queue that holds it: queue.service, or the queue
\* that goes with the connection of the service.
StillAsked(objs, conns) ==
  {p \in asked \cap conns :
     IF p = "direct_request" THEN Queue(Here, "queue.service") \in objs
                             ELSE "exchange_service" \in conns}

Become(objs, conns) ==
  /\ objects' = objs
  /\ connected' = conns
  /\ asked' = StillAsked(objs, conns)

-----------------------------------------------------------------------------
(***************************************************************************)
(* The course of a program                                                 *)
(***************************************************************************)

\* Somebody starts a program of the cast that does not run.
Launch(p) ==
  /\ status[p] # "running"
  /\ status' = [status EXCEPT ![p] = "running"]
  /\ at' = [at EXCEPT ![p] = 1]
  /\ perms' = [perms EXCEPT ![p] = {}]
  /\ standing' = standing \ (IF p = "del_tmpuser" THEN {p, "add_tmpuser"} ELSE {p})
  /\ crossed' = CASE p = "add_tmpuser" -> status["del_tmpuser"] = "running"
                  [] p = "del_tmpuser" -> TRUE
                  [] OTHER             -> crossed
  /\ UNCHANGED <<cast, objects, connected, asked, faults, reported>>

\* Mutant: the connection outlives main.
LeaveConnected(p, objs, conns) ==
  /\ status' = [status EXCEPT ![p] = "success"]
  /\ Become(objs, conns)
  /\ standing' = IF p = "add_tmpuser" /\ crossed THEN standing ELSE standing \cup {p}
  /\ UNCHANGED at

\* main returns, and with it goes the connection.
Leave(p, objs, conns) ==
  /\ status' = [status EXCEPT ![p] = "success"]
  /\ Become(objs, conns \ {p})
  /\ standing' = IF p = "add_tmpuser" /\ crossed THEN standing ELSE standing \cup {p}
  /\ UNCHANGED at

\* The program goes on to its next call, or ends.
Proceed(p, objs, conns) ==
  IF at[p] < Len(Script[p])
  THEN /\ at' = [at EXCEPT ![p] = @ + 1]
       /\ Become(objs, conns)
       /\ UNCHANGED <<status, standing>>
  ELSE Leave(p, objs, conns)

\* Mutant: no call is guarded with the result of the one before.
IgnoresAll(p) == TRUE

\* Whether the result of the next call is not looked at: ok is set to true after
\* the users of vire_domains are added, and the *_perms programs only print it.
Ignores(p) == p \notin Domains \/ (p = "vire_domains" /\ at[p] <= Len(Users))

\* EXIT_FAILURE, with nothing done any more.
Fail(p, objs) ==
  /\ status' = [status EXCEPT ![p] = "failure"]
  /\ Become(objs, StillConnected(objs))
  /\ reported' = TRUE
  /\ UNCHANGED <<at, standing>>

\* What the call is about.  An object of type permissions is cleared before it
\* is filled for the next call.
PreparedUncleared(p) ==
  IF Entry(p).op = "grant"
  THEN Perms(Entry(p).object[2], Entry(p).object[3], perms[p] \cup Entry(p).object[4])
  ELSE Entry(p).object

Prepared(p) == Entry(p).object

Fill(p) == perms' = IF Entry(p).op = "grant"
                    THEN [perms EXCEPT ![p] = Prepared(p)[4]] ELSE perms

Calls(p) == status[p] = "running" /\ Entry(p).op \in {"put", "grant", "delete"}
Possible(p) == Accepts(objects, Entry(p).op, Prepared(p))
Outcome(p) == After(objects, Entry(p).op, Prepared(p))

\* The broker does as it is told.
Perform(p) ==
  /\ Calls(p) /\ Possible(p)
  /\ Fill(p)
  /\ Proceed(p, Outcome(p), StillConnected(Outcome(p)))
  /\ UNCHANGED <<cast, faults, crossed, reported>>

\* The call returns false.
Unsuccessful(p, objs) ==
  /\ Fill(p)
  /\ IF Ignores(p) THEN Proceed(p, objs, StillConnected(objs)) /\ UNCHANGED reported
                   ELSE Fail(p, objs)
  /\ UNCHANGED <<cast, crossed>>

Refused(p) ==
  /\ Calls(p) /\ ~Possible(p)
  /\ Unsuccessful(p, objects)
  /\ UNCHANGED faults

\* The call does not get through, or its answer does not.
Fault(p) ==
  /\ Calls(p) /\ Possible(p)
  /\ faults < MaxFaults
  /\ faults' = faults + 1
  /\ \E objs \in {objects, Outcome(p)} : Unsuccessful(p, objs)

\* The program ends with an exception and cleans nothing up.
Abort(p) ==
  /\ status' = [status EXCEPT ![p] = "aborted"]
  /\ Become(objects, connected \ {p})
  /\ UNCHANGED <<cast, at, perms, faults, history>>

\* The connection to the virtual host, and what is done with it at once.  A
\* request goes to the queue of its service, if there is one.
MayConnect(p) ==
  Credentials(p) \in {Name(o) : o \in objects} /\ Uses(p) \subseteq objects

Reaches(p) ==
  CASE p = "direct_request"   -> Queue(Here, "queue.service") \in objects
    [] p = "exchange_request" -> "exchange_service" \in connected
    [] OTHER                  -> FALSE

Connects(p) ==
  /\ Runs(p, "connect") /\ MayConnect(p)
  /\ at' = [at EXCEPT ![p] = @ + 1]
  /\ connected' = connected \cup {p}
  /\ asked' = IF Reaches(p) THEN asked \cup {p} ELSE asked
  /\ UNCHANGED <<cast, objects, status, perms, faults, history>>

CannotConnect(p) ==
  /\ Runs(p, "connect") /\ ~MayConnect(p)
  /\ Abort(p)

\* The work is done when Return is pressed, for a host; when the answer is here,
\* for a request; at once for an event producer, that does not wait.
Answered(p) ==
  /\ p \in asked
  /\ Runs(ServiceOf(p), "work") /\ ServiceOf(p) \in connected

WorkEnds(p) ==
  /\ Runs(p, "work")
  /\ p \in {"direct_request", "exchange_request"} => Answered(p)
  /\ at' = [at EXCEPT ![p] = @ + 1]
  /\ asked' = asked \ {p}
  /\ UNCHANGED <<cast, objects, status, perms, connected, faults, history>>

\* A request that waits, or a listener, is left with a connection that is closed,
\* or is given up.  The parent process of a service does not use the connection.
WorkFails(p) ==
  /\ Runs(p, "work")
  /\ \/ p \notin connected /\ p \notin {"direct_service", "exchange_service"}
     \/ p \in {"direct_request", "exchange_request"}
  /\ Abort(p)

Next ==
  \E p \in cast :
    \/ Launch(p)
    \/ Perform(p)
    \/ Refused(p)
    \/ Fault(p)
    \/ Connects(p)
    \/ CannotConnect(p)
    \/ WorkEnds(p)
    \/ WorkFails(p)

Spec == Init /\ [][Next]_vars

-----------------------------------------------------------------------------
(***************************************************************************)
(* Properties                                                              *)
(***************************************************************************)
AtRest == \A p \in Programs : status[p] # "running"

\* vire_domains looks at the results of neither add_user; all the same, when it
\* has reported success everything it sets up is there, and stays, whatever the
\* other programs do.
SuccessMeansProvided ==
  "vire_domains" \in standing =>
    \A i \in DOMAIN VireDomains : VireDomains[i].object \in objects

\* The uses in the *.sh scripts: user, virtual host and right.
ShippedUses ==
  {<<"cmslapp",    "cmslapp",    Service("subcontractor.service")>>,
   <<"cmslapp",    "cmslapp",    EventListener("vireserver.event")>>,
   <<"cmslapp",    "monitoring", Service("resource_request.service")>>,
   <<"vireserver", "cmslapp",    Service("vireserver.service")>>,
   <<"vireserver", "cmslapp",    EventListener("subcontractor.event")>>,
   <<"vireserver", "cmslapp",    Request("subcontractor.service")>>,
   <<"vireserver", "monitoring", EventProducer("pubsub.event")>>}
TmpuserUses ==
  {<<Tmp, "monitoring", Request("resource_request.service")>>,
   <<Tmp, "monitoring", EventListener("pubsub.event")>>,
   <<Tmp, "monitoring", EventListener("log.event")>>,
   <<Tmp, Tmp,          EventListener("vireserver.event")>>}

Permitted(use) ==
  \E o \in objects : Name(o) = <<"perms", use[2], use[1]>> /\ use[3] \subseteq o[4]

\* Once vire_domains has succeeded, and for the temporary user add_tmpuser too
\* without del_tmpuser since or meanwhile, everything that the scripts beside
\* the programs do is permitted.
ScriptsPermitted ==
  /\ "vire_domains" \in standing => \A use \in ShippedUses : Permitted(use)
  /\ "add_tmpuser" \in standing  => \A use \in TmpuserUses : Permitted(use)

\* The temporary user neither serves requests nor tells of events, in no virtual
\* host and at no time; and once vire_domains has succeeded permissions only name
\* exchanges that are declared, wherever a program stopped or stops.
TmpuserRights ==
  Request("resource_request.service") \cup Request("vireserver.service")
    \cup UNION {EventListener(e) : e \in MonitoringEvents \cup {"vireserver.event"}}

NoUndueRight ==
  \A o \in objects : Kind(o) = "perms" =>
    /\ o[3] = Tmp => o[4] \subseteq TmpuserRights
    /\ "vire_domains" \in standing =>
         \A r \in o[4] \ AllRights : Exchange(o[2], r[2]) \in objects

\* The virtual host of the temporary user is not left behind without its user
\* unless some program has reported a failure, in whatever order the programs
\* that add and delete the two overlap.
OrphanReported ==
  AtRest /\ Vhost(Tmp) \in objects /\ User(Tmp) \notin objects => reported

\* The *_perms programs share a virtual host that the first one to end deletes
\* under the others; when all have ended, and no call failed without need, nothing
\* is left of them but what a program had set up that ended with an exception and
\* was not started again.
SetsUp(p, o) ==
  \E i \in DOMAIN Script[p] : Script[p][i].op \in {"put", "grant"} /\ Script[p][i].object = o
NothingLeft ==
  AtRest /\ cast \cap Domains = {} /\ faults = 0 =>
    \A o \in objects \ {User("supernemo_adm")} :
      \E p \in cast : status[p] = "aborted" /\ SetsUp(p, o)

\* A host that is connected and at work keeps its queue or exchange, although the
\* virtual host goes, and may come back, whenever another host ends.
ConnectedIsWhole ==
  \A p \in connected \cap Hosts : Runs(p, "work") => Uses(p) \subseteq objects
=============================================================================
