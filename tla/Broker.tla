------------------------------- MODULE Broker -------------------------------
(***************************************************************************)
(* What rabbit_mgr, the management interface of the message broker, keeps  *)
(* and does, as far as the programs use it.  The broker holds a set of     *)
(* objects, each of which is named by a tuple.  The permissions of a user  *)
(* on a virtual host are a set of rights, <<"read", name>> to take from an *)
(* exchange or queue and <<"write", name>> to publish to an exchange; what *)
(* all users get, the generated names and the default exchange, is left    *)
(* out.                                                                    *)
(***************************************************************************)
EXTENDS Naturals, Sequences

User(u)             == <<"user", u>>
Vhost(v)            == <<"vhost", v>>
Exchange(v, e)      == <<"exchange", v, e>>
Queue(v, q)         == <<"queue", v, q>>
Perms(v, u, rights) == <<"perms", v, u, rights>>

Kind(o) == o[1]

\* What an object cannot do without.
DependsOn(o) ==
  CASE Kind(o) \in {"user", "vhost"}     -> {}
    [] Kind(o) \in {"exchange", "queue"} -> {Vhost(o[2])}
    [] Kind(o) = "perms"                 -> {Vhost(o[2]), User(o[3])}

\* Permissions are overwritten, whatever the rights were.
Name(o) == IF Kind(o) = "perms" THEN <<"perms", o[2], o[3]>> ELSE o

\* The calls a program makes, "grant" being set_permissions with an object of
\* type permissions that the program has cleared and filled before.
Put(o)              == [op |-> "put", object |-> o]
Delete(o)           == [op |-> "delete", object |-> o]
Grant(v, u, rights) == [op |-> "grant", object |-> Perms(v, u, rights)]

\* Adding again what is there is no error, deleting what is not there is one.
Accepts(objects, op, o) ==
  IF op = "delete" THEN o \in objects ELSE DependsOn(o) \subseteq objects

After(objects, op, o) ==
  IF op = "delete"
  THEN {x \in objects : x # o /\ o \notin DependsOn(x)}
  ELSE {x \in objects : Name(x) # Name(o)} \cup {o}

\* The rights of vire_add_exchange_service_perms and its like.  A direct
\* request or event goes through the default exchange.
Service(e)       == {<<"read", e>>}
Request(e)       == {<<"write", e>>}
EventProducer(e) == {<<"write", e>>}
EventListener(e) == {<<"read", e>>}
DirectService(q)       == {<<"read", q>>}
DirectRequest          == {}
DirectEventListener(q) == {<<"read", q>>}
DirectEventProducer    == {}
AllRights == {<<"all", "all">>}
=============================================================================
