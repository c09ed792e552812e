---------------------------- MODULE Application ----------------------------
(***************************************************************************)
(* threads/mut_cond_1.cpp: a store and its clients share a stock under one *)
(* mutex.  A client that finds too little notifies the store and waits on  *)
(* client_cond; the store waits on store_cond until the stock is low, then *)
(* fills it up and notifies all clients.  main joins the clients, calls    *)
(* Stop () - which takes no lock - and joins the store.                    *)
(*                                                                         *)
(* A thread that waits on a condition variable is "asleep"; a notification *)
(* or a spurious wake-up makes it "woken", and it goes on once it has the  *)
(* mutex back.                                                             *)
(***************************************************************************)
EXTENDS Integers, FiniteSets

CONSTANTS
  Clients,       \* the client threads
  InitialStock,  \* stock_base
  Threshold,     \* the stock is not full below this: 10
  MaxTake,       \* the most a client asks for: 6
  Rounds,        \* how many times a client comes: 10
  MaxSpurious    \* bound: the spurious wake-ups of one run

\* What main and the literals of the class have in common: a client that finds
\* too little always finds the stock low, and a full stock serves anyone.
ASSUME ApplicationAssumption ==
  /\ InitialStock \in Nat /\ Threshold \in Nat /\ MaxTake \in Nat /\ Rounds \in Nat
  /\ MaxSpurious \in Nat
  /\ MaxTake <= Threshold
  /\ Threshold <= InitialStock
  /\ "store" \notin Clients /\ "free" \notin Clients

VARIABLES
  stock,   \* the articles left
  stop,    \* set by Stop (), read by the store under the lock
  lock,    \* who holds stock_lock, "free" when nobody does
  store,   \* where fn_store is
  pc,      \* where fn_clients is, for each client
  n,       \* its loop counter
  val,     \* what it wants
  main,    \* where main is
  asking,  \* history: the clients that notified the store and saw no refill since
  spurious \* spurious wake-ups so far

vars == <<stock, stop, lock, store, pc, n, val, main, asking, spurious>>

ClientPC == {"loop", "lock", "check", "wait", "asleep", "woken", "take", "done"}
StorePC  == {"lock", "wait", "sleep", "asleep", "woken", "open", "done"}
MainPC   == {"join", "stop", "notify", "join store", "done"}

DataOK ==
  /\ stock \in Int
  /\ n \in [Clients -> 0 .. Rounds]
  /\ val \in [Clients -> 0 .. MaxTake]
  /\ spurious \in 0 .. MaxSpurious

ControlOK ==
  /\ stop \in BOOLEAN
  /\ lock \in Clients \cup {"store", "free"}
  /\ store \in StorePC
  /\ pc \in [Clients -> ClientPC]
  /\ main \in MainPC
  /\ asking \subseteq Clients

TypeOK == DataOK /\ ControlOK

Init ==
  /\ stock = InitialStock
  /\ stop = FALSE
  /\ lock = "free"
  /\ store = "lock"
  /\ pc = [c \in Clients |-> "loop"]
  /\ n = [c \in Clients |-> 0]
  /\ val = [c \in Clients |-> 0]
  /\ main = "join"
  /\ asking = {}
  /\ spurious = 0

IsStockOk(v) == v <= stock
\* Mutant: the stock is filled up when it is empty.
IsStockEmpty == stock = 0 \/ stop

IsStockNotFull == stock < Threshold \/ stop

\* store_cond.notify_one: the store is the only thread that waits on it.
NotifyStore == store' = IF store = "asleep" THEN "woken" ELSE store

-----------------------------------------------------------------------------
(***************************************************************************)
(* fn_clients                                                              *)
(***************************************************************************)
Goto(c, p) == pc' = [pc EXCEPT ![c] = p]

\* Mutant: one turn too many.
DrawOnceMore(c) ==
  /\ pc[c] = "loop"
  /\ \/ /\ n[c] <= Rounds
        /\ \E v \in 1 .. MaxTake : val' = [val EXCEPT ![c] = v]
        /\ Goto(c, "lock")
     \/ /\ n[c] > Rounds
        /\ Goto(c, "done")
        /\ UNCHANGED val
  /\ UNCHANGED <<stock, stop, lock, store, n, main, asking, spurious>>

\* The next turn of the loop, with what get_random draws, or its end.
Draw(c) ==
  /\ pc[c] = "loop"
  /\ \/ /\ n[c] < Rounds
        /\ \E v \in 1 .. MaxTake : val' = [val EXCEPT ![c] = v]
        /\ Goto(c, "lock")
     \/ /\ n[c] = Rounds
        /\ Goto(c, "done")
        /\ UNCHANGED val
  /\ UNCHANGED <<stock, stop, lock, store, n, main, asking, spurious>>

\* Mutant: a wait without its predicate, as an if would be.
AcquireAndTake(c) ==
  /\ pc[c] \in {"lock", "woken"}
  /\ lock = "free"
  /\ lock' = c
  /\ Goto(c, IF pc[c] = "lock" THEN "check" ELSE "take")
  /\ UNCHANGED <<stock, stop, store, n, val, main, asking, spurious>>

\* The mutex, for the first time or on the way back from a wait.
Acquire(c) ==
  /\ pc[c] \in {"lock", "woken"}
  /\ lock = "free"
  /\ lock' = c
  /\ Goto(c, IF pc[c] = "lock" THEN "check" ELSE "wait")
  /\ UNCHANGED <<stock, stop, store, n, val, main, asking, spurious>>

\* Mutant: the client waits without notifying the store.
CheckSilently(c) ==
  /\ pc[c] = "check"
  /\ \/ /\ IsStockOk(val[c])
        /\ Goto(c, "take")
        /\ UNCHANGED asking
     \/ /\ ~IsStockOk(val[c])
        /\ Goto(c, "wait")
        /\ asking' = asking \cup {c}
  /\ UNCHANGED <<stock, stop, lock, store, n, val, main, spurious>>

\* The first look at the stock, and the only place that notifies the store.
Check(c) ==
  /\ pc[c] = "check"
  /\ \/ /\ IsStockOk(val[c])
        /\ Goto(c, "take")
        /\ UNCHANGED <<store, asking, spurious>>
     \/ /\ ~IsStockOk(val[c])
        /\ NotifyStore
        /\ Goto(c, "wait")
        /\ asking' = asking \cup {c}
  /\ UNCHANGED <<stock, stop, lock, n, val, main, spurious>>

\* client_cond.wait with a predicate: leave it, or release the mutex and sleep.
Wait(c) ==
  /\ pc[c] = "wait"
  /\ \/ /\ IsStockOk(val[c])
        /\ Goto(c, "take")
        /\ UNCHANGED lock
     \/ /\ ~IsStockOk(val[c])
        /\ Goto(c, "asleep")
        /\ lock' = "free"
  /\ UNCHANGED <<stock, stop, store, n, val, main, asking, spurious>>

\* The articles are taken and the mutex is released.
Take(c) ==
  /\ pc[c] = "take"
  /\ stock' = stock - val[c]
  /\ n' = [n EXCEPT ![c] = @ + 1]
  /\ val' = [val EXCEPT ![c] = 0]
  /\ asking' = asking \ {c}
  /\ lock' = "free"
  /\ Goto(c, "loop")
  /\ UNCHANGED <<stop, store, main, spurious>>

SpuriousClient(c) ==
  /\ spurious < MaxSpurious
  /\ spurious' = spurious + 1
  /\ pc[c] = "asleep"
  /\ Goto(c, "woken")
  /\ UNCHANGED <<stock, stop, lock, store, n, val, main, asking>>

-----------------------------------------------------------------------------
(***************************************************************************)
(* fn_store                                                                *)
(***************************************************************************)
StoreAcquire ==
  /\ store \in {"lock", "woken"}
  /\ lock = "free"
  /\ lock' = "store"
  /\ store' = "wait"
  /\ UNCHANGED <<stock, stop, pc, n, val, main, asking, spurious>>

\* Mutant: the store goes on at every wake-up.
StoreWaitNot ==
  /\ store = "wait"
  /\ store' = "open"
  /\ UNCHANGED <<stock, stop, lock, pc, n, val, main, asking, spurious>>

\* The predicate of store_cond.wait: a decision, which Stop () can overtake.
StoreWait ==
  /\ store = "wait"
  /\ store' = IF IsStockNotFull THEN "open" ELSE "sleep"
  /\ UNCHANGED <<stock, stop, lock, pc, n, val, main, asking, spurious>>

\* The mutex is released and the store is on the condition variable.
StoreSleep ==
  /\ store = "sleep"
  /\ store' = "asleep"
  /\ lock' = "free"
  /\ UNCHANGED <<stock, stop, pc, n, val, main, asking, spurious>>

SpuriousStore ==
  /\ spurious < MaxSpurious
  /\ spurious' = spurious + 1
  /\ store = "asleep"
  /\ store' = "woken"
  /\ UNCHANGED <<stock, stop, lock, pc, n, val, main, asking>>

\* After the wait: the end, or a full stock and all clients notified.
StoreClose ==
  /\ store = "open"
  /\ stop
  /\ store' = "done"
  /\ lock' = "free"
  /\ UNCHANGED <<stock, stop, pc, n, val, main, asking, spurious>>

Refill ==
  /\ store = "open"
  /\ ~stop
  /\ stock' = InitialStock
  /\ pc' = [c \in Clients |-> IF pc[c] = "asleep" THEN "woken" ELSE pc[c]]
  /\ asking' = {}
  /\ store' = "lock"
  /\ lock' = "free"
  /\ UNCHANGED <<stop, n, val, main, spurious>>

-----------------------------------------------------------------------------
(***************************************************************************)
(* main                                                                    *)
(***************************************************************************)
\* Mutant: only one client is waited for.
JoinOneClient ==
  /\ main = "join"
  /\ \E c \in Clients : pc[c] = "done"
  /\ main' = "stop"
  /\ UNCHANGED <<stock, stop, lock, store, pc, n, val, asking, spurious>>

\* Every client has been joined.
JoinClients ==
  /\ main = "join"
  /\ \A c \in Clients : pc[c] = "done"
  /\ main' = "stop"
  /\ UNCHANGED <<stock, stop, lock, store, pc, n, val, asking, spurious>>

\* Stop () without the lock: first the flag, then the notification.
StopFlag ==
  /\ main = "stop"
  /\ stop' = TRUE
  /\ main' = "notify"
  /\ UNCHANGED <<stock, lock, store, pc, n, val, asking, spurious>>

StopNotify ==
  /\ main = "notify"
  /\ NotifyStore
  /\ main' = "join store"
  /\ UNCHANGED <<stock, stop, lock, pc, n, val, asking, spurious>>

JoinStore ==
  /\ main = "join store"
  /\ store = "done"
  /\ main' = "done"
  /\ UNCHANGED <<stock, stop, lock, store, pc, n, val, asking, spurious>>

Exited == main = "done" /\ UNCHANGED vars

-----------------------------------------------------------------------------
Client(c) == Draw(c) \/ Acquire(c) \/ Check(c) \/ Wait(c) \/ Take(c)
Store     == StoreAcquire \/ StoreWait \/ StoreSleep \/ StoreClose \/ Refill
Main      == JoinClients \/ StopFlag \/ StopNotify \/ JoinStore
Spurious  == SpuriousStore \/ \E c \in Clients : SpuriousClient(c)

Next == Store \/ Main \/ Spurious \/ Exited \/ \E c \in Clients : Client(c)

\* Every thread that can run runs.  Spurious wake-ups happen, but none is due.
Fairness ==
  /\ WF_vars(Store)
  /\ WF_vars(Main)
  /\ \A c \in Clients : WF_vars(Client(c))

Spec == Init /\ [][Next]_vars /\ Fairness

-----------------------------------------------------------------------------
(***************************************************************************)
(* Properties                                                              *)
(***************************************************************************)

\* Nothing is sold that is not there: whoever is about to take has the lock and
\* enough articles, however it got there and whoever took in the meantime.
NeverOversold ==
  /\ stock \in 0 .. InitialStock
  /\ \A c \in Clients : pc[c] = "take" => lock = c /\ val[c] <= stock

\* A request reaches the store: from the notification of a client to the refill
\* it asks for, the stock is low and the store is on its way to look at it; so
\* a client that sleeps after its own request is going to be woken.
RequestPending ==
  \A c \in Clients : c \in asking /\ pc[c] = "asleep" =>
    stock < val[c] /\ store \in {"lock", "woken", "wait", "open"}

\* ... and it is answered: the store does get the mutex among the clients, and
\* refills.  This is as far as the wake-up of a client goes: one that finds too
\* little AGAIN sleeps without a request (ClientsFinish).
RequestAnswered ==
  \A c \in Clients : (c \in asking /\ pc[c] = "asleep") ~> c \notin asking

\* Stop () comes when nobody is left to be served, and a store that is done
\* leaves nobody behind.
StopAfterClients ==
  stop \/ store = "done" => \A c \in Clients : pc[c] = "done" /\ n[c] = Rounds

\* The threads implement the shop: every change of the stock is a client served
\* from it or a refill of a low stock.
Shop == INSTANCE Stock
ShopSpec == Shop!Spec

\* "Attente de la fin des threads": every client finishes its rounds.
ClientsFinish == <>(\A c \in Clients : pc[c] = "done")

\* "waiting for store to finish": once the clients are done, main ends.
MainEnds == (\A c \in Clients : pc[c] = "done") ~> (main = "done")
=============================================================================
