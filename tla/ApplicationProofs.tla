------------------------- MODULE ApplicationProofs -------------------------
(***************************************************************************)
(* Proofs about the shop for any clients, stock, threshold and rounds.     *)
(*                                                                         *)
(* The inductive invariant has a part for each thing a thread relies on:   *)
(* who holds the mutex, what a client that is about to take has seen, why  *)
(* the store is about to refill, why a request is not forgotten, and why   *)
(* nobody is left when main stops the store.                               *)
(***************************************************************************)
EXTENDS Application, TLAPS

\* A thread is inside the mutex exactly where its program counter says so.
MutexInv ==
  /\ \A c \in Clients : lock = c <=> pc[c] \in {"check", "wait", "take"}
  /\ lock = "store" <=> store \in {"wait", "sleep", "open"}

\* Between the draw and the taking a client has a wish and a round to go.
WishInv ==
  \A c \in Clients :
    /\ pc[c] \notin {"loop", "done"} => val[c] \in 1 .. MaxTake /\ n[c] < Rounds
    /\ pc[c] = "done" => n[c] = Rounds

StockInv ==
  /\ stock \in 0 .. InitialStock
  /\ \A c \in Clients : pc[c] = "take" => val[c] <= stock

\* The store goes on from its wait only with a low stock or to close.
OpenInv == store = "open" => stock < Threshold \/ stop

\* A client whose request is pending still finds too little, and the store is
\* on its way: not asleep, and not able to decide for sleep.
PendingInv ==
  \A c \in Clients : c \in asking =>
    /\ pc[c] \in {"wait", "asleep", "woken"}
    /\ stock < val[c]
    /\ store \in {"lock", "woken", "wait", "open"}

\* main goes on from the joins only when every client is done, and only main
\* can make the store close.
StopInv ==
  /\ main # "join" => \A c \in Clients : pc[c] = "done"
  /\ stop => main \notin {"join", "stop"}
  /\ store = "done" => stop

IInv == TypeOK /\ MutexInv /\ WishInv /\ StockInv /\ OpenInv /\ PendingInv /\ StopInv

-----------------------------------------------------------------------------
LEMMA InitIInv == Init => IInv
<1> SUFFICES ASSUME Init PROVE IInv
  OBVIOUS
<1> USE ApplicationAssumption DEF Init
<1>1. stop \in BOOLEAN
  OBVIOUS
<1>2. TypeOK
  BY <1>1 DEF TypeOK, DataOK, ControlOK, ClientPC, StorePC, MainPC
<1>3. MutexInv
  BY DEF MutexInv
<1>4. WishInv /\ StockInv /\ OpenInv /\ PendingInv /\ StopInv
  BY DEF WishInv, StockInv, OpenInv, PendingInv, StopInv
<1>5. QED
  BY <1>2, <1>3, <1>4 DEF IInv

LEMMA DrawStep == ASSUME IInv, NEW c \in Clients, Draw(c) PROVE IInv'
<1> USE ApplicationAssumption DEF IInv, TypeOK, Draw, Goto
<1>1. DataOK'
  BY DEF DataOK, WishInv
<1>2. ControlOK'
  BY DEF ControlOK, ClientPC, StorePC, MainPC
<1>3. MutexInv'
  BY DEF ControlOK, MutexInv, ClientPC
<1>4. WishInv'
  BY DEF DataOK, ControlOK, WishInv
<1>5. StockInv'
  BY DEF DataOK, ControlOK, StockInv, MutexInv, WishInv
<1>6. OpenInv'
  BY DEF OpenInv, MutexInv
<1>7. PendingInv'
  BY DEF DataOK, ControlOK, PendingInv, MutexInv, WishInv, StopInv
<1>8. StopInv'
  BY DEF ControlOK, StopInv, MutexInv
<1>9. QED
  BY <1>1, <1>2, <1>3, <1>4, <1>5, <1>6, <1>7, <1>8

LEMMA AcquireStep == ASSUME IInv, NEW c \in Clients, Acquire(c) PROVE IInv'
<1> USE ApplicationAssumption DEF IInv, TypeOK, Acquire, Goto
<1>1. DataOK'
  BY DEF DataOK, WishInv
<1>2. ControlOK'
  BY DEF ControlOK, ClientPC, StorePC, MainPC
<1>3. MutexInv'
  BY DEF ControlOK, MutexInv, ClientPC
<1>4. WishInv'
  BY DEF DataOK, ControlOK, WishInv
<1>5. StockInv'
  BY DEF DataOK, ControlOK, StockInv, MutexInv, WishInv
<1>6. OpenInv'
  BY DEF OpenInv, MutexInv
<1>7. PendingInv'
  BY DEF DataOK, ControlOK, PendingInv, MutexInv, WishInv, StopInv
<1>8. StopInv'
  BY DEF ControlOK, StopInv, MutexInv
<1>9. QED
  BY <1>1, <1>2, <1>3, <1>4, <1>5, <1>6, <1>7, <1>8

LEMMA CheckStep == ASSUME IInv, NEW c \in Clients, Check(c) PROVE IInv'
<1> USE ApplicationAssumption DEF IInv, TypeOK, Check, Goto, NotifyStore, IsStockOk
<1>1. DataOK'
  BY DEF DataOK, WishInv
<1>2. ControlOK'
  BY DEF ControlOK, ClientPC, StorePC, MainPC
<1>3. MutexInv'
  BY DEF ControlOK, MutexInv, ClientPC
<1>4. WishInv'
  BY DEF DataOK, ControlOK, WishInv
<1>5. StockInv'
  BY DEF DataOK, ControlOK, StockInv, MutexInv, WishInv
<1>6. OpenInv'
  BY DEF OpenInv, MutexInv
<1>7. PendingInv'
  <2> SUFFICES ASSUME NEW d \in Clients, d \in asking'
               PROVE  /\ pc'[d] \in {"wait", "asleep", "woken"}
                      /\ stock' < val'[d]
                      /\ store' \in {"lock", "woken", "wait", "open"}
    BY DEF PendingInv
  <2>1. CASE d = c
    <3>1. c \notin asking
      BY DEF PendingInv
    <3>2. ~IsStockOk(val[c]) /\ pc'[c] = "wait"
      BY <2>1, <3>1 DEF ControlOK
    <3>3. store \notin {"wait", "sleep", "open", "done"}
      BY DEF MutexInv, StopInv
    <3>4. store' \in {"lock", "woken"}
      BY <3>2, <3>3 DEF ControlOK, StorePC
    <3>5. QED
      BY <2>1, <3>2, <3>4 DEF DataOK
  <2>2. CASE d # c
    BY <2>2 DEF DataOK, ControlOK, PendingInv, MutexInv, WishInv, StopInv
  <2>3. QED
    BY <2>1, <2>2
<1>8. StopInv'
  BY DEF ControlOK, StopInv, MutexInv
<1>9. QED
  BY <1>1, <1>2, <1>3, <1>4, <1>5, <1>6, <1>7, <1>8

LEMMA WaitStep == ASSUME IInv, NEW c \in Clients, Wait(c) PROVE IInv'
<1> USE ApplicationAssumption DEF IInv, TypeOK, Wait, Goto, IsStockOk
<1>1. DataOK'
  BY DEF DataOK, WishInv
<1>2. ControlOK'
  BY DEF ControlOK, ClientPC, StorePC, MainPC
<1>3. MutexInv'
  BY DEF ControlOK, MutexInv, ClientPC
<1>4. WishInv'
  BY DEF DataOK, ControlOK, WishInv
<1>5. StockInv'
  BY DEF DataOK, ControlOK, StockInv, MutexInv, WishInv
<1>6. OpenInv'
  BY DEF OpenInv, MutexInv
<1>7. PendingInv'
  BY DEF DataOK, ControlOK, PendingInv, MutexInv, WishInv, StopInv
<1>8. StopInv'
  BY DEF ControlOK, StopInv, MutexInv
<1>9. QED
  BY <1>1, <1>2, <1>3, <1>4, <1>5, <1>6, <1>7, <1>8

LEMMA TakeStep == ASSUME IInv, NEW c \in Clients, Take(c) PROVE IInv'
<1> USE ApplicationAssumption DEF IInv, TypeOK, Take, Goto
<1>1. DataOK'
  BY DEF DataOK, WishInv
<1>2. ControlOK'
  BY DEF ControlOK, ClientPC, StorePC, MainPC
<1>3. MutexInv'
  BY DEF ControlOK, MutexInv, ClientPC
<1>4. WishInv'
  BY DEF DataOK, ControlOK, WishInv
<1>5. StockInv'
  BY DEF DataOK, ControlOK, StockInv, MutexInv, WishInv
<1>6. OpenInv'
  BY DEF OpenInv, MutexInv
<1>7. PendingInv'
  <2> SUFFICES ASSUME NEW d \in Clients, d \in asking'
               PROVE  /\ pc'[d] \in {"wait", "asleep", "woken"}
                      /\ stock' < val'[d]
                      /\ store' \in {"lock", "woken", "wait", "open"}
    BY DEF PendingInv
  <2>1. CASE d = c
    BY <2>1 DEF DataOK, ControlOK, PendingInv, MutexInv, WishInv, StopInv
  <2>2. CASE d # c
    BY <2>2 DEF DataOK, ControlOK, PendingInv, MutexInv, WishInv, StopInv
  <2>3. QED
    BY <2>1, <2>2
<1>8. StopInv'
  BY DEF ControlOK, StopInv, MutexInv
<1>9. QED
  BY <1>1, <1>2, <1>3, <1>4, <1>5, <1>6, <1>7, <1>8

LEMMA SpuriousClientStep == ASSUME IInv, NEW c \in Clients, SpuriousClient(c) PROVE IInv'
<1> USE ApplicationAssumption DEF IInv, TypeOK, SpuriousClient, Goto
<1>1. DataOK'
  BY DEF DataOK, WishInv
<1>2. ControlOK'
  BY DEF ControlOK, ClientPC, StorePC, MainPC
<1>3. MutexInv'
  BY DEF ControlOK, MutexInv, ClientPC
<1>4. WishInv'
  BY DEF DataOK, ControlOK, WishInv
<1>5. StockInv'
  BY DEF DataOK, ControlOK, StockInv, MutexInv, WishInv
<1>6. OpenInv'
  BY DEF OpenInv, MutexInv
<1>7. PendingInv'
  BY DEF DataOK, ControlOK, PendingInv, MutexInv, WishInv, StopInv
<1>8. StopInv'
  BY DEF ControlOK, StopInv, MutexInv
<1>9. QED
  BY <1>1, <1>2, <1>3, <1>4, <1>5, <1>6, <1>7, <1>8

LEMMA StoreAcquireStep == ASSUME IInv, StoreAcquire PROVE IInv'
<1> USE ApplicationAssumption DEF IInv, TypeOK, StoreAcquire, Goto
<1>1. DataOK'
  BY DEF DataOK, WishInv
<1>2. ControlOK'
  BY DEF ControlOK, ClientPC, StorePC, MainPC
<1>3. MutexInv'
  BY DEF ControlOK, MutexInv, ClientPC
<1>4. WishInv'
  BY DEF DataOK, ControlOK, WishInv
<1>5. StockInv'
  BY DEF DataOK, ControlOK, StockInv, MutexInv, WishInv
<1>6. OpenInv'
  BY DEF OpenInv, MutexInv
<1>7. PendingInv'
  BY DEF DataOK, ControlOK, PendingInv, MutexInv, WishInv, StopInv
<1>8. StopInv'
  BY DEF ControlOK, StopInv, MutexInv
<1>9. QED
  BY <1>1, <1>2, <1>3, <1>4, <1>5, <1>6, <1>7, <1>8

LEMMA StoreWaitStep == ASSUME IInv, StoreWait PROVE IInv'
<1> USE ApplicationAssumption DEF IInv, TypeOK, StoreWait, Goto
<1>1. DataOK'
  BY DEF DataOK, WishInv
<1>2. ControlOK'
  BY DEF ControlOK, ClientPC, StorePC, MainPC
<1>3. MutexInv'
  BY DEF ControlOK, MutexInv, ClientPC
<1>4. WishInv'
  BY DEF DataOK, ControlOK, WishInv
<1>5. StockInv'
  BY DEF DataOK, ControlOK, StockInv, MutexInv, WishInv
<1>6. OpenInv'
  BY DEF OpenInv, MutexInv, IsStockNotFull
<1>7. PendingInv'
  <2> SUFFICES ASSUME NEW d \in Clients, d \in asking
               PROVE  store' = "open"
    BY DEF PendingInv
  <2>1. stock < Threshold
    BY DEF PendingInv, WishInv, DataOK
  <2>2. QED
    BY <2>1 DEF IsStockNotFull
<1>8. StopInv'
  BY DEF ControlOK, StopInv, MutexInv
<1>9. QED
  BY <1>1, <1>2, <1>3, <1>4, <1>5, <1>6, <1>7, <1>8

LEMMA StoreSleepStep == ASSUME IInv, StoreSleep PROVE IInv'
<1> USE ApplicationAssumption DEF IInv, TypeOK, StoreSleep, Goto
<1>1. DataOK'
  BY DEF DataOK, WishInv
<1>2. ControlOK'
  BY DEF ControlOK, ClientPC, StorePC, MainPC
<1>3. MutexInv'
  BY DEF ControlOK, MutexInv, ClientPC
<1>4. WishInv'
  BY DEF DataOK, ControlOK, WishInv
<1>5. StockInv'
  BY DEF DataOK, ControlOK, StockInv, MutexInv, WishInv
<1>6. OpenInv'
  BY DEF OpenInv, MutexInv
<1>7. PendingInv'
  BY DEF DataOK, ControlOK, PendingInv, MutexInv, WishInv, StopInv
<1>8. StopInv'
  BY DEF ControlOK, StopInv, MutexInv
<1>9. QED
  BY <1>1, <1>2, <1>3, <1>4, <1>5, <1>6, <1>7, <1>8

LEMMA SpuriousStoreStep == ASSUME IInv, SpuriousStore PROVE IInv'
<1> USE ApplicationAssumption DEF IInv, TypeOK, SpuriousStore, Goto
<1>1. DataOK'
  BY DEF DataOK, WishInv
<1>2. ControlOK'
  BY DEF ControlOK, ClientPC, StorePC, MainPC
<1>3. MutexInv'
  BY DEF ControlOK, MutexInv, ClientPC
<1>4. WishInv'
  BY DEF DataOK, ControlOK, WishInv
<1>5. StockInv'
  BY DEF DataOK, ControlOK, StockInv, MutexInv, WishInv
<1>6. OpenInv'
  BY DEF OpenInv, MutexInv
<1>7. PendingInv'
  BY DEF DataOK, ControlOK, PendingInv, MutexInv, WishInv, StopInv
<1>8. StopInv'
  BY DEF ControlOK, StopInv, MutexInv
<1>9. QED
  BY <1>1, <1>2, <1>3, <1>4, <1>5, <1>6, <1>7, <1>8

LEMMA StoreCloseStep == ASSUME IInv, StoreClose PROVE IInv'
<1> USE ApplicationAssumption DEF IInv, TypeOK, StoreClose, Goto
<1>1. DataOK'
  BY DEF DataOK, WishInv
<1>2. ControlOK'
  BY DEF ControlOK, ClientPC, StorePC, MainPC
<1>3. MutexInv'
  BY DEF ControlOK, MutexInv, ClientPC
<1>4. WishInv'
  BY DEF DataOK, ControlOK, WishInv
<1>5. StockInv'
  BY DEF DataOK, ControlOK, StockInv, MutexInv, WishInv
<1>6. OpenInv'
  BY DEF OpenInv, MutexInv
<1>7. PendingInv'
  BY DEF DataOK, ControlOK, PendingInv, MutexInv, WishInv, StopInv
<1>8. StopInv'
  BY DEF ControlOK, StopInv, MutexInv
<1>9. QED
  BY <1>1, <1>2, <1>3, <1>4, <1>5, <1>6, <1>7, <1>8

LEMMA RefillStep == ASSUME IInv, Refill PROVE IInv'
<1> USE ApplicationAssumption DEF IInv, TypeOK, Refill, Goto
<1>1. DataOK'
  BY DEF DataOK, WishInv
<1>2. ControlOK'
  BY DEF ControlOK, ClientPC, StorePC, MainPC
<1>3. MutexInv'
  BY DEF ControlOK, MutexInv, ClientPC
<1>4. WishInv'
  BY DEF DataOK, ControlOK, WishInv
<1>5. StockInv'
  BY DEF DataOK, ControlOK, StockInv, MutexInv, WishInv
<1>6. OpenInv'
  BY DEF OpenInv, MutexInv
<1>7. PendingInv'
  BY DEF DataOK, ControlOK, PendingInv, MutexInv, WishInv, StopInv
<1>8. StopInv'
  BY DEF ControlOK, StopInv, MutexInv
<1>9. QED
  BY <1>1, <1>2, <1>3, <1>4, <1>5, <1>6, <1>7, <1>8

LEMMA JoinClientsStep == ASSUME IInv, JoinClients PROVE IInv'
<1> USE ApplicationAssumption DEF IInv, TypeOK, JoinClients, Goto
<1>1. DataOK'
  BY DEF DataOK, WishInv
<1>2. ControlOK'
  BY DEF ControlOK, ClientPC, StorePC, MainPC
<1>3. MutexInv'
  BY DEF ControlOK, MutexInv, ClientPC
<1>4. WishInv'
  BY DEF DataOK, ControlOK, WishInv
<1>5. StockInv'
  BY DEF DataOK, ControlOK, StockInv, MutexInv, WishInv
<1>6. OpenInv'
  BY DEF OpenInv, MutexInv
<1>7. PendingInv'
  BY DEF DataOK, ControlOK, PendingInv, MutexInv, WishInv, StopInv
<1>8. StopInv'
  BY DEF ControlOK, StopInv, MutexInv
<1>9. QED
  BY <1>1, <1>2, <1>3, <1>4, <1>5, <1>6, <1>7, <1>8

LEMMA StopFlagStep == ASSUME IInv, StopFlag PROVE IInv'
<1> USE ApplicationAssumption DEF IInv, TypeOK, StopFlag, Goto
<1>1. DataOK'
  BY DEF DataOK, WishInv
<1>2. ControlOK'
  BY DEF ControlOK, ClientPC, StorePC, MainPC
<1>3. MutexInv'
  BY DEF ControlOK, MutexInv, ClientPC
<1>4. WishInv'
  BY DEF DataOK, ControlOK, WishInv
<1>5. StockInv'
  BY DEF DataOK, ControlOK, StockInv, MutexInv, WishInv
<1>6. OpenInv'
  BY DEF OpenInv, MutexInv
<1>7. PendingInv'
  BY DEF DataOK, ControlOK, PendingInv, MutexInv, WishInv, StopInv
<1>8. StopInv'
  BY DEF ControlOK, StopInv, MutexInv
<1>9. QED
  BY <1>1, <1>2, <1>3, <1>4, <1>5, <1>6, <1>7, <1>8

LEMMA StopNotifyStep == ASSUME IInv, StopNotify PROVE IInv'
<1> USE ApplicationAssumption DEF IInv, TypeOK, StopNotify, Goto, NotifyStore
<1>1. DataOK'
  BY DEF DataOK, WishInv
<1>2. ControlOK'
  BY DEF ControlOK, ClientPC, StorePC, MainPC
<1>3. MutexInv'
  BY DEF ControlOK, MutexInv, ClientPC
<1>4. WishInv'
  BY DEF DataOK, ControlOK, WishInv
<1>5. StockInv'
  BY DEF DataOK, ControlOK, StockInv, MutexInv, WishInv
<1>6. OpenInv'
  BY DEF OpenInv, MutexInv
<1>7. PendingInv'
  BY DEF DataOK, ControlOK, PendingInv, MutexInv, WishInv, StopInv
<1>8. StopInv'
  BY DEF ControlOK, StopInv, MutexInv
<1>9. QED
  BY <1>1, <1>2, <1>3, <1>4, <1>5, <1>6, <1>7, <1>8

LEMMA JoinStoreStep == ASSUME IInv, JoinStore PROVE IInv'
<1> USE ApplicationAssumption DEF IInv, TypeOK, JoinStore, Goto
<1>1. DataOK'
  BY DEF DataOK, WishInv
<1>2. ControlOK'
  BY DEF ControlOK, ClientPC, StorePC, MainPC
<1>3. MutexInv'
  BY DEF ControlOK, MutexInv, ClientPC
<1>4. WishInv'
  BY DEF DataOK, ControlOK, WishInv
<1>5. StockInv'
  BY DEF DataOK, ControlOK, StockInv, MutexInv, WishInv
<1>6. OpenInv'
  BY DEF OpenInv, MutexInv
<1>7. PendingInv'
  BY DEF DataOK, ControlOK, PendingInv, MutexInv, WishInv, StopInv
<1>8. StopInv'
  BY DEF ControlOK, StopInv, MutexInv
<1>9. QED
  BY <1>1, <1>2, <1>3, <1>4, <1>5, <1>6, <1>7, <1>8

LEMMA NextIInv == IInv /\ [Next]_vars => IInv'
<1> SUFFICES ASSUME IInv, [Next]_vars PROVE IInv'
  OBVIOUS
<1>1. CASE UNCHANGED vars
  BY <1>1 DEF vars, IInv, TypeOK, DataOK, ControlOK, MutexInv, WishInv, StockInv, OpenInv, PendingInv, StopInv
<1>2. QED
  BY <1>1, DrawStep, AcquireStep, CheckStep, WaitStep, TakeStep, SpuriousClientStep,
     StoreAcquireStep, StoreWaitStep, StoreSleepStep, SpuriousStoreStep,
     StoreCloseStep, RefillStep, JoinClientsStep, StopFlagStep, StopNotifyStep,
     JoinStoreStep
     DEF Next, Client, Store, Main, Spurious, Exited

LEMMA Invariance == Spec => []IInv
<1>1. QED
  BY InitIInv, NextIInv, PTL DEF Spec

-----------------------------------------------------------------------------
(***************************************************************************)
(* Theorems                                                                *)
(***************************************************************************)

\* The variables keep their types, for any parameters.
THEOREM TypeCorrect == Spec => []TypeOK
<1>1. IInv => TypeOK
  BY DEF IInv
<1>2. QED
  BY <1>1, Invariance, PTL

\* Nothing is sold that is not there, whatever fn_clients and fn_store do in
\* which order.
THEOREM NoOverselling == Spec => []NeverOversold
<1>1. IInv => NeverOversold
  BY DEF IInv, MutexInv, StockInv, NeverOversold
<1>2. QED
  BY <1>1, Invariance, PTL

\* A client asleep on its own request has a store that is going to refill: the
\* notification under the lock cannot fall between the store's look at the
\* stock and its sleep.
THEOREM RequestsReachStore == Spec => []RequestPending
<1>1. IInv => RequestPending
  BY DEF IInv, PendingInv, RequestPending
<1>2. QED
  BY <1>1, Invariance, PTL

\* main stops the store only when every client has had all of its rounds.
THEOREM StopComesLast == Spec => []StopAfterClients
<1>1. IInv => StopAfterClients
  BY DEF IInv, StopInv, WishInv, StopAfterClients
<1>2. QED
  BY <1>1, Invariance, PTL

\* The threads implement the shop of module Stock: every step takes articles for
\* one client, refills a low stock, or changes nothing the shop can see.
THEOREM ShopImplemented == Spec => ShopSpec
<1>1. Init => Shop!Init
  BY DEF Init, Shop!Init
<1>2. IInv /\ [Next]_vars => [Shop!Next]_Shop!vars
  <2> SUFFICES ASSUME IInv, [Next]_vars PROVE [Shop!Next]_Shop!vars
    OBVIOUS
  <2>1. ASSUME NEW c \in Clients, Take(c) PROVE Shop!Next
    <3>1. val[c] \in 1 .. MaxTake /\ n[c] < Rounds /\ val[c] <= stock
      BY <2>1 DEF IInv, WishInv, StockInv, Take
    <3>2. stock' = stock - val[c] /\ n' = [n EXCEPT ![c] = @ + 1]
      BY <2>1 DEF Take
    <3>3. Shop!Serve(c)
      BY <3>1, <3>2 DEF Shop!Serve
    <3>4. QED
      BY <3>3 DEF Shop!Next
  <2>2. CASE Refill
    <3>1. stock < Threshold
      BY <2>2 DEF IInv, OpenInv, Refill
    <3>2. Shop!FillUp
      BY <2>2, <3>1 DEF Shop!FillUp, Refill
    <3>3. QED
      BY <3>2 DEF Shop!Next
  <2>3. ASSUME NEW c \in Clients,
               Draw(c) \/ Acquire(c) \/ Check(c) \/ Wait(c) \/ SpuriousClient(c)
        PROVE  UNCHANGED Shop!vars
    BY <2>3 DEF Draw, Acquire, Check, Wait, SpuriousClient, Shop!vars
  <2>4. CASE \/ StoreAcquire \/ StoreWait \/ StoreSleep \/ StoreClose
             \/ SpuriousStore \/ Main \/ UNCHANGED vars
    BY <2>4 DEF StoreAcquire, StoreWait, StoreSleep, StoreClose, SpuriousStore, Main,
                JoinClients, StopFlag, StopNotify, JoinStore, vars, Shop!vars
  <2>5. QED
    BY <2>1, <2>2, <2>3, <2>4 DEF Next, Client, Store, Spurious, Exited
<1>3. QED
  BY <1>1, <1>2, Invariance, PTL DEF Spec, ShopSpec, Shop!Spec
=============================================================================
