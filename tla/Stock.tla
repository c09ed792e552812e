------------------------------- MODULE Stock -------------------------------
(***************************************************************************)
(* What the shop of threads/mut_cond_1.cpp promises: clients take articles *)
(* that are there, and the stock is filled up again only when it is low.   *)
(* No mutex, no condition variable, no thread.                             *)
(***************************************************************************)
EXTENDS Integers

CONSTANTS Clients, InitialStock, Threshold, MaxTake, Rounds

VARIABLES stock,  \* the articles in the shop
          n       \* how many times each client has been served

vars == <<stock, n>>

Init == stock = InitialStock /\ n = [c \in Clients |-> 0]

Serve(c) ==
  /\ n[c] < Rounds
  /\ \E v \in 1 .. MaxTake : v <= stock /\ stock' = stock - v
  /\ n' = [n EXCEPT ![c] = @ + 1]

FillUp ==
  /\ stock < Threshold
  /\ stock' = InitialStock
  /\ UNCHANGED n

Next == FillUp \/ \E c \in Clients : Serve(c)

Spec == Init /\ [][Next]_vars
=============================================================================
