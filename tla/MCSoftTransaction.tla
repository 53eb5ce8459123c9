-------------------------- MODULE MCSoftTransaction ---------------------------
(* Own cards: the scenario of the Transactions test, each thread has a SoftCard of
   its own and the cards have one mutex, or, when clock() has moved between the two
   SoftCards, a mutex each.  Shared card: two threads that the card
   thread pool gave one handle use one SoftCard. *)
EXTENDS SoftTransaction, TLC
CONSTANTS t1, t2, t3, o1, o2, o3, n1, n2
OwnCards == t1 :> o1 @@ t2 :> o2 @@ t3 :> o3
SharedCard == [t \in Threads |-> o1]
NameByClock == [o \in Objects |-> IF o = o1 THEN n1 ELSE n2]
OneName == [o \in Objects |-> n1]
==============================================================================
