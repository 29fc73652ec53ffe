------------------------------- MODULE Orders -------------------------------
(***************************************************************************)
(* What the shop promises about an order, without caches, threads, wallet  *)
(* or crashes.  An order is placed, waits for its payment, and is then     *)
(* delivered once and for all or dropped once and for all.  It is          *)
(* delivered, and its customer told so, only when it is funded.            *)
(***************************************************************************)
EXTENDS Integers

CONSTANTS
  Orders,
  Price        \* order -> what it takes to fund it

VARIABLES
  status,      \* order -> how far it has come
  received,    \* order -> what the payments sent for it count for
  recounted,   \* orders with a payment that the wallet lost and got again
  told         \* orders whose customer was told that the payment is there

vars == <<status, received, recounted, told>>

\* A payment that is counted again is the shop's loss.
Funded(a) == received[a] >= Price[a] \/ a \in recounted

Init ==
  /\ status = [a \in Orders |-> "none"]
  /\ received = [a \in Orders |-> 0]
  /\ recounted = {} /\ told = {}

Move(a, from, to) ==
  /\ status[a] = from
  /\ status' = [status EXCEPT ![a] = to]
  /\ UNCHANGED <<received, recounted, told>>

Place(a)   == Move(a, "none", "waiting")
Deliver(a) == Move(a, "waiting", "delivered") /\ Funded(a)
Drop(a)    == Move(a, "waiting", "dropped")

\* Money comes, for any orders that were placed, and is not given back.
Arrive ==
  /\ received' \in [Orders -> Nat]
  /\ \A a \in Orders : received'[a] >= received[a]
  /\ recounted \subseteq recounted'
  /\ \A a \in Orders : status[a] = "none" =>
       received'[a] = received[a] /\ (a \in recounted' <=> a \in recounted)
  /\ UNCHANGED <<status, told>>

Tell(a) ==
  /\ Funded(a)
  /\ told' = told \cup {a}
  /\ UNCHANGED <<status, received, recounted>>

Next ==
  \/ \E a \in Orders : Place(a) \/ Deliver(a) \/ Drop(a) \/ Tell(a)
  \/ Arrive

Spec == Init /\ [][Next]_vars
=============================================================================
