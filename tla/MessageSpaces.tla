--------------------------- MODULE MessageSpaces ----------------------------
(***************************************************************************)
(* Numbering the message spaces: NewMessageSpace draws an id with          *)
(* getUniqueLong, a get and a put of the cache maxUniqueLong, and redirects*)
(* the browser to RequestPayment with the id in the URL.  RequestPayment   *)
(* takes the id from the URL, whoever wrote it, orders a PayMessService    *)
(* for it under a fresh address, and the payment of that address puts the  *)
(* space on the board.                                                     *)
(***************************************************************************)
EXTENDS Integers

CONSTANTS
  Workers,    \* threads that serve NewMessageSpace
  Forms,      \* "Create" forms that customers submit, once each
  Addresses,  \* addresses that freshReceiveAddress will hand out
  Longs,      \* ids of RequestPayment URLs that customers load by themselves,
              \* again or without a form
  Nil,
  MaxIds      \* bound: ids are drawn while the counter is below it

ASSUME NilAssumption == Nil \notin Int \cup Workers \cup Forms
ASSUME BoundAssumption == MaxIds \in Nat
ASSUME LongAssumption == Longs \subseteq Int

VARIABLES
  maxUniqueLong,  \* the cache entry, Nil if it was never put
  worker,         \* worker -> the form it serves, the maxLong it has read and
                  \* the result it has put
  messageSpaceId, \* form -> the id in the URL that it was redirected to
  ordered,        \* address -> the space ordered with it: its id, and the form
                  \* that led there, Nil if the customer wrote the URL
  paidServices,   \* addresses of the orders that are paid
  contended       \* forms whose id was put while another thread was drawing
                  \* one (history)

vars == <<maxUniqueLong, worker, messageSpaceId, ordered, paidServices,
          contended>>

Idle == [form |-> Nil, maxLong |-> Nil, result |-> Nil]

Init ==
  /\ maxUniqueLong = Nil
  /\ worker = [w \in Workers |-> Idle]
  /\ messageSpaceId = [f \in Forms |-> Nil]
  /\ ordered = [a \in Addresses |-> Nil]
  /\ paidServices = {}
  /\ contended = {}

\* Threads between the get and the put of getUniqueLong.
Drawing == {w \in Workers : worker[w] # Idle /\ worker[w].result = Nil}

\* getUniqueLong: read, 0 if there is nothing to read.
GetMaxLong(w, f) ==
  /\ maxUniqueLong # Nil => maxUniqueLong < MaxIds
  /\ worker[w] = Idle
  /\ messageSpaceId[f] = Nil
  /\ \A v \in Workers : worker[v].form # f
  /\ worker' = [worker EXCEPT ![w] =
                  [form |-> f,
                   maxLong |-> IF maxUniqueLong = Nil THEN 0
                                                      ELSE maxUniqueLong,
                   result |-> Nil]]
  /\ UNCHANGED <<maxUniqueLong, messageSpaceId, ordered, paidServices,
                 contended>>

\* Slip: the old maximum is put back, not the new one.
PutOldLong(w) ==
  /\ w \in Drawing
  /\ maxUniqueLong' = worker[w].maxLong
  /\ worker' = [worker EXCEPT ![w].result = worker[w].maxLong + 1]
  /\ contended' = IF Drawing = {w} THEN contended \ {worker[w].form}
                                   ELSE contended \cup {worker[w].form}
  /\ UNCHANGED <<messageSpaceId, ordered, paidServices>>

\* getUniqueLong: put one more.
PutMaxLong(w) ==
  /\ w \in Drawing
  /\ maxUniqueLong' = worker[w].maxLong + 1
  /\ worker' = [worker EXCEPT ![w].result = worker[w].maxLong + 1]
  /\ contended' = IF Drawing = {w} THEN contended \ {worker[w].form}
                                   ELSE contended \cup {worker[w].form}
  /\ UNCHANGED <<messageSpaceId, ordered, paidServices>>

\* sendRedirect to a RequestPayment URL with the id.
Redirect(w) ==
  /\ worker[w].result # Nil
  /\ messageSpaceId' = [messageSpaceId EXCEPT
                          ![worker[w].form] = worker[w].result]
  /\ worker' = [worker EXCEPT ![w] = Idle]
  /\ UNCHANGED <<maxUniqueLong, ordered, paidServices, contended>>

\* RequestPayment.doGet with the id that useParameters reads: the browser
\* follows the redirect of a form, once,
RequestPayment(f, a) ==
  /\ messageSpaceId[f] # Nil
  /\ \A b \in Addresses : ordered[b] # Nil => ordered[b].form # f
  /\ ordered[a] = Nil
  /\ ordered' = [ordered EXCEPT ![a] = [id |-> messageSpaceId[f], form |-> f]]
  /\ UNCHANGED <<maxUniqueLong, worker, messageSpaceId, paidServices,
                 contended>>

\* or the customer loads a URL with any long.
RequestAnyPayment(i, a) ==
  /\ ordered[a] = Nil
  /\ ordered' = [ordered EXCEPT ![a] = [id |-> i, form |-> Nil]]
  /\ UNCHANGED <<maxUniqueLong, worker, messageSpaceId, paidServices,
                 contended>>

\* Slip: a payment to any address of the wallet is stored, ordered or not.
StoreAnyPayment(a) ==
  /\ a \notin paidServices
  /\ paidServices' = paidServices \cup {a}
  /\ UNCHANGED <<maxUniqueLong, worker, messageSpaceId, ordered, contended>>

\* The price arrives at the address, and storePayment moves the order.
StorePayment(a) ==
  /\ ordered[a] # Nil
  /\ a \notin paidServices
  /\ paidServices' = paidServices \cup {a}
  /\ UNCHANGED <<maxUniqueLong, worker, messageSpaceId, ordered, contended>>

\* Slip: maxUniqueLong expires or is not persisted.
RestartFromNothing ==
  /\ maxUniqueLong' = Nil
  /\ worker' = [w \in Workers |-> Idle]
  /\ UNCHANGED <<messageSpaceId, ordered, paidServices, contended>>

\* Threads die, the caches come back from their file store.
Restart ==
  /\ worker' = [w \in Workers |-> Idle]
  /\ UNCHANGED <<maxUniqueLong, messageSpaceId, ordered, paidServices,
                 contended>>

Next ==
  \/ \E w \in Workers, f \in Forms : GetMaxLong(w, f)
  \/ \E w \in Workers : PutMaxLong(w) \/ Redirect(w)
  \/ \E a \in Addresses :
       \/ \E f \in Forms : RequestPayment(f, a)
       \/ \E i \in Longs : RequestAnyPayment(i, a)
       \/ StorePayment(a)
  \/ Restart

Spec == Init /\ [][Next]_vars

Ids == Nat \cup {Nil}

\* The cache, the threads and the orders hold data of their type; a space that
\* was ordered through a form has the id that the form was given, and only
\* spaces that were ordered are paid.
TypeOK ==
  /\ maxUniqueLong \in Ids
  /\ worker \in [Workers -> [form : Forms \cup {Nil}, maxLong : Ids,
                             result : Ids]]
  /\ messageSpaceId \in [Forms -> Ids]
  /\ ordered \in [Addresses -> [id : Int, form : Forms \cup {Nil}] \cup {Nil}]
  /\ paidServices \subseteq Addresses /\ contended \subseteq Forms
  /\ \A a \in paidServices : ordered[a] # Nil
  /\ \A a \in Addresses : ordered[a] # Nil /\ ordered[a].form # Nil =>
       ordered[a].id = messageSpaceId[ordered[a].form]

\* The counter never falls behind an id that a thread drew while no other
\* thread was drawing one, be it given out already or about to be: not by a
\* restart, and not by threads that draw later, however they overlap.  (An id
\* that was put while another thread was still to put can be left ahead of the
\* counter: getUniqueLong has no lock.)
IdsBelowMax ==
  /\ \A f \in Forms \ contended :
       messageSpaceId[f] # Nil =>
         maxUniqueLong # Nil /\ messageSpaceId[f] <= maxUniqueLong
  /\ \A w \in Workers :
       worker[w].result # Nil /\ worker[w].form \notin contended =>
         maxUniqueLong # Nil /\ worker[w].result <= maxUniqueLong

\* Two "Create" forms are given the same message space only if one of them
\* drew its id while another thread was drawing one, wherever the server
\* restarts between reading the counter and redirecting the browser.
UniqueIds ==
  \A f, g \in Forms \ contended :
    messageSpaceId[f] = messageSpaceId[g] /\ messageSpaceId[f] # Nil => f = g

\* payMess.jsp: "A payment will give one week exclusivity on the message
\* space."  No two paid services stand for the same message space.
ExclusiveSpace ==
  \A a, b \in paidServices : ordered[a].id = ordered[b].id => a = b
=============================================================================
