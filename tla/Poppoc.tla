------------------------------- MODULE Poppoc -------------------------------
(***************************************************************************)
(* The shop and the login in one: Payments and PopLogin run over the same  *)
(* Storage.  They meet in the cache paidServices.  The wallet's thread     *)
(* puts a service there when an order is paid; PopServlet looks it up when *)
(* a PoP arrives.  A crash stops both, and no servlet runs before start    *)
(* has ended.                                                              *)
(*                                                                         *)
(* Payments knows a paid service by the address of its order, PopLogin by  *)
(* what it is; completed and paidServices are the two views of one cache.  *)
(***************************************************************************)
EXTENDS Integers, FiniteSetsExt, Services

CONSTANTS
  Addresses, Outputs, Pays, Price, MovesFunds, LeastFunds, PaymentFaults,
  Sessions, Workers, Asked, MaxRequests, LoginFaults,
  Txids,    \* the transactions that customers may send
  Service   \* address -> the service type ordered with it

\* A transaction that pays for two orders leaves only one of them in
\* paidServices (the subject of PaymentsBatch); here each pays to one address.
ASSUME OrderAssumption ==
  /\ Service \in [Addresses -> ServiceTypes]
  /\ \A tx \in Txids : \E a \in Addresses :
       \A b \in Addresses : Outputs[tx][b] > 0 <=> b = a

Ordered ==
  [tx \in Txids |-> Service[CHOOSE a \in Addresses : Outputs[tx][a] > 0]]

VARIABLES
  ordered, paymentRequests, paidSatoshis, storedSatoshis, paidToAddresses,
  completed, expired, told, sent, again, known, available, moved, events,
  server, crashed, thread
payVars == <<ordered, paymentRequests, paidSatoshis, storedSatoshis,
             paidToAddresses, completed, expired, told, sent, again, known,
             available, moved, events, server, crashed, thread>>

VARIABLES
  id, popRequests, verifiedPops, paidServices, stored, drawn, request,
  creating, urls, paid, popRequestId, authorizedFor, post, poll
loginVars == <<id, popRequests, verifiedPops, paidServices, stored, drawn,
               request, creating, urls, paid, popRequestId, authorizedFor,
               post, poll>>

vars == <<payVars, loginVars>>

\* The wallet loses no payment in a crash here, so that none comes twice;
\* Payments lets it.
Pay == INSTANCE Payments WITH
         paidServices <- completed, Faults <- PaymentFaults, MaxLost <- 0
Login == INSTANCE PopLogin WITH Faults <- LoginFaults

\* What the two take for granted of their constants.
ASSUME PartsAssumption ==
  /\ Pay!PriceAssumption /\ Pay!PaysAssumption /\ Pay!OutputsAssumption
  /\ Pay!FundsAssumption /\ Pay!NilAssumption /\ Pay!FaultAssumption
  /\ Login!NilAssumption /\ Login!BoundAssumption /\ Login!ShopAssumption

Init == Pay!Init /\ Login!Init

-----------------------------------------------------------------------------

\* storePayment reaches paidServices.put.
PutPaidService == Pay!PutPaidService /\ Login!StorePayment(thread.tx)

\* The steps of paying that leave paidServices alone.  Orders do not expire
\* here, which can only take payments away: Payments lets them.
PaymentStep ==
  /\ \/ \E a \in Addresses :
          \/ Pay!RequestPayment(a) \/ Pay!PaymentPoll(a)
          \/ Pay!SkipOutput(a) \/ Pay!AddPayment(a)
     \/ \E tx \in Txids : Pay!Receive(tx)
     \/ Pay!Confirm
     \/ Pay!OnCoinsReceived \/ Pay!ReplaceRequest \/ Pay!PutPaidToAddress
     \/ Pay!RemoveRequest \/ Pay!FinishEvent
     \/ Pay!AddEventListener \/ Pay!FinishStart
  /\ UNCHANGED loginVars

\* The servlets of the login, and what expires there.  A paid service does not
\* expire here: PaidServices is about its lifespan.
LoginStep ==
  /\ Pay!Serving
  /\ \/ \E s \in Sessions, svc \in Asked : Login!StoreRequest(s, svc)
     \/ \E n \in Login!Nonces :
          \/ Login!AnswerBrowser(n)
          \/ Login!StartPoll(n) \/ Login!TakeVerifiedPop(n) \/ Login!GrantAccess(n)
          \/ \E w \in Workers, tx \in Txids : Login!ReceivePop(w, n, tx)
     \/ \E w \in Workers : Login!PopStep(w)
     \/ \E s \in Sessions, k \in ServiceIds : Login!Logout(s, k)
     \/ \E r \in Login!RequestIds :
          Login!ExpirePopRequest(r) \/ Login!ExpireVerifiedPop(r)
  /\ UNCHANGED payVars

Crash == Pay!Crash /\ Login!Crash

Next == PutPaidService \/ PaymentStep \/ LoginStep \/ Crash

Spec == Init /\ [][Next]_vars

-----------------------------------------------------------------------------

\* What the payments sent to an address count for: each output counts for the
\* value of the whole transaction.
Counted(a) ==
  SumFunctionOnSet([tx \in Txids |-> Outputs[tx][a] * Pay!ValueSentToMe(tx)],
                   sent)

\* The shop's purpose, from the coins to the page behind the login: a session
\* has access only by a PopRequest for a service of which some order has got
\* payments that count for its price, over however many transactions and
\* crashes, each of them counted once.
AccessIsPaid ==
  \A s \in Sessions, k \in ServiceIds :
    authorizedFor[s][k] # Nil =>
      \E a \in ordered :
        /\ IsSameServiceType(Service[a], request[authorizedFor[s][k]].svc)
        /\ Counted(a) >= Price[a]

\* A payment that was told to its customer can be proven as long as the paid
\* service lives: no update and no restart takes it away.  After a crash of
\* the wallet's thread between its two puts, which leaves no record, the order
\* still waits, with its price in the file store.
ToldIsProvable ==
  \A a \in told :
    \/ crashed /\ a \in paymentRequests /\ storedSatoshis[a] >= Price[a]
    \/ thread.address = a /\ thread.pc = "paidService"
    \/ \E tx \in Txids : /\ completed[tx] = a
                         /\ paidServices[tx] # Nil
                         /\ IsSameServiceType(paidServices[tx], Service[a])
=============================================================================
