-------------------------- MODULE PaymentProperties -------------------------
(* What should hold of paying for a service.                               *)
EXTENDS Payments

\* Every cache and the wallet's thread hold data of their type.
TypeOK ==
  /\ ordered \subseteq Addresses /\ expired \subseteq ordered
  /\ told \subseteq ordered /\ paymentRequests \subseteq ordered
  /\ paidSatoshis \in [Addresses -> Nat]
  /\ storedSatoshis \in [Addresses -> Nat]
  /\ paidToAddresses \in [Addresses -> Txids \cup {Nil}]
  /\ paidServices \in [Txids -> Addresses \cup {Nil}]
  /\ sent \subseteq Txids /\ again \subseteq sent /\ known \subseteq sent /\ events \in Seq(Txids)
  /\ available \subseteq known \ moved /\ moved \subseteq known
  /\ server \in {"down", "starting", "up"} /\ crashed \in BOOLEAN
  /\ thread.pc \in Steps /\ thread.outputs \in [Addresses -> Nat]
  /\ thread.pc # "idle" => thread.tx \in Txids
  /\ thread.pc \notin {"idle", "output"} => thread.address \in ordered

Paid(a) == \E tx \in Txids : paidServices[tx] = a
Completing(a, steps) == thread.address = a /\ thread.pc \in steps

\* What customers have really sent to an address.
Received(a) == SumFunctionOnSet([tx \in Txids |-> Pays[tx][a]], sent)

\* What the listener makes of it: for each output the value of the whole
\* transaction.  It is what was sent where a transaction has one output only.
Credit(tx, a) == Outputs[tx][a] * ValueSentToMe(tx)
Counted(a) == SumFunctionOnSet([tx \in Txids |-> Credit(tx, a)], sent)

CountedTwice(a) == \E tx \in again : a \in Payees(tx)

\* Nothing is sold for less than the listener counts: the order of an address
\* is on record only after transactions with outputs to that very address were
\* sent that count for the price, each one once, over as many restarts and
\* expiries as it took.  The one exception: a payment that the wallet lost in
\* a crash and received again counts twice.
NoServiceUnpaid ==
  \A a \in Addresses :
    Paid(a) => Counted(a) >= Price[a] \/ CountedTwice(a)

\* The move from paymentRequests to paidServices, three cache operations with
\* a crash possible at each, never drops an order that has not expired.
MoveNeverLoses ==
  \A a \in ordered \ expired : a \in paymentRequests \/ Paid(a)

\* A partial payment that has been processed is in the file store too: it
\* still counts after a crash.
PartialPaymentKept ==
  \A a \in paymentRequests :
    paidSatoshis[a] # storedSatoshis[a] => Completing(a, {"replace"})

\* A page is told that its payment has arrived only if the service is on
\* record, or just being recorded.  After a crash between the two puts the
\* order still waits, with its price in the file store: any further payment
\* before it expires delivers it.
ToldMeansPaid ==
  \A a \in Addresses :
    a \in told \/ paidToAddresses[a] # Nil =>
      \/ Paid(a) \/ Completing(a, {"paidService"})
      \/ /\ crashed
         /\ \/ a \in expired
            \/ a \in paymentRequests /\ storedSatoshis[a] >= Price[a]

\* One order is delivered once: no second transaction is recorded as the
\* payment of an address.  A crash between the put and the remove breaks it.
DeliveredOnce ==
  \A t, u \in Txids :
    ~crashed /\ paidServices[t] # Nil /\ paidServices[t] = paidServices[u] =>
      t = u

\* Whoever pays the price of an order gets the service, unless the order
\* expires, and the page that waits is told, unless the notice for it expires,
\* or the server crashes: it never looks at payments that came in meanwhile.
PaymentHonoured ==
  \A a \in Addresses :
    a \in ordered /\ Received(a) >= Price[a] ~>
      \/ a \in expired
      \/ Paid(a) /\ (a \in told \/ paidToAddresses[a] = Nil)
      \/ crashed

\* Confirmed funds of 10 mBTC and more leave the wallet with the next payment,
\* and after a start without waiting for one, unless the server dies first or
\* the send fails.
FundsMove ==
  \A tx \in Txids :
    /\ MovesFunds /\ "sendFails" \notin Faults
    /\ Balance >= LeastFunds /\ tx \in available
    /\ server = "starting" \/ thread # Idle \/ events # <<>>
    ~> tx \in moved \/ server = "down"

-----------------------------------------------------------------------------
(* Payments implements Orders.                                             *)

\* An order waits while it is pending or in the hands of the thread that
\* completes it, and is delivered when it is on record.
Waits(a) ==
  a \in paymentRequests \/ Completing(a, {"replace", "paidTo", "paidService"})

Status(a) == IF a \notin ordered THEN "none"
             ELSE IF Paid(a)     THEN "delivered"
             ELSE IF Waits(a)    THEN "waiting" ELSE "dropped"

Promise == INSTANCE Orders WITH
  Orders    <- Addresses,
  status    <- [a \in Addresses |-> Status(a)],
  received  <- [a \in Addresses |-> Counted(a)],
  recounted <- {a \in Addresses : CountedTwice(a)}

\* Each order is delivered or dropped for good: no interleaving of payments,
\* expiries and crashes takes a delivered order back or revives a dropped one,
\* and none is delivered, or told to be paid, before payments have come that
\* count for its price.
ImplementsOrders == Promise!Spec

-----------------------------------------------------------------------------
(* What a comment or a page says, and the code does not keep.              *)

\* storePayment, step 2: "If found, move the record to paidServices."  One
\* transaction may complete two orders, and paidServices has one entry for it.
RecordIsMoved ==
  \A a \in Addresses :
    paidToAddresses[a] # Nil =>
      \/ paidServices[paidToAddresses[a]] = a
      \/ Completing(a, {"paidService"})

\* requestPayment.jsp: "Please pay ${serviceType.priceTag} to" the address.
\* Every output is credited with the value of the whole transaction, so that
\* two outputs complete an order, or two, for half of the price.
PriceIsPaid == \A a \in Addresses : Paid(a) => Received(a) >= Price[a]
=============================================================================
