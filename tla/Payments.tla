------------------------------ MODULE Payments ------------------------------
(***************************************************************************)
(* Paying for a service: Storage steps 1 to 3, RequestPayment, PaymentPoll *)
(* and the listener that StorageBitcoinjWallet attaches to the wallet.     *)
(*                                                                         *)
(* RequestPayment gives every customer a fresh address and keeps the       *)
(* ordered ServiceType under it in paymentRequests.  The wallet calls      *)
(* onCoinsReceived on one thread of its own, one transaction after the     *)
(* other; storePayment credits one output after the other, each with the   *)
(* value of the whole transaction, and, once the price is reached, moves   *)
(* the service to paidServices in three separate cache operations.         *)
(* The page of the order polls paidToAddresses meanwhile.  After each      *)
(* transaction, and at every start, sendFunds empties the wallet.          *)
(***************************************************************************)
EXTENDS Integers, Sequences, Functions, FiniteSetsExt

CONSTANTS
  Addresses,  \* the addresses that freshReceiveAddress will hand out
  Txids,      \* the transactions that customers will send
  Outputs,    \* txid -> address -> how many outputs it has to that address
  Pays,       \* txid -> address -> the amount that these send, all together
  Price,      \* address -> least amount with which isPaidFor its order
  MovesFunds, \* addressToMoveIncomingFundsTo is configured
  LeastFunds, \* the amount (10 mBTC) from which on sendFunds sends
  Nil,
  MaxLost,    \* bound: payments that the wallet loses in crashes
  Faults      \* which of the environment's disturbances may happen

AllFaults == {"crash", "expireRequest", "expireReceived", "sendFails"}

ASSUME PriceAssumption == Price \in [Addresses -> Nat \ {0}]

\* The addresses of the wallet that a transaction has outputs to.
Payees(tx) == {a \in Addresses : Outputs[tx][a] > 0}

ASSUME OutputsAssumption ==
  /\ Outputs \in [Txids -> [Addresses -> Nat]]
  /\ \A tx \in Txids : IsFiniteSet(Payees(tx))
ASSUME PaysAssumption ==
  /\ Pays \in [Txids -> [Addresses -> Nat]]
  /\ \A tx \in Txids : \A a \in Addresses \ Payees(tx) : Pays[tx][a] = 0
ASSUME FundsAssumption == MovesFunds \in BOOLEAN /\ LeastFunds \in Nat
ASSUME BoundAssumption == MaxLost \in Nat
ASSUME NilAssumption   == Nil \notin Txids \cup Addresses
ASSUME FaultAssumption == Faults \subseteq AllFaults

VARIABLES
  ordered,          \* addresses handed out to an order (history)
  paymentRequests,  \* keys of the cache paymentAddress -> serviceType
  paidSatoshis,     \* address -> paidSatoshis of its ServiceType object
  storedSatoshis,   \* the same in the file store behind paymentRequests
  paidToAddresses,  \* address -> txid
  paidServices,     \* txid -> address of the order that it completed
  expired,          \* orders that were dropped unpaid (history)
  told,             \* orders whose page has shown "Payment received."
  sent,             \* transactions that customers have sent (history)
  again,            \* those that the wallet has received twice (history)
  known,            \* transactions that the wallet has stored
  available,        \* those confirmed, whose coins sendFunds may send
  moved,            \* those whose coins sendFunds has sent
  events,           \* transactions whose onCoinsReceived is still to run
  server,           \* "down", "starting" (only sendFunds is left), or "up"
  crashed,          \* the process has died at least once (history)
  thread            \* the wallet's thread in onCoinsReceived

cacheVars  == <<paymentRequests, paidSatoshis, storedSatoshis,
                paidToAddresses, paidServices>>
fundsVars  == <<available, moved>>
walletVars == <<sent, again, known, events, server, crashed, fundsVars>>
pageVars   == <<ordered, expired, told>>
vars == <<cacheVars, walletVars, pageVars, thread>>

Steps == {"idle", "output", "replace", "paidTo", "paidService", "remove"}
Idle  == [pc |-> "idle", tx |-> Nil, address |-> Nil,
          outputs |-> [a \in Addresses |-> 0]]   \* outputs still to look at

Init ==
  /\ ordered = {} /\ expired = {} /\ told = {}
  /\ paymentRequests = {}
  /\ paidSatoshis    = [a \in Addresses |-> 0]
  /\ storedSatoshis  = [a \in Addresses |-> 0]
  /\ paidToAddresses = [a \in Addresses |-> Nil]
  /\ paidServices    = [tx \in Txids |-> Nil]
  /\ sent = {} /\ again = {} /\ known = {} /\ events = <<>>
  /\ available = {} /\ moved = {}
  /\ server = "up" /\ crashed = FALSE
  /\ thread = Idle

\* Transaction.getValueSentToMe: everything that the transaction sends to
\* addresses of the wallet.
ValueSentToMe(tx) == SumFunctionOnSet(Pays[tx], Payees(tx))

\* The listener is attached, by start, to the running wallet.
Listening == server # "down"

\* Servlets run when the context listeners, start among them, have ended.
Serving == server = "up"

\* Slips: any amount will do; the price must be met exactly.
HasPayment(a)  == paidSatoshis[a] > 0
PaidExactly(a) == paidSatoshis[a] = Price[a]

\* isPaidFor of the order's ServiceType; SimpleService accepts any payment.
IsPaidFor(a) == paidSatoshis[a] >= Price[a]

-----------------------------------------------------------------------------
(* The customer's browser.                                                 *)

\* RequestPayment.doGet with storePendingPayment.
RequestPayment(a) ==
  /\ Serving
  /\ a \notin ordered
  /\ ordered' = ordered \cup {a}
  /\ paymentRequests' = paymentRequests \cup {a}
  /\ UNCHANGED <<paidSatoshis, storedSatoshis, paidToAddresses, paidServices,
                 walletVars, expired, told, thread>>

\* PaymentPoll.doGet; while nothing is received the page asks again.
PaymentPoll(a) ==
  /\ Serving
  /\ a \in ordered \ told
  /\ paidToAddresses[a] # Nil
  /\ told' = told \cup {a}
  /\ UNCHANGED <<cacheVars, walletVars, ordered, expired, thread>>

-----------------------------------------------------------------------------
(* The wallet.                                                             *)

\* A payment arrives: it is stored in the wallet and, if the listener is
\* attached, its event is queued.  Customers pay to addresses they were given.
Receive(tx) ==
  /\ tx \notin known
  /\ Payees(tx) \subseteq ordered
  /\ known' = known \cup {tx}
  /\ sent' = sent \cup {tx}
  /\ again' = IF tx \in sent THEN again \cup {tx} ELSE again
  /\ events' = IF Listening THEN Append(events, tx) ELSE events
  /\ UNCHANGED <<cacheVars, pageVars, server, crashed, fundsVars, thread>>

\* A block confirms the payments that wait for it: from now on their coins
\* count in the balance AVAILABLE.
Confirm ==
  /\ available' = known \ moved
  /\ available' # available
  /\ UNCHANGED <<cacheVars, pageVars, sent, again, known, events, server, crashed,
                 moved, thread>>

\* wallet.getBalance(AVAILABLE)
Balance == SumFunction([tx \in available |-> ValueSentToMe(tx)])

\* emptyWallet sends all that is available; sendCoins may throw, which is
\* logged and nothing more.
SendFunds ==
  \/ /\ MovesFunds /\ Balance >= LeastFunds
     /\ moved' = moved \cup available
     /\ available' = {}
  \/ /\ (MovesFunds /\ Balance >= LeastFunds) => "sendFails" \in Faults
     /\ UNCHANGED fundsVars

\* onCoinsReceived starts to go through the outputs that are the wallet's.
OnCoinsReceived ==
  /\ thread = Idle
  /\ events # <<>>
  /\ events' = Tail(events)
  /\ thread' = [pc |-> "output", tx |-> Head(events), address |-> Nil,
                outputs |-> Outputs[Head(events)]]
  /\ UNCHANGED <<cacheVars, pageVars, sent, again, known, server, crashed, fundsVars>>

\* The next output may be one to a; with them it is one less.
AtOutput(a) == thread.pc = "output" /\ thread.outputs[a] > 0
OneLess(a)  == [thread.outputs EXCEPT ![a] = @ - 1]

\* storePayment: nothing is pending for this address.
SkipOutput(a) ==
  /\ AtOutput(a)
  /\ a \notin paymentRequests
  /\ thread' = [thread EXCEPT !.outputs = OneLess(a)]
  /\ UNCHANGED <<cacheVars, walletVars, pageVars>>

\* Slip: the thread does not remember which order it credits.
AddPaymentOnly(a) ==
  /\ AtOutput(a)
  /\ a \in paymentRequests
  /\ paidSatoshis' = [paidSatoshis EXCEPT ![a] = @ + ValueSentToMe(thread.tx)]
  /\ thread' = [thread EXCEPT !.pc = "replace", !.outputs = OneLess(a)]
  /\ UNCHANGED <<paymentRequests, storedSatoshis, paidToAddresses,
                 paidServices, walletVars, pageVars>>

\* addPayment on the object found, in memory.
AddPayment(a) ==
  /\ AtOutput(a)
  /\ a \in paymentRequests
  /\ paidSatoshis' = [paidSatoshis EXCEPT ![a] = @ + ValueSentToMe(thread.tx)]
  /\ thread' = [thread EXCEPT !.pc = "replace", !.address = a,
                              !.outputs = OneLess(a)]
  /\ UNCHANGED <<paymentRequests, storedSatoshis, paidToAddresses,
                 paidServices, walletVars, pageVars>>

NextStep == IF IsPaidFor(thread.address) THEN "paidTo" ELSE "output"

\* Slip: the modified object is not put back.
ForgetReplace ==
  /\ thread.pc = "replace"
  /\ thread' = [thread EXCEPT !.pc = NextStep]
  /\ UNCHANGED <<cacheVars, walletVars, pageVars>>

\* "Replace the object since we've modified it"
ReplaceRequest ==
  /\ thread.pc = "replace"
  /\ paymentRequests' = paymentRequests \cup {thread.address}
  /\ storedSatoshis' = [storedSatoshis EXCEPT
                          ![thread.address] = paidSatoshis[thread.address]]
  /\ thread' = [thread EXCEPT !.pc = NextStep]
  /\ UNCHANGED <<paidSatoshis, paidToAddresses, paidServices, walletVars,
                 pageVars>>

\* Slip: the request is removed first.
RemoveTooEarly ==
  /\ thread.pc = "paidTo"
  /\ paymentRequests' = paymentRequests \ {thread.address}
  /\ paidToAddresses' = [paidToAddresses EXCEPT ![thread.address] = thread.tx]
  /\ thread' = [thread EXCEPT !.pc = "paidService"]
  /\ UNCHANGED <<paidSatoshis, storedSatoshis, paidServices, walletVars,
                 pageVars>>

PutPaidToAddress ==
  /\ thread.pc = "paidTo"
  /\ paidToAddresses' = [paidToAddresses EXCEPT ![thread.address] = thread.tx]
  /\ thread' = [thread EXCEPT !.pc = "paidService"]
  /\ UNCHANGED <<paymentRequests, paidSatoshis, storedSatoshis, paidServices,
                 walletVars, pageVars>>

\* Slip: the paid service is not stored.
ForgetPaidService ==
  /\ thread.pc = "paidService"
  /\ thread' = [thread EXCEPT !.pc = "remove"]
  /\ UNCHANGED <<cacheVars, walletVars, pageVars>>

PutPaidService ==
  /\ thread.pc = "paidService"
  /\ paidServices' = [paidServices EXCEPT ![thread.tx] = thread.address]
  /\ thread' = [thread EXCEPT !.pc = "remove"]
  /\ UNCHANGED <<paymentRequests, paidSatoshis, storedSatoshis,
                 paidToAddresses, walletVars, pageVars>>

\* Slip: the request stays.
KeepRequest ==
  /\ thread.pc = "remove"
  /\ thread' = [thread EXCEPT !.pc = "output"]
  /\ UNCHANGED <<cacheVars, walletVars, pageVars>>

RemoveRequest ==
  /\ thread.pc = "remove"
  /\ paymentRequests' = paymentRequests \ {thread.address}
  /\ thread' = [thread EXCEPT !.pc = "output"]
  /\ UNCHANGED <<paidSatoshis, storedSatoshis, paidToAddresses, paidServices,
                 walletVars, pageVars>>

\* All outputs done; onCoinsReceived ends with sendFunds.
FinishEvent ==
  /\ thread.pc = "output"
  /\ \A a \in Addresses : thread.outputs[a] = 0
  /\ thread' = Idle
  /\ SendFunds
  /\ UNCHANGED <<cacheVars, sent, again, known, events, server, crashed, pageVars>>

WalletStep ==
  \/ OnCoinsReceived
  \/ \E a \in Addresses : SkipOutput(a) \/ AddPayment(a)
  \/ ReplaceRequest \/ PutPaidToAddress \/ PutPaidService \/ RemoveRequest
  \/ FinishEvent

-----------------------------------------------------------------------------
(* Expiry (infinispan.xml) and restarts.                                   *)

ExpireRequest(a) ==
  /\ "expireRequest" \in Faults
  /\ a \in paymentRequests
  /\ paymentRequests' = paymentRequests \ {a}
  /\ expired' = expired \cup {a}
  /\ UNCHANGED <<paidSatoshis, storedSatoshis, paidToAddresses, paidServices,
                 walletVars, ordered, told, thread>>

ExpireReceived(a) ==
  /\ "expireReceived" \in Faults
  /\ paidToAddresses[a] # Nil
  /\ paidToAddresses' = [paidToAddresses EXCEPT ![a] = Nil]
  /\ UNCHANGED <<paymentRequests, paidSatoshis, storedSatoshis, paidServices,
                 walletVars, pageVars, thread>>

\* The process dies.  Queued events are gone; the wallet file may lack the
\* transactions that came after it was last saved, which the wallet then
\* receives again (bound: MaxLost of them).
Crash ==
  /\ "crash" \in Faults
  /\ Listening
  /\ \E lost \in SUBSET (known \ (moved \cup again)) :
       /\ Cardinality(again \cup (sent \ known) \cup lost) <= MaxLost
       /\ known' = known \ lost
       /\ available' = available \ lost
  /\ events' = <<>>
  /\ server' = "down" /\ crashed' = TRUE
  /\ paidSatoshis' = storedSatoshis
  /\ thread' = Idle
  /\ UNCHANGED <<paymentRequests, storedSatoshis, paidToAddresses,
                 paidServices, pageVars, sent, again, moved>>

\* start adds the listener after awaitRunning: the wallet is connected by then.
AddEventListener ==
  /\ server = "down"
  /\ server' = "starting"
  /\ UNCHANGED <<cacheVars, pageVars, sent, again, known, events, crashed, fundsVars,
                 thread>>

\* Slip: start does not look at the funds.
StartWithoutSending ==
  /\ server = "starting"
  /\ server' = "up"
  /\ UNCHANGED <<cacheVars, pageVars, sent, again, known, events, crashed,
                 fundsVars, thread>>

\* start ends with sendFunds, for the payments that came when it was down.
FinishStart ==
  /\ server = "starting"
  /\ server' = "up"
  /\ SendFunds
  /\ UNCHANGED <<cacheVars, pageVars, sent, again, known, events, crashed, thread>>

Next ==
  \/ \E a \in Addresses : \/ RequestPayment(a) \/ PaymentPoll(a)
                          \/ ExpireRequest(a)  \/ ExpireReceived(a)
  \/ \E tx \in Txids : Receive(tx)
  \/ Confirm
  \/ WalletStep
  \/ Crash
  \/ AddEventListener \/ FinishStart

Spec == Init /\ [][Next]_vars

\* The wallet's thread keeps running, start ends, and an open page keeps
\* polling; nobody has to order or to pay, no block has to come.
Fairness ==
  /\ WF_vars(WalletStep) /\ WF_vars(FinishStart)
  /\ \A a \in Addresses : WF_vars(PaymentPoll(a))

LiveSpec == Spec /\ Fairness
=============================================================================
