---------------------------- MODULE PaymentProofs ---------------------------
(***************************************************************************)
(* Proofs about paying: what the three puts of storePayment and its remove *)
(* keep, for any orders, transactions, expiries and crashes, and that what *)
(* is credited to an order was sent to it, by the laws of sums in          *)
(* FiniteProofs.                                                           *)
(***************************************************************************)
EXTENDS PaymentProperties, FiniteProofs, TLAPS

\* The types, without the amounts.
Types ==
  /\ ordered \subseteq Addresses /\ told \subseteq ordered
  /\ paymentRequests \subseteq ordered
  /\ DOMAIN paidSatoshis = Addresses /\ DOMAIN storedSatoshis = Addresses
  /\ paidToAddresses \in [Addresses -> Txids \cup {Nil}]
  /\ paidServices \in [Txids -> ordered \cup {Nil}]
  /\ known \subseteq Txids /\ events \in Seq(Txids)

\* What the thread has in hand is an order to which the transaction that it
\* works on has paid.
ThreadOK ==
  /\ thread \in [pc : Steps, tx : Txids \cup {Nil},
                 outputs : [Addresses -> Nat], address : Addresses \cup {Nil}]
  /\ thread.pc = "idle" => thread = Idle
  /\ thread.pc # "idle" =>
       /\ thread.tx \in Txids
       /\ \A a \in Addresses : thread.outputs[a] > 0 => a \in Payees(thread.tx)
  /\ thread.pc \notin {"idle", "output"} =>
       thread.address \in ordered \cap Payees(thread.tx)
  /\ thread.pc = "remove" => paidServices[thread.tx] = thread.address

\* An order in memory differs from its stored copy only until the thread
\* puts it back; one that is not made yet has no payment at all.
StoredOK ==
  \A a \in Addresses :
    paidSatoshis[a] # storedSatoshis[a] => Completing(a, {"replace"})

\* Without a crash, an order on record is no longer pending, but for the
\* moment before the thread removes it, and so it is not processed again.
RecordedLeaves ==
  ~crashed => \A tx \in Txids :
    paidServices[tx] # Nil =>
      /\ paidServices[tx] \in paymentRequests =>
           Completing(paidServices[tx], {"remove"})
      /\ ~Completing(paidServices[tx], {"replace", "paidTo", "paidService"})

KeepInv == Types /\ ThreadOK /\ StoredOK /\ RecordedLeaves /\ DeliveredOnce

\* A transaction is on record for an order to which it paid.
RecordOK ==
  \A tx \in Txids : paidServices[tx] # Nil => paidServices[tx] \in Payees(tx)

\* Each transaction pays for one order at most; PaymentsBatch shows what
\* happens otherwise.
OneOrderEach ==
  \A tx \in Txids : \A a, b \in Payees(tx) : a = b

\* Amounts, and what a crash takes back of them.
AmountsOK ==
  /\ paidSatoshis \in [Addresses -> Nat]
  /\ storedSatoshis \in [Addresses -> Nat]
  /\ \A a \in Addresses : storedSatoshis[a] <= paidSatoshis[a]

\* The thread completes an order only when its price is credited.
EnoughPaid ==
  thread.pc \in {"paidTo", "paidService"} => IsPaidFor(thread.address)

PaidInv == KeepInv /\ AmountsOK /\ EnoughPaid
MoveInv == PaidInv /\ RecordOK /\ MoveNeverLoses /\ ToldMeansPaid

-----------------------------------------------------------------------------

\* Nil is no transaction and no address.
LEMMA NilFacts == Nil \notin Txids /\ Nil \notin Addresses
BY NilAssumption

\* Steps of the pages and the wallet that touch neither the caches nor the
\* thread; a page that is told finds its notice.
Quiet ==
  /\ UNCHANGED <<cacheVars, ordered, expired, thread, crashed>>
  /\ told' \subseteq ordered
  /\ \A a \in told' \ told : paidToAddresses[a] # Nil
  /\ known' \subseteq Txids
  /\ events' \in Seq(Txids)

LEMMA QuietSteps ==
  ASSUME Types,
         \/ \E a \in Addresses : PaymentPoll(a)
         \/ \E tx \in Txids : Receive(tx)
         \/ Confirm \/ AddEventListener \/ FinishStart
         \/ UNCHANGED vars
  PROVE  Quiet
<1> USE DEF Quiet, Types
<1>1. ASSUME NEW a \in Addresses, PaymentPoll(a) PROVE Quiet
  BY <1>1 DEF PaymentPoll, walletVars
<1>2. ASSUME NEW tx \in Txids, Receive(tx) PROVE Quiet
  <2>1. known' \subseteq Txids
    BY <1>2 DEF Receive
  <2>2. events' \in Seq(Txids)
    BY <1>2 DEF Receive
  <2> QED BY <1>2, <2>1, <2>2 DEF Receive, pageVars
<1>3. CASE Confirm
  BY <1>3 DEF Confirm, pageVars
<1>4. CASE AddEventListener
  BY <1>4 DEF AddEventListener, pageVars
<1>5. CASE FinishStart
  BY <1>5 DEF FinishStart, pageVars
<1>6. CASE UNCHANGED vars
  BY <1>6 DEF vars, walletVars, pageVars
<1> QED BY <1>1, <1>2, <1>3, <1>4, <1>5, <1>6

\* The other steps.
Step ==
  \/ \E a \in Addresses :
       \/ RequestPayment(a) \/ SkipOutput(a) \/ AddPayment(a)
       \/ ExpireRequest(a) \/ ExpireReceived(a)
  \/ OnCoinsReceived \/ ReplaceRequest \/ PutPaidToAddress \/ PutPaidService
  \/ RemoveRequest \/ FinishEvent \/ Crash

LEMMA StepCases ==
  ASSUME Types, [Next]_vars
  PROVE  Quiet \/ Step
BY QuietSteps DEF Next, WalletStep, Step

-----------------------------------------------------------------------------

LEMMA TypesStep ==
  ASSUME Types, ThreadOK, Quiet \/ Step
  PROVE  Types'
<1> USE DEF Types, ThreadOK, Steps
<1>1. CASE Quiet
  BY <1>1 DEF Quiet, cacheVars
<1>2. ASSUME NEW a \in Addresses, RequestPayment(a) PROVE Types'
  BY <1>2 DEF RequestPayment, walletVars, pageVars, fundsVars, cacheVars
<1>3. ASSUME NEW a \in Addresses, SkipOutput(a) PROVE Types'
  BY <1>3 DEF SkipOutput, walletVars, pageVars, fundsVars, cacheVars
<1>4. ASSUME NEW a \in Addresses, AddPayment(a) PROVE Types'
  BY <1>4 DEF AddPayment, walletVars, pageVars, fundsVars, cacheVars
<1>5. ASSUME NEW a \in Addresses, ExpireRequest(a) PROVE Types'
  BY <1>5 DEF ExpireRequest, walletVars, pageVars, fundsVars, cacheVars
<1>6. ASSUME NEW a \in Addresses, ExpireReceived(a) PROVE Types'
  BY <1>6 DEF ExpireReceived, walletVars, pageVars, fundsVars, cacheVars
<1>7. CASE OnCoinsReceived
  BY <1>7 DEF OnCoinsReceived, walletVars, pageVars, fundsVars, cacheVars
<1>8. CASE ReplaceRequest
  BY <1>8 DEF ReplaceRequest, walletVars, pageVars, fundsVars, cacheVars
<1>9. CASE PutPaidToAddress
  BY <1>9 DEF PutPaidToAddress, walletVars, pageVars, fundsVars, cacheVars
<1>10. CASE PutPaidService
  BY <1>10 DEF PutPaidService, walletVars, pageVars, fundsVars, cacheVars
<1>11. CASE RemoveRequest
  BY <1>11 DEF RemoveRequest, walletVars, pageVars, fundsVars, cacheVars
<1>12. CASE FinishEvent
  BY <1>12 DEF FinishEvent, walletVars, pageVars, fundsVars, cacheVars
<1>13. CASE Crash
  BY <1>13 DEF Crash, walletVars, pageVars, fundsVars, cacheVars
<1> QED BY <1>1, <1>2, <1>3, <1>4, <1>5, <1>6, <1>7, <1>8, <1>9, <1>10, <1>11, <1>12, <1>13 DEF Step

\* The outputs left are among those there were.
LEMMA OneLessOK ==
  ASSUME ThreadOK, NEW a \in Addresses, AtOutput(a)
  PROVE  /\ OneLess(a) \in [Addresses -> Nat]
         /\ \A b \in Addresses : OneLess(a)[b] > 0 => thread.outputs[b] > 0
<1>1. thread.outputs \in [Addresses -> Nat]
  BY DEF ThreadOK
<1> DEFINE f == thread.outputs
<1>2. f \in [Addresses -> Nat] /\ f[a] > 0 /\ OneLess(a) = [f EXCEPT ![a] = @ - 1]
  BY <1>1 DEF AtOutput, OneLess
<1> HIDE DEF f
<1>3. /\ OneLess(a) \in [Addresses -> Nat]
      /\ \A b \in Addresses : OneLess(a)[b] > 0 => f[b] > 0
  BY <1>2
<1> QED BY <1>3 DEF f

LEMMA ThreadStep ==
  ASSUME Types, ThreadOK, Quiet \/ Step
  PROVE  ThreadOK'
<1> USE DEF Types, ThreadOK, Steps, NextStep, Idle, AtOutput
<1>1. CASE Quiet
  BY <1>1 DEF Quiet, cacheVars
<1>2. ASSUME NEW a \in Addresses, RequestPayment(a) PROVE ThreadOK'
  BY <1>2 DEF RequestPayment, walletVars, pageVars, fundsVars, cacheVars
<1>3. ASSUME NEW a \in Addresses, SkipOutput(a) PROVE ThreadOK'
  <2>1. PICK left \in [Addresses -> Nat] :
          /\ thread' = [thread EXCEPT !.outputs = left]
          /\ \A b \in Addresses : left[b] > 0 => thread.outputs[b] > 0
    BY <1>3, OneLessOK DEF SkipOutput
  <2> QED BY <1>3, <2>1 DEF SkipOutput, pageVars, cacheVars, Payees
<1>4. ASSUME NEW a \in Addresses, AddPayment(a) PROVE ThreadOK'
  <2>1. /\ OneLess(a) \in [Addresses -> Nat]
        /\ \A b \in Addresses : OneLess(a)[b] > 0 => thread.outputs[b] > 0
    BY <1>4, OneLessOK DEF AddPayment
  <2>2. thread' = [thread EXCEPT !.pc = "replace", !.address = a,
                                 !.outputs = OneLess(a)]
    BY <1>4 DEF AddPayment
  <2> DEFINE left == OneLess(a)
  <2>3. /\ thread' = [thread EXCEPT !.pc = "replace", !.address = a,
                                    !.outputs = left]
        /\ left \in [Addresses -> Nat]
        /\ \A b \in Addresses : left[b] > 0 => thread.outputs[b] > 0
    BY <2>1, <2>2
  <2> HIDE DEF left
  <2>4. /\ thread.tx \in Txids /\ thread.outputs[a] > 0
        /\ a \in ordered /\ a \in Payees(thread.tx)
    BY <1>4 DEF AddPayment
  <2> QED BY <1>4, <2>3, <2>4 DEF AddPayment, pageVars, cacheVars, Payees
<1>5. ASSUME NEW a \in Addresses, ExpireRequest(a) PROVE ThreadOK'
  BY <1>5 DEF ExpireRequest, walletVars, pageVars, fundsVars, cacheVars
<1>6. ASSUME NEW a \in Addresses, ExpireReceived(a) PROVE ThreadOK'
  BY <1>6 DEF ExpireReceived, walletVars, pageVars, fundsVars, cacheVars
<1>7. CASE OnCoinsReceived
  <2>1. /\ thread' = [pc |-> "output", tx |-> Head(events), address |-> Nil,
                      outputs |-> Outputs[Head(events)]]
        /\ Head(events) \in Txids
    BY <1>7 DEF OnCoinsReceived
  <2>2. Outputs[Head(events)] \in [Addresses -> Nat]
    BY <2>1, OutputsAssumption
  <2> QED BY <2>1, <2>2 DEF Payees
<1>8. CASE ReplaceRequest
  BY <1>8 DEF ReplaceRequest, pageVars, cacheVars, Payees
<1>9. CASE PutPaidToAddress
  BY <1>9 DEF PutPaidToAddress, pageVars, cacheVars, Payees
<1>10. CASE PutPaidService
  BY <1>10 DEF PutPaidService, pageVars, cacheVars, Payees
<1>11. CASE RemoveRequest
  BY <1>11 DEF RemoveRequest, pageVars, cacheVars, Payees
<1>12. CASE FinishEvent
  BY <1>12 DEF FinishEvent, pageVars, cacheVars, Payees
<1>13. CASE Crash
  BY <1>13 DEF Crash, pageVars, cacheVars, Payees
<1> QED BY <1>1, <1>2, <1>3, <1>4, <1>5, <1>6, <1>7, <1>8, <1>9, <1>10, <1>11, <1>12, <1>13 DEF Step

LEMMA StoredStep ==
  ASSUME Types, ThreadOK, StoredOK, Quiet \/ Step
  PROVE  StoredOK'
<1> USE DEF Types, ThreadOK, StoredOK, Completing, Idle, Steps
<1>1. CASE Quiet
  BY <1>1 DEF Quiet, cacheVars
<1>2. ASSUME NEW a \in Addresses, RequestPayment(a) PROVE StoredOK'
  BY <1>2 DEF RequestPayment, walletVars, pageVars, fundsVars, cacheVars
<1>3. ASSUME NEW a \in Addresses, SkipOutput(a) PROVE StoredOK'
  BY <1>3 DEF SkipOutput, walletVars, pageVars, fundsVars, cacheVars
<1>4. ASSUME NEW a \in Addresses, AddPayment(a) PROVE StoredOK'
  BY <1>4 DEF AddPayment, AtOutput, walletVars, pageVars, fundsVars, cacheVars
<1>5. ASSUME NEW a \in Addresses, ExpireRequest(a) PROVE StoredOK'
  BY <1>5 DEF ExpireRequest, walletVars, pageVars, fundsVars, cacheVars
<1>6. ASSUME NEW a \in Addresses, ExpireReceived(a) PROVE StoredOK'
  BY <1>6 DEF ExpireReceived, walletVars, pageVars, fundsVars, cacheVars
<1>7. CASE OnCoinsReceived
  BY <1>7 DEF OnCoinsReceived, walletVars, pageVars, fundsVars, cacheVars
<1>8. CASE ReplaceRequest
  BY <1>8 DEF ReplaceRequest, walletVars, pageVars, fundsVars, cacheVars
<1>9. CASE PutPaidToAddress
  BY <1>9 DEF PutPaidToAddress, walletVars, pageVars, fundsVars, cacheVars
<1>10. CASE PutPaidService
  BY <1>10 DEF PutPaidService, walletVars, pageVars, fundsVars, cacheVars
<1>11. CASE RemoveRequest
  BY <1>11 DEF RemoveRequest, walletVars, pageVars, fundsVars, cacheVars
<1>12. CASE FinishEvent
  BY <1>12 DEF FinishEvent, walletVars, pageVars, fundsVars, cacheVars
<1>13. CASE Crash
  BY <1>13 DEF Crash, walletVars, pageVars, fundsVars, cacheVars
<1> QED BY <1>1, <1>2, <1>3, <1>4, <1>5, <1>6, <1>7, <1>8, <1>9, <1>10, <1>11, <1>12, <1>13 DEF Step

LEMMA LeavesStep ==
  ASSUME Types, ThreadOK, RecordedLeaves, Quiet \/ Step
  PROVE  RecordedLeaves'
<1> USE NilFacts DEF Types, ThreadOK, RecordedLeaves, Completing, Idle, Steps
<1>1. CASE Quiet
  BY <1>1 DEF Quiet, cacheVars
<1>2. ASSUME NEW a \in Addresses, RequestPayment(a) PROVE RecordedLeaves'
  BY <1>2 DEF RequestPayment, walletVars, pageVars, fundsVars, cacheVars
<1>3. ASSUME NEW a \in Addresses, SkipOutput(a) PROVE RecordedLeaves'
  BY <1>3 DEF SkipOutput, walletVars, pageVars, fundsVars, cacheVars
<1>4. ASSUME NEW a \in Addresses, AddPayment(a) PROVE RecordedLeaves'
  BY <1>4 DEF AddPayment, AtOutput, walletVars, pageVars, fundsVars, cacheVars
<1>5. ASSUME NEW a \in Addresses, ExpireRequest(a) PROVE RecordedLeaves'
  BY <1>5 DEF ExpireRequest, walletVars, pageVars, fundsVars, cacheVars
<1>6. ASSUME NEW a \in Addresses, ExpireReceived(a) PROVE RecordedLeaves'
  BY <1>6 DEF ExpireReceived, walletVars, pageVars, fundsVars, cacheVars
<1>7. CASE OnCoinsReceived
  BY <1>7 DEF OnCoinsReceived, walletVars, pageVars, fundsVars, cacheVars
<1>8. CASE ReplaceRequest
  BY <1>8 DEF ReplaceRequest, walletVars, pageVars, fundsVars, cacheVars
<1>9. CASE PutPaidToAddress
  BY <1>9 DEF PutPaidToAddress, walletVars, pageVars, fundsVars, cacheVars
<1>10. CASE PutPaidService
  BY <1>10 DEF PutPaidService, walletVars, pageVars, fundsVars, cacheVars
<1>11. CASE RemoveRequest
  BY <1>11 DEF RemoveRequest, walletVars, pageVars, fundsVars, cacheVars
<1>12. CASE FinishEvent
  BY <1>12 DEF FinishEvent, walletVars, pageVars, fundsVars, cacheVars
<1>13. CASE Crash
  BY <1>13 DEF Crash, walletVars, pageVars, fundsVars, cacheVars
<1> QED BY <1>1, <1>2, <1>3, <1>4, <1>5, <1>6, <1>7, <1>8, <1>9, <1>10, <1>11, <1>12, <1>13 DEF Step

LEMMA DeliveredStep ==
  ASSUME Types, ThreadOK, RecordedLeaves, DeliveredOnce, Quiet \/ Step
  PROVE  DeliveredOnce'
<1> USE NilFacts DEF Types, ThreadOK, RecordedLeaves, DeliveredOnce, Completing, Steps
<1>1. CASE Quiet
  BY <1>1 DEF Quiet, cacheVars
<1>2. ASSUME NEW a \in Addresses, RequestPayment(a) PROVE DeliveredOnce'
  BY <1>2 DEF RequestPayment, walletVars, pageVars, fundsVars, cacheVars
<1>3. ASSUME NEW a \in Addresses, SkipOutput(a) PROVE DeliveredOnce'
  BY <1>3 DEF SkipOutput, walletVars, pageVars, fundsVars, cacheVars
<1>4. ASSUME NEW a \in Addresses, AddPayment(a) PROVE DeliveredOnce'
  BY <1>4 DEF AddPayment, walletVars, pageVars, fundsVars, cacheVars
<1>5. ASSUME NEW a \in Addresses, ExpireRequest(a) PROVE DeliveredOnce'
  BY <1>5 DEF ExpireRequest, walletVars, pageVars, fundsVars, cacheVars
<1>6. ASSUME NEW a \in Addresses, ExpireReceived(a) PROVE DeliveredOnce'
  BY <1>6 DEF ExpireReceived, walletVars, pageVars, fundsVars, cacheVars
<1>7. CASE OnCoinsReceived
  BY <1>7 DEF OnCoinsReceived, walletVars, pageVars, fundsVars, cacheVars
<1>8. CASE ReplaceRequest
  BY <1>8 DEF ReplaceRequest, walletVars, pageVars, fundsVars, cacheVars
<1>9. CASE PutPaidToAddress
  BY <1>9 DEF PutPaidToAddress, walletVars, pageVars, fundsVars, cacheVars
<1>10. CASE PutPaidService
  BY <1>10 DEF PutPaidService, walletVars, pageVars, fundsVars, cacheVars
<1>11. CASE RemoveRequest
  BY <1>11 DEF RemoveRequest, walletVars, pageVars, fundsVars, cacheVars
<1>12. CASE FinishEvent
  BY <1>12 DEF FinishEvent, walletVars, pageVars, fundsVars, cacheVars
<1>13. CASE Crash
  BY <1>13 DEF Crash, walletVars, pageVars, fundsVars, cacheVars
<1> QED BY <1>1, <1>2, <1>3, <1>4, <1>5, <1>6, <1>7, <1>8, <1>9, <1>10, <1>11, <1>12, <1>13 DEF Step

-----------------------------------------------------------------------------

LEMMA KeepInit == Init => KeepInv
<1> SUFFICES ASSUME Init PROVE KeepInv
  OBVIOUS
<1>1. Types /\ StoredOK
  BY DEF Init, Types, StoredOK
<1>2. ThreadOK
  BY DEF Init, ThreadOK, Idle, Steps
<1>3. RecordedLeaves /\ DeliveredOnce
  BY DEF Init, RecordedLeaves, DeliveredOnce
<1> QED BY <1>1, <1>2, <1>3 DEF KeepInv

LEMMA KeepStep == KeepInv /\ [Next]_vars => KeepInv'
<1> SUFFICES ASSUME KeepInv, [Next]_vars PROVE KeepInv'
  OBVIOUS
<1>1. Quiet \/ Step
  BY StepCases DEF KeepInv
<1> QED BY <1>1, TypesStep, ThreadStep, StoredStep, LeavesStep, DeliveredStep
        DEF KeepInv

LEMMA KeepCorrect == Spec => []KeepInv
BY KeepInit, KeepStep, PTL DEF Spec

\* Whatever crashes and expires, a partial payment that storePayment has added
\* in memory is in the file store too when the thread has left the put.
THEOREM PartialPaymentCorrect == Spec => []PartialPaymentKept
<1>1. KeepInv => PartialPaymentKept
  BY DEF KeepInv, Types, StoredOK, PartialPaymentKept
<1> QED BY <1>1, KeepCorrect, PTL

\* As long as the process does not die, no address is paid for twice, in the
\* records, however many transactions, outputs and expiries it sees.
THEOREM DeliveredCorrect == Spec => []DeliveredOnce
<1>1. KeepInv => DeliveredOnce
  BY DEF KeepInv
<1> QED BY <1>1, KeepCorrect, PTL

-----------------------------------------------------------------------------
(* Amounts.                                                                *)

\* Steps that move no money.
Still == UNCHANGED <<paidSatoshis, storedSatoshis, paidServices, sent, again,
                     known, events, thread>>

\* Those that do.
Money ==
  \/ \E tx \in Txids : Receive(tx)
  \/ \E a \in Addresses : SkipOutput(a) \/ AddPayment(a)
  \/ OnCoinsReceived \/ ReplaceRequest \/ PutPaidToAddress \/ PutPaidService
  \/ RemoveRequest \/ FinishEvent \/ Crash

LEMMA MoneyCases ==
  ASSUME [Next]_vars
  PROVE  Still \/ Money
<1> USE DEF Still, cacheVars, walletVars, pageVars, fundsVars
<1>1. ASSUME NEW a \in Addresses,
             \/ RequestPayment(a) \/ PaymentPoll(a)
             \/ ExpireRequest(a) \/ ExpireReceived(a)
      PROVE  Still
  BY <1>1 DEF RequestPayment, PaymentPoll, ExpireRequest, ExpireReceived
<1>2. CASE Confirm \/ AddEventListener \/ FinishStart
  BY <1>2 DEF Confirm, AddEventListener, FinishStart
<1>3. CASE UNCHANGED vars
  BY <1>3 DEF vars
<1> QED BY <1>1, <1>2, <1>3 DEF Next, WalletStep, Money

\* What a transaction sends to the wallet is a natural number, also in total.
LEMMA ValueType ==
  ASSUME NEW tx \in Txids
  PROVE  ValueSentToMe(tx) \in Nat
<1>1. \A a \in Payees(tx) : Pays[tx][a] \in Nat
  BY PaysAssumption DEF Payees
<1> QED BY <1>1, OutputsAssumption, SumType DEF ValueSentToMe, Sum

LEMMA AmountsStep ==
  ASSUME KeepInv, AmountsOK, Still \/ Money
  PROVE  AmountsOK'
<1> USE DEF AmountsOK, KeepInv, Types, ThreadOK, Steps, cacheVars
<1>1. CASE Still
  BY <1>1 DEF Still
<1>2. ASSUME NEW tx \in Txids, Receive(tx) PROVE AmountsOK'
  BY <1>2 DEF Receive
<1>3. ASSUME NEW a \in Addresses, SkipOutput(a) PROVE AmountsOK'
  BY <1>3 DEF SkipOutput
<1>4. ASSUME NEW a \in Addresses, AddPayment(a) PROVE AmountsOK'
  <2>1. ValueSentToMe(thread.tx) \in Nat
    BY <1>4, ValueType DEF AddPayment, AtOutput
  <2> QED BY <1>4, <2>1 DEF AddPayment
<1>5. CASE OnCoinsReceived
  BY <1>5 DEF OnCoinsReceived
<1>6. CASE ReplaceRequest
  BY <1>6 DEF ReplaceRequest
<1>7. CASE PutPaidToAddress
  BY <1>7 DEF PutPaidToAddress
<1>8. CASE PutPaidService
  BY <1>8 DEF PutPaidService
<1>9. CASE RemoveRequest
  BY <1>9 DEF RemoveRequest
<1>10. CASE FinishEvent
  BY <1>10 DEF FinishEvent
<1>11. CASE Crash
  BY <1>11 DEF Crash
<1> QED BY <1>1, <1>2, <1>3, <1>4, <1>5, <1>6, <1>7, <1>8, <1>9, <1>10, <1>11
        DEF Money

LEMMA EnoughStep ==
  ASSUME KeepInv, AmountsOK, EnoughPaid, Still \/ Money
  PROVE  EnoughPaid'
<1> USE DEF EnoughPaid, IsPaidFor, NextStep, AmountsOK, KeepInv, ThreadOK, Idle, Steps, cacheVars
<1>1. CASE Still
  BY <1>1 DEF Still
<1>2. ASSUME NEW tx \in Txids, Receive(tx) PROVE EnoughPaid'
  BY <1>2 DEF Receive
<1>3. ASSUME NEW a \in Addresses, SkipOutput(a) PROVE EnoughPaid'
  BY <1>3 DEF SkipOutput
<1>4. ASSUME NEW a \in Addresses, AddPayment(a) PROVE EnoughPaid'
  BY <1>4 DEF AddPayment
<1>5. CASE OnCoinsReceived
  BY <1>5 DEF OnCoinsReceived
<1>6. CASE ReplaceRequest
  BY <1>6 DEF ReplaceRequest
<1>7. CASE PutPaidToAddress
  BY <1>7 DEF PutPaidToAddress
<1>8. CASE PutPaidService
  BY <1>8 DEF PutPaidService
<1>9. CASE RemoveRequest
  BY <1>9 DEF RemoveRequest
<1>10. CASE FinishEvent
  BY <1>10 DEF FinishEvent
<1>11. CASE Crash
  BY <1>11 DEF Crash
<1> QED BY <1>1, <1>2, <1>3, <1>4, <1>5, <1>6, <1>7, <1>8, <1>9, <1>10, <1>11
        DEF Money

LEMMA AmountsInit == Init => AmountsOK /\ EnoughPaid
BY DEF Init, AmountsOK, EnoughPaid, Idle

LEMMA PaidStep ==
  ASSUME PaidInv, [Next]_vars
  PROVE  PaidInv'
<1>1. Still \/ Money
  BY MoneyCases
<1> QED BY <1>1, KeepStep, AmountsStep, EnoughStep DEF PaidInv

-----------------------------------------------------------------------------
(* For transactions that pay for one order each.                           *)

LEMMA RecordStep ==
  ASSUME KeepInv, RecordOK, Quiet \/ Step
  PROVE  RecordOK'
<1> USE NilFacts DEF KeepInv, Types, ThreadOK, RecordOK, Steps, Payees
<1>1. CASE Quiet
  BY <1>1 DEF Quiet, cacheVars
<1>2. ASSUME NEW a \in Addresses, RequestPayment(a) PROVE RecordOK'
  BY <1>2 DEF RequestPayment, walletVars, pageVars, fundsVars, cacheVars
<1>3. ASSUME NEW a \in Addresses, SkipOutput(a) PROVE RecordOK'
  BY <1>3 DEF SkipOutput, walletVars, pageVars, fundsVars, cacheVars
<1>4. ASSUME NEW a \in Addresses, AddPayment(a) PROVE RecordOK'
  BY <1>4 DEF AddPayment, walletVars, pageVars, fundsVars, cacheVars
<1>5. ASSUME NEW a \in Addresses, ExpireRequest(a) PROVE RecordOK'
  BY <1>5 DEF ExpireRequest, walletVars, pageVars, fundsVars, cacheVars
<1>6. ASSUME NEW a \in Addresses, ExpireReceived(a) PROVE RecordOK'
  BY <1>6 DEF ExpireReceived, walletVars, pageVars, fundsVars, cacheVars
<1>7. CASE OnCoinsReceived
  BY <1>7 DEF OnCoinsReceived, walletVars, pageVars, fundsVars, cacheVars
<1>8. CASE ReplaceRequest
  BY <1>8 DEF ReplaceRequest, walletVars, pageVars, fundsVars, cacheVars
<1>9. CASE PutPaidToAddress
  BY <1>9 DEF PutPaidToAddress, walletVars, pageVars, fundsVars, cacheVars
<1>10. CASE PutPaidService
  BY <1>10 DEF PutPaidService, walletVars, pageVars, fundsVars, cacheVars
<1>11. CASE RemoveRequest
  BY <1>11 DEF RemoveRequest, walletVars, pageVars, fundsVars, cacheVars
<1>12. CASE FinishEvent
  BY <1>12 DEF FinishEvent, walletVars, pageVars, fundsVars, cacheVars
<1>13. CASE Crash
  BY <1>13 DEF Crash, walletVars, pageVars, fundsVars, cacheVars
<1> QED BY <1>1, <1>2, <1>3, <1>4, <1>5, <1>6, <1>7, <1>8, <1>9, <1>10, <1>11, <1>12, <1>13 DEF Step

LEMMA MoveStep ==
  ASSUME OneOrderEach, KeepInv, RecordOK, MoveNeverLoses, Quiet \/ Step
  PROVE  MoveNeverLoses'
<1> USE NilFacts DEF KeepInv, Types, ThreadOK, RecordOK, OneOrderEach, MoveNeverLoses, Paid
<1>1. CASE Quiet
  BY <1>1 DEF Quiet, cacheVars
<1>2. ASSUME NEW a \in Addresses, RequestPayment(a) PROVE MoveNeverLoses'
  BY <1>2 DEF RequestPayment, walletVars, pageVars, fundsVars, cacheVars
<1>3. ASSUME NEW a \in Addresses, SkipOutput(a) PROVE MoveNeverLoses'
  BY <1>3 DEF SkipOutput, walletVars, pageVars, fundsVars, cacheVars
<1>4. ASSUME NEW a \in Addresses, AddPayment(a) PROVE MoveNeverLoses'
  BY <1>4 DEF AddPayment, walletVars, pageVars, fundsVars, cacheVars
<1>5. ASSUME NEW a \in Addresses, ExpireRequest(a) PROVE MoveNeverLoses'
  BY <1>5 DEF ExpireRequest, walletVars, pageVars, fundsVars, cacheVars
<1>6. ASSUME NEW a \in Addresses, ExpireReceived(a) PROVE MoveNeverLoses'
  BY <1>6 DEF ExpireReceived, walletVars, pageVars, fundsVars, cacheVars
<1>7. CASE OnCoinsReceived
  BY <1>7 DEF OnCoinsReceived, walletVars, pageVars, fundsVars, cacheVars
<1>8. CASE ReplaceRequest
  BY <1>8 DEF ReplaceRequest, walletVars, pageVars, fundsVars, cacheVars
<1>9. CASE PutPaidToAddress
  BY <1>9 DEF PutPaidToAddress, walletVars, pageVars, fundsVars, cacheVars
<1>10. CASE PutPaidService
  BY <1>10 DEF PutPaidService, walletVars, pageVars, fundsVars, cacheVars
<1>11. CASE RemoveRequest
  BY <1>11 DEF RemoveRequest, walletVars, pageVars, fundsVars, cacheVars
<1>12. CASE FinishEvent
  BY <1>12 DEF FinishEvent, walletVars, pageVars, fundsVars, cacheVars
<1>13. CASE Crash
  BY <1>13 DEF Crash, walletVars, pageVars, fundsVars, cacheVars
<1> QED BY <1>1, <1>2, <1>3, <1>4, <1>5, <1>6, <1>7, <1>8, <1>9, <1>10, <1>11, <1>12, <1>13 DEF Step

LEMMA ToldStep ==
  ASSUME OneOrderEach, PaidInv, AmountsOK', RecordOK, MoveNeverLoses,
         ToldMeansPaid, Quiet \/ Step
  PROVE  ToldMeansPaid'
<1> USE NilFacts, PriceAssumption
    DEF PaidInv, KeepInv, Types, ThreadOK, RecordOK, OneOrderEach,
        ToldMeansPaid, Paid, Completing, Idle, AmountsOK
<1>1. CASE Quiet
  BY <1>1 DEF Quiet, cacheVars
<1>2. ASSUME NEW a \in Addresses, RequestPayment(a) PROVE ToldMeansPaid'
  BY <1>2 DEF RequestPayment, walletVars, pageVars, fundsVars, cacheVars
<1>3. ASSUME NEW a \in Addresses, SkipOutput(a) PROVE ToldMeansPaid'
  BY <1>3 DEF SkipOutput, walletVars, pageVars, fundsVars, cacheVars
<1>4. ASSUME NEW a \in Addresses, AddPayment(a) PROVE ToldMeansPaid'
  BY <1>4 DEF AddPayment, AtOutput, walletVars, pageVars, fundsVars, cacheVars
<1>5. ASSUME NEW a \in Addresses, ExpireRequest(a) PROVE ToldMeansPaid'
  BY <1>5 DEF ExpireRequest, walletVars, pageVars, fundsVars, cacheVars
<1>6. ASSUME NEW a \in Addresses, ExpireReceived(a) PROVE ToldMeansPaid'
  BY <1>6 DEF ExpireReceived, walletVars, pageVars, fundsVars, cacheVars
<1>7. CASE OnCoinsReceived
  BY <1>7 DEF OnCoinsReceived, walletVars, pageVars, fundsVars, cacheVars
<1>8. CASE ReplaceRequest
  BY <1>8 DEF ReplaceRequest, walletVars, pageVars, fundsVars, cacheVars
<1>9. CASE PutPaidToAddress
  BY <1>9 DEF PutPaidToAddress, walletVars, pageVars, fundsVars, cacheVars
<1>10. CASE PutPaidService
  <2>1. /\ UNCHANGED <<expired, told, paidToAddresses, crashed,
                      paymentRequests, storedSatoshis>>
        /\ paidServices' = [paidServices EXCEPT ![thread.tx] = thread.address]
        /\ thread.pc = "paidService"
    BY <1>10 DEF PutPaidService, walletVars, pageVars
  <2>2. thread.tx \in Txids /\ thread.address \in Payees(thread.tx)
    BY <2>1
  <2>3. paidServices[thread.tx] \in {Nil, thread.address}
    BY <2>2 DEF Payees
  <2>4. \A a \in Addresses : Paid(a) \/ thread.address = a => Paid(a)'
    <3> SUFFICES ASSUME NEW a \in Addresses, Paid(a) \/ thread.address = a
                 PROVE  Paid(a)'
      OBVIOUS
    <3>1. CASE thread.address = a
      BY <2>1, <2>2, <3>1
    <3>2. CASE thread.address # a
      <4>1. PICK tx \in Txids : paidServices[tx] = a
        BY <3>2
      <4>2. tx # thread.tx
        BY <2>3, <3>2, <4>1
      <4> QED BY <2>1, <4>1, <4>2
    <3> QED BY <3>1, <3>2
  <2> QED BY <2>1, <2>4
<1>11. CASE RemoveRequest
  BY <1>11 DEF RemoveRequest, walletVars, pageVars, fundsVars, cacheVars
<1>12. CASE FinishEvent
  BY <1>12 DEF FinishEvent, walletVars, pageVars, fundsVars, cacheVars
<1>13. CASE Crash
  <2>1. /\ UNCHANGED <<ordered, expired, told, paidToAddresses, paidServices,
                      paymentRequests, storedSatoshis>>
        /\ crashed'
    BY <1>13 DEF Crash, pageVars
  <2>2. ASSUME NEW a \in Addresses, Completing(a, {"paidService"}), ~ Paid(a)
        PROVE  \/ a \in expired
               \/ a \in paymentRequests /\ storedSatoshis[a] >= Price[a]
    BY <2>2 DEF MoveNeverLoses, StoredOK, EnoughPaid, IsPaidFor
  <2> QED BY <2>1, <2>2
<1> QED BY <1>1, <1>2, <1>3, <1>4, <1>5, <1>6, <1>7, <1>8, <1>9, <1>10, <1>11, <1>12, <1>13 DEF Step

LEMMA MoveInit == Init => MoveInv
<1> SUFFICES ASSUME Init PROVE MoveInv
  OBVIOUS
<1>1. RecordOK /\ MoveNeverLoses /\ ToldMeansPaid
  BY DEF Init, RecordOK, MoveNeverLoses, ToldMeansPaid
<1> QED BY <1>1, KeepInit, AmountsInit DEF MoveInv, PaidInv

LEMMA MoveCorrect ==
  ASSUME OneOrderEach
  PROVE  Spec => []MoveInv
<1>1. ASSUME MoveInv, [Next]_vars PROVE MoveInv'
  <2>1. Quiet \/ Step
    BY <1>1, StepCases DEF MoveInv, PaidInv, KeepInv
  <2>2. PaidInv'
    BY <1>1, PaidStep DEF MoveInv
  <2> QED BY <1>1, <2>1, <2>2, RecordStep, MoveStep, ToldStep DEF MoveInv, PaidInv
<1> QED BY <1>1, MoveInit, PTL DEF Spec

\* An order is pending or on record until it expires: the move to paidServices
\* loses none, with a crash possible after each of its operations.
THEOREM MoveNeverLosesCorrect ==
  ASSUME OneOrderEach
  PROVE  Spec => []MoveNeverLoses
<1>1. MoveInv => MoveNeverLoses
  BY DEF MoveInv
<1> QED BY <1>1, MoveCorrect, PTL

\* A page is told only of what is on record, or put there by the thread's next
\* step, or, if a crash forestalls that, still waits with its price stored.
THEOREM ToldCorrect ==
  ASSUME OneOrderEach
  PROVE  Spec => []ToldMeansPaid
<1>1. MoveInv => ToldMeansPaid
  BY DEF MoveInv
<1> QED BY <1>1, MoveCorrect, PTL

-----------------------------------------------------------------------------
(* What is paid to an order.                                               *)

\* The rest of the types.
WalletOK ==
  /\ sent \subseteq Txids /\ IsFiniteSet(sent)
  /\ again \subseteq sent /\ known \subseteq sent
  /\ available \subseteq known \ moved /\ moved \subseteq known
  /\ expired \subseteq ordered
  /\ server \in {"down", "starting", "up"} /\ crashed \in BOOLEAN

\* Each transaction that the wallet has stored is credited once at most: it is
\* in one event or in the thread's hands, never twice.
EventsOK ==
  /\ \A i \in DOMAIN events : events[i] \in known
  /\ \A i, j \in DOMAIN events : events[i] = events[j] => i = j
  /\ thread.pc # "idle" =>
       /\ thread.tx \in known
       /\ \A i \in DOMAIN events : events[i] # thread.tx

CreditBy(a) == [tx \in Txids |-> Credit(tx, a)]

\* Payments to an address whose event is still to come.
Waiting(a) ==
  {tx \in Txids : a \in Payees(tx) /\ \E i \in DOMAIN events : events[i] = tx}

\* What the thread, in a state t, is still to credit to an address.
RestOf(t, a) == IF t.pc = "idle" THEN 0 ELSE t.outputs[a] * ValueSentToMe(t.tx)
Rest(a) == RestOf(thread, a)

\* Nothing is credited, or about to be, that was not sent and whose event has
\* not come.
CreditedOK ==
  \A a \in Addresses :
    \/ CountedTwice(a)
    \/ paidSatoshis[a] + Rest(a) <= Sum(CreditBy(a), sent \ Waiting(a))

PriceInv == /\ KeepInv /\ AmountsOK /\ WalletOK
            /\ EventsOK /\ CreditedOK /\ EnoughPaid /\ NoServiceUnpaid

-----------------------------------------------------------------------------

LEMMA WalletOKStep ==
  ASSUME Types, WalletOK, [Next]_vars
  PROVE  WalletOK'
<1> USE DEF WalletOK, Types, SendFunds, walletVars, pageVars, fundsVars
<1>1. ASSUME NEW a \in Addresses, RequestPayment(a) PROVE WalletOK'
  BY <1>1 DEF RequestPayment
<1>2. ASSUME NEW a \in Addresses, SkipOutput(a) PROVE WalletOK'
  BY <1>2 DEF SkipOutput
<1>3. ASSUME NEW a \in Addresses, AddPayment(a) PROVE WalletOK'
  BY <1>3 DEF AddPayment
<1>4. ASSUME NEW a \in Addresses, ExpireRequest(a) PROVE WalletOK'
  BY <1>4 DEF ExpireRequest
<1>5. ASSUME NEW a \in Addresses, ExpireReceived(a) PROVE WalletOK'
  BY <1>5 DEF ExpireReceived
<1>6. ASSUME NEW a \in Addresses, PaymentPoll(a) PROVE WalletOK'
  BY <1>6 DEF PaymentPoll
<1>7. CASE OnCoinsReceived
  BY <1>7 DEF OnCoinsReceived
<1>8. CASE ReplaceRequest
  BY <1>8 DEF ReplaceRequest
<1>9. CASE PutPaidToAddress
  BY <1>9 DEF PutPaidToAddress
<1>10. CASE PutPaidService
  BY <1>10 DEF PutPaidService
<1>11. CASE RemoveRequest
  BY <1>11 DEF RemoveRequest
<1>12. CASE FinishEvent
  BY <1>12 DEF FinishEvent
<1>13. CASE Crash
  BY <1>13 DEF Crash
<1>14. CASE Confirm
  BY <1>14 DEF Confirm
<1>15. CASE AddEventListener
  BY <1>15 DEF AddEventListener
<1>16. CASE FinishStart
  BY <1>16 DEF FinishStart
<1>17. ASSUME NEW tx \in Txids, Receive(tx) PROVE WalletOK'
  <2>1. IsFiniteSet(sent \cup {tx})
    BY FS_AddElement
  <2> QED BY <1>17, <2>1 DEF Receive
<1>18. CASE UNCHANGED vars
  BY <1>18 DEF vars
<1> QED BY <1>1, <1>2, <1>3, <1>4, <1>5, <1>6, <1>7, <1>8, <1>9, <1>10, <1>11, <1>12, <1>13, <1>14, <1>15, <1>16, <1>17, <1>18 DEF Next, WalletStep

LEMMA EventsStep ==
  ASSUME KeepInv, WalletOK, EventsOK, Still \/ Money
  PROVE  EventsOK'
<1> USE DEF EventsOK, WalletOK, KeepInv, Types, ThreadOK, Idle, Steps,
           cacheVars, walletVars
<1>1. CASE Still
  BY <1>1 DEF Still
<1>2. ASSUME NEW tx \in Txids, Receive(tx) PROVE EventsOK'
  BY <1>2 DEF Receive
<1>3. ASSUME NEW a \in Addresses, SkipOutput(a) PROVE EventsOK'
  BY <1>3 DEF SkipOutput
<1>4. ASSUME NEW a \in Addresses, AddPayment(a) PROVE EventsOK'
  BY <1>4 DEF AddPayment, AtOutput
<1>5. CASE OnCoinsReceived
  BY <1>5 DEF OnCoinsReceived
<1>6. CASE ReplaceRequest
  BY <1>6 DEF ReplaceRequest
<1>7. CASE PutPaidToAddress
  BY <1>7 DEF PutPaidToAddress
<1>8. CASE PutPaidService
  BY <1>8 DEF PutPaidService
<1>9. CASE RemoveRequest
  BY <1>9 DEF RemoveRequest
<1>10. CASE FinishEvent
  BY <1>10 DEF FinishEvent
<1>11. CASE Crash
  BY <1>11 DEF Crash
<1> QED BY <1>1, <1>2, <1>3, <1>4, <1>5, <1>6, <1>7, <1>8, <1>9, <1>10, <1>11
        DEF Money

-----------------------------------------------------------------------------
(* What is credited to an order.                                           *)

LEMMA CreditType ==
  ASSUME NEW tx \in Txids, NEW a \in Addresses
  PROVE  /\ Credit(tx, a) \in Nat
         /\ a \notin Payees(tx) => Credit(tx, a) = 0
<1>1. Outputs[tx][a] \in Nat /\ (a \notin Payees(tx) => Outputs[tx][a] = 0)
  BY OutputsAssumption DEF Payees
<1>2. ASSUME NEW n \in Nat, NEW v \in Nat
      PROVE  n * v \in Nat /\ (n = 0 => n * v = 0)
  OBVIOUS
<1> QED BY <1>1, <1>2, ValueType DEF Credit

LEMMA CreditsType ==
  ASSUME NEW a \in Addresses, NEW T \in SUBSET Txids, IsFiniteSet(T)
  PROVE  Sum(CreditBy(a), T) \in Nat
BY CreditType, SumType DEF CreditBy

LEMMA CreditsMonotone ==
  ASSUME NEW a \in Addresses, NEW T \in SUBSET Txids, IsFiniteSet(T),
         NEW S \in SUBSET T
  PROVE  Sum(CreditBy(a), S) <= Sum(CreditBy(a), T)
BY CreditType, SumMonotone DEF CreditBy

LEMMA CreditsAdd ==
  ASSUME NEW a \in Addresses, NEW S \in SUBSET Txids, IsFiniteSet(S),
         NEW tx \in Txids \ S
  PROVE  Sum(CreditBy(a), S \cup {tx}) = Credit(tx, a) + Sum(CreditBy(a), S)
<1>1. \A t \in S \cup {tx} : CreditBy(a)[t] = Credit(t, a) /\ CreditBy(a)[t] \in Nat
  BY CreditType DEF CreditBy
<1> QED BY <1>1, SumAdd

\* One output less to credit is the value of its transaction less.
LEMMA OneCreditLess ==
  ASSUME NEW n \in Nat, n > 0, NEW v \in Nat
  PROVE  (n - 1) * v \in Nat /\ (n - 1) * v + v = n * v
OBVIOUS

LEMMA RestOfType ==
  ASSUME NEW t, NEW a \in Addresses,
         t.pc # "idle" => t.tx \in Txids /\ t.outputs \in [Addresses -> Nat]
  PROVE  RestOf(t, a) \in Nat
<1>1. CASE t.pc = "idle"
  BY <1>1 DEF RestOf
<1>2. CASE t.pc # "idle"
  <2>1. t.outputs[a] \in Nat /\ ValueSentToMe(t.tx) \in Nat
    BY <1>2, ValueType
  <2>2. \A n, v \in Nat : n * v \in Nat
    OBVIOUS
  <2> QED BY <1>2, <2>1, <2>2 DEF RestOf
<1> QED BY <1>1, <1>2

LEMMA RestType ==
  ASSUME ThreadOK, ThreadOK', NEW a \in Addresses
  PROVE  Rest(a) \in Nat /\ Rest(a)' \in Nat
<1>1. thread.pc # "idle" =>
        thread.tx \in Txids /\ thread.outputs \in [Addresses -> Nat]
  BY DEF ThreadOK
<1>2. thread'.pc # "idle" =>
        thread'.tx \in Txids /\ thread'.outputs \in [Addresses -> Nat]
  BY DEF ThreadOK
<1>3. RestOf(thread, a) \in Nat
  BY <1>1, RestOfType
<1>4. RestOf(thread', a) \in Nat
  BY <1>2, RestOfType
<1> QED BY <1>3, <1>4 DEF Rest

\* CreditedOK stays when no credit comes from nowhere and no processed payment
\* is lost.
LEMMA CreditedFrame ==
  ASSUME AmountsOK, AmountsOK', WalletOK, WalletOK', ThreadOK, ThreadOK',
         CreditedOK,
         \A a \in Addresses :
           ~ CountedTwice(a)' =>
             /\ ~ CountedTwice(a)
             /\ sent \ Waiting(a) \subseteq (sent \ Waiting(a))'
             /\ paidSatoshis'[a] + Rest(a)' <= paidSatoshis[a] + Rest(a)
  PROVE  CreditedOK'
<1> SUFFICES ASSUME NEW a \in Addresses, ~ CountedTwice(a)'
             PROVE  paidSatoshis'[a] + Rest(a)'
                      <= Sum(CreditBy(a), (sent \ Waiting(a))')
  BY DEF CreditedOK, CreditBy
<1> DEFINE S == sent \ Waiting(a)
           T == (sent \ Waiting(a))'
<1>1. S \subseteq T /\ T \in SUBSET Txids /\ IsFiniteSet(T) /\ IsFiniteSet(S)
  BY FS_Subset DEF WalletOK
<1>2. paidSatoshis[a] + Rest(a) <= Sum(CreditBy(a), S)
  BY DEF CreditedOK
<1>3. /\ paidSatoshis[a] \in Nat /\ paidSatoshis'[a] \in Nat
      /\ Rest(a) \in Nat /\ Rest(a)' \in Nat
  BY RestType DEF AmountsOK
<1> HIDE DEF S, T
<1>4. Sum(CreditBy(a), S) <= Sum(CreditBy(a), T)
  BY <1>1, CreditsMonotone
<1>5. Sum(CreditBy(a), S) \in Nat /\ Sum(CreditBy(a), T) \in Nat
  BY <1>1, CreditsType
<1>6. paidSatoshis'[a] + Rest(a)' <= Sum(CreditBy(a), T)
  BY <1>2, <1>3, <1>4, <1>5
<1> QED BY <1>6 DEF T

\* The thread takes the next event: its credits move from the sum to the rest.
LEMMA QueueTake ==
  ASSUME Types, EventsOK, OnCoinsReceived, NEW a \in Addresses
  PROVE  /\ events[1] \in Txids /\ events[1] \in known
         /\ \A t \in Txids :
              t \in Waiting(a)' <=> t \in Waiting(a) /\ t # events[1]
         /\ events[1] \in Waiting(a) <=> a \in Payees(events[1])
<1> DEFINE tx == events[1]
<1>1. /\ \A i \in DOMAIN events' :
           events'[i] = events[i + 1] /\ i + 1 \in DOMAIN events /\ i + 1 # 1
      /\ \A i \in DOMAIN events : i # 1 =>
           i - 1 \in DOMAIN events' /\ events'[i - 1] = events[i]
      /\ tx \in Txids /\ 1 \in DOMAIN events /\ tx \in known
  BY DEF Types, OnCoinsReceived, EventsOK
<1>2. \A i \in DOMAIN events : i # 1 => events[i] # tx
  BY <1>1 DEF EventsOK
<1> HIDE DEF tx
<1>3. ASSUME NEW t \in Txids, t \in Waiting(a)'
      PROVE  t \in Waiting(a) /\ t # tx
  <2>1. PICK i \in DOMAIN events' : events'[i] = t
    BY <1>3 DEF Waiting
  <2>2. i + 1 \in DOMAIN events /\ events[i + 1] = t /\ i + 1 # 1
    BY <1>1, <2>1
  <2>3. t # tx
    BY <1>2, <2>2
  <2>4. a \in Payees(t)
    BY <1>3 DEF Waiting
  <2> QED BY <2>2, <2>3, <2>4 DEF Waiting
<1>4. ASSUME NEW t \in Txids, t \in Waiting(a), t # tx
      PROVE  t \in Waiting(a)'
  <2>1. PICK i \in DOMAIN events : events[i] = t
    BY <1>4 DEF Waiting
  <2>2. i # 1
    BY <1>4, <2>1 DEF tx
  <2>3. i - 1 \in DOMAIN events' /\ events'[i - 1] = t
    BY <1>1, <2>1, <2>2
  <2>4. a \in Payees(t)
    BY <1>4 DEF Waiting
  <2> QED BY <2>3, <2>4 DEF Waiting
<1>5. tx \in Waiting(a) <=> a \in Payees(tx)
  BY <1>1 DEF Waiting, tx
<1> QED BY <1>1, <1>3, <1>4, <1>5 DEF tx

LEMMA CreditedTake ==
  ASSUME KeepInv, AmountsOK, WalletOK, EventsOK, CreditedOK, OnCoinsReceived,
         NEW a \in Addresses, ~ CountedTwice(a)
  PROVE  paidSatoshis'[a] + Rest(a)' <= Sum(CreditBy(a), (sent \ Waiting(a))')
<1> DEFINE tx == events[1]
           S == sent \ Waiting(a)
           T == (sent \ Waiting(a))'
<1>1. /\ tx \in Txids /\ tx \in sent
      /\ \A t \in Txids : t \in Waiting(a)' <=> t \in Waiting(a) /\ t # tx
      /\ tx \in Waiting(a) <=> a \in Payees(tx)
  BY QueueTake DEF KeepInv, WalletOK
<1>2. paidSatoshis' = paidSatoshis /\ sent' = sent /\ sent \subseteq Txids
  BY DEF OnCoinsReceived, cacheVars, WalletOK
<1>3. Rest(a) = 0 /\ Rest(a)' = Credit(tx, a)
  BY DEF OnCoinsReceived, Idle, Rest, RestOf, Credit, ValueSentToMe, Payees
<1>4. S \in SUBSET Txids /\ IsFiniteSet(S)
  BY FS_Subset DEF WalletOK
<1>5. paidSatoshis[a] + Rest(a) <= Sum(CreditBy(a), S) /\ paidSatoshis[a] \in Nat
  BY DEF CreditedOK, AmountsOK
<1>6. T = IF a \in Payees(tx) THEN S \cup {tx} ELSE S
  <2> HIDE DEF tx
  <2>1. \A t \in Txids : t \in T <=> t \in sent /\ ~ (t \in Waiting(a) /\ t # tx)
    BY <1>1, <1>2
  <2> QED BY <1>1, <1>2, <2>1
<1>7. tx \in S <=> a \notin Payees(tx)
  BY <1>1
<1>8. Credit(tx, a) \in Nat /\ (a \notin Payees(tx) => Credit(tx, a) = 0)
  BY <1>1, CreditType
<1> HIDE DEF S, T, tx
<1>9. Sum(CreditBy(a), S) \in Nat
  BY <1>4, CreditsType
<1>10. Sum(CreditBy(a), T) = Credit(tx, a) + Sum(CreditBy(a), S)
  <2>1. CASE a \in Payees(tx)
    <3>1. tx \in Txids \ S
      BY <1>1, <1>7, <2>1
    <3> QED BY <1>4, <1>6, <2>1, <3>1, CreditsAdd
  <2>2. CASE a \notin Payees(tx)
    BY <1>6, <1>8, <1>9, <2>2
  <2> QED BY <2>1, <2>2
<1>11. paidSatoshis'[a] + Rest(a)' <= Sum(CreditBy(a), T)
  BY <1>2, <1>3, <1>5, <1>8, <1>9, <1>10
<1> QED BY <1>11 DEF T

LEMMA CreditedStep ==
  ASSUME KeepInv, KeepInv', AmountsOK, AmountsOK', WalletOK, WalletOK',
         EventsOK, CreditedOK, Still \/ Money
  PROVE  CreditedOK'
<1> USE DEF KeepInv, Types, EventsOK, cacheVars, walletVars
<1> DEFINE Settled(a) == sent \ Waiting(a) \subseteq (sent \ Waiting(a))'
           Amounts(a) ==
             paidSatoshis'[a] + Rest(a)' <= paidSatoshis[a] + Rest(a)
           Frame(a) == ~ CountedTwice(a)' =>
                         ~ CountedTwice(a) /\ Settled(a) /\ Amounts(a)
<1>0. ASSUME \A a \in Addresses : Frame(a) PROVE CreditedOK'
  BY <1>0, CreditedFrame
<1>1. \A a \in Addresses :
        /\ storedSatoshis[a] <= paidSatoshis[a]
        /\ paidSatoshis[a] \in Nat /\ storedSatoshis[a] \in Nat
        /\ Rest(a) \in Nat
  BY RestType DEF AmountsOK
<1>2. ASSUME UNCHANGED <<paidSatoshis, sent, again, events>>,
             \A a \in Addresses : Rest(a)' <= Rest(a)
      PROVE  \A a \in Addresses : Frame(a)
  <2> SUFFICES ASSUME NEW a \in Addresses PROVE Frame(a)
    OBVIOUS
  <2>1. Rest(a)' \in Nat
    BY RestType
  <2> QED BY <1>1, <1>2, <2>1 DEF CountedTwice, Waiting
<1>3. ASSUME UNCHANGED <<paidSatoshis, sent, again, events>>,
             thread'.pc # "idle", thread.pc # "idle",
             thread'.outputs = thread.outputs, thread'.tx = thread.tx
      PROVE  \A a \in Addresses : Frame(a)
  <2>1. \A a \in Addresses : Rest(a)' = Rest(a)
    BY <1>3 DEF Rest, RestOf, ValueSentToMe, Payees
  <2>2. \A a \in Addresses : Rest(a)' <= Rest(a)
    BY <1>1, <2>1
  <2> QED BY <1>2, <1>3, <2>2
<1>4. ASSUME Still PROVE \A a \in Addresses : Frame(a)
  <2>1. \A a \in Addresses : Rest(a)' = Rest(a)
    BY <1>4 DEF Still, Rest, ValueSentToMe, Payees
  <2>2. \A a \in Addresses : Rest(a)' <= Rest(a)
    BY <1>1, <2>1
  <2> QED BY <1>2, <1>4, <2>2 DEF Still
<1>5. ASSUME NEW tx \in Txids, Receive(tx) PROVE \A a \in Addresses : Frame(a)
  <2> SUFFICES ASSUME NEW a \in Addresses, ~ CountedTwice(a)' PROVE Frame(a)
    OBVIOUS
  <2>1. ~ CountedTwice(a) /\ (tx \in sent => a \notin Payees(tx))
    BY <1>5 DEF Receive, CountedTwice
  <2>2. \A i \in DOMAIN events' :
          events'[i] = tx \/ \E j \in DOMAIN events : events[j] = events'[i]
    BY <1>5 DEF Receive
  <2>3. /\ Waiting(a)' \subseteq Waiting(a) \cup {tx}
        /\ a \notin Payees(tx) => tx \notin Waiting(a)'
    BY <1>5, <2>2 DEF Receive, Waiting
  <2>4. Settled(a)
    BY <1>5, <2>1, <2>3 DEF Receive
  <2>5. Amounts(a)
    <3>1. Rest(a)' = Rest(a)
      BY <1>5 DEF Receive, Rest, ValueSentToMe, Payees
    <3> QED BY <1>1, <1>5, <3>1 DEF Receive
  <2> QED BY <2>1, <2>4, <2>5
<1>6. ASSUME NEW b \in Addresses, SkipOutput(b) PROVE \A a \in Addresses : Frame(a)
  <2>1. /\ thread.pc = "output" /\ thread'.pc = "output"
        /\ thread'.tx = thread.tx /\ thread.tx \in Txids
        /\ thread.outputs \in [Addresses -> Nat] /\ thread.outputs[b] > 0
        /\ thread'.outputs = [thread.outputs EXCEPT ![b] = @ - 1]
    BY <1>6 DEF SkipOutput, AtOutput, OneLess, ThreadOK
  <2>2. ASSUME NEW a \in Addresses PROVE Rest(a)' <= Rest(a)
    <3> DEFINE v == ValueSentToMe(thread.tx)
               n == thread.outputs[b]
    <3>1. v \in Nat /\ n \in Nat /\ n > 0
      BY <2>1, ValueType
    <3>2. Rest(a) = thread.outputs[a] * v /\ Rest(a)' = thread'.outputs[a] * v
      BY <2>1 DEF Rest, RestOf, ValueSentToMe, Payees
    <3>3. CASE a = b
      <4>1. Rest(a) = n * v /\ Rest(a)' = (n - 1) * v
        BY <2>1, <3>2, <3>3
      <4> HIDE DEF n, v
      <4> QED BY <3>1, <4>1, OneCreditLess
    <3>4. CASE a # b
      BY <1>1, <2>1, <3>2, <3>4
    <3> QED BY <3>3, <3>4
  <2> QED BY <1>2, <1>6, <2>2 DEF SkipOutput
<1>7. ASSUME PutPaidToAddress PROVE \A a \in Addresses : Frame(a)
  BY <1>3, <1>7 DEF PutPaidToAddress, ThreadOK
<1>8. ASSUME PutPaidService PROVE \A a \in Addresses : Frame(a)
  BY <1>3, <1>8 DEF PutPaidService, ThreadOK
<1>9. ASSUME RemoveRequest PROVE \A a \in Addresses : Frame(a)
  BY <1>3, <1>9 DEF RemoveRequest, ThreadOK
<1>10. ASSUME ReplaceRequest PROVE \A a \in Addresses : Frame(a)
  BY <1>3, <1>10 DEF ReplaceRequest, ThreadOK, NextStep
<1>11. ASSUME FinishEvent PROVE \A a \in Addresses : Frame(a)
  <2>1. \A a \in Addresses : Rest(a)' = 0
    BY <1>11 DEF FinishEvent, Rest, RestOf, Idle
  <2>2. \A a \in Addresses : Rest(a)' <= Rest(a)
    BY <1>1, <2>1
  <2> QED BY <1>2, <1>11, <2>2 DEF FinishEvent
<1>12. ASSUME Crash PROVE \A a \in Addresses : Frame(a)
  <2>1. \A a \in Addresses : Waiting(a)' = {} /\ Rest(a)' = 0
    BY <1>12 DEF Crash, Waiting, Rest, RestOf, Idle
  <2> QED BY <1>1, <1>12, <2>1 DEF Crash, CountedTwice
<1>13. ASSUME OnCoinsReceived PROVE CreditedOK'
  <2> SUFFICES ASSUME NEW a \in Addresses, ~ CountedTwice(a)
               PROVE  paidSatoshis'[a] + Rest(a)'
                        <= Sum(CreditBy(a), (sent \ Waiting(a))')
    BY <1>13 DEF OnCoinsReceived, CreditedOK, CreditBy, CountedTwice
  <2> QED BY <1>13, CreditedTake
<1>14. ASSUME NEW b \in Addresses, AddPayment(b) PROVE \A a \in Addresses : Frame(a)
  <2> SUFFICES ASSUME NEW a \in Addresses PROVE Frame(a)
    OBVIOUS
  <2>1. /\ thread.pc = "output" /\ thread'.pc = "replace"
        /\ thread'.tx = thread.tx /\ thread.tx \in Txids
        /\ thread.outputs \in [Addresses -> Nat] /\ thread.outputs[b] > 0
        /\ thread'.outputs = [thread.outputs EXCEPT ![b] = @ - 1]
    BY <1>14 DEF AddPayment, AtOutput, OneLess, ThreadOK
  <2> DEFINE v == ValueSentToMe(thread.tx)
             n == thread.outputs[b]
  <2>2. v \in Nat /\ n \in Nat /\ n > 0
    BY <2>1, ValueType
  <2>3. Rest(a) = thread.outputs[a] * v /\ Rest(a)' = thread'.outputs[a] * v
    BY <2>1 DEF Rest, RestOf, ValueSentToMe, Payees
  <2>4. paidSatoshis'[a] = IF a = b THEN paidSatoshis[a] + v ELSE paidSatoshis[a]
    BY <1>14 DEF AddPayment, AmountsOK
  <2>5. Amounts(a)
    <3>1. CASE a = b
      <4>1. /\ Rest(a) = n * v /\ Rest(a)' = (n - 1) * v
            /\ paidSatoshis'[a] = paidSatoshis[a] + v
        BY <2>1, <2>3, <2>4, <3>1
      <4>2. (n - 1) * v \in Nat /\ (n - 1) * v + v = n * v
        <5> HIDE DEF n, v
        <5> QED BY <2>2, OneCreditLess
      <4> HIDE DEF n, v
      <4> QED BY <1>1, <2>2, <4>1, <4>2
    <3>2. CASE a # b
      <4>1. Rest(a)' = Rest(a) /\ paidSatoshis'[a] = paidSatoshis[a]
        BY <2>1, <2>3, <2>4, <3>2
      <4> QED BY <1>1, <4>1
    <3> QED BY <3>1, <3>2
  <2>6. ~ CountedTwice(a)' => ~ CountedTwice(a) /\ Settled(a)
    BY <1>14 DEF AddPayment, CountedTwice, Waiting
  <2> QED BY <2>5, <2>6
<1> HIDE DEF Frame
<1> QED BY <1>0, <1>4, <1>5, <1>6, <1>7, <1>8, <1>9, <1>10, <1>11, <1>12, <1>13, <1>14 DEF Money

\* What is credited to an order is what the payments sent to it count for, if
\* none is counted twice.
LEMMA CreditedWasSent ==
  ASSUME KeepInv, AmountsOK, WalletOK, CreditedOK,
         NEW a \in Addresses, ~ CountedTwice(a)
  PROVE  paidSatoshis[a] <= Counted(a)
<1> DEFINE S == sent \ Waiting(a)
<1>1. S \in SUBSET sent /\ sent \in SUBSET Txids /\ IsFiniteSet(sent)
  BY DEF WalletOK
<1>2. paidSatoshis[a] + Rest(a) <= Sum(CreditBy(a), S)
  BY DEF CreditedOK
<1>3. paidSatoshis[a] \in Nat /\ Rest(a) \in Nat
  BY RestOfType DEF AmountsOK, KeepInv, ThreadOK, Rest
<1> HIDE DEF S
<1>4. Sum(CreditBy(a), S) <= Sum(CreditBy(a), sent)
  BY <1>1, CreditsMonotone
<1>5. Sum(CreditBy(a), S) \in Nat /\ Sum(CreditBy(a), sent) \in Nat
  BY <1>1, CreditsType, FS_Subset
<1>6. paidSatoshis[a] <= Sum(CreditBy(a), sent)
  BY <1>2, <1>3, <1>4, <1>5
<1> QED BY <1>6 DEF Counted, CreditBy, Sum

LEMMA CountedType ==
  ASSUME WalletOK, NEW a \in Addresses
  PROVE  Counted(a) \in Nat
<1>1. Sum(CreditBy(a), sent) \in Nat
  BY CreditsType DEF WalletOK
<1> QED BY <1>1 DEF Counted, CreditBy, Sum

\* What was sent stays sent.
LEMMA CountedGrows ==
  ASSUME WalletOK, WalletOK', sent \subseteq sent', NEW a \in Addresses
  PROVE  /\ Counted(a) \in Nat /\ Counted(a)' \in Nat
         /\ Counted(a) <= Counted(a)'
<1>1. /\ sent \in SUBSET sent' /\ sent' \in SUBSET Txids
      /\ IsFiniteSet(sent') /\ IsFiniteSet(sent)
  BY DEF WalletOK
<1>2. /\ Sum(CreditBy(a), sent) <= Sum(CreditBy(a), sent')
      /\ Sum(CreditBy(a), sent) \in Nat /\ Sum(CreditBy(a), sent') \in Nat
  BY <1>1, CreditsMonotone, CreditsType
<1>3. Counted(a) = Sum(CreditBy(a), sent) /\ Counted(a)' = Sum(CreditBy(a), sent')
  BY DEF Counted, CreditBy, Credit, ValueSentToMe, Payees, Sum
<1> QED BY <1>2, <1>3

\* Payments are never forgotten, and only the second put records an order.
LEMMA UnpaidFrame ==
  ASSUME Still \/ Money
  PROVE  /\ sent \subseteq sent' /\ again \subseteq again'
         /\ paidServices' = paidServices \/ PutPaidService
<1> USE DEF cacheVars, walletVars, Still
<1>1. ASSUME NEW tx \in Txids, Receive(tx)
      PROVE  sent \subseteq sent' /\ again \subseteq again' /\ paidServices' = paidServices
  BY <1>1 DEF Receive
<1>2. ASSUME NEW a \in Addresses, SkipOutput(a) \/ AddPayment(a)
      PROVE  UNCHANGED <<sent, again, paidServices>>
  BY <1>2 DEF SkipOutput, AddPayment
<1>3. CASE OnCoinsReceived \/ ReplaceRequest \/ PutPaidToAddress \/ RemoveRequest
  BY <1>3 DEF OnCoinsReceived, ReplaceRequest, PutPaidToAddress, RemoveRequest
<1>4. CASE PutPaidService
  BY <1>4 DEF PutPaidService
<1>5. CASE FinishEvent \/ Crash
  BY <1>5 DEF FinishEvent, Crash
<1> QED BY <1>1, <1>2, <1>3, <1>4, <1>5 DEF Money

LEMMA UnpaidStep ==
  ASSUME KeepInv, AmountsOK, WalletOK, WalletOK', CreditedOK, EnoughPaid,
         NoServiceUnpaid, Still \/ Money
  PROVE  NoServiceUnpaid'
<1> SUFFICES ASSUME NEW a \in Addresses, Paid(a)', ~ CountedTwice(a)'
             PROVE  Counted(a)' >= Price[a]
  BY DEF NoServiceUnpaid
<1>1. Price[a] \in Nat /\ ~ CountedTwice(a)
  BY UnpaidFrame, PriceAssumption DEF CountedTwice
<1>2. Counted(a) \in Nat /\ Counted(a)' \in Nat /\ Counted(a) <= Counted(a)'
  BY UnpaidFrame, CountedGrows
<1>3. CASE Paid(a)
  <2>1. Counted(a) >= Price[a]
    BY <1>1, <1>3 DEF NoServiceUnpaid
  <2> QED BY <1>1, <1>2, <2>1
<1>4. CASE ~ Paid(a)
  <2>1. PutPaidService
    BY <1>4, UnpaidFrame DEF Paid
  <2>2. thread.address = a
    BY <1>4, <2>1 DEF PutPaidService, Paid, KeepInv, Types
  <2>3. paidSatoshis[a] >= Price[a] /\ paidSatoshis[a] \in Nat
    BY <2>1, <2>2 DEF PutPaidService, EnoughPaid, IsPaidFor, AmountsOK
  <2>4. paidSatoshis[a] <= Counted(a)
    BY <1>1, CreditedWasSent
  <2> QED BY <1>1, <1>2, <2>3, <2>4
<1> QED BY <1>3, <1>4

LEMMA WalletInit == Init => WalletOK
<1> SUFFICES ASSUME Init PROVE WalletOK
  OBVIOUS
<1>1. IsFiniteSet(sent)
  <2>1. sent = {}
    BY DEF Init
  <2> QED BY <2>1, FS_EmptySet
<1> QED BY <1>1 DEF Init, WalletOK

\* All types, amounts included: credits are natural numbers, and the wallet's
\* sets of transactions lie in one another, through crashes that lose some.
THEOREM TypeCorrect == Spec => []TypeOK
<1> DEFINE Inv == KeepInv /\ AmountsOK /\ WalletOK
<1>1. Init => Inv
  BY KeepInit, AmountsInit, WalletInit
<1>2. ASSUME Inv, [Next]_vars PROVE Inv'
  BY <1>2, KeepStep, MoneyCases, AmountsStep, WalletOKStep DEF KeepInv
<1>3. Inv => TypeOK
  BY NilFacts DEF KeepInv, Types, ThreadOK, AmountsOK, WalletOK, TypeOK
<1> QED BY <1>1, <1>2, <1>3, PTL DEF Spec

LEMMA PriceInit == Init => PriceInv
<1> SUFFICES ASSUME Init PROVE PriceInv
  OBVIOUS
<1>1. KeepInv /\ AmountsOK /\ WalletOK /\ EnoughPaid
  BY KeepInit, AmountsInit, WalletInit
<1>2. EventsOK
  BY DEF Init, EventsOK, Idle
<1>3. NoServiceUnpaid
  BY NilFacts DEF Init, NoServiceUnpaid, Paid
<1>4. CreditedOK
  <2> SUFFICES ASSUME NEW a \in Addresses
               PROVE  paidSatoshis[a] + Rest(a)
                        <= Sum(CreditBy(a), sent \ Waiting(a))
    BY DEF CreditedOK
  <2>1. sent \ Waiting(a) \in SUBSET Txids /\ IsFiniteSet(sent \ Waiting(a))
    BY FS_EmptySet DEF Init
  <2>2. Sum(CreditBy(a), sent \ Waiting(a)) \in Nat
    BY <2>1, CreditsType
  <2>3. paidSatoshis[a] = 0 /\ Rest(a) = 0
    BY DEF Init, Rest, RestOf, Idle
  <2> QED BY <2>2, <2>3
<1> QED BY <1>1, <1>2, <1>3, <1>4 DEF PriceInv

LEMMA PriceStep ==
  ASSUME PriceInv, [Next]_vars
  PROVE  PriceInv'
<1> USE DEF PriceInv
<1>1. Still \/ Money
  BY MoneyCases
<1>2. KeepInv' /\ AmountsOK' /\ WalletOK'
  BY <1>1, KeepStep, AmountsStep, WalletOKStep DEF KeepInv
<1>3. EventsOK' /\ EnoughPaid'
  BY <1>1, EventsStep, EnoughStep
<1>4. CreditedOK'
  BY <1>1, <1>2, CreditedStep
<1>5. NoServiceUnpaid'
  BY <1>1, <1>2, UnpaidStep
<1> QED BY <1>2, <1>3, <1>4, <1>5

LEMMA PriceCorrect == Spec => []PriceInv
BY PriceInit, PriceStep, PTL DEF Spec

\* Nothing is sold for less than the listener counts: what storePayment credits
\* to an order, in memory or in the file store, through crashes, expiries and
\* any transactions, with any number of outputs to any orders, is the value of
\* transactions that were sent, once for each of their outputs to its address.
THEOREM NoServiceUnpaidCorrect == Spec => []NoServiceUnpaid
<1>1. PriceInv => NoServiceUnpaid
  BY DEF PriceInv
<1> QED BY <1>1, PriceCorrect, PTL

-----------------------------------------------------------------------------
(* Where the wallet loses no payment, none is counted twice.               *)

NoneLost == again = {} /\ sent = known

LEMMA NoneLostStep ==
  ASSUME MaxLost = 0, WalletOK, NoneLost, [Next]_vars
  PROVE  NoneLost'
<1> USE DEF NoneLost, cacheVars, walletVars, fundsVars, pageVars
<1>1. ASSUME NEW tx \in Txids, Receive(tx) PROVE NoneLost'
  BY <1>1 DEF Receive
<1>2. ASSUME Crash PROVE NoneLost'
  <2>1. PICK lost \in SUBSET (known \ (moved \cup again)) :
          /\ Cardinality(again \cup (sent \ known) \cup lost) <= 0
          /\ known' = known \ lost /\ sent' = sent /\ again' = again
    BY <1>2 DEF Crash
  <2>2. IsFiniteSet(lost) /\ again \cup (sent \ known) \cup lost = lost
    <3>1. lost \in SUBSET sent /\ IsFiniteSet(sent)
      BY DEF WalletOK
    <3>2. IsFiniteSet(lost)
      BY <3>1, FS_Subset
    <3> QED BY <3>2
  <2>3. Cardinality(lost) \in Nat /\ Cardinality(lost) <= 0
    BY <2>1, <2>2, FS_CardinalityType
  <2>4. lost = {}
    BY <2>2, <2>3, FS_EmptySet
  <2> QED BY <2>1, <2>4
<1>3. ASSUME NEW a \in Addresses,
             \/ RequestPayment(a) \/ PaymentPoll(a) \/ SkipOutput(a)
             \/ AddPayment(a) \/ ExpireRequest(a) \/ ExpireReceived(a)
      PROVE  NoneLost'
  BY <1>3 DEF RequestPayment, PaymentPoll, SkipOutput, AddPayment,
              ExpireRequest, ExpireReceived
<1>4. CASE Confirm \/ OnCoinsReceived \/ FinishEvent \/ AddEventListener
           \/ FinishStart
  BY <1>4 DEF Confirm, OnCoinsReceived, FinishEvent, AddEventListener, FinishStart
<1>5. CASE \/ ReplaceRequest \/ PutPaidToAddress \/ PutPaidService
           \/ RemoveRequest
  BY <1>5 DEF ReplaceRequest, PutPaidToAddress, PutPaidService, RemoveRequest
<1>6. CASE UNCHANGED vars
  BY <1>6 DEF vars
<1> QED BY <1>1, <1>2, <1>3, <1>4, <1>5, <1>6 DEF Next, WalletStep

LEMMA NoneLostCorrect ==
  ASSUME MaxLost = 0
  PROVE  Spec => []NoneLost
<1> DEFINE Inv == KeepInv /\ WalletOK /\ NoneLost
<1>1. Init => Inv
  BY KeepInit, WalletInit DEF Init, NoneLost
<1>2. ASSUME Inv, [Next]_vars PROVE Inv'
  BY <1>2, KeepStep, WalletOKStep, NoneLostStep DEF KeepInv
<1>3. Inv => NoneLost
  OBVIOUS
<1> QED BY <1>1, <1>2, <1>3, PTL DEF Spec

-----------------------------------------------------------------------------
(* Where a transaction has one output only, what counts was really sent.    *)

\* No transaction has two outputs of the wallet; PaymentsHalves shows what
\* happens otherwise.
OneOutputEach ==
  OneOrderEach /\ \A tx \in Txids : \A a \in Payees(tx) : Outputs[tx][a] = 1

LEMMA CreditIsPaid ==
  ASSUME OneOutputEach, NEW tx \in Txids, NEW a \in Addresses
  PROVE  Credit(tx, a) = Pays[tx][a]
<1>1. Pays[tx][a] \in Nat
  BY PaysAssumption
<1>2. CASE a \notin Payees(tx)
  BY <1>2, CreditType, PaysAssumption
<1>3. CASE a \in Payees(tx)
  <2>1. /\ \A b \in Payees(tx) \ {a} : Pays[tx][b] = 0
        /\ IsFiniteSet(Payees(tx)) /\ Outputs[tx][a] = 1
    BY <1>3, OutputsAssumption DEF OneOutputEach, OneOrderEach
  <2>2. ValueSentToMe(tx) = Pays[tx][a]
    BY <1>1, <1>3, <2>1, SumSingle DEF ValueSentToMe, Sum
  <2> QED BY <1>1, <2>1, <2>2 DEF Credit
<1> QED BY <1>2, <1>3

\* If the wallet loses no payment and each transaction has one output of the
\* wallet, an order is on record only when its price was really sent to it:
\* what the page asks for.
THEOREM PriceIsPaidCorrect ==
  ASSUME OneOutputEach, MaxLost = 0
  PROVE  Spec => []PriceIsPaid
<1>1. \A a \in Addresses : Counted(a) = Received(a)
  BY CreditIsPaid DEF Counted, Received
<1>2. NoneLost /\ NoServiceUnpaid => PriceIsPaid
  BY <1>1 DEF NoneLost, NoServiceUnpaid, CountedTwice, PriceIsPaid
<1> QED BY <1>2, NoneLostCorrect, NoServiceUnpaidCorrect, PTL

-----------------------------------------------------------------------------
(* The refinement of Orders.                                               *)

FundedHere(a) == Counted(a) >= Price[a] \/ CountedTwice(a)

\* A notice is there only for an order that is funded.
NoticeOK == \A a \in Addresses : paidToAddresses[a] # Nil => FundedHere(a)

OrdersInv == MoveInv /\ PriceInv /\ NoticeOK

\* The thread completes an order only when it is funded, and funded it stays.
LEMMA CompletingIsFunded ==
  ASSUME PriceInv, thread.pc \in {"paidTo", "paidService"}
  PROVE  FundedHere(thread.address)
<1> DEFINE a == thread.address
<1>1. a \in Addresses
  BY DEF PriceInv, KeepInv, Types, ThreadOK
<1>2. paidSatoshis[a] >= Price[a] /\ paidSatoshis[a] \in Nat /\ Price[a] \in Nat
  BY <1>1, PriceAssumption DEF PriceInv, EnoughPaid, IsPaidFor, AmountsOK
<1>3. Counted(a) \in Nat
  BY <1>1, CountedType DEF PriceInv
<1>4. ~ CountedTwice(a) => paidSatoshis[a] <= Counted(a)
  BY <1>1, CreditedWasSent DEF PriceInv
<1> HIDE DEF a
<1> QED BY <1>2, <1>3, <1>4 DEF FundedHere, a

LEMMA FundedStays ==
  ASSUME PriceInv, PriceInv', Still \/ Money, NEW a \in Addresses, FundedHere(a)
  PROVE  FundedHere(a)'
<1>1. Counted(a) \in Nat /\ Counted(a)' \in Nat /\ Counted(a) <= Counted(a)'
  BY UnpaidFrame, CountedGrows DEF PriceInv
<1>2. Price[a] \in Nat
  BY PriceAssumption
<1>3. CountedTwice(a) => CountedTwice(a)'
  BY UnpaidFrame DEF CountedTwice
<1> QED BY <1>1, <1>2, <1>3 DEF FundedHere

LEMMA NoticeFrame ==
  ASSUME KeepInv, [Next]_vars, NEW a \in Addresses, paidToAddresses'[a] # Nil
  PROVE  \/ paidToAddresses[a] # Nil
         \/ thread.pc = "paidTo" /\ thread.address = a
<1> USE DEF KeepInv, Types, cacheVars
<1>1. ASSUME NEW b \in Addresses,
             \/ RequestPayment(b) \/ PaymentPoll(b) \/ ExpireRequest(b)
             \/ ExpireReceived(b) \/ SkipOutput(b) \/ AddPayment(b)
      PROVE  paidToAddresses[a] # Nil
  BY <1>1 DEF RequestPayment, PaymentPoll, ExpireRequest, ExpireReceived,
              SkipOutput, AddPayment
<1>2. CASE (\E tx \in Txids : Receive(tx)) \/ Confirm \/ AddEventListener
           \/ FinishStart \/ Crash \/ UNCHANGED vars
  BY <1>2 DEF Receive, Confirm, AddEventListener, FinishStart, Crash, vars
<1>3. CASE OnCoinsReceived \/ ReplaceRequest \/ PutPaidService
           \/ RemoveRequest \/ FinishEvent
  BY <1>3 DEF OnCoinsReceived, ReplaceRequest, PutPaidService, RemoveRequest,
              FinishEvent
<1>4. CASE PutPaidToAddress
  BY <1>4 DEF PutPaidToAddress
<1> QED BY <1>1, <1>2, <1>3, <1>4 DEF Next, WalletStep

LEMMA NoticeStep ==
  ASSUME PriceInv, PriceInv', NoticeOK, [Next]_vars
  PROVE  NoticeOK'
<1> SUFFICES ASSUME NEW a \in Addresses, paidToAddresses'[a] # Nil
             PROVE  FundedHere(a)'
  BY DEF NoticeOK
<1>1. FundedHere(a)
  BY NoticeFrame, CompletingIsFunded DEF NoticeOK, PriceInv
<1> QED BY <1>1, MoneyCases, FundedStays

LEMMA OrdersInvCorrect ==
  ASSUME OneOrderEach
  PROVE  Spec => []OrdersInv
<1>1. Init => PriceInv /\ NoticeOK
  BY PriceInit DEF Init, NoticeOK
<1>2. PriceInv /\ NoticeOK /\ [Next]_vars => (PriceInv /\ NoticeOK)'
  BY PriceStep, NoticeStep
<1>3. MoveInv /\ PriceInv /\ NoticeOK => OrdersInv
  BY DEF OrdersInv
<1> QED BY <1>1, <1>2, <1>3, MoveCorrect, PTL DEF Spec

\* What the status of an order says.
StatusSays(a) ==
  /\ a \notin ordered => Status(a) = "none"
  /\ a \in ordered /\ Paid(a) => Status(a) = "delivered"
  /\ a \in ordered /\ ~ Paid(a) /\ Waits(a) => Status(a) = "waiting"
  /\ a \in ordered /\ ~ Paid(a) /\ ~ Waits(a) => Status(a) = "dropped"

LEMMA StatusCases == \A a \in Addresses : StatusSays(a) /\ StatusSays(a)'
<1> SUFFICES ASSUME NEW a \in Addresses PROVE StatusSays(a) /\ StatusSays(a)'
  OBVIOUS
<1>1. StatusSays(a)
  BY DEF StatusSays, Status
<1>2. StatusSays(a)'
  BY DEF StatusSays, Status
<1> QED BY <1>1, <1>2

LEMMA StatusSame ==
  ASSUME NEW a, ordered' = ordered, Paid(a)' <=> Paid(a),
         Paid(a) \/ (Waits(a)' <=> Waits(a))
  PROVE  Status(a)' = Status(a)
BY DEF Status

\* Money that is counted depends on the transactions sent only.
LEMMA CountedSame ==
  ASSUME UNCHANGED sent
  PROVE  \A a \in Addresses : Counted(a)' = Counted(a)
BY DEF Counted, Credit, ValueSentToMe, Payees

\* A step that moves neither an order nor money.
LEMMA OrdersStutter ==
  ASSUME UNCHANGED <<sent, again, told>>,
         \A a \in Addresses : Status(a)' = Status(a)
  PROVE  UNCHANGED Promise!vars
BY CountedSame DEF Promise!vars, CountedTwice, Payees

\* A step that moves one order.
LEMMA OrdersMove ==
  ASSUME UNCHANGED <<sent, again, told>>, NEW a \in Addresses,
         \A b \in Addresses \ {a} : Status(b)' = Status(b)
  PROVE  Promise!Move(a, Status(a), Status(a)')
<1> DEFINE now  == [b \in Addresses |-> Status(b)]
           next == [b \in Addresses |-> Status(b)']
<1>1. next = [now EXCEPT ![a] = Status(a)']
  OBVIOUS
<1> QED BY <1>1, CountedSame DEF Promise!Move, CountedTwice, Payees

LEMMA WaitsCredited ==
  ASSUME NEW a \in Addresses, a \in paymentRequests,
         paymentRequests' = paymentRequests, thread.pc = "output",
         thread'.address = a
  PROVE  \A b \in Addresses : Waits(b)' <=> Waits(b)
BY DEF Waits, Completing

\* The thread's own steps, but for the put that delivers, move no order: it
\* has the order in hand from the credit to the remove.
LEMMA OrdersThread ==
  ASSUME OrdersInv,
         \/ \E a \in Addresses : SkipOutput(a) \/ AddPayment(a)
         \/ OnCoinsReceived \/ ReplaceRequest \/ PutPaidToAddress
         \/ RemoveRequest \/ FinishEvent
  PROVE  UNCHANGED Promise!vars
<1> USE DEF OrdersInv, PriceInv, KeepInv, Types, ThreadOK, Waits, Completing,
            Idle, Steps, NextStep, walletVars, pageVars, cacheVars
<1> DEFINE Same == /\ UNCHANGED <<sent, again, told, ordered, paidServices>>
                   /\ \A b \in Addresses : Paid(b) \/ (Waits(b)' <=> Waits(b))
<1>1. ASSUME NEW a \in Addresses, SkipOutput(a) PROVE Same
  BY <1>1 DEF SkipOutput
<1>2. ASSUME NEW a \in Addresses, AddPayment(a) PROVE Same
  <2>1. /\ UNCHANGED <<sent, again, told, ordered, paidServices, paymentRequests>>
        /\ thread.pc = "output" /\ a \in paymentRequests
        /\ thread'.address = a /\ thread'.pc = "replace"
    BY <1>2 DEF AddPayment, AtOutput
  <2> HIDE DEF Waits, Completing
  <2>2. \A b \in Addresses : Waits(b)' <=> Waits(b)
    BY <2>1, WaitsCredited
  <2> QED BY <2>1, <2>2
<1>3. ASSUME OnCoinsReceived PROVE Same
  BY <1>3 DEF OnCoinsReceived
<1>4. ASSUME ReplaceRequest PROVE Same
  BY <1>4 DEF ReplaceRequest
<1>5. ASSUME PutPaidToAddress PROVE Same
  BY <1>5 DEF PutPaidToAddress
<1>6. ASSUME RemoveRequest PROVE Same
  BY <1>6 DEF RemoveRequest, Paid
<1>7. ASSUME FinishEvent PROVE Same
  BY <1>7 DEF FinishEvent
<1>8. Same => UNCHANGED Promise!vars
  <2> SUFFICES ASSUME Same PROVE UNCHANGED Promise!vars
    OBVIOUS
  <2>1. \A b \in Addresses : Paid(b)' <=> Paid(b)
    BY DEF Paid
  <2>2. \A b \in Addresses : Status(b)' = Status(b)
    BY <2>1, StatusSame
  <2> QED BY <2>2, OrdersStutter
<1> HIDE DEF Same
<1> QED BY <1>1, <1>2, <1>3, <1>4, <1>5, <1>6, <1>7, <1>8

\* Nor do these.
LEMMA OrdersRest ==
  ASSUME \/ \E a \in Addresses : ExpireReceived(a)
         \/ Confirm \/ AddEventListener \/ FinishStart \/ UNCHANGED vars
  PROVE  UNCHANGED Promise!vars
<1>1. UNCHANGED <<sent, again, told, ordered, paidServices, paymentRequests, thread>>
  BY DEF ExpireReceived, Confirm, AddEventListener, FinishStart, vars,
         walletVars, pageVars, cacheVars
<1>2. \A b \in Addresses : Status(b)' = Status(b)
  BY <1>1 DEF Status, Waits, Paid, Completing
<1> QED BY <1>1, <1>2, OrdersStutter

LEMMA OrdersPlace ==
  ASSUME OrdersInv, NEW a \in Addresses, RequestPayment(a)
  PROVE  Promise!Place(a)
<1> USE DEF RequestPayment, walletVars
<1>1. UNCHANGED <<sent, again, told, paidServices, thread>>
  OBVIOUS
<1>2. \A b \in Addresses \ {a} : Status(b)' = Status(b)
  BY DEF Status, Waits, Paid, Completing
<1>3. ~ Paid(a)'
  BY NilFacts DEF Paid, OrdersInv, PriceInv, KeepInv, Types
<1>4. Status(a) = "none" /\ Status(a)' = "waiting"
  BY <1>3, StatusCases DEF StatusSays, Waits
<1> QED BY <1>1, <1>2, <1>4, OrdersMove DEF Promise!Place

LEMMA OrdersDeliver ==
  ASSUME OneOrderEach, OrdersInv, PutPaidService,
         NEW a \in Addresses, a = thread.address
  PROVE  [Promise!Next]_(Promise!vars)
<1> USE DEF PutPaidService, OrdersInv, PriceInv, KeepInv, Types, ThreadOK,
            walletVars, pageVars, cacheVars
<1>1. /\ UNCHANGED <<sent, again, told, ordered, paymentRequests>>
      /\ a \in ordered /\ thread.tx \in Txids
      /\ paidServices' = [paidServices EXCEPT ![thread.tx] = a]
  OBVIOUS
<1>2. paidServices[thread.tx] \in {a, Nil}
  BY DEF MoveInv, RecordOK, OneOrderEach, Payees
<1>3. \A b \in Addresses \ {a} : Paid(b)' <=> Paid(b)
  BY <1>1, <1>2, NilFacts DEF Paid
<1>4. \A b \in Addresses \ {a} : Waits(b)' <=> Waits(b)
  BY <1>1 DEF Waits, Completing
<1>5. \A b \in Addresses \ {a} : Status(b)' = Status(b)
  BY <1>1, <1>3, <1>4, StatusSame
<1>6. Paid(a)' /\ Status(a)' = "delivered"
  <2>1. Paid(a)'
    BY <1>1 DEF Paid
  <2> QED BY <1>1, <2>1, StatusCases DEF StatusSays
<1>7. CASE Paid(a)
  <2>1. Status(a) = "delivered"
    BY <1>1, <1>7, StatusCases DEF StatusSays
  <2> QED BY <1>1, <1>5, <1>6, <2>1, OrdersStutter
<1>8. CASE ~ Paid(a)
  <2>1. Status(a) = "waiting"
    BY <1>1, <1>8, StatusCases DEF StatusSays, Waits, Completing
  <2>2. Promise!Funded(a)
    BY <1>1, CompletingIsFunded
       DEF Promise!Funded, FundedHere
  <2>3. Promise!Deliver(a)
    BY <1>1, <1>5, <1>6, <2>1, <2>2, OrdersMove DEF Promise!Deliver
  <2> QED BY <1>1, <2>3 DEF Promise!Next
<1> QED BY <1>7, <1>8

\* A request that expires, or a thread that dies, can end an order's wait.
LEMMA OrdersDrop ==
  ASSUME OrdersInv, NEW a \in Addresses,
         UNCHANGED <<sent, again, told, ordered, paidServices>>,
         \A b \in Addresses \ {a} : Paid(b) \/ (Waits(b)' <=> Waits(b)),
         Waits(a)' => Waits(a)
  PROVE  [Promise!Next]_(Promise!vars)
<1>1. \A b \in Addresses : Paid(b)' <=> Paid(b)
  BY DEF Paid
<1>2. \A b \in Addresses \ {a} : Status(b)' = Status(b)
  BY <1>1, StatusSame
<1>3. CASE Paid(a) \/ (Waits(a)' <=> Waits(a))
  <2>1. Status(a)' = Status(a)
    BY <1>1, <1>3, StatusSame
  <2> QED BY <1>2, <2>1, OrdersStutter
<1>4. CASE ~ Paid(a) /\ Waits(a) /\ ~ Waits(a)'
  <2>1. a \in ordered
    BY <1>4 DEF Waits, Completing, OrdersInv, PriceInv, KeepInv, Types, ThreadOK
  <2>2. Status(a) = "waiting" /\ Status(a)' = "dropped"
    BY <1>1, <1>4, <2>1, StatusCases DEF StatusSays
  <2>3. Promise!Drop(a)
    BY <1>2, <2>2, OrdersMove DEF Promise!Drop
  <2> QED BY <2>3 DEF Promise!Next
<1> QED BY <1>3, <1>4

LEMMA OrdersExpire ==
  ASSUME OrdersInv, NEW a \in Addresses, ExpireRequest(a)
  PROVE  [Promise!Next]_(Promise!vars)
<1>1. /\ UNCHANGED <<sent, again, told, ordered, paidServices, thread>>
      /\ paymentRequests' = paymentRequests \ {a}
  BY DEF ExpireRequest, walletVars
<1>2. /\ \A b \in Addresses \ {a} : Waits(b)' <=> Waits(b)
      /\ Waits(a)' => Waits(a)
  BY <1>1 DEF Waits, Completing
<1> QED BY <1>1, <1>2, OrdersDrop

LEMMA OrdersCrash ==
  ASSUME OrdersInv, Crash
  PROVE  [Promise!Next]_(Promise!vars)
<1>1. /\ UNCHANGED <<sent, again, told, ordered, paidServices, paymentRequests>>
      /\ thread' = Idle
  BY DEF Crash, pageVars
<1>2. \A b \in Addresses : Waits(b)' <=> b \in paymentRequests
  BY <1>1 DEF Waits, Completing, Idle
<1>3. CASE \E a \in Addresses : thread.address = a
  <2>1. PICK a \in Addresses : thread.address = a
    BY <1>3
  <2>2. \A b \in Addresses \ {a} : Waits(b)' <=> Waits(b)
    BY <1>2, <2>1 DEF Waits, Completing
  <2>3. Waits(a)' => Waits(a)
    BY <1>2 DEF Waits
  <2> QED BY <1>1, <2>2, <2>3, OrdersDrop
<1>4. CASE ~ \E a \in Addresses : thread.address = a
  <2>1. \A b \in Addresses : Waits(b)' <=> Waits(b)
    BY <1>2, <1>4 DEF Waits, Completing
  <2>2. \A b \in Addresses : Paid(b)' <=> Paid(b)
    BY <1>1 DEF Paid
  <2>3. \A b \in Addresses : Status(b)' = Status(b)
    BY <1>1, <2>1, <2>2, StatusSame
  <2> QED BY <1>1, <2>3, OrdersStutter
<1> QED BY <1>3, <1>4

\* Money comes for orders that were placed.
LEMMA OrdersArrive ==
  ASSUME OrdersInv, OrdersInv', NEW tx \in Txids, Receive(tx)
  PROVE  Promise!Arrive
<1>1. /\ UNCHANGED <<ordered, told, paidServices, paymentRequests, thread>>
      /\ sent' = sent \cup {tx} /\ again \subseteq again'
      /\ again' \subseteq again \cup {tx}
      /\ Payees(tx) \subseteq ordered
  BY DEF Receive, cacheVars, pageVars
<1>2. \A a \in Addresses : Status(a)' = Status(a)
  BY <1>1 DEF Status, Waits, Paid, Completing
<1>3. \A a \in Addresses :
        Counted(a) \in Nat /\ Counted(a)' \in Nat /\ Counted(a) <= Counted(a)'
  BY <1>1, CountedGrows DEF OrdersInv, PriceInv
<1>4. \A a \in Addresses : CountedTwice(a) => CountedTwice(a)'
  BY <1>1 DEF CountedTwice
<1>5. ASSUME NEW a \in Addresses, Status(a) = "none"
      PROVE  Counted(a)' = Counted(a) /\ (CountedTwice(a)' <=> CountedTwice(a))
  <2>1. a \notin Payees(tx)
    BY <1>1, <1>5, StatusCases DEF StatusSays
  <2>2. CountedTwice(a)' <=> CountedTwice(a)
    BY <1>1, <2>1 DEF CountedTwice, Payees
  <2>3. CASE tx \in sent
    <3>1. UNCHANGED sent
      BY <1>1, <2>3
    <3> QED BY <2>2, <3>1, CountedSame
  <2>4. CASE tx \notin sent
    <3>1. sent \in SUBSET Txids /\ IsFiniteSet(sent)
      BY DEF OrdersInv, PriceInv, WalletOK
    <3>2. Sum(CreditBy(a), sent \cup {tx})
            = Credit(tx, a) + Sum(CreditBy(a), sent)
      BY <2>4, <3>1, CreditsAdd
    <3>3. Sum(CreditBy(a), sent) \in Nat /\ Credit(tx, a) = 0
      BY <2>1, <3>1, CreditsType, CreditType
    <3>4. Sum(CreditBy(a), sent') = Sum(CreditBy(a), sent)
      BY <1>1, <3>2, <3>3
    <3>5. /\ Counted(a) = Sum(CreditBy(a), sent)
          /\ Counted(a)' = Sum(CreditBy(a), sent')
      BY DEF Counted, CreditBy, Credit, ValueSentToMe, Payees, Sum
    <3> QED BY <2>2, <3>4, <3>5
  <2> QED BY <2>3, <2>4
<1> QED BY <1>1, <1>2, <1>3, <1>4, <1>5 DEF Promise!Arrive

LEMMA OrdersTell ==
  ASSUME OrdersInv, NEW a \in Addresses, PaymentPoll(a)
  PROVE  Promise!Tell(a)
<1>1. /\ UNCHANGED <<sent, again, ordered, paidServices, paymentRequests, thread>>
      /\ told' = told \cup {a}
  BY DEF PaymentPoll, cacheVars, walletVars
<1>2. \A b \in Addresses : Status(b)' = Status(b)
  BY <1>1 DEF Status, Waits, Paid, Completing
<1>3. FundedHere(a)
  BY DEF PaymentPoll, OrdersInv, NoticeOK
<1>4. Promise!Funded(a)
  BY <1>3 DEF Promise!Funded, FundedHere
<1> QED BY <1>1, <1>2, <1>4, CountedSame DEF Promise!Tell, CountedTwice, Payees

\* Payments implements Orders: each step of a page, of the wallet's thread, of
\* the caches' expiry or of a crash is a step of one order, or money that comes,
\* or none.
THEOREM OrdersCorrect ==
  ASSUME OneOrderEach
  PROVE  Spec => ImplementsOrders
<1>1. Init => Promise!Init
  <2> SUFFICES ASSUME Init PROVE Promise!Init
    OBVIOUS
  <2>1. \A a \in Addresses : Status(a) = "none"
    BY StatusCases DEF Init, StatusSays
  <2>2. \A a \in Addresses : Counted(a) = 0
    <3> SUFFICES ASSUME NEW a \in Addresses PROVE Counted(a) = 0
      OBVIOUS
    <3>1. Sum(CreditBy(a), {}) = 0
      BY FS_EmptySet, SumStep
    <3> QED BY <3>1 DEF Init, Counted, CreditBy, Sum
  <2>3. \A a \in Addresses : ~ CountedTwice(a)
    BY DEF Init, CountedTwice
  <2> QED BY <2>1, <2>2, <2>3 DEF Init, Promise!Init
<1>2. ASSUME OrdersInv, OrdersInv', [Next]_vars
      PROVE  [Promise!Next]_(Promise!vars)
  <2> USE <1>2
  <2> DEFINE Done == [Promise!Next]_(Promise!vars)
  <2>1. ASSUME NEW a \in Addresses, RequestPayment(a) PROVE Done
    BY <2>1, OrdersPlace DEF Promise!Next
  <2>2. ASSUME NEW a \in Addresses, PaymentPoll(a) PROVE Done
    BY <2>2, OrdersTell DEF Promise!Next
  <2>3. ASSUME NEW a \in Addresses, ExpireRequest(a) PROVE Done
    BY <2>3, OrdersExpire
  <2>4. ASSUME NEW tx \in Txids, Receive(tx) PROVE Done
    BY <2>4, OrdersArrive DEF Promise!Next
  <2>5. ASSUME PutPaidService PROVE Done
    <3>1. PICK a \in Addresses : a = thread.address
      BY <2>5 DEF PutPaidService, OrdersInv, PriceInv, KeepInv, Types, ThreadOK
    <3> QED BY <2>5, <3>1, OrdersDeliver
  <2>6. ASSUME Crash PROVE Done
    BY <2>6, OrdersCrash
  <2>7. ASSUME \/ \E a \in Addresses : SkipOutput(a) \/ AddPayment(a)
               \/ OnCoinsReceived \/ ReplaceRequest \/ PutPaidToAddress
               \/ RemoveRequest \/ FinishEvent
        PROVE  Done
    BY <2>7, OrdersThread
  <2>8. ASSUME \/ \E a \in Addresses : ExpireReceived(a)
               \/ Confirm \/ AddEventListener \/ FinishStart \/ UNCHANGED vars
        PROVE  Done
    BY <2>8, OrdersRest
  <2> HIDE DEF Done
  <2>9. ASSUME WalletStep PROVE Done
    BY <2>5, <2>7, <2>9 DEF WalletStep
  <2>10. Done
    BY <2>1, <2>2, <2>3, <2>4, <2>6, <2>8, <2>9 DEF Next
  <2> QED BY <2>10 DEF Done
<1> QED BY <1>1, <1>2, OrdersInvCorrect, PTL DEF Spec, ImplementsOrders, Promise!Spec
=============================================================================
