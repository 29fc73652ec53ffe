---------------------------- MODULE PoppocProofs ----------------------------
(***************************************************************************)
(* Proofs about the shop and the login together.  Every behaviour of       *)
(* Poppoc is one of Payments and, at the same time, one of PopLogin, so    *)
(* what is proved of the two holds here; what is left to prove is the link *)
(* between completed and paidServices, their two views of one cache.       *)
(***************************************************************************)
EXTENDS Poppoc, TLAPS

PayP == INSTANCE PaymentProofs WITH
          paidServices <- completed, Faults <- PaymentFaults, MaxLost <- 0

\* Poppoc has no orderly restart, and its paid services do not expire.
NeverHere == {"redeploy", "expirePaidService"}
LoginP == INSTANCE PopLoginTicketProofs WITH Faults <- LoginFaults \ NeverHere

-----------------------------------------------------------------------------
(* Pay and PayP define the same: first the sums, then the steps.           *)

LEMMA SameSum ==
  ASSUME NEW f, NEW S
  PROVE  /\ Pay!SumFunctionOnSet(f, S) = PayP!SumFunctionOnSet(f, S)
         /\ PayP!SumFunctionOnSet(f, S) = SumFunctionOnSet(f, S)
<1> USE DEF SumFunctionOnSet, FoldFunctionOnSet, MapThenFoldSet,
            PayP!SumFunctionOnSet, PayP!FoldFunctionOnSet, PayP!MapThenFoldSet
<1>1. Pay!SumFunctionOnSet(f, S) = PayP!SumFunctionOnSet(f, S)
  BY DEF Pay!SumFunctionOnSet, Pay!FoldFunctionOnSet, Pay!MapThenFoldSet
<1>2. PayP!SumFunctionOnSet(f, S) = SumFunctionOnSet(f, S)
  OBVIOUS
<1> QED BY <1>1, <1>2

LEMMA SameSize ==
  ASSUME NEW S
  PROVE  /\ Pay!Cardinality(S) = PayP!Cardinality(S)
         /\ Pay!IsFiniteSet(S) <=> PayP!IsFiniteSet(S)
BY DEF Pay!Cardinality, PayP!Cardinality, Pay!IsFiniteSet, PayP!IsFiniteSet

LEMMA SameValue == \A tx : Pay!ValueSentToMe(tx) = PayP!ValueSentToMe(tx)
BY SameSum
   DEF Pay!ValueSentToMe, PayP!ValueSentToMe, Pay!Payees, PayP!Payees

LEMMA SameCounted == \A a : PayP!Counted(a) = Counted(a)
BY SameSum, SameValue DEF PayP!Counted, PayP!Credit, Counted

LEMMA SameFunds == Pay!SendFunds <=> PayP!SendFunds
<1>1. Pay!Balance = PayP!Balance
  BY SameSum, SameValue
     DEF Pay!Balance, PayP!Balance, Pay!SumFunction, PayP!SumFunction
<1> QED BY <1>1 DEF Pay!SendFunds, PayP!SendFunds, Pay!fundsVars, PayP!fundsVars

LEMMA PaymentHalf ==
  ASSUME PaymentStep \/ PutPaidService \/ Crash
  PROVE  PayP!Next
<1> USE DEF Pay!Payees, PayP!Payees, Pay!AtOutput, PayP!AtOutput,
            Pay!OneLess, PayP!OneLess, Pay!Serving, PayP!Serving,
            Pay!Listening, PayP!Listening, Pay!Idle, PayP!Idle,
            Pay!IsPaidFor, PayP!IsPaidFor, Pay!NextStep, PayP!NextStep,
            Pay!cacheVars, PayP!cacheVars, Pay!fundsVars, PayP!fundsVars,
            Pay!walletVars, PayP!walletVars, Pay!pageVars, PayP!pageVars
<1>1. \A a \in Addresses : Pay!RequestPayment(a) => PayP!RequestPayment(a)
  BY DEF Pay!RequestPayment, PayP!RequestPayment
<1>2. \A a \in Addresses : Pay!PaymentPoll(a) => PayP!PaymentPoll(a)
  BY DEF Pay!PaymentPoll, PayP!PaymentPoll
<1>3. \A a \in Addresses : Pay!SkipOutput(a) => PayP!SkipOutput(a)
  BY DEF Pay!SkipOutput, PayP!SkipOutput
<1>4. \A a \in Addresses : Pay!AddPayment(a) => PayP!AddPayment(a)
  BY SameValue DEF Pay!AddPayment, PayP!AddPayment
<1>5. \A tx \in Txids : Pay!Receive(tx) => PayP!Receive(tx)
  BY DEF Pay!Receive, PayP!Receive
<1>6. Pay!Confirm => PayP!Confirm
  BY DEF Pay!Confirm, PayP!Confirm
<1>7. Pay!OnCoinsReceived => PayP!OnCoinsReceived
  BY DEF Pay!OnCoinsReceived, PayP!OnCoinsReceived
<1>8. Pay!ReplaceRequest => PayP!ReplaceRequest
  BY DEF Pay!ReplaceRequest, PayP!ReplaceRequest
<1>9. Pay!PutPaidToAddress => PayP!PutPaidToAddress
  BY DEF Pay!PutPaidToAddress, PayP!PutPaidToAddress
<1>10. Pay!PutPaidService => PayP!PutPaidService
  BY DEF Pay!PutPaidService, PayP!PutPaidService
<1>11. Pay!RemoveRequest => PayP!RemoveRequest
  BY DEF Pay!RemoveRequest, PayP!RemoveRequest
<1>12. Pay!AddEventListener => PayP!AddEventListener
  BY DEF Pay!AddEventListener, PayP!AddEventListener
<1>13. Pay!Crash => PayP!Crash
  BY SameSize DEF Pay!Crash, PayP!Crash
<1>14. Pay!FinishEvent => PayP!FinishEvent
  BY SameFunds DEF Pay!FinishEvent, PayP!FinishEvent
<1>15. Pay!FinishStart => PayP!FinishStart
  BY SameFunds DEF Pay!FinishStart, PayP!FinishStart
<1> QED BY <1>1, <1>2, <1>3, <1>4, <1>5, <1>6, <1>7, <1>8, <1>9, <1>10, <1>11, <1>12, <1>13, <1>14, <1>15
        DEF PaymentStep, PutPaidService, Crash, PayP!Next, PayP!WalletStep

LEMMA LoginHalf ==
  ASSUME LoginStep \/ PutPaidService \/ Crash, PayP!ThreadOK
  PROVE  LoginP!Next
<1> USE DEF Login!storageVars, LoginP!storageVars, Login!sessionVars,
            LoginP!sessionVars, Login!browserVars, LoginP!browserVars,
            Login!Nonces, LoginP!Nonces, Login!RequestIds,
            LoginP!RequestIds, Login!IdlePost, LoginP!IdlePost,
            Login!IdlePoll, LoginP!IdlePoll, Login!PostedId,
            LoginP!PostedId, Login!PaysForCorrectService,
            LoginP!PaysForCorrectService, Login!ValidPop, LoginP!ValidPop,
            Login!CanUpdate, LoginP!CanUpdate, Login!SessionAwaits,
            LoginP!SessionAwaits, Login!IdsInUse, LoginP!IdsInUse,
            Login!LoadStorage, LoginP!LoadStorage, Login!NoSession,
            LoginP!NoSession, Login!IsSameServiceType,
            LoginP!IsSameServiceType, Login!AcceptsUpdate,
            LoginP!AcceptsUpdate, Login!Update, LoginP!Update,
            Login!ServiceIds, LoginP!ServiceIds, Login!SimpleId,
            LoginP!SimpleId, Login!PayMessId, LoginP!PayMessId, ServiceIds,
            SimpleId, PayMessId, NeverHere
<1>1. \A n \in Login!Nonces : Login!AnswerBrowser(n) => LoginP!AnswerBrowser(n)
  BY DEF Login!AnswerBrowser, LoginP!AnswerBrowser
<1>2. \A n \in Login!Nonces : Login!StartPoll(n) => LoginP!StartPoll(n)
  BY DEF Login!StartPoll, LoginP!StartPoll
<1>3. \A n \in Login!Nonces : Login!TakeVerifiedPop(n) => LoginP!TakeVerifiedPop(n)
  BY DEF Login!TakeVerifiedPop, LoginP!TakeVerifiedPop
<1>4. \A n \in Login!Nonces : Login!GrantAccess(n) => LoginP!GrantAccess(n)
  BY DEF Login!GrantAccess, LoginP!GrantAccess
<1>5. \A r \in Login!RequestIds : Login!ExpirePopRequest(r) => LoginP!ExpirePopRequest(r)
  BY DEF Login!ExpirePopRequest, LoginP!ExpirePopRequest
<1>6. \A r \in Login!RequestIds : Login!ExpireVerifiedPop(r) => LoginP!ExpireVerifiedPop(r)
  BY DEF Login!ExpireVerifiedPop, LoginP!ExpireVerifiedPop
<1>7. \A w \in Workers : Login!AcceptPop(w) => LoginP!AcceptPop(w)
  BY DEF Login!AcceptPop, LoginP!AcceptPop
<1>8. \A w \in Workers : Login!RejectPop(w) => LoginP!RejectPop(w)
  BY DEF Login!RejectPop, LoginP!RejectPop
<1>9. \A w \in Workers : Login!ClaimRequest(w) => LoginP!ClaimRequest(w)
  BY DEF Login!ClaimRequest, LoginP!ClaimRequest
<1>10. \A w \in Workers : Login!CheckVerified(w) => LoginP!CheckVerified(w)
  BY DEF Login!CheckVerified, LoginP!CheckVerified
<1>11. \A w \in Workers : Login!CheckInvalidated(w) => LoginP!CheckInvalidated(w)
  BY DEF Login!CheckInvalidated, LoginP!CheckInvalidated
<1>12. \A w \in Workers : Login!FailNullRequest(w) => LoginP!FailNullRequest(w)
  BY DEF Login!FailNullRequest, LoginP!FailNullRequest
<1>13. \A w \in Workers : Login!UpdateService(w) => LoginP!UpdateService(w)
  BY DEF Login!UpdateService, LoginP!UpdateService
<1>14. \A w \in Workers : Login!FailUpdate(w) => LoginP!FailUpdate(w)
  BY DEF Login!FailUpdate, LoginP!FailUpdate
<1>15. \A w \in Workers : Login!ReplacePaidService(w) => LoginP!ReplacePaidService(w)
  BY DEF Login!ReplacePaidService, LoginP!ReplacePaidService
<1>16. \A w \in Workers : Login!PutVerifiedPop(w) => LoginP!PutVerifiedPop(w)
  BY DEF Login!PutVerifiedPop, LoginP!PutVerifiedPop
<1>17. \A s \in Sessions, svc \in Asked :
        Login!StoreRequest(s, svc) => LoginP!StoreRequest(s, svc)
  BY DEF Login!StoreRequest, LoginP!StoreRequest
<1>18. \A w \in Workers, k \in Login!Nonces, tx \in Txids :
        Login!ReceivePop(w, k, tx) => LoginP!ReceivePop(w, k, tx)
  BY DEF Login!ReceivePop, LoginP!ReceivePop
<1>19. \A s \in Sessions, k \in ServiceIds : Login!Logout(s, k) => LoginP!Logout(s, k)
  BY DEF Login!Logout, LoginP!Logout
<1>20. \A tx : Login!StorePayment(tx) => LoginP!StorePayment(tx)
  BY DEF Login!StorePayment, LoginP!StorePayment
<1>21. Login!Crash => LoginP!Crash
  BY DEF Login!Crash, LoginP!Crash
<1>22. CASE LoginStep
  BY <1>22, <1>1, <1>2, <1>3, <1>4, <1>5, <1>6, <1>7, <1>8, <1>9, <1>10, <1>11, <1>12, <1>13, <1>14, <1>15, <1>16, <1>17, <1>18, <1>19 DEF LoginStep, LoginP!Next, LoginP!PopStep, Login!PopStep
<1>23. CASE PutPaidService
  <2>1. thread.tx \in Txids
    BY <1>23 DEF PutPaidService, Pay!PutPaidService, PayP!ThreadOK
  <2> QED BY <1>23, <1>20, <2>1 DEF PutPaidService, LoginP!Next
<1>24. CASE Crash
  BY <1>24, <1>21 DEF Crash, LoginP!Next
<1> QED BY <1>22, <1>23, <1>24

-----------------------------------------------------------------------------
(* Both halves.                                                            *)

LEMMA PaymentParts ==
  /\ PayP!PriceAssumption /\ PayP!PaysAssumption /\ PayP!OutputsAssumption
  /\ PayP!FundsAssumption /\ PayP!BoundAssumption /\ PayP!NilAssumption
  /\ PayP!FaultAssumption
<1> USE PartsAssumption
<1>1. PayP!PriceAssumption /\ PayP!PaysAssumption
  BY DEF Pay!PriceAssumption, PayP!PriceAssumption,
         Pay!PaysAssumption, PayP!PaysAssumption, Pay!Payees, PayP!Payees
<1>2. PayP!OutputsAssumption
  BY SameSize DEF Pay!OutputsAssumption, PayP!OutputsAssumption,
                  Pay!Payees, PayP!Payees
<1>3. PayP!FundsAssumption /\ PayP!BoundAssumption /\ PayP!NilAssumption
  BY DEF Pay!FundsAssumption, PayP!FundsAssumption, PayP!BoundAssumption,
         Pay!NilAssumption, PayP!NilAssumption
<1>4. PayP!FaultAssumption
  BY DEF Pay!FaultAssumption, PayP!FaultAssumption, Pay!AllFaults, PayP!AllFaults
<1> QED BY <1>1, <1>2, <1>3, <1>4

LEMMA LoginParts ==
  LoginP!NilAssumption /\ LoginP!BoundAssumption /\ LoginP!ShopAssumption
<1> USE PartsAssumption
        DEF Login!Nonces, LoginP!Nonces, Login!RequestIds, LoginP!RequestIds,
            Login!ServiceIds, LoginP!ServiceIds, Login!SimpleId, LoginP!SimpleId,
            Login!PayMessId, LoginP!PayMessId
<1>0. Login!ServiceTypes = LoginP!ServiceTypes
  BY DEF Login!ServiceTypes, LoginP!ServiceTypes, Login!SimpleService,
         LoginP!SimpleService, Login!PayMessServices, LoginP!PayMessServices,
         Login!PayMessService, LoginP!PayMessService
<1>1. LoginP!NilAssumption
  BY <1>0 DEF Login!NilAssumption, LoginP!NilAssumption
<1>2. LoginP!BoundAssumption
  BY DEF Login!BoundAssumption, LoginP!BoundAssumption
<1>3. LoginP!ShopAssumption
  BY <1>0 DEF Login!ShopAssumption, LoginP!ShopAssumption,
         Login!AllFaults, LoginP!AllFaults
<1> QED BY <1>1, <1>2, <1>3

LEMMA OneOrder == PayP!OneOrderEach
BY OrderAssumption DEF PayP!OneOrderEach, PayP!Payees

LEMMA InitHalves == Init => PayP!Init /\ LoginP!Init
<1>1. Pay!Init => PayP!Init
  BY DEF Pay!Init, PayP!Init, Pay!Idle, PayP!Idle
<1>2. Login!Init => LoginP!Init
  BY DEF Login!Init, LoginP!Init, Login!Nonces, LoginP!Nonces,
         Login!RequestIds, LoginP!RequestIds, Login!IdlePost, LoginP!IdlePost,
         Login!IdlePoll, LoginP!IdlePoll, Login!ServiceIds, LoginP!ServiceIds,
         Login!SimpleId, LoginP!SimpleId, Login!PayMessId, LoginP!PayMessId
<1> QED BY <1>1, <1>2 DEF Init

LEMMA PayVarsStay == UNCHANGED payVars => UNCHANGED PayP!vars
BY DEF payVars, PayP!vars, PayP!cacheVars, PayP!walletVars, PayP!fundsVars,
       PayP!pageVars

LEMMA LoginVarsStay == UNCHANGED loginVars => UNCHANGED LoginP!vars
BY DEF loginVars, LoginP!vars, LoginP!storageVars, LoginP!sessionVars,
       LoginP!browserVars

\* Whatever the login does, the shop is one that Payments describes, and so
\* all that is proved of paying holds here too.
THEOREM ShopIsPayments == Spec => PayP!Spec
<1>1. ASSUME [Next]_vars PROVE [PayP!Next]_(PayP!vars)
  <2>1. CASE PaymentStep \/ PutPaidService \/ Crash
    BY <2>1, PaymentHalf
  <2>2. CASE LoginStep \/ UNCHANGED vars
    BY <2>2, PayVarsStay DEF LoginStep, vars
  <2> QED BY <1>1, <2>1, <2>2 DEF Next
<1> QED BY <1>1, InitHalves, PTL DEF Spec, PayP!Spec

LEMMA KeepAlways == Spec => []PayP!KeepInv
BY ShopIsPayments, PaymentParts, PayP!KeepCorrect, PTL

\* Whatever the shop does, the login is one that PopLogin describes: the
\* wallet's thread stores a payment once, and a crash stops both.
THEOREM LoginIsPopLogin == Spec => LoginP!Spec
<1>1. ASSUME PayP!KeepInv, [Next]_vars PROVE [LoginP!Next]_(LoginP!vars)
  <2>1. CASE LoginStep \/ PutPaidService \/ Crash
    BY <1>1, <2>1, LoginHalf DEF PayP!KeepInv
  <2>2. CASE PaymentStep \/ UNCHANGED vars
    BY <2>2, LoginVarsStay DEF PaymentStep, vars
  <2> QED BY <1>1, <2>1, <2>2 DEF Next
<1> QED BY <1>1, InitHalves, KeepAlways, PTL DEF Spec, LoginP!Spec

LEMMA MoveAlways == Spec => []PayP!MoveInv
BY ShopIsPayments, PaymentParts, OneOrder, PayP!MoveCorrect, PTL

LEMMA UnpaidAlways == Spec => []PayP!NoServiceUnpaid
BY ShopIsPayments, PaymentParts, PayP!NoServiceUnpaidCorrect, PTL

LEMMA NoneLostAlways == Spec => []PayP!NoneLost
<1>1. 0 = 0
  OBVIOUS
<1> QED BY <1>1, ShopIsPayments, PaymentParts, PayP!NoneLostCorrect, PTL

\* With logins going on, the shop still delivers or drops each order for good.
THEOREM OrdersKept == Spec => PayP!ImplementsOrders
BY ShopIsPayments, PaymentParts, OneOrder, PayP!OrdersCorrect, PTL

LEMMA LoginAlways == Spec => [](LoginP!CreditInv /\ LoginP!AccessInv)
<1>1. "redeploy" \notin LoginFaults \ NeverHere
  BY DEF NeverHere
<1> QED BY <1>1, LoginIsPopLogin, LoginParts, LoginP!AccessAlways, PTL

\* With payments going on, PopLogin still implements LoginTickets, so that the
\* accesses of the whole are earned one by one.
THEOREM TicketsKept == Spec => LoginP!ImplementsTickets
<1>1. "redeploy" \notin LoginFaults \ NeverHere
  BY DEF NeverHere
<1> QED BY <1>1, LoginIsPopLogin, LoginParts, LoginP!TicketsCorrect, PTL

LEMMA PaidStaysHere == Spec => []LoginP!PaidStays
<1>1. "expirePaidService" \notin LoginFaults \ NeverHere
  BY DEF NeverHere
<1> QED BY <1>1, LoginIsPopLogin, LoginParts, LoginP!PaidStaysCorrect, PTL

-----------------------------------------------------------------------------
(* The link: what is paid in the one half is on record in the other.       *)

Linked == \A tx \in Txids : tx \in paid <=> completed[tx] # Nil

LEMMA PaymentStepLinks ==
  PaymentStep => UNCHANGED <<completed, paid, expired>>
<1> USE DEF Pay!cacheVars, Pay!walletVars, Pay!fundsVars, Pay!pageVars
<1>1. ASSUME NEW a \in Addresses,
             \/ Pay!RequestPayment(a) \/ Pay!PaymentPoll(a)
             \/ Pay!SkipOutput(a) \/ Pay!AddPayment(a)
      PROVE  UNCHANGED <<completed, expired>>
  BY <1>1 DEF Pay!RequestPayment, Pay!PaymentPoll, Pay!SkipOutput, Pay!AddPayment
<1>2. ASSUME \/ \E tx \in Txids : Pay!Receive(tx)
             \/ Pay!Confirm \/ Pay!OnCoinsReceived \/ Pay!ReplaceRequest
      PROVE  UNCHANGED <<completed, expired>>
  BY <1>2 DEF Pay!Receive, Pay!Confirm, Pay!OnCoinsReceived, Pay!ReplaceRequest
<1>3. ASSUME \/ Pay!PutPaidToAddress \/ Pay!RemoveRequest \/ Pay!FinishEvent
             \/ Pay!AddEventListener \/ Pay!FinishStart
      PROVE  UNCHANGED <<completed, expired>>
  BY <1>3 DEF Pay!PutPaidToAddress, Pay!RemoveRequest, Pay!FinishEvent,
              Pay!AddEventListener, Pay!FinishStart
<1> QED BY <1>1, <1>2, <1>3 DEF PaymentStep, loginVars

LEMMA LoginStepLinks == LoginStep => UNCHANGED <<completed, paid, expired>>
<1> USE DEF Login!storageVars, Login!sessionVars, Login!browserVars
<1>1. ASSUME NEW n \in Login!Nonces,
             \/ Login!AnswerBrowser(n) \/ Login!StartPoll(n)
             \/ Login!TakeVerifiedPop(n) \/ Login!GrantAccess(n)
             \/ \E w \in Workers, tx \in Txids : Login!ReceivePop(w, n, tx)
      PROVE  UNCHANGED paid
  BY <1>1 DEF Login!AnswerBrowser, Login!StartPoll, Login!TakeVerifiedPop,
              Login!GrantAccess, Login!ReceivePop
<1>2. ASSUME NEW w \in Workers, Login!PopStep(w) PROVE UNCHANGED paid
  BY <1>2 DEF Login!PopStep, Login!AcceptPop, Login!RejectPop,
     Login!ClaimRequest, Login!CheckVerified, Login!CheckInvalidated,
     Login!FailNullRequest, Login!UpdateService, Login!FailUpdate,
     Login!ReplacePaidService, Login!PutVerifiedPop
<1>3. ASSUME \/ \E s \in Sessions, svc \in Asked : Login!StoreRequest(s, svc)
             \/ \E s \in Sessions, k \in ServiceIds : Login!Logout(s, k)
             \/ \E r \in Login!RequestIds :
                  Login!ExpirePopRequest(r) \/ Login!ExpireVerifiedPop(r)
      PROVE  UNCHANGED paid
  BY <1>3 DEF Login!StoreRequest, Login!Logout, Login!ExpirePopRequest,
              Login!ExpireVerifiedPop
<1> QED BY <1>1, <1>2, <1>3 DEF LoginStep, payVars

LEMMA LinkedStep ==
  ASSUME PayP!KeepInv, Linked, [Next]_vars
  PROVE  Linked'
<1>1. CASE PutPaidService
  <2>1. /\ paid' = paid \cup {thread.tx}
        /\ completed' = [completed EXCEPT ![thread.tx] = thread.address]
    BY <1>1 DEF PutPaidService, Pay!PutPaidService, Login!StorePayment
  <2>2. thread.address # Nil
    <3>1. thread.address \in Addresses
      BY <1>1 DEF PutPaidService, Pay!PutPaidService, PayP!KeepInv,
                  PayP!Types, PayP!ThreadOK
    <3> QED BY <3>1, PaymentParts DEF PayP!NilAssumption
  <2>3. completed \in [Txids -> ordered \cup {Nil}]
    BY DEF PayP!KeepInv, PayP!Types
  <2> QED BY <2>1, <2>2, <2>3 DEF Linked
<1>2. CASE PaymentStep \/ LoginStep
  BY <1>2, PaymentStepLinks, LoginStepLinks DEF Linked
<1>3. CASE Crash
  BY <1>3 DEF Crash, Pay!Crash, Login!Crash, Login!browserVars, Linked
<1>4. CASE UNCHANGED vars
  BY <1>4 DEF vars, payVars, loginVars, Linked
<1> QED BY <1>1, <1>2, <1>3, <1>4 DEF Next

LEMMA LinkedAlways == Spec => []Linked
<1>1. Init => Linked
  BY DEF Init, Pay!Init, Login!Init, Linked
<1>2. PayP!KeepInv /\ Linked /\ [Next]_vars => Linked'
  BY LinkedStep
<1> QED BY <1>1, <1>2, KeepAlways, PTL DEF Spec

\* No order expires here.
NoExpiry == expired = {}

LEMMA NoneExpired == Spec => []NoExpiry
<1>1. Init => NoExpiry
  BY DEF Init, Pay!Init, NoExpiry
<1>2. NoExpiry /\ [Next]_vars => NoExpiry'
  <2>1. PutPaidService \/ Crash => UNCHANGED expired
    BY DEF PutPaidService, Pay!PutPaidService, Crash, Pay!Crash, Pay!pageVars
  <2>2. PaymentStep \/ LoginStep \/ UNCHANGED vars => UNCHANGED expired
    BY PaymentStepLinks, LoginStepLinks DEF vars, payVars
  <2> QED BY <2>1, <2>2 DEF Next, NoExpiry
<1> QED BY <1>1, <1>2, PTL DEF Spec

\* The order on record for a transaction is the one that it paid for.
LEMMA PaidForIt ==
  ASSUME PayP!MoveInv, NEW tx \in Txids, completed[tx] \in Addresses
  PROVE  Service[completed[tx]] = Ordered[tx]
<1>1. Outputs[tx][completed[tx]] > 0
  BY PaymentParts DEF PayP!MoveInv, PayP!RecordOK, PayP!Payees, PayP!NilAssumption
<1>2. PICK a \in Addresses : \A b \in Addresses : Outputs[tx][b] > 0 <=> b = a
  BY OrderAssumption
<1>3. (CHOOSE b \in Addresses : Outputs[tx][b] > 0) = a /\ completed[tx] = a
  BY <1>1, <1>2
<1> QED BY <1>3 DEF Ordered

\* A page behind a login opens only after the price was paid: whoever has
\* access made a request for a service that was ordered, with payments sent to
\* its address that count for its price, whatever the orders, transactions,
\* sessions, threads and crashes.
THEOREM AccessIsPaidCorrect == Spec => []AccessIsPaid
<1>1. ASSUME PayP!MoveInv, PayP!NoServiceUnpaid, PayP!NoneLost,
             LoginP!CreditInv, LoginP!AccessInv, Linked
      PROVE  AccessIsPaid
  <2>1. SUFFICES ASSUME NEW s \in Sessions, NEW k \in ServiceIds,
                        authorizedFor[s][k] # Nil
                 PROVE  \E a \in ordered :
                          /\ IsSameServiceType(Service[a],
                               request[authorizedFor[s][k]].svc)
                          /\ Counted(a) >= Price[a]
    BY DEF AccessIsPaid
  <2> DEFINE asked == request[authorizedFor[s][k]].svc
  <2>2. k \in LoginP!ServiceIds
    BY DEF LoginP!ServiceIds, LoginP!SimpleId, LoginP!PayMessId,
           ServiceIds, SimpleId, PayMessId
  <2>3. PICK tx \in paid : LoginP!IsSameServiceType(Ordered[tx], asked)
    BY <1>1, <2>1, <2>2 DEF LoginP!AccessInv, LoginP!OwnAccess
  <2>4. IsSameServiceType(Ordered[tx], asked)
    BY <2>3 DEF LoginP!IsSameServiceType, IsSameServiceType,
                LoginP!PayMessId, PayMessId
  <2> DEFINE a == completed[tx]
  <2>5. tx \in Txids /\ a \in ordered /\ a \in Addresses
    <3>1. tx \in Txids /\ a # Nil
      BY <1>1, <2>3 DEF Linked, LoginP!CreditInv, LoginP!TypeOK, LoginP!BrowserOK
    <3> QED
      BY <1>1, <3>1 DEF PayP!MoveInv, PayP!PaidInv, PayP!KeepInv, PayP!Types
  <2>6. Service[a] = Ordered[tx]
    BY <1>1, <2>5, PaidForIt
  <2>7. Counted(a) >= Price[a]
    <3>1. PayP!Counted(a) >= Price[a]
      BY <1>1, <2>5 DEF PayP!NoServiceUnpaid, PayP!Paid, PayP!NoneLost,
                            PayP!CountedTwice
    <3> QED BY <3>1, SameCounted
  <2> QED BY <2>4, <2>5, <2>6, <2>7
<1> QED
  BY <1>1, MoveAlways, UnpaidAlways, NoneLostAlways, LoginAlways, LinkedAlways, PTL

\* What a page was told is paid can be proven: the service that was ordered is
\* in paidServices under the transaction that completed its payment, through
\* any updates and restarts; if a crash hit the thread between its two puts, the
\* order still waits with its price in the file store.
THEOREM ToldIsProvableCorrect == Spec => []ToldIsProvable
<1>1. ASSUME PayP!MoveInv, LoginP!CreditInv, LoginP!PaidStays, Linked,
             NoExpiry
      PROVE  ToldIsProvable
  <2>1. SUFFICES ASSUME NEW a \in told,
                        ~(thread.address = a /\ thread.pc = "paidService"),
                        ~ /\ crashed /\ a \in paymentRequests
                          /\ storedSatoshis[a] >= Price[a]
                 PROVE  \E tx \in Txids :
                          /\ completed[tx] = a
                          /\ paidServices[tx] # Nil
                          /\ IsSameServiceType(paidServices[tx], Service[a])
    BY DEF ToldIsProvable
  <2>2. a \in Addresses
    BY <1>1 DEF PayP!MoveInv, PayP!PaidInv, PayP!KeepInv, PayP!Types
  <2>3. PICK tx \in Txids : completed[tx] = a
    BY <1>1, <2>1, <2>2
       DEF PayP!MoveInv, PayP!ToldMeansPaid, PayP!Paid, PayP!Completing,
           NoExpiry
  <2>4. tx \in paid
    BY <1>1, <2>2, <2>3, PaymentParts DEF Linked, PayP!NilAssumption
  <2>5. paidServices[tx] # Nil
    BY <1>1, <2>4 DEF LoginP!PaidStays
  <2>6. LoginP!IsSameServiceType(Ordered[tx], paidServices[tx])
    BY <1>1, <2>5 DEF LoginP!CreditInv, LoginP!SpacesStay
  <2>7. Service[a] = Ordered[tx]
    BY <1>1, <2>2, <2>3, PaidForIt
  <2>8. IsSameServiceType(paidServices[tx], Service[a])
    BY <2>6, <2>7 DEF LoginP!IsSameServiceType, IsSameServiceType,
                      LoginP!PayMessId, PayMessId
  <2> QED BY <2>3, <2>5, <2>8
<1> QED BY <1>1, MoveAlways, LoginAlways, PaidStaysHere, LinkedAlways, NoneExpired,
          PTL
=============================================================================
