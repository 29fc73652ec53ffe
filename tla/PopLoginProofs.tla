--------------------------- MODULE PopLoginProofs ---------------------------
(***************************************************************************)
(* Proofs about logging in, in three parts, each on top of the one before. *)
(* Types: what every cache, session and thread holds.  Credit: CreditInv,  *)
(* the first half of the invariant in PopLoginInvariant, and what follows  *)
(* from it: a PoP is credited to the request that it answers, and a        *)
(* transaction stands for the service that it paid for.  Access: AccessInv,*)
(* the second half, holds as long as a restart ends the sessions, and a    *)
(* session therefore has access only by a request of its own.              *)
(***************************************************************************)
EXTENDS PopLoginInvariant, TLAPS

USE DEF Nonces, RequestIds, NonceOrNil

\* Nil differs from everything that it is compared with.
LEMMA NilFacts ==
  /\ Nil \notin Int
  /\ Nil \notin Txids
  /\ Nil \notin ServiceTypes
  /\ Nil \notin VerifiedPop
  /\ Nil \notin Request
  /\ ServiceIds = {1, 2}
  /\ MaxRequests \in Nat \ {0}
BY NilAssumption, BoundAssumption
   DEF VerifiedPop, Request, ServiceIds, SimpleId, PayMessId

\* A service type is the SimpleService or a PayMessService.
LEMMA ServiceCases ==
  ASSUME NEW svc \in ServiceTypes
  PROVE  \/ svc = SimpleService /\ svc.serviceId = SimpleId
         \/ /\ \E s \in Spaces, m \in Messages : svc = PayMessService(s, m)
            /\ svc.serviceId = PayMessId
            /\ svc.space \in Spaces
            /\ svc.message \in Messages
            /\ svc = PayMessService(svc.space, svc.message)
BY DEF ServiceTypes, SimpleService, PayMessServices, PayMessService,
       SimpleId, PayMessId

\* Every service type has a service id.
LEMMA ServiceIdType ==
  ASSUME NEW svc \in ServiceTypes
  PROVE  svc.serviceId \in ServiceIds
BY ServiceCases DEF ServiceIds

\* An accepted update keeps a service type one, and keeps what it is the
\* same service as.
LEMMA UpdateKeeps ==
  ASSUME NEW bought \in ServiceTypes, NEW naked \in ServiceTypes,
         AcceptsUpdate(bought, naked)
  PROVE  /\ Update(bought, naked) \in ServiceTypes
         /\ Update(bought, naked).serviceId = bought.serviceId
         /\ \A first \in ServiceTypes :
              IsSameServiceType(first, bought) /\ IsSameServiceType(first, naked)
                => IsSameServiceType(first, Update(bought, naked))
<1>1. CASE bought = SimpleService /\ bought.serviceId = SimpleId
  <2>1. Update(bought, naked) = bought
    BY <1>1 DEF Update, SimpleId, PayMessId
  <2> QED BY <2>1
<1>2. CASE /\ bought.serviceId = PayMessId
           /\ bought = PayMessService(bought.space, bought.message)
  <2>1. naked.serviceId = PayMessId
    BY <1>2 DEF AcceptsUpdate
  <2>2. naked.space \in Spaces /\ naked.message \in Messages
    BY <2>1, ServiceCases DEF SimpleId, PayMessId
  <2>3. Update(bought, naked) = PayMessService(naked.space, naked.message)
    BY <1>2 DEF Update, PayMessService
  <2>4. Update(bought, naked) \in ServiceTypes
    BY <2>2, <2>3 DEF ServiceTypes, PayMessServices
  <2>5. /\ Update(bought, naked).serviceId = PayMessId
        /\ Update(bought, naked).space = naked.space
    BY <2>3 DEF PayMessService
  <2> QED BY <1>2, <2>4, <2>5 DEF IsSameServiceType
<1> QED BY <1>1, <1>2, ServiceCases

-----------------------------------------------------------------------------
\* Parts of TypeOK that a step leaves alone when it leaves their state alone.
LEMMA StorageFrame ==
  ASSUME StorageOK, UNCHANGED <<storageVars, drawn>> PROVE StorageOK'
BY DEF StorageOK, storageVars

LEMMA BrowserFrame ==
  ASSUME BrowserOK, UNCHANGED <<browserVars, sessionVars>> PROVE BrowserOK'
BY DEF BrowserOK, browserVars, sessionVars

LEMMA PostFrame ==
  ASSUME PostOK, UNCHANGED <<post, drawn>> PROVE PostOK'
BY DEF PostOK

LEMMA PollFrame ==
  ASSUME PollOK, UNCHANGED <<poll, urls, drawn>> PROVE PollOK'
BY DEF PollOK

\* One thread of doPost takes a step.
LEMMA PostStep ==
  ASSUME PostOK, UNCHANGED drawn, drawn \in Nat,
         NEW w \in Workers, NEW p \in PostState,
         post' = [post EXCEPT ![w] = p],
         p.pc # "idle" => p.pop \in 1 .. drawn /\ p.tx \in Txids,
         p.pc \in {"validate", "store", "claimed", "replace", "putVerified"} =>
           p.popRequest \in 1 .. drawn,
         p.pc \in {"replace", "putVerified"} => p.serviceId \in ServiceIds
  PROVE  PostOK'
BY DEF PostOK

-----------------------------------------------------------------------------
LEMMA InitType == Init => TypeOK
<1> SUFFICES ASSUME Init PROVE TypeOK
  OBVIOUS
<1> USE NilFacts DEF Init
<1>1. StorageOK
  BY ServiceIdType, ShopAssumption DEF StorageOK
<1>2. BrowserOK
  BY DEF BrowserOK
<1>3. PostOK
  BY DEF PostOK, PostState, PostSteps, IdlePost
<1>4. PollOK
  BY DEF PollOK, PollState, PollSteps, IdlePoll
<1> QED BY <1>1, <1>2, <1>3, <1>4 DEF TypeOK

LEMMA StoreRequestType ==
  ASSUME TypeOK, NEW s \in Sessions, NEW svc \in Asked, StoreRequest(s, svc)
  PROVE  TypeOK'
<1> USE NilFacts DEF TypeOK
<1>1. /\ drawn \in Nat /\ drawn + 1 \in Nonces /\ id \in RequestIds
      /\ drawn' = drawn + 1 /\ id' = id + 1
  BY DEF StorageOK, BrowserOK, StoreRequest
<1>2. [id |-> id, session |-> s, svc |-> svc] \in Request
  BY <1>1, ShopAssumption DEF Request
<1>3. StorageOK'
  <2>1. id' \in 0 .. MaxRequests
    BY <1>1 DEF StorageOK, StoreRequest
  <2>2. /\ popRequests' \in [RequestIds -> NonceOrNil]
        /\ \A r \in RequestIds : popRequests'[r] # Nil => popRequests'[r] <= drawn'
    BY <1>1 DEF StorageOK, StoreRequest
  <2>3. \A r \in RequestIds : verifiedPops[r] # Nil => verifiedPops[r].proof <= drawn'
    BY <1>1 DEF StorageOK, VerifiedPop
  <2> QED BY <2>1, <2>2, <2>3 DEF StorageOK, StoreRequest
<1>4. BrowserOK'
  <2>1. /\ request' \in [Nonces -> Request \cup {Nil}]
        /\ \A n \in Nonces : n <= drawn' => request'[n] # Nil
    BY <1>1, <1>2 DEF BrowserOK, StoreRequest
  <2>2. 1 .. drawn' = (1 .. drawn) \cup {drawn + 1}
    BY <1>1
  <2>3. creating' \subseteq 1 .. drawn' /\ urls' \subseteq 1 .. drawn'
    BY <2>2 DEF BrowserOK, StoreRequest
  <2> QED BY <1>1, <2>1, <2>3 DEF BrowserOK, StoreRequest, sessionVars
<1>5. PostOK'
  BY <1>1 DEF PostOK, StoreRequest
<1>6. PollOK'
  <2>1. \A n \in Nonces : poll[n].pc = "granting" => poll[n].verified.proof <= drawn'
    BY <1>1 DEF PollOK, PollState, VerifiedPop
  <2> QED BY <2>1 DEF PollOK, StoreRequest
<1> QED BY <1>3, <1>4, <1>5, <1>6

\* A payment puts a service under its transaction.
LEMMA StorePaymentType ==
  ASSUME TypeOK, NEW tx \in Txids, StorePayment(tx)
  PROVE  TypeOK'
<1> USE DEF TypeOK, StorePayment
<1>1. StorageOK'
  BY ShopAssumption DEF StorageOK
<1>2. BrowserOK'
  BY DEF BrowserOK, sessionVars
<1> QED BY <1>1, <1>2, PostFrame, PollFrame

LEMMA AnswerBrowserType ==
  ASSUME TypeOK, NEW n \in Nonces, AnswerBrowser(n)
  PROVE  TypeOK'
<1> USE DEF TypeOK, AnswerBrowser
<1>1. n \in 1 .. drawn /\ request[n] \in Request /\ request[n].id \in RequestIds
  BY DEF BrowserOK, Request
<1>2. BrowserOK'
  BY <1>1, NilFacts DEF BrowserOK, Request
<1>3. PollOK'
  BY DEF PollOK
<1> QED BY <1>2, <1>3, StorageFrame, PostFrame DEF storageVars

\* The steps of a thread in doPost.
LEMMA ReceivePopType ==
  ASSUME TypeOK, NEW w \in Workers, NEW n \in Nonces, NEW tx \in Txids,
         ReceivePop(w, n, tx)
  PROVE  TypeOK'
<1> USE NilFacts DEF TypeOK, ReceivePop
<1>1. /\ n \in 1 .. drawn /\ request[n].id \in RequestIds
      /\ drawn \in 0 .. MaxRequests /\ drawn \in Nat
  BY DEF BrowserOK, Request
<1>2. popRequests[request[n].id] \in 1 .. drawn
  BY <1>1 DEF StorageOK
<1> DEFINE p == [pc |-> "validate", pop |-> n, tx |-> tx,
                 popRequest |-> popRequests[request[n].id], serviceId |-> Nil]
<1>3. p \in PostState
  BY <1>1, <1>2 DEF PostState, PostSteps
<1>4. PostOK'
  <2>1. PostOK /\ UNCHANGED drawn /\ post' = [post EXCEPT ![w] = p]
    BY DEF browserVars
  <2>2. /\ p.pc = "validate" /\ p.pop \in 1 .. drawn /\ p.tx \in Txids
        /\ p.popRequest \in 1 .. drawn
    BY <1>1, <1>2
  <2> HIDE DEF p
  <2> QED BY <1>1, <1>3, <2>1, <2>2, PostStep
<1> QED
  BY <1>4, StorageFrame, BrowserFrame, PollFrame DEF storageVars, browserVars

LEMMA PopStepType ==
  ASSUME TypeOK, NEW w \in Workers, PopStep(w)
  PROVE  TypeOK'
<1> USE NilFacts DEF TypeOK
<1>1. post[w] \in PostState /\ drawn \in 0 .. MaxRequests /\ drawn \in Nat
  BY DEF PostOK, BrowserOK
<1>2. ASSUME post[w].pc # "idle"
      PROVE  post[w].pop \in 1 .. drawn /\ post[w].tx \in Txids /\ PostedId(w) \in RequestIds
  BY <1>2, <1>1 DEF PostOK, BrowserOK, PostedId, Request
<1> DEFINE Then(q) == /\ q \in PostState
                      /\ post' = [post EXCEPT ![w] = q]
                      /\ q.pc # "idle" => q.pop = post[w].pop /\ q.tx = post[w].tx
                                         /\ post[w].pc # "idle"
                      /\ q.pc \in {"validate", "store", "claimed", "replace",
                                   "putVerified"} => q.popRequest \in 1 .. drawn
                      /\ q.pc \in {"replace", "putVerified"} =>
                           q.serviceId \in ServiceIds
\* Most steps change only the thread.
<1>3. ASSUME NEW q, Then(q), UNCHANGED drawn PROVE PostOK'
  BY <1>1, <1>2, <1>3, PostStep
<1>4. ASSUME NEW q, Then(q), UNCHANGED <<storageVars, sessionVars, browserVars, poll>>
      PROVE  TypeOK'
  BY <1>3, <1>4, StorageFrame, BrowserFrame, PollFrame DEF storageVars, browserVars, sessionVars
<1>5. IdlePost \in PostState /\ IdlePost.pc = "idle"
  BY DEF IdlePost, PostState, PostSteps
<1>6. CASE RejectPop(w) \/ FailNullRequest(w) \/ FailUpdate(w)
  BY <1>4, <1>5, <1>6 DEF RejectPop, FailNullRequest, FailUpdate
<1>7. CASE AcceptPop(w)
  <2>1. Then([post[w] EXCEPT !.pc = "store"])
    BY <1>7, <1>1 DEF AcceptPop, PostOK, PostState, PostSteps
  <2> QED BY <1>4, <1>7, <2>1 DEF AcceptPop
<1>8. CASE CheckVerified(w)
  <2>1. CASE verifiedPops[PostedId(w)] # Nil
    BY <1>4, <1>5, <1>8, <2>1 DEF CheckVerified
  <2>2. CASE verifiedPops[PostedId(w)] = Nil
    <3>1. Then([post[w] EXCEPT !.pc = "recheck"])
      BY <1>8, <1>1, <2>2 DEF CheckVerified, PostOK, PostState, PostSteps
    <3> QED BY <1>4, <1>8, <3>1 DEF CheckVerified
  <2> QED BY <2>1, <2>2
<1>9. CASE CheckInvalidated(w)
  <2>1. CASE verifiedPops[PostedId(w)] = Nil
    BY <1>4, <1>5, <1>9, <2>1 DEF CheckInvalidated
  <2>2. CASE verifiedPops[PostedId(w)] # Nil
    <3>1. Then([post[w] EXCEPT !.pc = "nullRequest"])
      BY <1>9, <1>1, <2>2 DEF CheckInvalidated, PostOK, PostState, PostSteps
    <3> QED BY <1>4, <1>9, <3>1 DEF CheckInvalidated
  <2> QED BY <2>1, <2>2
<1>10. CASE ClaimRequest(w)
  <2> USE <1>10 DEF ClaimRequest
  <2> DEFINE r == PostedId(w)
             q == [post[w] EXCEPT !.popRequest = popRequests[r],
                     !.pc = IF popRequests[r] = Nil THEN "gone" ELSE "claimed"]
  <2>1. popRequests[r] \in (1 .. drawn) \cup {Nil} /\ r \in RequestIds
    BY <1>1, <1>2 DEF StorageOK
  <2>2. q \in PostState
    <3>1. popRequests[r] \in NonceOrNil
      BY <2>1 DEF StorageOK
    <3>2. (IF popRequests[r] = Nil THEN "gone" ELSE "claimed") \in PostSteps
      BY DEF PostSteps
    <3> QED BY <1>1, <3>1, <3>2 DEF PostState
  <2>3. Then(q)
    BY <1>1, <2>1, <2>2 DEF PostState
  <2>4. PostOK'
    BY <2>3, <1>3 DEF browserVars
  <2>5. StorageOK'
    BY DEF StorageOK, browserVars
  <2> QED BY <2>4, <2>5, BrowserFrame, PollFrame DEF browserVars
<1>11. CASE UpdateService(w)
  <2> USE <1>11 DEF UpdateService
  <2> DEFINE tx == post[w].tx
             svc == request[post[w].popRequest].svc
             q == [post[w] EXCEPT !.pc = "replace",
                                  !.serviceId = paidServices[tx].serviceId]
  <2>1. /\ tx \in Txids /\ paidServices[tx] \in ServiceTypes
        /\ svc \in ServiceTypes /\ AcceptsUpdate(paidServices[tx], svc)
    BY <1>1, <1>2 DEF CanUpdate, StorageOK, BrowserOK, PostOK, Request
  <2>2. /\ Update(paidServices[tx], svc) \in ServiceTypes
        /\ paidServices[tx].serviceId \in ServiceIds
    BY <2>1, UpdateKeeps, ServiceIdType
  <2>3. Then(q)
    BY <1>1, <2>2 DEF PostOK, PostState, PostSteps
  <2>4. PostOK'
    BY <2>3, <1>3 DEF browserVars
  <2>5. StorageOK'
    BY <2>2 DEF StorageOK, browserVars
  <2> QED BY <2>4, <2>5, BrowserFrame, PollFrame DEF browserVars
<1>12. CASE ReplacePaidService(w)
  <2> USE <1>12 DEF ReplacePaidService
  <2>1. Then([post[w] EXCEPT !.pc = "putVerified"])
    BY <1>1 DEF PostOK, PostState, PostSteps
  <2>2. PostOK'
    BY <2>1, <1>3 DEF browserVars
  <2>3. StorageOK'
    BY <1>1, <1>2 DEF StorageOK, browserVars
  <2> QED BY <2>2, <2>3, BrowserFrame, PollFrame DEF browserVars
<1>13. CASE PutVerifiedPop(w)
  <2> USE <1>13 DEF PutVerifiedPop
  <2> DEFINE v == [serviceId |-> post[w].serviceId, proof |-> post[w].popRequest]
  <2>1. v \in VerifiedPop /\ v.proof <= drawn
    BY <1>1 DEF PostOK, VerifiedPop
  <2>2. PostOK'
    BY <1>3, <1>5 DEF browserVars
  <2>3. StorageOK'
    BY <1>1, <2>1 DEF StorageOK, browserVars
  <2> QED BY <2>2, <2>3, BrowserFrame, PollFrame DEF browserVars
<1> QED
  BY <1>6, <1>7, <1>8, <1>9, <1>10, <1>11, <1>12, <1>13 DEF PopStep

\* The steps of a page's poll.
LEMMA PollStepType ==
  ASSUME TypeOK, NEW n \in Nonces,
         StartPoll(n) \/ TakeVerifiedPop(n) \/ GrantAccess(n)
  PROVE  TypeOK'
<1> USE NilFacts DEF TypeOK
<1>1. poll[n] \in PollState /\ IdlePoll \in PollState
  BY DEF PollOK, PollState, PollSteps, IdlePoll
<1>2. CASE StartPoll(n)
  <2> USE <1>2 DEF StartPoll
  <2>1. [poll[n] EXCEPT !.pc = "checked"] \in PollState
    BY <1>1 DEF PollState, PollSteps
  <2>2. PollOK'
    BY <1>1, <2>1 DEF PollOK, PollState, browserVars
  <2> QED BY <2>2, StorageFrame, BrowserFrame, PostFrame DEF storageVars, browserVars
<1>3. CASE TakeVerifiedPop(n)
  <2> USE <1>3 DEF TakeVerifiedPop
  <2> DEFINE v == verifiedPops[request[n].id]
  <2>1. v \in VerifiedPop \cup {Nil} /\ (v # Nil => v.proof <= drawn)
    <3>1. n \in urls /\ n <= drawn
      BY DEF PollOK, BrowserOK
    <3>2. request[n].id \in RequestIds
      BY <3>1 DEF BrowserOK, Request
    <3> QED BY <3>2 DEF StorageOK
  <2>2. PollOK'
    <3>1. CASE v = Nil
      BY <1>1, <3>1 DEF PollOK, IdlePoll, browserVars
    <3>2. CASE v # Nil
      <4>1. [pc |-> "granting", verified |-> v] \in PollState
        BY <2>1 DEF PollState, PollSteps
      <4> QED BY <2>1, <3>2, <4>1 DEF PollOK, browserVars
    <3> QED BY <3>1, <3>2
  <2>3. StorageOK'
    BY DEF StorageOK, browserVars
  <2> QED BY <2>2, <2>3, BrowserFrame, PostFrame DEF browserVars
<1>4. CASE GrantAccess(n)
  <2> USE <1>4 DEF GrantAccess
  <2>1. /\ poll[n].verified \in VerifiedPop
        /\ request[n].session \in Sessions
    BY <1>1 DEF PollOK, PollState, BrowserOK, Request
  <2>2. PollOK'
    BY <1>1 DEF PollOK, IdlePoll, browserVars
  <2>3. BrowserOK'
    BY <2>1 DEF BrowserOK, VerifiedPop, browserVars
  <2> QED BY <2>2, <2>3, StorageFrame, PostFrame DEF browserVars, storageVars
<1> QED BY <1>2, <1>3, <1>4

LEMMA LogoutType ==
  ASSUME TypeOK, NEW s \in Sessions, NEW k \in ServiceIds, Logout(s, k)
  PROVE  TypeOK'
<1> USE NilFacts DEF TypeOK, Logout
<1>1. BrowserOK'
  BY DEF BrowserOK, browserVars
<1> QED BY <1>1, StorageFrame, PostFrame, PollFrame DEF browserVars, storageVars

LEMMA ExpireType ==
  ASSUME TypeOK,
         \/ \E r \in RequestIds : ExpirePopRequest(r) \/ ExpireVerifiedPop(r)
         \/ \E tx \in Txids : ExpirePaidService(tx)
  PROVE  TypeOK'
<1> USE NilFacts DEF TypeOK
<1>1. CASE \E r \in RequestIds : ExpirePopRequest(r)
  <2>1. StorageOK'
    <3>1. UNCHANGED <<id, verifiedPops, paidServices, stored, drawn>>
      BY <1>1 DEF ExpirePopRequest, browserVars
    <3>2. PICK r \in RequestIds : popRequests' = [popRequests EXCEPT ![r] = Nil]
      BY <1>1 DEF ExpirePopRequest
    <3> QED BY <3>1, <3>2 DEF StorageOK
  <2>2. UNCHANGED <<browserVars, sessionVars, post, poll, urls, drawn>>
    BY <1>1 DEF ExpirePopRequest, browserVars
  <2> QED
    BY <2>1, <2>2, BrowserFrame, PostFrame, PollFrame
<1>2. CASE \E r \in RequestIds : ExpireVerifiedPop(r)
  <2>1. StorageOK'
    <3>1. UNCHANGED <<id, popRequests, paidServices, stored, drawn>>
      BY <1>2 DEF ExpireVerifiedPop, browserVars
    <3>2. PICK r \in RequestIds : verifiedPops' = [verifiedPops EXCEPT ![r] = Nil]
      BY <1>2 DEF ExpireVerifiedPop
    <3> QED BY <3>1, <3>2 DEF StorageOK
  <2>2. UNCHANGED <<browserVars, sessionVars, post, poll, urls, drawn>>
    BY <1>2 DEF ExpireVerifiedPop, browserVars
  <2> QED
    BY <2>1, <2>2, BrowserFrame, PostFrame, PollFrame
<1>3. CASE \E tx \in Txids : ExpirePaidService(tx)
  <2>1. /\ paidServices' \in [Txids -> ServiceTypes \cup {Nil}]
        /\ stored' \in [Txids -> ServiceTypes \cup {Nil}]
    BY <1>3 DEF StorageOK, ExpirePaidService
  <2>2. StorageOK'
    BY <1>3, <2>1 DEF StorageOK, ExpirePaidService, browserVars
  <2>3. UNCHANGED <<browserVars, sessionVars, post, poll, urls, drawn>>
    BY <1>3 DEF ExpirePaidService, browserVars
  <2> QED
    BY <2>2, <2>3, BrowserFrame, PostFrame, PollFrame
<1> QED BY <1>1, <1>2, <1>3

LEMMA RestartType ==
  ASSUME TypeOK, Crash \/ Redeploy
  PROVE  TypeOK'
<1> USE NilFacts DEF TypeOK
<1>1. StorageOK'
  <2>1. LoadStorage /\ UNCHANGED drawn
    BY DEF Crash, Redeploy, browserVars
  <2>2. PICK max \in IdsInUse \cup {-1} : id' = max + 1
    BY <2>1 DEF LoadStorage
  <2>3. id' \in 0 .. MaxRequests
    BY <2>2 DEF IdsInUse
  <2> QED BY <2>1, <2>3 DEF StorageOK, LoadStorage
<1>2. CASE Crash
  <2>1. BrowserOK'
    BY <1>2 DEF BrowserOK, Crash, NoSession
  <2>2. PostOK'
    BY <1>2 DEF PostOK, Crash, IdlePost, PostState, PostSteps
  <2>3. PollOK'
    BY <1>2 DEF PollOK, Crash, IdlePoll, PollState, PollSteps
  <2> QED BY <1>1, <2>1, <2>2, <2>3
<1>3. CASE Redeploy
  BY <1>1, <1>3, BrowserFrame, PostFrame, PollFrame DEF Redeploy, browserVars
<1> QED BY <1>2, <1>3

LEMMA StutterType == ASSUME TypeOK, UNCHANGED vars PROVE TypeOK'
BY StorageFrame, BrowserFrame, PostFrame, PollFrame
   DEF TypeOK, vars, browserVars

LEMMA TypeStep == TypeOK /\ [Next]_vars => TypeOK'
BY StorePaymentType, StoreRequestType, AnswerBrowserType, ReceivePopType, PopStepType,
   PollStepType, LogoutType, ExpireType, RestartType, StutterType DEF Next

\* The caches, the sessions and the threads always hold data of their type,
\* and no thread of PopServlet or PopPoll reaches a step without the data
\* that the step reads, with any number of sessions, threads and requests
\* and through every expiry and restart.
THEOREM TypeCorrect == Spec => []TypeOK
BY InitType, TypeStep, PTL DEF Spec

-----------------------------------------------------------------------------
(* Credit.                                                                 *)

LEMMA RequestFacts ==
  ASSUME TypeOK
  PROVE  /\ drawn \in Nat /\ id \in Nat
         /\ \A n \in 1 .. drawn :
              /\ n \in Nonces
              /\ request[n] \in Request
              /\ request[n].id \in RequestIds
              /\ request[n].session \in Sessions
              /\ request[n].svc \in ServiceTypes
BY NilFacts DEF TypeOK, BrowserOK, StorageOK, Request

\* What TypeOK says of a thread in doPost.
LEMMA PostFacts ==
  ASSUME TypeOK, NEW w \in Workers
  PROVE  LET p == post[w] IN
         /\ p \in PostState
         /\ p.pc # "idle" => /\ p.pop \in 1 .. drawn /\ p.tx \in Txids
                             /\ PostedId(w) \in RequestIds
         /\ p.pc \in {"validate", "store", "claimed", "replace", "putVerified"} =>
              p.popRequest \in 1 .. drawn
BY RequestFacts DEF TypeOK, PostOK, PostedId

\* Being the same service is transitive.
LEMMA SameService ==
  ASSUME NEW a, NEW b, NEW c, IsSameServiceType(a, b), IsSameServiceType(b, c)
  PROVE  IsSameServiceType(a, c)
BY DEF IsSameServiceType

\* Whoever has paid has paid for ever.
LEMMA PaidGrows ==
  ASSUME TypeOK, [Next]_vars PROVE paid \subseteq paid'
<1>1. ASSUME NEW w \in Workers, PopStep(w) PROVE UNCHANGED paid
  BY <1>1 DEF PopStep, AcceptPop, RejectPop, ClaimRequest, CheckVerified,
     CheckInvalidated, FailNullRequest, UpdateService, FailUpdate,
     ReplacePaidService, PutVerifiedPop, browserVars
<1> QED
  BY <1>1 DEF Next, StorePayment, StoreRequest, AnswerBrowser, ReceivePop,
     StartPoll, TakeVerifiedPop, GrantAccess, Logout, ExpirePopRequest,
     ExpireVerifiedPop, ExpirePaidService, Crash, Redeploy, vars, browserVars

LEMMA CreditInit == Init => SpacesStay /\ IdsBehind /\ PostInv
<1> SUFFICES ASSUME Init PROVE SpacesStay /\ IdsBehind /\ PostInv
  OBVIOUS
<1>1. SpacesStay
  BY DEF SpacesStay, Init
<1>2. IdsBehind
  BY DEF IdsBehind, Init, IdlePost
<1>3. PostInv
  BY DEF PostInv, Init, IdlePost
<1> QED BY <1>1, <1>2, <1>3

\* Steps that change neither caches nor threads of doPost nor requests.
LEMMA CreditFrame ==
  ASSUME CreditInv, UNCHANGED <<storageVars, request, paid, post>>
  PROVE  SpacesStay' /\ IdsBehind' /\ PostInv'
BY DEF CreditInv, SpacesStay, IdsBehind, PostInv, storageVars, Pays, Earned, PostedId

\* The payment stands for what it was ordered for.
LEMMA CreditStorePayment ==
  ASSUME CreditInv, NEW tx \in Txids, StorePayment(tx)
  PROVE  SpacesStay' /\ IdsBehind' /\ PostInv'
<1> USE DEF CreditInv
<1>1. /\ paid' = paid \cup {tx}
      /\ paidServices' = [paidServices EXCEPT ![tx] = Ordered[tx]]
      /\ stored' = [stored EXCEPT ![tx] = Ordered[tx]]
      /\ UNCHANGED <<id, popRequests, verifiedPops, request, post>>
  BY DEF StorePayment
<1>2. IsSameServiceType(Ordered[tx], Ordered[tx])
  BY DEF IsSameServiceType
<1>3. SpacesStay'
  BY <1>1, <1>2 DEF SpacesStay, TypeOK, StorageOK
<1>4. IdsBehind'
  BY <1>1 DEF IdsBehind, PostedId, Earned, Pays
<1>5. PostInv'
  BY <1>1 DEF PostInv, PostedId, Pays
<1> QED BY <1>3, <1>4, <1>5

LEMMA CreditStoreRequest ==
  ASSUME CreditInv, NEW s \in Sessions, NEW svc \in Asked, StoreRequest(s, svc)
  PROVE  SpacesStay' /\ IdsBehind' /\ PostInv'
<1> USE DEF CreditInv
<1>1. /\ drawn \in Nat /\ drawn + 1 \in Nonces /\ id \in RequestIds
      /\ id' = id + 1
      /\ request' = [request EXCEPT ![drawn + 1] =
                       [id |-> id, session |-> s, svc |-> svc]]
      /\ popRequests' = [popRequests EXCEPT ![id] = drawn + 1]
      /\ UNCHANGED <<verifiedPops, paidServices, stored, paid, post>>
  BY RequestFacts, NilFacts DEF StoreRequest
<1>2. /\ request'[drawn + 1].id = id
      /\ \A n \in 1 .. drawn : request'[n] = request[n]
  BY <1>1 DEF TypeOK, BrowserOK
<1>3. SpacesStay'
  BY <1>1 DEF SpacesStay
<1>4. IdsBehind'
  <2>1. ASSUME NEW r \in RequestIds, popRequests'[r] # Nil
        PROVE  r < id' /\ request'[popRequests'[r]].id = r
    <3>1. CASE r = id
      BY <1>1, <1>2, <3>1 DEF TypeOK, StorageOK
    <3>2. CASE r # id
      <4>1. popRequests'[r] = popRequests[r] /\ popRequests[r] \in 1 .. drawn
        BY <1>1, <2>1, <3>2 DEF TypeOK, StorageOK
      <4> QED BY <1>1, <1>2, <2>1, <4>1 DEF IdsBehind
    <3> QED BY <3>1, <3>2
  <2>2. ASSUME NEW r \in RequestIds, verifiedPops'[r] # Nil
        PROVE  /\ r < id'
               /\ request'[verifiedPops'[r].proof].id = r
               /\ Earned(verifiedPops[r].proof, verifiedPops[r].serviceId)'
    <3>1. verifiedPops'[r] = verifiedPops[r] /\ verifiedPops[r].proof \in 1 .. drawn
      BY <1>1, <2>2 DEF TypeOK, StorageOK, VerifiedPop
    <3>2. /\ r < id /\ request[verifiedPops[r].proof].id = r
          /\ Earned(verifiedPops[r].proof, verifiedPops[r].serviceId)
      BY <2>2, <3>1 DEF IdsBehind
    <3> DEFINE n == verifiedPops[r].proof
               k == verifiedPops[r].serviceId
    <3>3. r < id' /\ request'[n].id = r
      BY <1>1, <1>2, <3>1, <3>2
    <3>4. Earned(n, k)'
      BY <1>1, <1>2, <3>1, <3>2 DEF Earned, Pays
    <3> QED BY <3>1, <3>3, <3>4
  <2>3. ASSUME NEW w \in Workers, post'[w].pc # "idle" PROVE PostedId(w)' < id'
    BY <1>1, <1>2, <2>3, PostFacts DEF IdsBehind, PostedId
  <2> QED BY <1>1, <2>1, <2>2, <2>3 DEF IdsBehind
<1>5. PostInv'
  <2> SUFFICES ASSUME NEW w \in Workers
               PROVE  LET p == post[w] IN
                 /\ p.pc \in {"validate", "store"} =>
                      popRequests'[PostedId(w)'] \in {p.popRequest, Nil}
                 /\ p.pc \in {"store", "claimed", "replace", "putVerified"} =>
                      p.popRequest = p.pop /\ Pays(p.pop, p.tx)'
                 /\ p.pc \in {"replace", "putVerified"} =>
                      p.serviceId = request'[p.pop].svc.serviceId
    BY <1>1 DEF PostInv, Pays
  <2>1. CASE post[w].pc = "idle"
    BY <2>1
  <2>2. CASE post[w].pc # "idle"
    <3>1. /\ PostedId(w)' = PostedId(w) /\ PostedId(w) \in RequestIds
          /\ PostedId(w) < id /\ post[w].pop \in 1 .. drawn
      BY <1>1, <1>2, <2>2, PostFacts DEF IdsBehind, PostedId
    <3>2. popRequests'[PostedId(w)'] = popRequests[PostedId(w)]
      BY <1>1, <3>1 DEF TypeOK, StorageOK
    <3>3. request'[post[w].pop] = request[post[w].pop]
      BY <1>2, <3>1
    <3>4. UNCHANGED <<post, paid>>
      BY <1>1
    <3> QED BY <3>2, <3>3, <3>4 DEF PostInv, Pays
  <2> QED BY <2>1, <2>2
<1> QED BY <1>3, <1>4, <1>5

LEMMA CreditReceivePop ==
  ASSUME CreditInv, NEW w \in Workers, NEW n \in Nonces, NEW tx \in Txids,
         ReceivePop(w, n, tx)
  PROVE  SpacesStay' /\ IdsBehind' /\ PostInv'
<1> USE DEF CreditInv
<1>1. /\ popRequests[request[n].id] # Nil
      /\ post' = [post EXCEPT ![w] =
                    [pc |-> "validate", pop |-> n, tx |-> tx,
                     popRequest |-> popRequests[request[n].id], serviceId |-> Nil]]
      /\ UNCHANGED <<storageVars, request, paid>>
  BY DEF ReceivePop, browserVars
<1>2. request[n].id \in RequestIds /\ request[n].id < id
  <2>1. n \in 1 .. drawn
    BY DEF ReceivePop, TypeOK, BrowserOK
  <2> QED BY <1>1, <2>1, RequestFacts DEF IdsBehind
<1>3. /\ post'[w] = [pc |-> "validate", pop |-> n, tx |-> tx,
                     popRequest |-> popRequests[request[n].id], serviceId |-> Nil]
      /\ \A v \in Workers \ {w} : post'[v] = post[v]
  BY <1>1 DEF TypeOK, PostOK
<1>4. SpacesStay'
  BY <1>1 DEF SpacesStay, storageVars
<1>5. IdsBehind'
  BY <1>1, <1>2, <1>3 DEF IdsBehind, PostedId, storageVars, Earned, Pays
<1>6. PostInv'
  BY <1>1, <1>3 DEF PostInv, PostedId, storageVars, Pays
<1> QED BY <1>4, <1>5, <1>6

\* A thread of doPost that stays with its PoP, and leaves the caches alone.
LEMMA CreditPostOnly ==
  ASSUME CreditInv, NEW w \in Workers, NEW q,
         post' = [post EXCEPT ![w] = q], UNCHANGED <<storageVars, request, paid>>,
         q.pc # "idle" => q.pop = post[w].pop /\ post[w].pc # "idle",
         LET p == q IN
         /\ p.pc \in {"validate", "store"} =>
              popRequests[request[p.pop].id] \in {p.popRequest, Nil}
         /\ p.pc \in {"store", "claimed", "replace", "putVerified"} =>
              p.popRequest = p.pop /\ Pays(p.pop, p.tx)
         /\ p.pc \in {"replace", "putVerified"} =>
              p.serviceId = request[p.pop].svc.serviceId
  PROVE  SpacesStay' /\ IdsBehind' /\ PostInv'
<1> USE DEF CreditInv
<1>1. post'[w] = q /\ \A v \in Workers \ {w} : post'[v] = post[v]
  BY DEF TypeOK, PostOK
<1>2. SpacesStay'
  BY DEF SpacesStay, storageVars
<1>3. IdsBehind'
  BY <1>1 DEF IdsBehind, PostedId, storageVars, Earned, Pays
<1>4. PostInv'
  BY <1>1 DEF PostInv, PostedId, storageVars, Pays
<1> QED BY <1>2, <1>3, <1>4

\* The steps of doPost that only look.
LEMMA CreditLook ==
  ASSUME CreditInv, NEW w \in Workers,
         \/ AcceptPop(w) \/ RejectPop(w) \/ CheckVerified(w)
         \/ CheckInvalidated(w) \/ FailNullRequest(w) \/ FailUpdate(w)
  PROVE  SpacesStay' /\ IdsBehind' /\ PostInv'
<1> USE DEF CreditInv
<1>1. IdlePost.pc = "idle"
  BY DEF IdlePost
<1>2. post[w] \in PostState
  BY PostFacts
<1>3. CASE RejectPop(w) \/ FailNullRequest(w) \/ FailUpdate(w)
  BY <1>1, <1>3, CreditPostOnly
     DEF RejectPop, FailNullRequest, FailUpdate, browserVars
<1>4. CASE CheckVerified(w)
  <2> DEFINE q == [post[w] EXCEPT !.pc = "recheck"]
  <2>1. q.pc = "recheck" /\ q.pop = post[w].pop
    BY <1>2 DEF PostState
  <2>2. \/ post' = [post EXCEPT ![w] = IdlePost]
        \/ post' = [post EXCEPT ![w] = q]
    BY <1>4 DEF CheckVerified
  <2>3. post[w].pc = "gone" /\ UNCHANGED <<storageVars, request, paid>>
    BY <1>4 DEF CheckVerified, browserVars
  <2> HIDE DEF q
  <2> QED BY <1>1, <2>1, <2>2, <2>3, CreditPostOnly
<1>5. CASE CheckInvalidated(w)
  <2> DEFINE q == [post[w] EXCEPT !.pc = "nullRequest"]
  <2>1. q.pc = "nullRequest" /\ q.pop = post[w].pop
    BY <1>2 DEF PostState
  <2>2. \/ post' = [post EXCEPT ![w] = IdlePost]
        \/ post' = [post EXCEPT ![w] = q]
    BY <1>5 DEF CheckInvalidated
  <2>3. post[w].pc = "recheck" /\ UNCHANGED <<storageVars, request, paid>>
    BY <1>5 DEF CheckInvalidated, browserVars
  <2> HIDE DEF q
  <2> QED BY <1>1, <2>1, <2>2, <2>3, CreditPostOnly
<1>6. CASE AcceptPop(w)
  <2> DEFINE p == post[w]
             q == [p EXCEPT !.pc = "store"]
  <2>1. /\ p.pc = "validate" /\ p.pop = p.popRequest
        /\ paidServices[p.tx] # Nil
        /\ IsSameServiceType(paidServices[p.tx], request[p.pop].svc)
        /\ post' = [post EXCEPT ![w] = q] /\ UNCHANGED <<storageVars, request, paid>>
    BY <1>6 DEF AcceptPop, ValidPop, PaysForCorrectService, browserVars
  <2>2. q.pc = "store" /\ q.pop = p.pop /\ q.popRequest = p.popRequest /\ q.tx = p.tx
    BY <1>2 DEF PostState
  <2>3. p.tx \in Txids
    BY <2>1, PostFacts
  <2>4. Pays(p.pop, p.tx)
    BY <2>1, <2>3, SameService DEF SpacesStay, Pays
  <2>5. popRequests[request[p.pop].id] \in {p.popRequest, Nil}
    BY <2>1 DEF PostInv, PostedId
  <2> HIDE DEF q
  <2> QED BY <2>1, <2>2, <2>4, <2>5, CreditPostOnly
<1> QED BY <1>3, <1>4, <1>5, <1>6

\* The claim: what it takes is what the thread has validated.
LEMMA CreditClaim ==
  ASSUME CreditInv, NEW w \in Workers, ClaimRequest(w)
  PROVE  SpacesStay' /\ IdsBehind' /\ PostInv'
<1> USE DEF CreditInv
<1> DEFINE r == PostedId(w)
           p == post[w]
<1>1. /\ p.pc = "store"
      /\ popRequests' = [popRequests EXCEPT ![r] = Nil]
      /\ UNCHANGED <<id, verifiedPops, paidServices, stored, request, paid>>
  BY DEF ClaimRequest, browserVars
<1>2. /\ p \in PostState /\ r \in RequestIds /\ r < id
      /\ p.popRequest = p.pop /\ p.popRequest \in 1 .. drawn
      /\ Pays(p.pop, p.tx) /\ popRequests[r] \in {p.popRequest, Nil}
  BY <1>1, PostFacts DEF IdsBehind, PostInv
<1>3. /\ \A v \in Workers \ {w} : post'[v] = post[v]
      /\ post'[w].pop = p.pop /\ post'[w].tx = p.tx
      /\ post'[w].popRequest = popRequests[r]
      /\ post'[w].pc = IF popRequests[r] = Nil THEN "gone" ELSE "claimed"
  BY <1>2 DEF ClaimRequest, TypeOK, PostOK, PostState
<1>4. \A n \in RequestIds : popRequests'[n] \in {popRequests[n], Nil}
  BY <1>1 DEF TypeOK, StorageOK
<1>5. SpacesStay'
  BY <1>1 DEF SpacesStay
<1>6. IdsBehind'
  BY <1>1, <1>2, <1>3, <1>4 DEF IdsBehind, PostedId, Earned, Pays
<1>7. PostInv'
  <2>1. ASSUME NEW v \in Workers \ {w}, post[v].pc # "idle"
        PROVE  popRequests'[PostedId(v)] \in {popRequests[PostedId(v)], Nil}
    BY <1>4, <2>1, PostFacts
  <2>2. ASSUME NEW v \in Workers \ {w}
        PROVE  LET q == post[v] IN
               /\ q.pc \in {"validate", "store"} =>
                    popRequests'[PostedId(v)] \in {q.popRequest, Nil}
               /\ q.pc \in {"store", "claimed", "replace", "putVerified"} =>
                    q.popRequest = q.pop /\ Pays(q.pop, q.tx)
               /\ q.pc \in {"replace", "putVerified"} =>
                    q.serviceId = request[q.pop].svc.serviceId
    BY <2>1 DEF PostInv
  <2>3. /\ post'[w].pc \in {"gone", "claimed"}
        /\ post'[w].pc = "claimed" => post'[w].popRequest = p.pop
    BY <1>2, <1>3
  <2>4. ASSUME NEW v \in Workers
        PROVE  LET q == post'[v] IN
               /\ q.pc \in {"validate", "store"} =>
                    popRequests'[request[q.pop].id] \in {q.popRequest, Nil}
               /\ q.pc \in {"store", "claimed", "replace", "putVerified"} =>
                    /\ q.popRequest = q.pop
                    /\ q.tx \in paid
                    /\ IsSameServiceType(Ordered[q.tx], request[q.pop].svc)
               /\ q.pc \in {"replace", "putVerified"} =>
                    q.serviceId = request[q.pop].svc.serviceId
    <3>1. CASE v = w
      BY <1>2, <1>3, <2>3, <3>1 DEF Pays
    <3>2. CASE v # w
      BY <1>3, <2>2, <3>2 DEF Pays, PostedId
    <3> QED BY <3>1, <3>2
  <2> QED BY <1>1, <2>4 DEF PostInv, PostedId, Pays
<1> QED BY <1>5, <1>6, <1>7

\* The update: the service stays the one that was ordered.
LEMMA CreditUpdate ==
  ASSUME CreditInv, NEW w \in Workers, UpdateService(w)
  PROVE  SpacesStay' /\ IdsBehind' /\ PostInv'
<1> USE DEF CreditInv
<1> DEFINE p   == post[w]
           old == paidServices[p.tx]
           svc == request[p.pop].svc
<1>1. /\ p.pc = "claimed" /\ old # Nil /\ p.popRequest = p.pop
      /\ AcceptsUpdate(old, svc)
      /\ paidServices' = [paidServices EXCEPT ![p.tx] = Update(old, svc)]
      /\ post' = [post EXCEPT ![w].pc = "replace", ![w].serviceId = old.serviceId]
      /\ UNCHANGED <<id, popRequests, verifiedPops, stored, request, paid>>
  BY DEF UpdateService, CanUpdate, PostInv, browserVars
<1>2. /\ p \in PostState /\ p.tx \in Txids /\ Pays(p.pop, p.tx)
      /\ old \in ServiceTypes /\ svc \in ServiceTypes
      /\ Ordered[p.tx] \in ServiceTypes
  BY <1>1, PostFacts, RequestFacts, ShopAssumption
     DEF PostInv, TypeOK, StorageOK
<1>3. /\ p.tx \in paid
      /\ IsSameServiceType(Ordered[p.tx], old)
      /\ IsSameServiceType(Ordered[p.tx], svc)
  BY <1>1, <1>2 DEF SpacesStay, Pays
<1>4. IsSameServiceType(Ordered[p.tx], Update(old, svc))
  BY <1>1, <1>2, <1>3, UpdateKeeps
<1>5. SpacesStay'
  BY <1>1, <1>2, <1>4 DEF SpacesStay, TypeOK, StorageOK
<1>6. /\ \A v \in Workers \ {w} : post'[v] = post[v]
      /\ post'[w].pop = p.pop /\ post'[w].tx = p.tx
      /\ post'[w].popRequest = p.popRequest
      /\ post'[w].pc = "replace" /\ post'[w].serviceId = old.serviceId
  BY <1>1, <1>2 DEF TypeOK, PostOK, PostState
<1>7. old.serviceId = svc.serviceId
  BY <1>3 DEF IsSameServiceType
<1>8. /\ \A v \in Workers : post'[v].pc # "idle" =>
           post[v].pc # "idle" /\ post'[v].pop = post[v].pop
      /\ UNCHANGED <<id, popRequests, verifiedPops, request, paid>>
  BY <1>1, <1>6
<1>9. IdsBehind'
  BY <1>8 DEF IdsBehind, PostedId, Earned, Pays
<1>10. PostInv'
  <2>1. ASSUME NEW v \in Workers
        PROVE  LET q == post'[v] IN
               /\ q.pc \in {"validate", "store"} =>
                    popRequests[request[q.pop].id] \in {q.popRequest, Nil}
               /\ q.pc \in {"store", "claimed", "replace", "putVerified"} =>
                    /\ q.popRequest = q.pop
                    /\ q.tx \in paid
                    /\ IsSameServiceType(Ordered[q.tx], request[q.pop].svc)
               /\ q.pc \in {"replace", "putVerified"} =>
                    q.serviceId = request[q.pop].svc.serviceId
    <3>1. CASE v = w
      <4>1. post'[w].popRequest = p.pop
        BY <1>1, <1>6
      <4> QED BY <1>3, <1>6, <1>7, <3>1, <4>1
    <3>2. CASE v # w
      BY <1>6, <3>2 DEF PostInv, Pays, PostedId
    <3> QED BY <3>1, <3>2
  <2> QED BY <1>8, <2>1 DEF PostInv, PostedId, Pays
<1> QED BY <1>5, <1>9, <1>10

LEMMA CreditReplace ==
  ASSUME CreditInv, NEW w \in Workers, ReplacePaidService(w)
  PROVE  SpacesStay' /\ IdsBehind' /\ PostInv'
<1> USE DEF CreditInv
<1> DEFINE p == post[w]
<1>1. /\ p.pc = "replace"
      /\ stored' = [stored EXCEPT ![p.tx] = paidServices[p.tx]]
      /\ post' = [post EXCEPT ![w].pc = "putVerified"]
      /\ UNCHANGED <<id, popRequests, verifiedPops, paidServices, request, paid>>
  BY DEF ReplacePaidService, browserVars
<1>2. p \in PostState /\ p.tx \in Txids
  BY <1>1, PostFacts
<1>3. /\ \A v \in Workers \ {w} : post'[v] = post[v]
      /\ post'[w] = [p EXCEPT !.pc = "putVerified"]
  BY <1>1, <1>2 DEF TypeOK, PostOK
<1>4. /\ post'[w].pop = p.pop /\ post'[w].tx = p.tx
      /\ post'[w].popRequest = p.popRequest
      /\ post'[w].pc = "putVerified" /\ post'[w].serviceId = p.serviceId
  BY <1>2, <1>3 DEF PostState
<1>5. SpacesStay'
  BY <1>1, <1>2 DEF SpacesStay, TypeOK, StorageOK
<1>6. IdsBehind'
  BY <1>1, <1>3, <1>4 DEF IdsBehind, PostedId, Earned, Pays
<1>7. PostInv'
  BY <1>1, <1>3, <1>4 DEF PostInv, PostedId, Pays
<1> QED BY <1>5, <1>6, <1>7

\* The verified PoP carries the request, the service and the id that the
\* thread has.
LEMMA CreditPutVerified ==
  ASSUME CreditInv, NEW w \in Workers, PutVerifiedPop(w)
  PROVE  SpacesStay' /\ IdsBehind' /\ PostInv'
<1> USE DEF CreditInv
<1> DEFINE p == post[w]
           r == PostedId(w)
           v == [serviceId |-> p.serviceId, proof |-> p.popRequest]
<1>1. /\ p.pc = "putVerified"
      /\ verifiedPops' = [verifiedPops EXCEPT ![r] = v]
      /\ post' = [post EXCEPT ![w] = IdlePost]
      /\ UNCHANGED <<id, popRequests, paidServices, stored, request, paid>>
  BY DEF PutVerifiedPop, browserVars
<1>2. /\ p.tx \in Txids /\ r \in RequestIds /\ r < id /\ p.popRequest = p.pop
      /\ request[p.pop].id = r
      /\ Earned(p.pop, p.serviceId)
  BY <1>1, PostFacts DEF PostInv, IdsBehind, PostedId, Earned
<1>3. /\ post'[w].pc = "idle"
      /\ \A u \in Workers \ {w} : post'[u] = post[u]
  BY <1>1 DEF TypeOK, PostOK, IdlePost
<1>4. SpacesStay'
  BY <1>1 DEF SpacesStay
<1>5. PostInv'
  BY <1>1, <1>3 DEF PostInv, PostedId, Pays
<1>6. IdsBehind'
  <2>1. ASSUME NEW n \in RequestIds, verifiedPops'[n] # Nil
        PROVE  /\ n < id
               /\ request[verifiedPops'[n].proof].id = n
               /\ Earned(verifiedPops'[n].proof, verifiedPops'[n].serviceId)
    <3>1. CASE n = r
      <4>1. verifiedPops'[n] = v
        BY <1>1, <1>2, <3>1 DEF TypeOK, StorageOK
      <4> QED BY <1>2, <3>1, <4>1
    <3>2. CASE n # r
      <4>1. verifiedPops'[n] = verifiedPops[n]
        BY <1>1, <3>2 DEF TypeOK, StorageOK
      <4> QED BY <2>1, <4>1 DEF IdsBehind
    <3> QED BY <3>1, <3>2
  <2>2. ASSUME NEW u \in Workers, post'[u].pc # "idle" PROVE PostedId(u)' < id
    BY <1>1, <1>3, <2>2 DEF IdsBehind, PostedId
  <2> QED BY <1>1, <2>1, <2>2 DEF IdsBehind, Earned, Pays
<1> QED BY <1>4, <1>5, <1>6

LEMMA CreditTake ==
  ASSUME CreditInv, NEW n \in Nonces, TakeVerifiedPop(n)
  PROVE  SpacesStay' /\ IdsBehind' /\ PostInv'
<1> USE DEF CreditInv
<1>1. /\ verifiedPops' = [verifiedPops EXCEPT ![request[n].id] = Nil]
      /\ UNCHANGED <<id, popRequests, paidServices, stored, request, paid, post>>
  BY DEF TakeVerifiedPop, browserVars
<1>2. \A r \in RequestIds : verifiedPops'[r] \in {verifiedPops[r], Nil}
  BY <1>1 DEF TypeOK, StorageOK
<1> QED
  BY <1>1, <1>2 DEF SpacesStay, IdsBehind, PostInv, PostedId, Earned, Pays

LEMMA CreditExpire ==
  ASSUME CreditInv,
         \/ \E r \in RequestIds : ExpirePopRequest(r) \/ ExpireVerifiedPop(r)
         \/ \E tx \in Txids : ExpirePaidService(tx)
  PROVE  SpacesStay' /\ IdsBehind' /\ PostInv'
<1> USE DEF CreditInv
<1>1. /\ \A r \in RequestIds : /\ popRequests'[r] \in {popRequests[r], Nil}
                              /\ verifiedPops'[r] \in {verifiedPops[r], Nil}
      /\ \A tx \in Txids : /\ paidServices'[tx] \in {paidServices[tx], Nil}
                          /\ stored'[tx] \in {stored[tx], Nil}
      /\ UNCHANGED <<id, request, paid, post>>
  BY DEF ExpirePopRequest, ExpireVerifiedPop, ExpirePaidService, TypeOK,
         StorageOK, browserVars
<1>2. SpacesStay'
  BY <1>1 DEF SpacesStay
<1>3. IdsBehind'
  BY <1>1 DEF IdsBehind, PostedId, Earned, Pays
<1>4. PostInv'
  <2>1. \A w \in Workers : post[w].pc # "idle" => PostedId(w) \in RequestIds
    BY PostFacts
  <2> QED BY <1>1, <2>1 DEF PostInv, PostedId, Pays
<1> QED BY <1>2, <1>3, <1>4

\* After a restart the counter is behind nothing that the caches still hold.
LEMMA CreditRestart ==
  ASSUME CreditInv, Crash \/ Redeploy
  PROVE  SpacesStay' /\ IdsBehind' /\ PostInv'
<1> USE DEF CreditInv
<1>1. /\ LoadStorage /\ UNCHANGED <<request, paid>>
      /\ \A w \in Workers : post'[w].pc = "idle"
  BY DEF Crash, Redeploy, IdlePost, browserVars
<1>2. PICK max \in IdsInUse \cup {-1} :
        (\A r \in IdsInUse : r <= max) /\ id' = max + 1
  BY <1>1 DEF LoadStorage
<1>3. \A r \in IdsInUse : r < id'
  BY <1>2 DEF IdsInUse
<1>4. SpacesStay'
  BY <1>1 DEF SpacesStay, LoadStorage
<1>5. IdsBehind'
  BY <1>1, <1>3 DEF IdsBehind, IdsInUse, LoadStorage, Earned, Pays
<1>6. PostInv'
  BY <1>1 DEF PostInv
<1> QED BY <1>4, <1>5, <1>6

LEMMA CreditStep ==
  ASSUME CreditInv, [Next]_vars PROVE CreditInv'
<1>1. TypeOK'
  BY TypeStep DEF CreditInv
<1>2. ASSUME NEW n \in Nonces,
             AnswerBrowser(n) \/ StartPoll(n) \/ GrantAccess(n)
      PROVE  UNCHANGED <<storageVars, request, paid, post>>
  BY <1>2 DEF AnswerBrowser, StartPoll, GrantAccess, browserVars
<1>3. ASSUME NEW s \in Sessions, NEW k \in ServiceIds, Logout(s, k)
      PROVE  UNCHANGED <<storageVars, request, paid, post>>
  BY <1>3 DEF Logout, browserVars
<1>4. UNCHANGED vars => UNCHANGED <<storageVars, request, paid, post>>
  BY DEF vars, browserVars
<1>5. SpacesStay' /\ IdsBehind' /\ PostInv'
  BY <1>2, <1>3, <1>4, CreditFrame, CreditStorePayment, CreditStoreRequest, CreditReceivePop,
     CreditLook, CreditClaim, CreditUpdate, CreditReplace, CreditPutVerified,
     CreditTake, CreditExpire, CreditRestart DEF Next, PopStep
<1> QED BY <1>1, <1>5 DEF CreditInv

LEMMA CreditAlways == Spec => []CreditInv
<1>1. Init => CreditInv
  BY InitType, CreditInit DEF CreditInv
<1>2. CreditInv /\ [Next]_vars => CreditInv'
  BY CreditStep
<1> QED BY <1>1, <1>2, PTL DEF Spec

\* A thread that has claimed a request has claimed the one whose nonce its
\* PoP carries, through any number of restarts that give the id out again.
THEOREM CreditedCorrect == Spec => []CreditedAsAsked
<1>1. CreditInv => CreditedAsAsked
  BY DEF CreditInv, PostInv, CreditedAsAsked
<1> QED BY <1>1, CreditAlways, PTL

\* No sequence of PoPs, updates, expiries and restarts turns what was paid
\* for into another service or another message space.
THEOREM SpacesCorrect == Spec => []SpacesStay
<1>1. CreditInv => SpacesStay
  BY DEF CreditInv
<1> QED BY <1>1, CreditAlways, PTL

-----------------------------------------------------------------------------
(* What is paid stays.                                                     *)

\* Unless paid services expire, each payment is in memory and in the file
\* store: no update and no restart drops one.
PaidStays == \A tx \in paid : paidServices[tx] # Nil /\ stored[tx] # Nil

LEMMA PaidStaysUpdate ==
  ASSUME CreditInv, PaidStays, NEW w \in Workers, UpdateService(w)
  PROVE  PaidStays'
<1> USE DEF CreditInv
<1> DEFINE naked == request[post[w].popRequest].svc
<1>1. naked \in ServiceTypes
  BY PostFacts, RequestFacts DEF UpdateService
<1>2. paidServices[post[w].tx] \in ServiceTypes /\ post[w].tx \in Txids
  BY PostFacts DEF UpdateService, CanUpdate, TypeOK, StorageOK
<1>3. AcceptsUpdate(paidServices[post[w].tx], naked)
  BY DEF UpdateService, CanUpdate
<1> DEFINE new == Update(paidServices[post[w].tx], naked)
<1>4. new # Nil
  <2> HIDE DEF naked
  <2> QED BY <1>1, <1>2, <1>3, UpdateKeeps, NilFacts
<1>5. /\ paidServices' = [paidServices EXCEPT ![post[w].tx] = new]
      /\ UNCHANGED <<stored, paid>>
  BY DEF UpdateService, browserVars
<1> HIDE DEF new
<1>6. paidServices \in [Txids -> ServiceTypes \cup {Nil}] /\ paid \subseteq Txids
  BY DEF TypeOK, StorageOK, BrowserOK
<1> QED BY <1>2, <1>4, <1>5, <1>6 DEF PaidStays

LEMMA PaidStaysStep ==
  ASSUME "expirePaidService" \notin Faults, CreditInv, PaidStays, [Next]_vars
  PROVE  PaidStays'
<1>0. /\ paidServices \in [Txids -> ServiceTypes \cup {Nil}]
      /\ stored \in [Txids -> ServiceTypes \cup {Nil}]
      /\ paid \subseteq Txids
  BY DEF CreditInv, TypeOK, StorageOK, BrowserOK
<1>1. ASSUME NEW tx \in Txids, StorePayment(tx) PROVE PaidStays'
  <2>1. Ordered[tx] # Nil
    BY ShopAssumption, NilFacts
  <2> QED BY <1>0, <1>1, <2>1 DEF StorePayment, PaidStays
<1>2. ASSUME NEW w \in Workers, ReplacePaidService(w) PROVE PaidStays'
  BY <1>0, <1>2 DEF ReplacePaidService, PaidStays, browserVars
<1>3. CASE Crash \/ Redeploy
  BY <1>3 DEF Crash, Redeploy, LoadStorage, PaidStays, browserVars
<1>4. ASSUME UNCHANGED <<paidServices, stored, paid>> PROVE PaidStays'
  BY <1>4 DEF PaidStays
<1>5. ASSUME NEW w \in Workers, PopStep(w), ~UpdateService(w), ~ReplacePaidService(w)
      PROVE  UNCHANGED <<paidServices, stored, paid>>
  BY <1>5 DEF PopStep, AcceptPop, RejectPop, ClaimRequest, CheckVerified,
     CheckInvalidated, FailNullRequest, FailUpdate, PutVerifiedPop,
     storageVars, browserVars
<1>6. ASSUME NEW n \in Nonces,
             \/ AnswerBrowser(n) \/ StartPoll(n) \/ TakeVerifiedPop(n)
             \/ GrantAccess(n)
             \/ \E w \in Workers, tx \in Txids : ReceivePop(w, n, tx)
      PROVE  UNCHANGED <<paidServices, stored, paid>>
  BY <1>6 DEF AnswerBrowser, StartPoll, TakeVerifiedPop, GrantAccess,
     ReceivePop, storageVars, browserVars
<1>7. ASSUME NEW s \in Sessions,
             \/ \E svc \in Asked : StoreRequest(s, svc)
             \/ \E k \in ServiceIds : Logout(s, k)
      PROVE  UNCHANGED <<paidServices, stored, paid>>
  BY <1>7 DEF StoreRequest, Logout, storageVars, browserVars
<1>8. ASSUME NEW r \in RequestIds, ExpirePopRequest(r) \/ ExpireVerifiedPop(r)
      PROVE  UNCHANGED <<paidServices, stored, paid>>
  BY <1>8 DEF ExpirePopRequest, ExpireVerifiedPop, storageVars, browserVars
<1>9. UNCHANGED vars => UNCHANGED <<paidServices, stored, paid>>
  BY DEF vars, storageVars, browserVars
<1>10. ~\E tx \in Txids : ExpirePaidService(tx)
  BY DEF ExpirePaidService
<1> QED BY <1>1, <1>2, <1>3, <1>4, <1>5, <1>6, <1>7, <1>8, <1>9, <1>10,
           PaidStaysUpdate DEF Next

\* What was paid for can be proven for as long as its entry lives: no update
\* of any number of PoPs at once and no restart between its two steps loses it.
THEOREM PaidStaysCorrect ==
  ASSUME "expirePaidService" \notin Faults PROVE Spec => []PaidStays
<1>1. Init => CreditInv /\ PaidStays
  BY InitType, CreditInit DEF CreditInv, PaidStays, Init
<1>2. CreditInv /\ PaidStays /\ [Next]_vars => PaidStays'
  BY PaidStaysStep
<1> QED BY <1>1, <1>2, CreditAlways, PTL DEF Spec

-----------------------------------------------------------------------------
(* Access.                                                                 *)

Restart == Crash \/ Redeploy

-----------------------------------------------------------------------------
(* Requests already drawn do not change.                                   *)

LEMMA RequestStays ==
  ASSUME TypeOK, [Next]_vars, NEW n \in Drawn
  PROVE  n \in Drawn' /\ request'[n] = request[n]
<1>1. n \in Nonces /\ drawn \in Nat
  BY RequestFacts DEF Drawn
<1>2. CASE \E s \in Sessions, svc \in Asked : StoreRequest(s, svc)
  BY <1>1, <1>2 DEF StoreRequest, TypeOK, BrowserOK, Drawn
<1>3. CASE UNCHANGED <<drawn, request>>
  BY <1>3 DEF Drawn
<1>4. ASSUME NEW w \in Workers, PopStep(w) PROVE UNCHANGED <<drawn, request>>
  BY <1>4 DEF PopStep, AcceptPop, RejectPop, ClaimRequest, CheckVerified,
     CheckInvalidated, FailNullRequest, UpdateService, FailUpdate,
     ReplacePaidService, PutVerifiedPop, browserVars
<1> QED
  BY <1>2, <1>3, <1>4 DEF Next, StorePayment, AnswerBrowser, ReceivePop,
     StartPoll, TakeVerifiedPop, GrantAccess, Logout, ExpirePopRequest,
     ExpireVerifiedPop, ExpirePaidService, Crash, Redeploy, vars, browserVars

\* What is on its way is behind the counter.
LEMMA LiveBehind ==
  ASSUME CreditInv, NEW n \in Drawn, Live(n)
  PROVE  request[n].id < id
<1>1. request[n].id \in RequestIds /\ n # Nil
  BY RequestFacts, NilFacts DEF CreditInv, Drawn
<1>2. CASE popRequests[request[n].id] = n
  BY <1>1, <1>2 DEF CreditInv, IdsBehind
<1>3. CASE \E w \in Workers : /\ post[w].pc \in {"claimed", "replace", "putVerified"}
                              /\ post[w].popRequest = n
  <2>1. PICK w \in Workers : /\ post[w].pc \in {"claimed", "replace", "putVerified"}
                             /\ post[w].popRequest = n
    BY <1>3
  <2>2. post[w].pop = n /\ post[w].pc # "idle"
    BY <2>1 DEF CreditInv, PostInv
  <2> QED BY <2>2 DEF CreditInv, IdsBehind, PostedId
<1>4. CASE verifiedPops[request[n].id] # Nil
  BY <1>1, <1>4 DEF CreditInv, IdsBehind
<1> QED BY <1>2, <1>3, <1>4 DEF Live

\* A step puts no request back on its way if the caches only lose entries and
\* no thread comes to hold another request.
LEMMA LiveFrame ==
  ASSUME CreditInv, NEW n \in Drawn, request'[n] = request[n],
         \A r \in RequestIds :
           /\ popRequests'[r] \in {popRequests[r], Nil}
           /\ verifiedPops'[r] \in {verifiedPops[r], Nil},
         \A w \in Workers :
           post'[w].pc \in {"claimed", "replace", "putVerified"} =>
             /\ post[w].pc \in {"claimed", "replace", "putVerified"}
             /\ post[w].popRequest = post'[w].popRequest,
         Live(n)'
  PROVE  Live(n)
<1>1. request[n].id \in RequestIds /\ n # Nil
  BY RequestFacts, NilFacts DEF CreditInv, Drawn
<1>2. \/ popRequests'[request[n].id] = n
      \/ \E w \in Workers : /\ post'[w].pc \in {"claimed", "replace", "putVerified"}
                            /\ post'[w].popRequest = n
      \/ /\ verifiedPops'[request[n].id] # Nil
         /\ verifiedPops'[request[n].id].proof = n
  BY DEF Live
<1> QED BY <1>1, <1>2 DEF Live

LEMMA LiveStore ==
  ASSUME CreditInv, NEW n \in Drawn, NEW s \in Sessions, NEW svc \in Asked,
         StoreRequest(s, svc), Live(n)'
  PROVE  Live(n)
<1>1. /\ drawn \in Nat /\ id \in RequestIds
      /\ popRequests' = [popRequests EXCEPT ![id] = drawn + 1]
      /\ UNCHANGED <<verifiedPops, post>>
  BY RequestFacts DEF StoreRequest, CreditInv
<1>2. /\ request'[n] = request[n] /\ request[n].id \in RequestIds
      /\ n # drawn + 1 /\ n # Nil
  BY RequestFacts, NilFacts DEF StoreRequest, CreditInv, TypeOK, BrowserOK, Drawn
<1>3. popRequests'[request[n].id] = n => popRequests[request[n].id] = n
  BY <1>1, <1>2 DEF CreditInv, TypeOK, StorageOK
<1> QED BY <1>1, <1>2, <1>3 DEF Live

\* The thread that claims takes the request from where it was.
LEMMA LiveClaim ==
  ASSUME CreditInv, NEW n \in Drawn, NEW w \in Workers, ClaimRequest(w), Live(n)'
  PROVE  Live(n)
<1>1. /\ post[w].pc = "store" /\ UNCHANGED <<verifiedPops, request>>
      /\ popRequests' = [popRequests EXCEPT ![PostedId(w)] = Nil]
  BY DEF ClaimRequest, browserVars
<1>2. /\ n # Nil /\ request[n].id \in RequestIds
      /\ PostedId(w) \in RequestIds /\ post[w] \in PostState
  BY <1>1, RequestFacts, NilFacts, PostFacts DEF CreditInv, Drawn
<1>3. /\ post'[w].popRequest = popRequests[PostedId(w)]
      /\ \A v \in Workers \ {w} : post'[v] = post[v]
  BY <1>2 DEF ClaimRequest, CreditInv, TypeOK, PostOK, PostState
<1>4. \A r \in RequestIds : popRequests'[r] \in {popRequests[r], Nil}
  BY <1>1 DEF CreditInv, TypeOK, StorageOK
<1>5. post'[w].popRequest = n => popRequests[request[n].id] = n
  BY <1>2, <1>3 DEF CreditInv, IdsBehind
<1> QED BY <1>1, <1>2, <1>3, <1>4, <1>5 DEF Live

\* The thread that stores the verified PoP has held the request until now.
LEMMA LivePut ==
  ASSUME CreditInv, NEW n \in Drawn, NEW w \in Workers, PutVerifiedPop(w), Live(n)'
  PROVE  Live(n)
<1>1. /\ post[w].pc = "putVerified" /\ UNCHANGED <<popRequests, request>>
      /\ verifiedPops' = [verifiedPops EXCEPT ![PostedId(w)] =
                            [serviceId |-> post[w].serviceId,
                             proof     |-> post[w].popRequest]]
      /\ post' = [post EXCEPT ![w] = IdlePost]
  BY DEF PutVerifiedPop, browserVars
<1>2. request[n].id \in RequestIds
  BY RequestFacts DEF CreditInv, Drawn
<1>3. /\ post'[w].pc = "idle"
      /\ \A v \in Workers \ {w} : post'[v] = post[v]
  BY <1>1 DEF CreditInv, TypeOK, PostOK, IdlePost
<1>4. \/ verifiedPops'[request[n].id] = verifiedPops[request[n].id]
      \/ verifiedPops'[request[n].id].proof = post[w].popRequest
  BY <1>1, <1>2 DEF CreditInv, TypeOK, StorageOK
<1> QED BY <1>1, <1>3, <1>4 DEF Live

\* The other steps of a thread in doPost.
LEMMA LivePost ==
  ASSUME CreditInv, NEW n \in Drawn, NEW w \in Workers, PopStep(w),
         ~ClaimRequest(w), ~PutVerifiedPop(w), Live(n)'
  PROVE  Live(n)
<1>1. post[w] \in PostState /\ post \in [Workers -> PostState]
  BY PostFacts DEF CreditInv, TypeOK, PostOK
<1>2. UNCHANGED <<popRequests, verifiedPops, request>>
  BY DEF PopStep, AcceptPop, RejectPop, CheckVerified, CheckInvalidated,
     FailNullRequest, UpdateService, FailUpdate, ReplacePaidService,
     storageVars, browserVars
<1>3. \A v \in Workers \ {w} : post'[v] = post[v]
  BY <1>1 DEF PopStep, AcceptPop, RejectPop, CheckVerified, CheckInvalidated,
     FailNullRequest, UpdateService, FailUpdate, ReplacePaidService
<1>4. post'[w].pc \in {"claimed", "replace", "putVerified"} =>
        /\ post[w].pc \in {"claimed", "replace", "putVerified"}
        /\ post[w].popRequest = post'[w].popRequest
  <2>1. CASE RejectPop(w) \/ FailNullRequest(w) \/ FailUpdate(w)
    BY <1>1, <2>1 DEF RejectPop, FailNullRequest, FailUpdate, IdlePost
  <2>2. CASE CheckVerified(w)
    BY <1>1, <2>2 DEF CheckVerified, IdlePost, PostState
  <2>3. CASE CheckInvalidated(w)
    BY <1>1, <2>3 DEF CheckInvalidated, IdlePost, PostState
  <2>4. CASE AcceptPop(w)
    BY <1>1, <2>4 DEF AcceptPop, PostState
  <2>5. CASE UpdateService(w)
    BY <1>1, <2>5 DEF UpdateService, PostState
  <2>6. CASE ReplacePaidService(w)
    BY <1>1, <2>6 DEF ReplacePaidService, PostState
  <2> QED BY <2>1, <2>2, <2>3, <2>4, <2>5, <2>6 DEF PopStep
<1> QED BY <1>2, <1>3, <1>4, LiveFrame

LEMMA LiveStays ==
  ASSUME CreditInv, [Next]_vars, ~Restart, NEW n \in Drawn, Live(n)'
  PROVE  Live(n)
<1>1. request'[n] = request[n]
  BY RequestStays DEF CreditInv
<1>2. CASE \E w \in Workers, m \in Nonces, tx \in Txids : ReceivePop(w, m, tx)
  <2>1. PICK w \in Workers : \E m \in Nonces, tx \in Txids : ReceivePop(w, m, tx)
    BY <1>2
  <2>2. /\ post'[w].pc = "validate"
        /\ \A v \in Workers \ {w} : post'[v] = post[v]
        /\ UNCHANGED <<popRequests, verifiedPops>>
    BY <2>1 DEF ReceivePop, CreditInv, TypeOK, PostOK, storageVars
  <2> QED BY <1>1, <2>2, LiveFrame
<1>3. CASE UNCHANGED <<popRequests, verifiedPops, post>>
  BY <1>1, <1>3, LiveFrame
<1>4. CASE \/ \E r \in RequestIds : ExpirePopRequest(r) \/ ExpireVerifiedPop(r)
           \/ \E m \in Nonces : TakeVerifiedPop(m)
  <2>1. /\ \A r \in RequestIds : /\ popRequests'[r] \in {popRequests[r], Nil}
                                /\ verifiedPops'[r] \in {verifiedPops[r], Nil}
        /\ UNCHANGED post
    BY <1>4 DEF ExpirePopRequest, ExpireVerifiedPop, TakeVerifiedPop, CreditInv,
       TypeOK, StorageOK
  <2> QED BY <1>1, <2>1, LiveFrame
<1> QED
  BY <1>2, <1>3, <1>4, LiveStore, LiveClaim, LivePut, LivePost
     DEF Next, Restart, StorePayment, AnswerBrowser, StartPoll, GrantAccess,
         Logout, ExpirePaidService, vars, storageVars

-----------------------------------------------------------------------------
(* Whoever holds a request id keeps it until a restart.                    *)

LEMMA CounterGrows ==
  ASSUME TypeOK, [Next]_vars, ~Restart
  PROVE  \/ UNCHANGED <<id, drawn>>
         \/ /\ id' = id + 1 /\ drawn' = drawn + 1
            /\ request'[drawn + 1].id = id
<1>1. CASE \E s \in Sessions, svc \in Asked : StoreRequest(s, svc)
  <2>1. PICK s \in Sessions, svc \in Asked :
          /\ drawn < MaxRequests /\ drawn' = drawn + 1 /\ id' = id + 1
          /\ request' = [request EXCEPT ![drawn + 1] =
                           [id |-> id, session |-> s, svc |-> svc]]
    BY <1>1 DEF StoreRequest
  <2>2. drawn + 1 \in Nonces
    BY <2>1, RequestFacts, BoundAssumption
  <2> QED BY <2>1, <2>2 DEF TypeOK, BrowserOK
<1>2. CASE UNCHANGED <<id, drawn>>
  BY <1>2
<1>3. ASSUME NEW w \in Workers, PopStep(w) PROVE UNCHANGED <<id, drawn>>
  BY <1>3 DEF PopStep, AcceptPop, RejectPop, ClaimRequest, CheckVerified,
     CheckInvalidated, FailNullRequest, UpdateService, FailUpdate,
     ReplacePaidService, PutVerifiedPop, browserVars, storageVars
<1> QED
  BY <1>1, <1>2, <1>3 DEF Next, Restart, StorePayment, AnswerBrowser, ReceivePop,
     StartPoll, TakeVerifiedPop, GrantAccess, Logout, ExpirePopRequest,
     ExpireVerifiedPop, ExpirePaidService, vars, browserVars, storageVars

LEMMA HeldStays ==
  ASSUME CreditInv, [Next]_vars, ~Restart,
         NEW i \in RequestIds, NEW s \in Sessions, HeldBy(i, s)
  PROVE  HeldBy(i, s)'
<1>1. /\ id \in Nat /\ drawn \in Nat /\ i < id
      /\ \A n \in Drawn : Live(n) /\ request[n].id = i => request[n].session = s
  BY RequestFacts DEF HeldBy, CreditInv
<1>2. i < id'
  BY <1>1, CounterGrows DEF CreditInv
<1>3. ASSUME NEW n \in Drawn', Live(n)', request'[n].id = i
      PROVE  request'[n].session = s
  <2>1. CASE n \in Drawn
    BY <1>1, <1>3, <2>1, LiveStays, RequestStays DEF CreditInv
  <2>2. CASE n \notin Drawn
    <3>1. n = drawn + 1 /\ request'[n].id = id
      BY <1>1, <2>2, CounterGrows DEF Drawn, CreditInv
    <3> QED BY <1>1, <1>3, <3>1
  <2> QED BY <2>1, <2>2
<1> QED BY <1>2, <1>3 DEF HeldBy
-----------------------------------------------------------------------------
(* AccessInv is inductive where restarts end the sessions.                 *)

LEMMA AccessInit == Init => AccessInv
BY NilFacts DEF Init, AccessInv, SessionInv, CreatingInv, PollInv, AccessDrawn,
   OwnAccess, IdlePoll

\* A crash leaves no session and no thread.
LEMMA AccessCrash == ASSUME Crash PROVE AccessInv'
BY NilFacts DEF Crash, NoSession, AccessInv, SessionInv, CreatingInv, PollInv,
   AccessDrawn, OwnAccess, IdlePoll

\* The new request is the only one on its way under its id.
LEMMA StoreHeld ==
  ASSUME CreditInv, NEW s \in Sessions, NEW svc \in Asked, StoreRequest(s, svc),
         [Next]_vars, ~Restart, NEW i \in RequestIds, i = id
  PROVE  /\ request'[drawn + 1].id = i /\ request'[drawn + 1].session = s
         /\ HeldBy(i, s)'
<1>1. /\ drawn \in Nat /\ id \in Nat /\ drawn' = drawn + 1 /\ id' = id + 1
      /\ request'[drawn + 1] = [id |-> id, session |-> s, svc |-> svc]
  BY RequestFacts, BoundAssumption
     DEF StoreRequest, CreditInv, TypeOK, BrowserOK
<1>2. ASSUME NEW n \in Drawn', Live(n)', request'[n].id = i
      PROVE  request'[n].session = s
  <2>1. CASE n \in Drawn
    <3>1. request[n].id < id /\ request[n].id = id
      BY <1>2, <2>1, LiveStays, LiveBehind, RequestStays DEF CreditInv
    <3> QED BY <1>1, <3>1
  <2>2. CASE n \notin Drawn
    <3>1. n = drawn + 1
      BY <1>1, <2>2 DEF Drawn
    <3> QED BY <1>1, <3>1
  <2> QED BY <2>1, <2>2
<1> QED BY <1>1, <1>2 DEF HeldBy

\* What the steps leave alone.
LEMMA SessionSteps ==
  ASSUME [Next]_vars, ~Restart
  PROVE  /\ \/ UNCHANGED popRequestId
            \/ \E n \in Nonces : AnswerBrowser(n) \/ GrantAccess(n)
         /\ \/ UNCHANGED creating
            \/ \E n \in Nonces : AnswerBrowser(n)
            \/ \E s \in Sessions, svc \in Asked : StoreRequest(s, svc)
         /\ \/ UNCHANGED poll
            \/ \E n \in Nonces : StartPoll(n) \/ TakeVerifiedPop(n) \/ GrantAccess(n)
         /\ \/ UNCHANGED authorizedFor
            \/ \E n \in Nonces : GrantAccess(n)
            \/ \E s \in Sessions, k \in ServiceIds : Logout(s, k)
<1>1. ASSUME NEW w \in Workers, PopStep(w)
      PROVE  UNCHANGED <<popRequestId, creating, poll, authorizedFor>>
  BY <1>1 DEF PopStep, AcceptPop, RejectPop, ClaimRequest, CheckVerified,
     CheckInvalidated, FailNullRequest, UpdateService, FailUpdate,
     ReplacePaidService, PutVerifiedPop, browserVars, sessionVars
<1> QED
  BY <1>1 DEF Next, Restart, StorePayment, StoreRequest, AnswerBrowser,
     ReceivePop, StartPoll, TakeVerifiedPop, GrantAccess, Logout, ExpirePopRequest,
     ExpireVerifiedPop, ExpirePaidService, vars, browserVars, sessionVars

LEMMA SessionStep ==
  ASSUME CreditInv, AccessInv, [Next]_vars, ~Restart
  PROVE  SessionInv'
<1> USE DEF CreditInv, AccessInv
<1> SUFFICES ASSUME NEW s \in Sessions, popRequestId'[s] # Nil
             PROVE  \E i \in RequestIds : popRequestId'[s] = i /\ HeldBy(i, s)'
  BY DEF SessionInv, HeldBy
<1>1. CASE popRequestId'[s] = popRequestId[s]
  <2>1. popRequestId[s] \in RequestIds /\ HeldBy(popRequestId[s], s)
    BY <1>1 DEF SessionInv, TypeOK, BrowserOK
  <2> QED BY <1>1, <2>1, HeldStays
<1>2. ASSUME NEW n \in Nonces, AnswerBrowser(n), popRequestId'[s] # popRequestId[s]
      PROVE  \E i \in RequestIds : popRequestId'[s] = i /\ HeldBy(i, s)'
  <2>1. n \in Drawn /\ n \in creating
    BY <1>2 DEF AnswerBrowser, TypeOK, BrowserOK, Drawn
  <2>2. /\ request[n].id \in RequestIds /\ request[n].session \in Sessions
        /\ HeldBy(request[n].id, request[n].session)
    BY <2>1, RequestFacts DEF CreatingInv, Drawn
  <2>3. s = request[n].session /\ popRequestId'[s] = request[n].id
    BY <1>2, <2>2 DEF AnswerBrowser, TypeOK, BrowserOK
  <2> QED BY <2>2, <2>3, HeldStays
<1>3. ASSUME NEW n \in Nonces, GrantAccess(n)
      PROVE  popRequestId'[s] = popRequestId[s]
  BY <1>3 DEF GrantAccess, TypeOK, BrowserOK
<1> QED BY <1>1, <1>2, <1>3, SessionSteps

LEMMA CreatingStep ==
  ASSUME CreditInv, AccessInv, [Next]_vars, ~Restart
  PROVE  CreatingInv'
<1> USE DEF CreditInv, AccessInv
<1> SUFFICES ASSUME NEW m \in creating'
             PROVE  \E i \in RequestIds, s \in Sessions :
                      /\ request'[m].id = i /\ request'[m].session = s
                      /\ HeldBy(i, s)'
  BY DEF CreatingInv, HeldBy
<1>1. CASE m \in creating
  <2>1. m \in Drawn
    BY <1>1 DEF TypeOK, BrowserOK, Drawn
  <2>2. /\ request[m].id \in RequestIds /\ request[m].session \in Sessions
        /\ HeldBy(request[m].id, request[m].session)
    BY <1>1, <2>1, RequestFacts DEF CreatingInv, Drawn
  <2> QED BY <2>1, <2>2, HeldStays, RequestStays
<1>2. CASE m \notin creating
  <2>1. PICK s \in Sessions, svc \in Asked : StoreRequest(s, svc)
    BY <1>2, SessionSteps DEF AnswerBrowser
  <2>2. m = drawn + 1 /\ id \in RequestIds
    BY <1>2, <2>1 DEF StoreRequest
  <2> QED BY <2>1, <2>2, StoreHeld
<1> QED BY <1>1, <1>2

\* What has been earned remains so.
LEMMA EarnedStays ==
  ASSUME TypeOK, [Next]_vars, NEW n \in Drawn, NEW k \in ServiceIds, Earned(n, k)
  PROVE  Earned(n, k)'
BY RequestStays, PaidGrows DEF Earned, Pays

LEMMA PollStep ==
  ASSUME CreditInv, AccessInv, [Next]_vars, ~Restart
  PROVE  PollInv'
<1> USE DEF CreditInv, AccessInv
<1> DEFINE Good(m, v) == /\ v.proof \in Drawn /\ v.serviceId \in ServiceIds
                         /\ request[v.proof].session = request[m].session
                         /\ Earned(v.proof, v.serviceId)
<1>1. ASSUME NEW m \in Nonces, poll'[m].pc # "idle"
      PROVE  /\ m \in Drawn
             /\ request[m].id \in RequestIds /\ request[m].session \in Sessions
             /\ poll'[m].pc = "checked" => HeldBy(request[m].id, request[m].session)
             /\ poll'[m].pc = "granting" => Good(m, poll'[m].verified)
  <2>1. ASSUME poll'[m] = poll[m] PROVE m \in Drawn
    BY <1>1, <2>1 DEF TypeOK, PollOK, BrowserOK, Drawn
  <2>2. ASSUME poll'[m] # poll[m]
        PROVE  /\ m \in urls
               /\ \/ StartPoll(m)
                  \/ TakeVerifiedPop(m) /\ verifiedPops[request[m].id] # Nil
    <3>1. IdlePoll.pc = "idle" /\ m \in DOMAIN poll
      BY DEF IdlePoll, TypeOK, PollOK
    <3>2. ASSUME NEW n \in Nonces, StartPoll(n) PROVE n = m
      BY <2>2, <3>1, <3>2 DEF StartPoll
    <3>3. ASSUME NEW n \in Nonces, TakeVerifiedPop(n)
          PROVE  n = m /\ m \in urls /\ verifiedPops[request[m].id] # Nil
      <4>1. n = m
        BY <2>2, <3>1, <3>3 DEF TakeVerifiedPop
      <4>2. verifiedPops[request[m].id] # Nil
        BY <1>1, <3>1, <3>3, <4>1 DEF TakeVerifiedPop
      <4>3. m \in urls
        BY <3>3, <4>1 DEF TakeVerifiedPop, TypeOK, PollOK
      <4> QED BY <4>1, <4>2, <4>3
    <3>4. ASSUME NEW n \in Nonces, GrantAccess(n) PROVE FALSE
      <4>1. poll' = [poll EXCEPT ![n] = IdlePoll]
        BY <3>4 DEF GrantAccess
      <4> QED BY <1>1, <2>2, <3>1, <4>1
    <3> QED BY <2>2, <3>2, <3>3, <3>4, SessionSteps DEF StartPoll
  <2>3. m \in Drawn
    BY <2>1, <2>2 DEF TypeOK, BrowserOK, Drawn
  <2>4. request[m].id \in RequestIds /\ request[m].session \in Sessions
    BY <2>3, RequestFacts DEF Drawn
  <2>5. CASE poll'[m] = poll[m]
    <3>1. poll[m].pc = "granting" =>
            /\ poll[m].verified.proof \in Drawn
            /\ poll[m].verified.serviceId \in ServiceIds
      BY RequestFacts DEF TypeOK, PollOK, PollState, VerifiedPop, Drawn
    <3> QED BY <2>3, <2>4, <2>5, <3>1 DEF PollInv
  <2>6. CASE StartPoll(m)
    <3>1. poll'[m].pc = "checked"
      BY <2>6 DEF StartPoll, TypeOK, PollOK, PollState
    <3>2. HeldBy(request[m].id, request[m].session)
      BY <2>4, <2>6, NilFacts DEF StartPoll, SessionAwaits, SessionInv
    <3> QED BY <2>3, <2>4, <3>1, <3>2
  <2>7. CASE TakeVerifiedPop(m) /\ verifiedPops[request[m].id] # Nil
    <3> DEFINE v == verifiedPops[request[m].id]
    <3>1. poll'[m].pc = "granting" /\ poll'[m].verified = v
      BY <2>7 DEF TakeVerifiedPop, TypeOK, PollOK
    <3>2. /\ v.proof \in Drawn /\ v.serviceId \in ServiceIds
          /\ request[v.proof].id = request[m].id
          /\ Earned(v.proof, v.serviceId)
      BY <2>4, <2>7, RequestFacts
         DEF TypeOK, StorageOK, VerifiedPop, IdsBehind, Drawn
    <3>3. Live(v.proof)
      BY <2>7, <3>2 DEF Live
    <3>4. HeldBy(request[m].id, request[m].session)
      BY <2>7 DEF TakeVerifiedPop, PollInv
    <3>5. request[v.proof].session = request[m].session
      BY <3>2, <3>3, <3>4 DEF HeldBy
    <3> QED BY <2>3, <2>4, <3>1, <3>2, <3>5
  <2> QED BY <2>2, <2>3, <2>4, <2>5, <2>6, <2>7
<1>2. ASSUME NEW m \in Nonces, poll'[m].pc = "checked"
      PROVE  \E i \in RequestIds, s \in Sessions :
               /\ request'[m].id = i /\ request'[m].session = s
               /\ HeldBy(i, s)'
  BY <1>1, <1>2, HeldStays, RequestStays
<1>3. ASSUME NEW m \in Nonces, poll'[m].pc = "granting"
      PROVE  \E n \in Drawn, k \in ServiceIds :
               /\ poll'[m].verified.proof = n /\ poll'[m].verified.serviceId = k
               /\ request'[n].session = request'[m].session
               /\ Earned(n, k)'
  BY <1>1, <1>3, RequestStays, EarnedStays
<1> QED BY <1>2, <1>3 DEF PollInv, HeldBy, Earned, Pays

\* A session gains access from a poll of its own only, and keeps the reason.
LEMMA AccessStep ==
  ASSUME CreditInv, AccessInv, [Next]_vars, ~Restart
  PROVE  AccessDrawn' /\ OwnAccess'
<1> USE DEF CreditInv, AccessInv
<1>1. ASSUME NEW s \in Sessions, NEW k \in ServiceIds, authorizedFor'[s][k] # Nil
      PROVE  \E n \in Drawn : /\ authorizedFor'[s][k] = n
                              /\ request[n].session = s
                              /\ Earned(n, k)
  <2>1. CASE authorizedFor'[s][k] = authorizedFor[s][k]
    BY <1>1, <2>1 DEF AccessDrawn, OwnAccess, Earned, Pays, TypeOK, BrowserOK
  <2>2. ASSUME NEW m \in Nonces, GrantAccess(m),
               authorizedFor'[s][k] # authorizedFor[s][k]
        PROVE  \E n \in Drawn : /\ authorizedFor'[s][k] = n
                                /\ request[n].session = s
                                /\ Earned(n, k)
    <3> DEFINE v == poll[m].verified
    <3>1. /\ poll[m].pc = "granting"
          /\ authorizedFor' = [authorizedFor EXCEPT
                                 ![request[m].session][v.serviceId] = v.proof]
      BY <2>2 DEF GrantAccess
    <3>2. v.proof \in Drawn /\ v.serviceId \in ServiceIds
      BY <3>1, RequestFacts DEF TypeOK, PollOK, PollState, VerifiedPop, Drawn
    <3>3. s = request[m].session /\ k = v.serviceId /\ authorizedFor'[s][k] = v.proof
      BY <2>2, <3>1 DEF TypeOK, BrowserOK
    <3> QED BY <3>1, <3>2, <3>3 DEF PollInv
  <2>3. ASSUME NEW t \in Sessions, NEW j \in ServiceIds, Logout(t, j)
        PROVE  authorizedFor'[s][k] = authorizedFor[s][k]
    BY <1>1, <2>3 DEF Logout, TypeOK, BrowserOK
  <2> QED BY <2>1, <2>2, <2>3, SessionSteps
<1>2. ASSUME NEW s \in Sessions, NEW k \in ServiceIds, authorizedFor'[s][k] # Nil
      PROVE  \E n \in Drawn' : /\ authorizedFor'[s][k] = n
                               /\ request'[n].session = s
                               /\ Earned(n, k)'
  BY <1>1, <1>2, RequestStays, EarnedStays
<1> QED BY <1>2 DEF AccessDrawn, OwnAccess, Earned, Pays

LEMMA AccessAlways ==
  ASSUME "redeploy" \notin Faults PROVE Spec => [](CreditInv /\ AccessInv)
<1>1. Init => CreditInv /\ AccessInv
  BY InitType, CreditInit, AccessInit DEF CreditInv
<1>2. CreditInv /\ AccessInv /\ [Next]_vars => (CreditInv /\ AccessInv)'
  <2> SUFFICES ASSUME CreditInv, AccessInv, [Next]_vars PROVE (CreditInv /\ AccessInv)'
    OBVIOUS
  <2>1. CreditInv'
    BY CreditStep
  <2>2. CASE Crash
    BY <2>1, <2>2, AccessCrash
  <2>3. CASE ~Crash
    <3>1. ~Restart
      BY <2>3 DEF Restart, Redeploy
    <3>2. AccessInv'
      BY <3>1, SessionStep, CreatingStep, PollStep, AccessStep DEF AccessInv
    <3> QED BY <2>1, <3>2
  <2> QED BY <2>2, <2>3
<1> QED BY <1>1, <1>2, PTL DEF Spec

\* Where a restart ends the sessions, a session has access to a service only
\* by a PopRequest that it made itself, that asked for this service, and that
\* some transaction has paid for: with any number of sessions, threads, tabs
\* and restarts, however request ids are given out again.
THEOREM OwnAccessCorrect ==
  ASSUME "redeploy" \notin Faults PROVE Spec => []OwnAccess
<1>1. CreditInv /\ AccessInv => OwnAccess
  BY DEF AccessInv
<1> QED BY <1>1, AccessAlways, PTL
=============================================================================
