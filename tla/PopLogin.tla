------------------------------ MODULE PopLogin ------------------------------
(***************************************************************************)
(* Logging in with a Proof of Payment: Storage steps 5 to 8 and the        *)
(* servlets that drive them.                                               *)
(*                                                                         *)
(*   PopRequestServlet   stores a PopRequest under a short request id and  *)
(*                       remembers the id in the HTTP session              *)
(*   PopServlet          receives a PoP from a wallet, validates it and    *)
(*                       calls storeVerifiedPop                            *)
(*   PopPoll             is polled by the page that shows the request, and *)
(*                       turns a verified PoP into access for the session  *)
(*                                                                         *)
(* Every servlet request runs on a thread of its own; the actions are the  *)
(* steps between which another thread can run.  Each single cache          *)
(* operation (get, put, remove, replace) is atomic, nothing larger is:     *)
(* Storage takes no lock and no transaction.                               *)
(***************************************************************************)
EXTENDS Integers, Services

CONSTANTS
  Sessions,     \* HTTP sessions (browsers)
  Workers,      \* threads that serve POSTs to /Pop/<requestId>
  Txids,        \* bitcoin transactions that paid for a service
  Ordered,      \* txid -> the service type that it paid for
  Asked,        \* the service types for which PoP requests are made
  MaxRequests,  \* bound: number of PoP requests ever made
  Faults        \* which of the environment's disturbances may happen

AllFaults == {"crash", "redeploy", "expirePopRequest", "expireVerifiedPop",
              "expirePaidService"}

\* The i-th PopRequest drew the i-th nonce: 6 random bytes, taken as unique.
Nonces     == 1 .. MaxRequests
RequestIds == 0 .. MaxRequests - 1

ASSUME NilAssumption ==
  /\ Nil \notin Int
  /\ Nil \notin Txids \cup ServiceTypes
  /\ Nil \notin [serviceId : ServiceIds, proof : Nonces]
  /\ Nil \notin [id : RequestIds, session : Sessions, svc : ServiceTypes]
ASSUME BoundAssumption == MaxRequests \in Nat \ {0}
ASSUME ShopAssumption ==
  /\ Ordered \in [Txids -> ServiceTypes]
  /\ Asked \subseteq ServiceTypes
  /\ Faults \subseteq AllFaults

VARIABLES
  id,             \* Storage.id, the AtomicInteger that numbers the requests
  popRequests,    \* request id -> nonce of the PopRequest stored there
  verifiedPops,   \* request id -> the service proven paid for
  paidServices,   \* txid -> content of the paid ServiceType object in memory
  stored,         \* txid -> the same in the file store behind paidServices
  drawn,          \* number of PopRequests made
  request,        \* what each PopRequest is for, and which session made it
  creating,       \* PopRequests stored by a createPopRequest still running
  urls,           \* PopRequests whose page has reached the browser
  paid,           \* transactions that storePayment has seen (history)
  popRequestId,   \* session attribute SESSION_POP_REQUEST_ID
  authorizedFor,  \* session attributes SESSION_AUTHORIZED_FOR_SERVICE<id>
  post,           \* state of the threads in PopServlet.doPost
  poll            \* state of the poll of each page in PopPoll.doGet

storageVars == <<id, popRequests, verifiedPops, paidServices, stored>>
sessionVars == <<popRequestId, authorizedFor>>
browserVars == <<drawn, request, creating, urls, paid>>
vars == <<storageVars, sessionVars, browserVars, post, poll>>

(***************************************************************************)
(* The Date under which a session keeps an authorization only tells        *)
(* occasions apart, so the model keeps the PopRequest that earned it.  The *)
(* proof field of a verified PoP is history: the code keeps the service    *)
(* object, of which PopPoll reads the service id.                          *)
(***************************************************************************)
VerifiedPop == [serviceId : ServiceIds, proof : Nonces]
Request     == [id : RequestIds, session : Sessions, svc : ServiceTypes]

PostSteps == {"idle", "validate", "store", "gone", "recheck", "nullRequest",
              "claimed", "replace", "putVerified"}
IdlePost  == [pc |-> "idle", pop |-> Nil, tx |-> Nil, popRequest |-> Nil,
              serviceId |-> Nil]
PollSteps == {"idle", "checked", "granting"}
IdlePoll  == [pc |-> "idle", verified |-> Nil]

NoSession == /\ popRequestId'  = [s \in Sessions |-> Nil]
             /\ authorizedFor' = [s \in Sessions |-> [k \in ServiceIds |-> Nil]]

Init ==
  /\ id = 0
  /\ popRequests  = [r \in RequestIds |-> Nil]
  /\ verifiedPops = [r \in RequestIds |-> Nil]
  /\ paidServices = [tx \in Txids |-> Nil]
  /\ stored  = [tx \in Txids |-> Nil]
  /\ paid = {}
  /\ drawn = 0
  /\ request  = [n \in Nonces |-> Nil]
  /\ creating = {}
  /\ urls = {}
  /\ popRequestId  = [s \in Sessions |-> Nil]
  /\ authorizedFor = [s \in Sessions |-> [k \in ServiceIds |-> Nil]]
  /\ post = [w \in Workers |-> IdlePost]
  /\ poll = [n \in Nonces |-> IdlePoll]

-----------------------------------------------------------------------------

\* Slip: the put does not reach the file store.
StorePaymentInMemory(tx) ==
  /\ tx \notin paid
  /\ paid' = paid \cup {tx}
  /\ paidServices' = [paidServices EXCEPT ![tx] = Ordered[tx]]
  /\ UNCHANGED <<id, popRequests, verifiedPops, stored, sessionVars, drawn,
                 request, creating, urls, post, poll>>

\* storePayment puts the ordered service under the transaction that completes
\* its payment, on the thread of the wallet.
StorePayment(tx) ==
  /\ tx \notin paid
  /\ paid' = paid \cup {tx}
  /\ paidServices' = [paidServices EXCEPT ![tx] = Ordered[tx]]
  /\ stored' = [stored EXCEPT ![tx] = Ordered[tx]]
  /\ UNCHANGED <<id, popRequests, verifiedPops, sessionVars, drawn, request,
                 creating, urls, post, poll>>

-----------------------------------------------------------------------------
(* PopRequestServlet, reached from AuthenticateToService and              *)
(* UpdateMessageSpace.                                                     *)

\* storage.store: getAndIncrement the id, put the request under it.
StoreRequest(s, svc) ==
  /\ drawn < MaxRequests /\ id \in RequestIds   \* the bound; id <= drawn
  /\ drawn' = drawn + 1
  /\ request' = [request EXCEPT ![drawn + 1] =
                   [id |-> id, session |-> s, svc |-> svc]]
  /\ popRequests' = [popRequests EXCEPT ![id] = drawn + 1]
  /\ id' = id + 1
  /\ creating' = creating \cup {drawn + 1}
  /\ UNCHANGED <<verifiedPops, paidServices, stored, sessionVars,
                 urls, paid, post, poll>>

\* Remember the id in the session and send the page with the PoP request URI.
AnswerBrowser(n) ==
  /\ n \in creating
  /\ creating' = creating \ {n}
  /\ popRequestId' = [popRequestId EXCEPT ![request[n].session] = request[n].id]
  /\ urls' = urls \cup {n}
  /\ UNCHANGED <<storageVars, authorizedFor, drawn, request, paid, post, poll>>

-----------------------------------------------------------------------------
(* PopServlet.doPost.  A wallet sends its PoP to the destination of the    *)
(* request that it answers, as often as it likes.                          *)

PostedId(w) == request[post[w].pop].id

\* getPopRequest: without a request under this id the post is refused.
ReceivePop(w, n, tx) ==
  /\ post[w].pc = "idle"
  /\ n \in urls
  /\ popRequests[request[n].id] # Nil
  /\ post' = [post EXCEPT ![w] =
                [pc |-> "validate", pop |-> n, tx |-> tx,
                 popRequest |-> popRequests[request[n].id], serviceId |-> Nil]]
  /\ UNCHANGED <<storageVars, sessionVars, browserVars, poll>>

\* Slip: the nonce of the PoP is not compared.
ValidIgnoringNonce(w) ==
  /\ paidServices[post[w].tx] # Nil
  /\ IsSameServiceType(paidServices[post[w].tx],
                       request[post[w].popRequest].svc)

\* Slip: any paid service will do.
PaysForSomething(svc, tx) == paidServices[tx] # Nil

\* What validatePop requires: the nonce of the request, and a transaction
\* that paid for the service which the request is about.
PaysForCorrectService(svc, tx) ==
  /\ paidServices[tx] # Nil
  /\ IsSameServiceType(paidServices[tx], svc)

ValidPop(w) ==
  /\ post[w].pop = post[w].popRequest
  /\ PaysForCorrectService(request[post[w].popRequest].svc, post[w].tx)

\* The PoP is valid: reply "valid" and enter storeVerifiedPop.
AcceptPop(w) ==
  /\ post[w].pc = "validate"
  /\ ValidPop(w)
  /\ post' = [post EXCEPT ![w].pc = "store"]
  /\ UNCHANGED <<storageVars, sessionVars, browserVars, poll>>

\* The PoP is not valid, bitcoind does not answer, or the reply fails.
RejectPop(w) ==
  /\ post[w].pc = "validate"
  /\ post' = [post EXCEPT ![w] = IdlePost]
  /\ UNCHANGED <<storageVars, sessionVars, browserVars, poll>>

\* Slip: popRequests.get where the code has popRequests.remove.
ReadRequest(w) ==
  /\ post[w].pc = "store"
  /\ post' = [post EXCEPT
                ![w].popRequest = popRequests[PostedId(w)],
                ![w].pc = IF popRequests[PostedId(w)] = Nil THEN "gone"
                                                            ELSE "claimed"]
  /\ UNCHANGED <<storageVars, sessionVars, browserVars, poll>>

\* Slip: the thread goes on when the request is gone.
ClaimWithoutCheck(w) ==
  /\ post[w].pc = "store"
  /\ popRequests' = [popRequests EXCEPT ![PostedId(w)] = Nil]
  /\ post' = [post EXCEPT ![w].popRequest = popRequests[PostedId(w)],
                          ![w].pc = "claimed"]
  /\ UNCHANGED <<id, verifiedPops, paidServices, stored, sessionVars,
                 browserVars, poll>>

\* storeVerifiedPop takes the request out of popRequests.
ClaimRequest(w) ==
  /\ post[w].pc = "store"
  /\ popRequests' = [popRequests EXCEPT ![PostedId(w)] = Nil]
  /\ post' = [post EXCEPT
                ![w].popRequest = popRequests[PostedId(w)],
                ![w].pc = IF popRequests[PostedId(w)] = Nil THEN "gone"
                                                            ELSE "claimed"]
  /\ UNCHANGED <<id, verifiedPops, paidServices, stored,
                 sessionVars, browserVars, poll>>

\* First look at verifiedPops when the request is gone: already verified?
CheckVerified(w) ==
  /\ post[w].pc = "gone"
  /\ post' = [post EXCEPT ![w] =
                IF verifiedPops[PostedId(w)] # Nil
                  THEN IdlePost ELSE [@ EXCEPT !.pc = "recheck"]]
  /\ UNCHANGED <<storageVars, sessionVars, browserVars, poll>>

\* Second look: was the request invalidated while the PoP was validated?
CheckInvalidated(w) ==
  /\ post[w].pc = "recheck"
  /\ post' = [post EXCEPT ![w] =
                IF verifiedPops[PostedId(w)] = Nil
                  THEN IdlePost ELSE [@ EXCEPT !.pc = "nullRequest"]]
  /\ UNCHANGED <<storageVars, sessionVars, browserVars, poll>>

\* Neither look returned: popRequest is null when it is dereferenced, and
\* doPost answers with a system error.
FailNullRequest(w) ==
  /\ post[w].pc = "nullRequest"
  /\ post' = [post EXCEPT ![w] = IdlePost]
  /\ UNCHANGED <<storageVars, sessionVars, browserVars, poll>>

CanUpdate(w) ==
  /\ paidServices[post[w].tx] # Nil
  /\ AcceptsUpdate(paidServices[post[w].tx],
                   request[post[w].popRequest].svc)

\* getCacheEntry, then update the ServiceType object in place.
UpdateService(w) ==
  /\ post[w].pc = "claimed"
  /\ CanUpdate(w)
  /\ paidServices' = [paidServices EXCEPT
                        ![post[w].tx] = Update(@, request[post[w].popRequest].svc)]
  /\ post' = [post EXCEPT ![w].pc = "replace",
                          ![w].serviceId = paidServices[post[w].tx].serviceId]
  /\ UNCHANGED <<id, popRequests, verifiedPops, stored, sessionVars,
                 browserVars, poll>>

\* The paid service has expired (cacheEntry is null) or refuses the update:
\* an exception, and the request is lost with it.
FailUpdate(w) ==
  /\ post[w].pc = "claimed"
  /\ ~CanUpdate(w)
  /\ post' = [post EXCEPT ![w] = IdlePost]
  /\ UNCHANGED <<storageVars, sessionVars, browserVars, poll>>

\* Slip: the updated object is never put back into the cache.
SkipReplace(w) ==
  /\ post[w].pc = "replace"
  /\ post' = [post EXCEPT ![w].pc = "putVerified"]
  /\ UNCHANGED <<storageVars, sessionVars, browserVars, poll>>

\* replace writes the object through to the file store, if the entry is there.
ReplacePaidService(w) ==
  /\ post[w].pc = "replace"
  /\ stored' = [stored EXCEPT ![post[w].tx] = paidServices[post[w].tx]]
  /\ post' = [post EXCEPT ![w].pc = "putVerified"]
  /\ UNCHANGED <<id, popRequests, verifiedPops, paidServices, sessionVars,
                 browserVars, poll>>

\* Slip: the verified PoP is not stored.
DropVerifiedPop(w) ==
  /\ post[w].pc = "putVerified"
  /\ post' = [post EXCEPT ![w] = IdlePost]
  /\ UNCHANGED <<storageVars, sessionVars, browserVars, poll>>

PutVerifiedPop(w) ==
  /\ post[w].pc = "putVerified"
  /\ verifiedPops' = [verifiedPops EXCEPT ![PostedId(w)] =
                        [serviceId |-> post[w].serviceId,
                         proof     |-> post[w].popRequest]]
  /\ post' = [post EXCEPT ![w] = IdlePost]
  /\ UNCHANGED <<id, popRequests, paidServices, stored, sessionVars,
                 browserVars, poll>>

PopStep(w) ==
  \/ AcceptPop(w)     \/ RejectPop(w)
  \/ ClaimRequest(w)  \/ CheckVerified(w) \/ CheckInvalidated(w)
  \/ FailNullRequest(w)
  \/ UpdateService(w) \/ FailUpdate(w)
  \/ ReplacePaidService(w) \/ PutVerifiedPop(w)

-----------------------------------------------------------------------------
(* PopPoll.doGet, called every 500 ms by the page of PopRequest n; the     *)
(* next poll starts when the previous one was answered.                    *)

\* checkSessionPopRequestId; any other poll is refused.
SessionAwaits(n) == popRequestId[request[n].session] = request[n].id

StartPoll(n) ==
  /\ n \in urls
  /\ poll[n].pc = "idle"
  /\ SessionAwaits(n)
  /\ poll' = [poll EXCEPT ![n].pc = "checked"]
  /\ UNCHANGED <<storageVars, sessionVars, browserVars, post>>

\* Slip: verifiedPops.get where the code has verifiedPops.remove.
PeekVerifiedPop(n) ==
  /\ poll[n].pc = "checked"
  /\ LET verified == verifiedPops[request[n].id] IN
       poll' = [poll EXCEPT ![n] =
                  IF verified = Nil THEN IdlePoll
                  ELSE [pc |-> "granting", verified |-> verified]]
  /\ UNCHANGED <<storageVars, sessionVars, browserVars, post>>

\* storage.removeVerifiedPop
TakeVerifiedPop(n) ==
  /\ poll[n].pc = "checked"
  /\ LET verified == verifiedPops[request[n].id] IN
       /\ verifiedPops' = [verifiedPops EXCEPT ![request[n].id] = Nil]
       /\ poll' = [poll EXCEPT ![n] =
                     IF verified = Nil THEN IdlePoll
                     ELSE [pc |-> "granting", verified |-> verified]]
  /\ UNCHANGED <<id, popRequests, paidServices, stored, sessionVars,
                 browserVars, post>>

\* Drop the session's request id and add the service to the session.
GrantAccess(n) ==
  /\ poll[n].pc = "granting"
  /\ LET s == request[n].session
         k == poll[n].verified.serviceId IN
       /\ popRequestId'  = [popRequestId EXCEPT ![s] = Nil]
       /\ authorizedFor' = [authorizedFor EXCEPT
                              ![s][k] = poll[n].verified.proof]
  /\ poll' = [poll EXCEPT ![n] = IdlePoll]
  /\ UNCHANGED <<storageVars, browserVars, post>>

\* Logout.doGet removes the session's authorization.
Logout(s, k) ==
  /\ authorizedFor[s][k] # Nil
  /\ authorizedFor' = [authorizedFor EXCEPT ![s][k] = Nil]
  /\ UNCHANGED <<storageVars, popRequestId, browserVars, post, poll>>

-----------------------------------------------------------------------------
(* The caches drop entries at the end of their lifespan (infinispan.xml)   *)
(* or when their file store is full; the model lets them go at any time.   *)

ExpirePopRequest(r) ==
  /\ "expirePopRequest" \in Faults
  /\ popRequests[r] # Nil
  /\ popRequests' = [popRequests EXCEPT ![r] = Nil]
  /\ UNCHANGED <<id, verifiedPops, paidServices, stored,
                 sessionVars, browserVars, post, poll>>

ExpireVerifiedPop(r) ==
  /\ "expireVerifiedPop" \in Faults
  /\ verifiedPops[r] # Nil
  /\ verifiedPops' = [verifiedPops EXCEPT ![r] = Nil]
  /\ UNCHANGED <<id, popRequests, paidServices, stored,
                 sessionVars, browserVars, post, poll>>

ExpirePaidService(tx) ==
  /\ "expirePaidService" \in Faults
  /\ paidServices[tx] # Nil
  /\ paidServices' = [paidServices EXCEPT ![tx] = Nil]
  /\ stored' = [stored EXCEPT ![tx] = Nil]
  /\ UNCHANGED <<id, popRequests, verifiedPops, sessionVars, browserVars,
                 post, poll>>

-----------------------------------------------------------------------------
(* Restarts.  The caches come back from the file store; contextInitialized *)
(* sets id to one more than the largest id still in use, 0 if there is     *)
(* none (getMaxRequestId starts from -1).                                  *)

\* Slip: the ids of verified PoPs are forgotten.
IdsPending == {r \in RequestIds : popRequests[r] # Nil}

IdsInUse == {r \in RequestIds : popRequests[r] # Nil \/ verifiedPops[r] # Nil}

LoadStorage ==
  /\ \E max \in IdsInUse \cup {-1} :
       /\ \A r \in IdsInUse : r <= max
       /\ id' = max + 1
  /\ paidServices' = stored
  /\ UNCHANGED <<popRequests, verifiedPops, stored>>

\* The process dies: every thread stops where it is, sessions are lost.
Crash ==
  /\ "crash" \in Faults
  /\ LoadStorage
  /\ NoSession
  /\ creating' = {}
  /\ post' = [w \in Workers |-> IdlePost]
  /\ poll' = [n \in Nonces |-> IdlePoll]
  /\ UNCHANGED <<drawn, request, urls, paid>>

\* An orderly restart: the container answers the requests it has, keeps the
\* sessions and starts the application again.
Redeploy ==
  /\ "redeploy" \in Faults
  /\ creating = {}
  /\ \A w \in Workers : post[w] = IdlePost
  /\ \A n \in Nonces : poll[n] = IdlePoll
  /\ LoadStorage
  /\ UNCHANGED <<sessionVars, browserVars, post, poll>>

Next ==
  \/ \E tx \in Txids : StorePayment(tx)
  \/ \E s \in Sessions, svc \in Asked : StoreRequest(s, svc)
  \/ \E n \in Nonces : AnswerBrowser(n)
  \/ \E w \in Workers, n \in Nonces, tx \in Txids : ReceivePop(w, n, tx)
  \/ \E w \in Workers : PopStep(w)
  \/ \E n \in Nonces : StartPoll(n) \/ TakeVerifiedPop(n) \/ GrantAccess(n)
  \/ \E s \in Sessions, k \in ServiceIds : Logout(s, k)
  \/ \E r \in RequestIds : ExpirePopRequest(r) \/ ExpireVerifiedPop(r)
  \/ \E tx \in Txids : ExpirePaidService(tx)
  \/ Crash
  \/ Redeploy

Spec == Init /\ [][Next]_vars

\* The servlet container runs every thread that it has started, and the page
\* of a PopRequest polls for as long as it is shown (setTimeout in the jsp).
\* Nobody is obliged to make a request, to post a PoP or to log out.
Fairness ==
  /\ \A w \in Workers : WF_vars(PopStep(w))
  /\ \A n \in Nonces :
       /\ WF_vars(AnswerBrowser(n))
       /\ WF_vars(StartPoll(n) \/ TakeVerifiedPop(n) \/ GrantAccess(n))

LiveSpec == Spec /\ Fairness

-----------------------------------------------------------------------------
(* Types                                                                   *)

NonceOrNil == Nonces \cup {Nil}
PostState  == [pc : PostSteps, pop : NonceOrNil, tx : Txids \cup {Nil},
               popRequest : NonceOrNil, serviceId : ServiceIds \cup {Nil}]
PollState  == [pc : PollSteps, verified : VerifiedPop \cup {Nil}]

StorageOK ==
  /\ id \in 0 .. MaxRequests
  /\ popRequests \in [RequestIds -> NonceOrNil]
  /\ verifiedPops \in [RequestIds -> VerifiedPop \cup {Nil}]
  /\ paidServices \in [Txids -> ServiceTypes \cup {Nil}]
  /\ stored \in [Txids -> ServiceTypes \cup {Nil}]
  /\ \A r \in RequestIds :
       /\ popRequests[r] # Nil => popRequests[r] <= drawn
       /\ verifiedPops[r] # Nil => verifiedPops[r].proof <= drawn

BrowserOK ==
  /\ drawn \in 0 .. MaxRequests
  /\ request \in [Nonces -> Request \cup {Nil}]
  /\ \A n \in Nonces : n <= drawn => request[n] # Nil
  /\ creating \subseteq 1 .. drawn
  /\ urls \subseteq 1 .. drawn
  /\ paid \subseteq Txids
  /\ popRequestId \in [Sessions -> RequestIds \cup {Nil}]
  /\ authorizedFor \in [Sessions -> [ServiceIds -> NonceOrNil]]

\* A thread in doPost has what its next step reads.
PostOK ==
  /\ post \in [Workers -> PostState]
  /\ \A w \in Workers :
       LET p == post[w] IN
       /\ p.pc # "idle" => p.pop \in 1 .. drawn /\ p.tx \in Txids
       /\ p.pc \in {"validate", "store", "claimed", "replace", "putVerified"} =>
            p.popRequest \in 1 .. drawn
       /\ p.pc \in {"replace", "putVerified"} => p.serviceId \in ServiceIds

PollOK ==
  /\ poll \in [Nonces -> PollState]
  /\ \A n \in Nonces :
       /\ poll[n].pc # "idle" => n \in urls
       /\ poll[n].pc = "granting" =>
            poll[n].verified # Nil /\ poll[n].verified.proof <= drawn

\* Every cache, session attribute and thread holds data of its type, and a
\* thread has the data that its next step reads.
TypeOK == StorageOK /\ BrowserOK /\ PostOK /\ PollOK
=============================================================================
