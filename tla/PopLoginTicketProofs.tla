------------------------ MODULE PopLoginTicketProofs ------------------------
(***************************************************************************)
(* Proof that a PopRequest is in one place at a time on its way to an      *)
(* access, that nothing in popRequests or verifiedPops is overwritten, and *)
(* that PopLogin therefore implements LoginTickets.                        *)
(***************************************************************************)
EXTENDS PopLoginProofs, PopLoginTickets

USE DEF Nonces, RequestIds, NonceOrNil

Busy == {"claimed", "replace", "putVerified"}

\* The four places of a PopRequest; the caches keep it under its own id.
InPending(n)    == popRequests[request[n].id] = n
ClaimedBy(w, n) == post[w].pc \in Busy /\ post[w].popRequest = n
InVerified(n)   == /\ verifiedPops[request[n].id] # Nil
                   /\ verifiedPops[request[n].id].proof = n
GrantedBy(m, n) == poll[m].pc = "granting" /\ poll[m].verified.proof = n

IsClaimed(n)  == \E w \in Workers : ClaimedBy(w, n)
IsGranting(n) == \E m \in Nonces : GrantedBy(m, n)

OnePlace(n) ==
  /\ \A v, w \in Workers : ClaimedBy(v, n) /\ ClaimedBy(w, n) => v = w
  /\ \A l, m \in Nonces : GrantedBy(l, n) /\ GrantedBy(m, n) => l = m
  /\ InPending(n) => ~IsClaimed(n) /\ ~InVerified(n) /\ ~IsGranting(n)
  /\ IsClaimed(n) => ~InVerified(n) /\ ~IsGranting(n)
  /\ InVerified(n) => ~IsGranting(n)

\* Of the requests that had the same id, one at most is on its way.
OneLive ==
  \A n, m \in Drawn : Live(n) /\ Live(m) /\ request[n].id = request[m].id => n = m

HolderInv == OneLive /\ \A n \in Drawn : OnePlace(n)

-----------------------------------------------------------------------------

LEMMA LivePlaces ==
  ASSUME NEW n
  PROVE  Live(n) <=> InPending(n) \/ IsClaimed(n) \/ InVerified(n)
BY DEF Live, InPending, IsClaimed, ClaimedBy, InVerified, Busy

\* The places as PopLoginProperties has them.
LEMMA PlacesAre ==
  ASSUME CreditInv, NEW n \in Drawn
  PROVE  /\ \A r \in Pending(n) : r = request[n].id
         /\ Pending(n) # {} <=> InPending(n)
         /\ Claimed(n) = {w \in Workers : ClaimedBy(w, n)}
         /\ \A r \in Verified(n) : r = request[n].id
         /\ Verified(n) # {} <=> InVerified(n)
         /\ Granting(n) = {m \in Nonces : GrantedBy(m, n)}
<1>1. n # Nil /\ request[n].id \in RequestIds
  BY RequestFacts, NilFacts DEF CreditInv, Drawn
<1>2. \A r \in Pending(n) : r = request[n].id
  BY <1>1 DEF Pending, CreditInv, IdsBehind
<1>3. \A r \in Verified(n) : r = request[n].id
  BY <1>1 DEF Verified, CreditInv, IdsBehind
<1>4. Pending(n) # {} <=> InPending(n)
  BY <1>1, <1>2 DEF Pending, InPending
<1>5. Verified(n) # {} <=> InVerified(n)
  BY <1>1, <1>3 DEF Verified, InVerified
<1>6. Claimed(n) = {w \in Workers : ClaimedBy(w, n)}
  BY DEF Claimed, ClaimedBy, Busy
<1>7. Granting(n) = {m \in Nonces : GrantedBy(m, n)}
  BY DEF Granting, GrantedBy
<1> QED BY <1>2, <1>3, <1>4, <1>5, <1>6, <1>7

\* A request not drawn is nowhere.
LEMMA NowherePlaces ==
  ASSUME CreditInv, NEW n \in Nonces, n \notin Drawn
  PROVE  /\ Pending(n) = {} /\ Claimed(n) = {} /\ Verified(n) = {}
         /\ Granting(n) = {}
<1>1. drawn \in Nat /\ n > drawn /\ n \in Nat /\ n # Nil
  BY RequestFacts, NilFacts DEF CreditInv, Drawn
<1>2. \A r \in RequestIds : popRequests[r] # n
  BY <1>1 DEF CreditInv, TypeOK, StorageOK
<1>5. \A r \in RequestIds : verifiedPops[r] # Nil => verifiedPops[r].proof # n
  BY <1>1 DEF CreditInv, TypeOK, StorageOK
<1>3. Claimed(n) = {}
  BY <1>1 DEF Claimed, CreditInv, TypeOK, PostOK
<1>4. \A m \in Nonces : poll[m].pc = "granting" => poll[m].verified.proof # n
  BY <1>1 DEF CreditInv, TypeOK, PollOK
<1> QED BY <1>2, <1>3, <1>4, <1>5 DEF Pending, Verified, Granting

LEMMA HolderSingle == CreditInv /\ HolderInv => SingleHolder
<1> SUFFICES ASSUME CreditInv, HolderInv, NEW n \in Nonces
             PROVE  /\ \A a, b \in Pending(n)  : a = b
                    /\ \A a, b \in Claimed(n)  : a = b
                    /\ \A a, b \in Verified(n) : a = b
                    /\ \A a, b \in Granting(n) : a = b
                    /\ Pending(n) # {} => Claimed(n) = {} /\ Verified(n) = {}
                                          /\ Granting(n) = {}
                    /\ Claimed(n) # {} => Verified(n) = {} /\ Granting(n) = {}
                    /\ Verified(n) # {} => Granting(n) = {}
  BY DEF SingleHolder
<1>1. CASE n \notin Drawn
  BY <1>1, NowherePlaces
<1>2. CASE n \in Drawn
  <2>1. OnePlace(n)
    BY <1>2 DEF HolderInv
  <2> QED BY <1>2, <2>1, PlacesAre DEF OnePlace, IsClaimed, IsGranting
<1> QED BY <1>1, <1>2

LEMMA HolderInit == Init => HolderInv
<1> SUFFICES ASSUME Init PROVE Drawn = {}
  BY DEF HolderInv, OneLive
<1> QED BY DEF Init, Drawn
-----------------------------------------------------------------------------
(* What each step does to the places.                                      *)

\* A step leaves PopRequest n where it is.
Same(n) ==
  /\ InPending(n)' <=> InPending(n)
  /\ \A w \in Workers : ClaimedBy(w, n)' <=> ClaimedBy(w, n)
  /\ InVerified(n)' <=> InVerified(n)
  /\ \A m \in Nonces : GrantedBy(m, n)' <=> GrantedBy(m, n)

LEMMA DrawnFacts ==
  ASSUME CreditInv, NEW n \in Drawn
  PROVE  n \in Nonces /\ n # Nil /\ request[n] \in Request
         /\ request[n].id \in RequestIds /\ request[n].id \in Int
         /\ drawn \in Nat /\ n <= drawn
BY RequestFacts, NilFacts DEF CreditInv, Drawn

\* No cache, no poll and no claim changes.
LEMMA SameFrame ==
  ASSUME CreditInv, NEW n \in Drawn, request'[n] = request[n],
         UNCHANGED <<popRequests, verifiedPops, poll>>,
         \A w \in Workers : ClaimedBy(w, n)' <=> ClaimedBy(w, n)
  PROVE  Same(n)
BY DEF Same, InPending, InVerified, GrantedBy

LEMMA SamePosts ==
  ASSUME CreditInv, NEW n \in Drawn, NEW w \in Workers,
         \/ \E m \in Nonces, tx \in Txids : ReceivePop(w, m, tx)
         \/ AcceptPop(w) \/ RejectPop(w) \/ CheckVerified(w)
         \/ CheckInvalidated(w) \/ FailNullRequest(w) \/ UpdateService(w)
         \/ ReplacePaidService(w)
  PROVE  Same(n)
<1>1. post[w] \in PostState /\ post \in [Workers -> PostState]
  BY PostFacts DEF CreditInv, TypeOK, PostOK
<1>2. UNCHANGED <<popRequests, verifiedPops, request, poll>>
  BY DEF ReceivePop, AcceptPop, RejectPop, CheckVerified, CheckInvalidated,
     FailNullRequest, UpdateService, ReplacePaidService, storageVars, browserVars
<1>3. \A v \in Workers \ {w} : post'[v] = post[v]
  BY <1>1 DEF ReceivePop, AcceptPop, RejectPop, CheckVerified, CheckInvalidated,
     FailNullRequest, UpdateService, ReplacePaidService
<1>4. \/ post[w].pc \notin Busy /\ post'[w].pc \notin Busy
      \/ /\ post[w].pc \in Busy /\ post'[w].pc \in Busy
         /\ post'[w].popRequest = post[w].popRequest
  <2>1. CASE \E m \in Nonces, tx \in Txids : ReceivePop(w, m, tx)
    BY <1>1, <2>1 DEF ReceivePop, Busy
  <2>2. CASE AcceptPop(w) \/ RejectPop(w) \/ FailNullRequest(w)
    BY <1>1, <2>2 DEF AcceptPop, RejectPop, FailNullRequest, IdlePost, PostState, Busy
  <2>3. CASE CheckVerified(w) \/ CheckInvalidated(w)
    BY <1>1, <2>3 DEF CheckVerified, CheckInvalidated, IdlePost, PostState, Busy
  <2>4. CASE UpdateService(w) \/ ReplacePaidService(w)
    BY <1>1, <2>4 DEF UpdateService, ReplacePaidService, PostState, Busy
  <2> QED BY <2>1, <2>2, <2>3, <2>4
<1>5. \A v \in Workers : ClaimedBy(v, n)' <=> ClaimedBy(v, n)
  BY <1>3, <1>4 DEF ClaimedBy
<1> QED BY <1>2, <1>5, SameFrame

\* The new request is pending, and no other moves.
LEMMA PlacesStore ==
  ASSUME CreditInv, NEW s \in Sessions, NEW svc \in Asked, StoreRequest(s, svc)
  PROVE  /\ \A n \in Nonces : n = drawn + 1 => InPending(n)'
         /\ \A n \in Drawn : Same(n)
<1>1. /\ drawn \in Nat /\ drawn + 1 \in Nonces /\ id \in RequestIds
      /\ request' = [request EXCEPT ![drawn + 1] =
                       [id |-> id, session |-> s, svc |-> svc]]
      /\ popRequests' = [popRequests EXCEPT ![id] = drawn + 1]
      /\ UNCHANGED <<verifiedPops, post, poll>>
  BY RequestFacts, NilFacts DEF StoreRequest, CreditInv
<1>2. popRequests \in [RequestIds -> NonceOrNil]
      /\ request \in [Nonces -> Request \cup {Nil}]
  BY DEF CreditInv, TypeOK, StorageOK, BrowserOK
<1>3. ASSUME NEW n \in Nonces, n = drawn + 1 PROVE InPending(n)'
  <2>1. request'[n].id = id /\ popRequests'[id] = n
    BY <1>1, <1>2, <1>3
  <2> QED BY <2>1 DEF InPending
<1>4. ASSUME NEW n \in Drawn PROVE Same(n)
  <2>1. n # drawn + 1 /\ request'[n] = request[n] /\ request[n].id \in RequestIds
        /\ n # Nil
    BY <1>1, <1>2, DrawnFacts
  <2>2. popRequests[id] = Nil
    BY <1>1 DEF CreditInv, IdsBehind
  <2>3. InPending(n)' <=> InPending(n)
    BY <1>1, <1>2, <2>1, <2>2 DEF InPending
  <2> QED BY <1>1, <2>1, <2>3 DEF Same, ClaimedBy, InVerified, GrantedBy
<1> QED BY <1>3, <1>4

\* The thread takes the request that is pending there, if there is one.
LEMMA PlacesClaim ==
  ASSUME CreditInv, NEW w \in Workers, ClaimRequest(w), NEW n \in Drawn
  PROVE  \/ Same(n)
         \/ /\ InPending(n) /\ ~InPending(n)'
            /\ \A v \in Workers : ClaimedBy(v, n)' <=> ClaimedBy(v, n) \/ v = w
            /\ InVerified(n)' <=> InVerified(n)
            /\ \A m \in Nonces : GrantedBy(m, n)' <=> GrantedBy(m, n)
            /\ \A m \in Drawn \ {n} : Same(m)
<1> DEFINE r == PostedId(w)
<1>1. /\ post[w] \in PostState /\ post \in [Workers -> PostState]
      /\ r \in RequestIds
      /\ popRequests \in [RequestIds -> NonceOrNil]
  BY PostFacts DEF CreditInv, TypeOK, PostOK, StorageOK, ClaimRequest
<1>2. /\ post[w].pc = "store"
      /\ popRequests' = [popRequests EXCEPT ![r] = Nil]
      /\ UNCHANGED <<verifiedPops, request, poll>>
  BY DEF ClaimRequest, browserVars
<1>3. /\ \A v \in Workers \ {w} : post'[v] = post[v]
      /\ post'[w].popRequest = popRequests[r]
      /\ post'[w].pc = IF popRequests[r] = Nil THEN "gone" ELSE "claimed"
  BY <1>1 DEF ClaimRequest, PostState
<1> HIDE DEF r
<1>4. ASSUME NEW m \in Drawn, m # popRequests[r] PROVE Same(m)
  <2>1. m # Nil /\ request[m].id \in RequestIds
    BY DrawnFacts
  <2>2. InPending(m)' <=> InPending(m)
    BY <1>1, <1>2, <1>4, <2>1 DEF InPending
  <2>3. \A v \in Workers : ClaimedBy(v, m)' <=> ClaimedBy(v, m)
    BY <1>2, <1>3, <1>4, <2>1 DEF ClaimedBy, Busy
  <2> QED BY <1>2, <2>2, <2>3 DEF Same, InVerified, GrantedBy
<1>5. CASE n = popRequests[r]
  <2>1. n # Nil /\ request[n].id = r
    BY <1>1, <1>5, DrawnFacts DEF CreditInv, IdsBehind
  <2>2. InPending(n) /\ ~InPending(n)'
    BY <1>1, <1>2, <1>5, <2>1 DEF InPending
  <2>3. \A v \in Workers : ClaimedBy(v, n)' <=> ClaimedBy(v, n) \/ v = w
    BY <1>2, <1>3, <1>5, <2>1 DEF ClaimedBy, Busy
  <2> QED BY <1>2, <1>4, <1>5, <2>2, <2>3 DEF InVerified, GrantedBy
<1> QED BY <1>4, <1>5

\* An exception: the thread drops the request that it had claimed.
LEMMA PlacesFailUpdate ==
  ASSUME CreditInv, NEW w \in Workers, FailUpdate(w), NEW n \in Drawn
  PROVE  \/ Same(n)
         \/ /\ ClaimedBy(w, n)
            /\ \A v \in Workers : ClaimedBy(v, n)' <=> ClaimedBy(v, n) /\ v # w
            /\ InPending(n)' <=> InPending(n)
            /\ InVerified(n)' <=> InVerified(n)
            /\ \A m \in Nonces : GrantedBy(m, n)' <=> GrantedBy(m, n)
            /\ \A m \in Drawn \ {n} : Same(m)
<1>1. post[w] \in PostState /\ post \in [Workers -> PostState]
  BY PostFacts DEF CreditInv, TypeOK, PostOK
<1>2. /\ post[w].pc = "claimed" /\ post'[w].pc = "idle"
      /\ \A v \in Workers \ {w} : post'[v] = post[v]
      /\ UNCHANGED <<popRequests, verifiedPops, request, poll>>
  BY <1>1 DEF FailUpdate, IdlePost, storageVars, browserVars
<1>3. ASSUME NEW m \in Drawn, m # post[w].popRequest PROVE Same(m)
  <2>1. \A v \in Workers : ClaimedBy(v, m)' <=> ClaimedBy(v, m)
    BY <1>2, <1>3 DEF ClaimedBy, Busy
  <2> QED BY <1>2, <2>1, SameFrame
<1>4. CASE n = post[w].popRequest
  BY <1>2, <1>3, <1>4 DEF ClaimedBy, Busy, InPending, InVerified, GrantedBy
<1> QED BY <1>3, <1>4

\* The claimed request becomes a verified PoP; no other was in its place.
LEMMA PlacesPut ==
  ASSUME CreditInv, HolderInv, NEW w \in Workers, PutVerifiedPop(w), NEW n \in Drawn
  PROVE  /\ verifiedPops[PostedId(w)] = Nil
         /\ \/ Same(n)
            \/ /\ ClaimedBy(w, n) /\ InVerified(n)'
               /\ \A v \in Workers : ClaimedBy(v, n)' <=> ClaimedBy(v, n) /\ v # w
               /\ InPending(n)' <=> InPending(n)
               /\ \A m \in Nonces : GrantedBy(m, n)' <=> GrantedBy(m, n)
               /\ \A m \in Drawn \ {n} : Same(m)
<1> DEFINE r == PostedId(w)
           v == [serviceId |-> post[w].serviceId, proof |-> post[w].popRequest]
           p == post[w].popRequest
<1>1. /\ post[w] \in PostState /\ post \in [Workers -> PostState]
      /\ r \in RequestIds /\ post[w].pc = "putVerified"
      /\ verifiedPops \in [RequestIds -> VerifiedPop \cup {Nil}]
  BY PostFacts DEF CreditInv, TypeOK, PostOK, StorageOK, PutVerifiedPop
<1>2. p = post[w].pop /\ p \in Drawn /\ request[p].id = r
  BY <1>1, PostFacts DEF CreditInv, PostInv, Drawn, PostedId
<1>3. /\ post'[w].pc = "idle"
      /\ \A u \in Workers \ {w} : post'[u] = post[u]
      /\ verifiedPops' = [verifiedPops EXCEPT ![r] = v]
      /\ UNCHANGED <<popRequests, request, poll>>
  BY <1>1 DEF PutVerifiedPop, IdlePost, browserVars
<1>4. v # Nil /\ v.proof = p
  <2>1. v \in VerifiedPop
    BY <1>1, <1>2, DrawnFacts DEF VerifiedPop, CreditInv, TypeOK, PostOK
  <2> QED BY <2>1, NilFacts
<1>5. Live(p) /\ ClaimedBy(w, p) /\ ~InVerified(p)
  <2>1. ClaimedBy(w, p)
    BY <1>1 DEF ClaimedBy, Busy
  <2> QED BY <1>2, <2>1, LivePlaces DEF IsClaimed, HolderInv, OnePlace
<1>6. verifiedPops[r] = Nil
  <2> SUFFICES ASSUME verifiedPops[r] # Nil PROVE FALSE
    OBVIOUS
  <2> DEFINE m == verifiedPops[r].proof
  <2>1. m \in Drawn /\ request[m].id = r
    BY <1>1, DrawnFacts, RequestFacts
       DEF CreditInv, IdsBehind, TypeOK, StorageOK, VerifiedPop, Drawn
  <2>2. Live(m)
    BY <2>1 DEF Live
  <2>3. m = p
    BY <1>2, <1>5, <2>1, <2>2 DEF HolderInv, OneLive
  <2> QED BY <1>2, <1>5, <2>3 DEF InVerified
<1> HIDE DEF r, v, p
<1>7. ASSUME NEW m \in Drawn, m # p PROVE Same(m)
  <2>1. request[m].id \in RequestIds
    BY DrawnFacts
  <2>2. InVerified(m)' <=> InVerified(m)
    BY <1>1, <1>3, <1>4, <1>6, <1>7, <2>1 DEF InVerified
  <2>3. \A u \in Workers : ClaimedBy(u, m)' <=> ClaimedBy(u, m)
    BY <1>3, <1>5, <1>7 DEF ClaimedBy, Busy
  <2> QED BY <1>3, <2>2, <2>3 DEF Same, InPending, GrantedBy
<1>8. CASE n = p
  <2>1. InVerified(n)'
    BY <1>1, <1>2, <1>3, <1>4, <1>8 DEF InVerified
  <2>2. \A u \in Workers : ClaimedBy(u, n)' <=> ClaimedBy(u, n) /\ u # w
    BY <1>3 DEF ClaimedBy, Busy
  <2> QED BY <1>3, <1>5, <1>6, <1>7, <1>8, <2>1, <2>2 DEF InPending, GrantedBy, r
<1> QED BY <1>6, <1>7, <1>8 DEF r

\* The poll takes the verified PoP, if there is one.
LEMMA PlacesTake ==
  ASSUME CreditInv, NEW l \in Nonces, TakeVerifiedPop(l), NEW n \in Drawn
  PROVE  \/ Same(n)
         \/ /\ InVerified(n) /\ ~InVerified(n)'
            /\ \A m \in Nonces : GrantedBy(m, n)' <=> GrantedBy(m, n) \/ m = l
            /\ InPending(n)' <=> InPending(n)
            /\ \A w \in Workers : ClaimedBy(w, n)' <=> ClaimedBy(w, n)
            /\ \A m \in Drawn \ {n} : Same(m)
<1> DEFINE r == request[l].id
           v == verifiedPops[r]
<1>1. /\ poll \in [Nonces -> PollState] /\ l \in Drawn /\ r \in RequestIds
      /\ verifiedPops \in [RequestIds -> VerifiedPop \cup {Nil}]
  BY RequestFacts DEF TakeVerifiedPop, CreditInv, TypeOK, StorageOK, BrowserOK,
     PollOK, Drawn
<1>2. /\ poll[l].pc = "checked"
      /\ verifiedPops' = [verifiedPops EXCEPT ![r] = Nil]
      /\ UNCHANGED <<popRequests, request, post>>
      /\ \A m \in Nonces \ {l} : poll'[m] = poll[m]
      /\ v = Nil => poll'[l].pc = "idle"
      /\ v # Nil => poll'[l].pc = "granting" /\ poll'[l].verified = v
  BY <1>1 DEF TakeVerifiedPop, IdlePoll, browserVars
<1> HIDE DEF r, v
<1>3. ASSUME NEW m \in Drawn, v = Nil \/ m # v.proof PROVE Same(m)
  <2>1. request[m].id \in RequestIds
    BY DrawnFacts
  <2>2. InVerified(m)' <=> InVerified(m)
    BY <1>1, <1>2, <1>3, <2>1 DEF InVerified, v
  <2>3. \A k \in Nonces : GrantedBy(k, m)' <=> GrantedBy(k, m)
    BY <1>2, <1>3 DEF GrantedBy
  <2> QED BY <1>2, <2>2, <2>3 DEF Same, InPending, ClaimedBy
<1>4. CASE v # Nil /\ n = v.proof
  <2>1. request[n].id = r
    BY <1>1, <1>4 DEF CreditInv, IdsBehind, v
  <2>2. InVerified(n) /\ ~InVerified(n)'
    BY <1>1, <1>2, <1>4, <2>1 DEF InVerified, v
  <2>3. \A k \in Nonces : GrantedBy(k, n)' <=> GrantedBy(k, n) \/ k = l
    BY <1>2, <1>4 DEF GrantedBy
  <2> QED BY <1>2, <1>3, <1>4, <2>2, <2>3 DEF InPending, ClaimedBy
<1> QED BY <1>3, <1>4

\* The poll has granted access.
LEMMA PlacesGrant ==
  ASSUME CreditInv, NEW l \in Nonces, GrantAccess(l), NEW n \in Drawn
  PROVE  \/ n # poll[l].verified.proof /\ Same(n)
         \/ /\ n = poll[l].verified.proof /\ GrantedBy(l, n)
            /\ InPending(n)' <=> InPending(n)
            /\ \A w \in Workers : ClaimedBy(w, n)' <=> ClaimedBy(w, n)
            /\ InVerified(n)' <=> InVerified(n)
            /\ \A m \in Nonces : GrantedBy(m, n)' <=> GrantedBy(m, n) /\ m # l
<1>1. poll \in [Nonces -> PollState] /\ poll[l].pc = "granting"
  BY DEF GrantAccess, CreditInv, TypeOK, PollOK
<1>2. /\ poll'[l].pc = "idle" /\ \A m \in Nonces \ {l} : poll'[m] = poll[m]
      /\ UNCHANGED <<popRequests, verifiedPops, request, post>>
  BY <1>1 DEF GrantAccess, IdlePoll, storageVars, browserVars
<1>3. /\ InPending(n)' <=> InPending(n)
      /\ \A w \in Workers : ClaimedBy(w, n)' <=> ClaimedBy(w, n)
      /\ InVerified(n)' <=> InVerified(n)
  BY <1>2 DEF InPending, ClaimedBy, InVerified
<1>4. CASE n = poll[l].verified.proof
  BY <1>1, <1>2, <1>3, <1>4 DEF GrantedBy
<1>5. CASE n # poll[l].verified.proof
  BY <1>1, <1>2, <1>3, <1>5 DEF GrantedBy, Same
<1> QED BY <1>4, <1>5

LEMMA PlacesExpire ==
  ASSUME CreditInv, NEW r \in RequestIds,
         ExpirePopRequest(r) \/ ExpireVerifiedPop(r), NEW n \in Drawn
  PROVE  \/ Same(n)
         \/ /\ \/ InPending(n) /\ ~InPending(n)' /\ (InVerified(n)' <=> InVerified(n))
               \/ InVerified(n) /\ ~InVerified(n)' /\ (InPending(n)' <=> InPending(n))
            /\ \A w \in Workers : ClaimedBy(w, n)' <=> ClaimedBy(w, n)
            /\ \A m \in Nonces : GrantedBy(m, n)' <=> GrantedBy(m, n)
            /\ \A m \in Drawn \ {n} : Same(m)
<1>1. /\ popRequests \in [RequestIds -> NonceOrNil]
      /\ verifiedPops \in [RequestIds -> VerifiedPop \cup {Nil}]
  BY DEF CreditInv, TypeOK, StorageOK
<1>2. UNCHANGED <<request, post, poll>>
  BY DEF ExpirePopRequest, ExpireVerifiedPop, browserVars
<1>3. \A m \in Drawn : /\ \A w \in Workers : ClaimedBy(w, m)' <=> ClaimedBy(w, m)
                      /\ \A k \in Nonces : GrantedBy(k, m)' <=> GrantedBy(k, m)
  BY <1>2 DEF ClaimedBy, GrantedBy
<1>4. \A m \in Drawn : m # Nil /\ request[m].id \in RequestIds
  BY DrawnFacts
<1>5. CASE ExpirePopRequest(r)
  <2>1. /\ popRequests[r] # Nil /\ popRequests' = [popRequests EXCEPT ![r] = Nil]
        /\ UNCHANGED verifiedPops
    BY <1>5 DEF ExpirePopRequest
  <2>2. \A m \in Drawn : m # popRequests[r] => Same(m)
    BY <1>1, <1>2, <1>3, <1>4, <2>1 DEF Same, InPending, InVerified
  <2>3. CASE n = popRequests[r]
    <3>1. request[n].id = r
      BY <2>1, <2>3 DEF CreditInv, IdsBehind
    <3>2. InPending(n) /\ ~InPending(n)' /\ (InVerified(n)' <=> InVerified(n))
      BY <1>1, <1>2, <1>4, <2>1, <2>3, <3>1 DEF InPending, InVerified
    <3> QED BY <1>3, <2>2, <2>3, <3>2
  <2> QED BY <2>2, <2>3
<1>6. CASE ExpireVerifiedPop(r)
  <2>1. /\ verifiedPops[r] # Nil /\ verifiedPops' = [verifiedPops EXCEPT ![r] = Nil]
        /\ UNCHANGED popRequests
    BY <1>6 DEF ExpireVerifiedPop
  <2>2. \A m \in Drawn : m # verifiedPops[r].proof => Same(m)
    BY <1>1, <1>2, <1>3, <1>4, <2>1 DEF Same, InPending, InVerified
  <2>3. CASE n = verifiedPops[r].proof
    <3>1. request[n].id = r
      BY <2>1, <2>3 DEF CreditInv, IdsBehind
    <3>2. InVerified(n) /\ ~InVerified(n)' /\ (InPending(n)' <=> InPending(n))
      BY <1>1, <1>2, <1>4, <2>1, <2>3, <3>1 DEF InPending, InVerified
    <3> QED BY <1>3, <2>2, <2>3, <3>2
  <2> QED BY <2>2, <2>3
<1> QED BY <1>5, <1>6

\* A restart: the caches keep what they have, threads and polls are gone (or,
\* in an orderly one, had ended).
LEMMA PlacesRestart ==
  ASSUME CreditInv, Restart, NEW n \in Drawn
  PROVE  /\ InPending(n)' <=> InPending(n)
         /\ InVerified(n)' <=> InVerified(n)
         /\ \A w \in Workers : ~ClaimedBy(w, n)'
         /\ \A m \in Nonces : ~GrantedBy(m, n)'
         /\ Redeploy => Same(n)
<1>1. UNCHANGED <<popRequests, verifiedPops, request>>
  BY DEF Restart, Crash, Redeploy, LoadStorage, browserVars
<1>2. /\ \A w \in Workers : post'[w].pc = "idle"
      /\ \A m \in Nonces : poll'[m].pc = "idle"
  <2>1. CASE Crash
    BY <2>1 DEF Crash, IdlePost, IdlePoll
  <2>2. CASE Redeploy
    BY <2>2 DEF Redeploy, IdlePost, IdlePoll
  <2> QED BY <2>1, <2>2 DEF Restart
<1>3. Redeploy => UNCHANGED <<post, poll>>
  BY DEF Redeploy
<1> QED BY <1>1, <1>2, <1>3 DEF Same, InPending, InVerified, ClaimedBy, GrantedBy, Busy

\* All steps but these leave every request where it is.
LEMMA PlacesStep ==
  ASSUME CreditInv, [Next]_vars, NEW n \in Drawn
  PROVE  \/ Same(n)
         \/ \E w \in Workers : ClaimRequest(w) \/ FailUpdate(w) \/ PutVerifiedPop(w)
         \/ \E l \in Nonces : TakeVerifiedPop(l) \/ GrantAccess(l)
         \/ \E r \in RequestIds : ExpirePopRequest(r) \/ ExpireVerifiedPop(r)
         \/ Crash
<1>1. CASE \/ \E tx \in Txids : StorePayment(tx) \/ ExpirePaidService(tx)
           \/ \E m \in Nonces : AnswerBrowser(m)
           \/ \E s \in Sessions, k \in ServiceIds : Logout(s, k)
           \/ UNCHANGED vars
  <2>1. UNCHANGED <<popRequests, verifiedPops, poll, post, request>>
    BY <1>1 DEF StorePayment, ExpirePaidService, AnswerBrowser, Logout, vars,
       storageVars, browserVars
  <2> QED BY <2>1, SameFrame DEF ClaimedBy
<1>2. CASE \E s \in Sessions, svc \in Asked : StoreRequest(s, svc)
  BY <1>2, PlacesStore
<1>3. CASE \E w \in Workers :
             \/ \E m \in Nonces, tx \in Txids : ReceivePop(w, m, tx)
             \/ AcceptPop(w) \/ RejectPop(w) \/ CheckVerified(w)
             \/ CheckInvalidated(w) \/ FailNullRequest(w) \/ UpdateService(w)
             \/ ReplacePaidService(w)
  BY <1>3, SamePosts
<1>4. CASE \E l \in Nonces : StartPoll(l)
  <2>1. PICK l \in Nonces : StartPoll(l)
    BY <1>4
  <2>2. /\ poll[l].pc = "idle" /\ poll'[l].pc = "checked"
        /\ \A m \in Nonces \ {l} : poll'[m] = poll[m]
        /\ UNCHANGED <<popRequests, verifiedPops, post, request>>
    BY <2>1 DEF StartPoll, CreditInv, TypeOK, PollOK, PollState, storageVars,
       browserVars
  <2> QED BY <2>2 DEF Same, InPending, ClaimedBy, InVerified, GrantedBy
<1>5. CASE Redeploy
  BY <1>5, PlacesRestart DEF Restart
<1> QED BY <1>1, <1>2, <1>3, <1>4, <1>5 DEF Next, PopStep

\* The order of the places is the order in which a request passes them.
LEMMA OnePlaceStep ==
  ASSUME CreditInv, HolderInv, [Next]_vars, NEW n \in Drawn
  PROVE  OnePlace(n)'
<1> USE DEF OnePlace, IsClaimed, IsGranting
<1>1. OnePlace(n)
  BY DEF HolderInv
<1>2. CASE Same(n)
  BY <1>1, <1>2 DEF Same
<1>3. ASSUME NEW w \in Workers, ClaimRequest(w) PROVE OnePlace(n)'
  BY <1>1, <1>2, <1>3, PlacesClaim
<1>4. ASSUME NEW w \in Workers, FailUpdate(w) PROVE OnePlace(n)'
  BY <1>1, <1>2, <1>4, PlacesFailUpdate
<1>5. ASSUME NEW w \in Workers, PutVerifiedPop(w) PROVE OnePlace(n)'
  BY <1>1, <1>2, <1>5, PlacesPut
<1>6. ASSUME NEW l \in Nonces, TakeVerifiedPop(l) PROVE OnePlace(n)'
  BY <1>1, <1>2, <1>6, PlacesTake
<1>7. ASSUME NEW l \in Nonces, GrantAccess(l) PROVE OnePlace(n)'
  BY <1>1, <1>2, <1>7, PlacesGrant
<1>8. ASSUME NEW r \in RequestIds, ExpirePopRequest(r) \/ ExpireVerifiedPop(r)
      PROVE  OnePlace(n)'
  BY <1>1, <1>2, <1>8, PlacesExpire
<1>9. CASE Crash
  BY <1>1, <1>9, PlacesRestart DEF Restart
<1> QED BY <1>2, <1>3, <1>4, <1>5, <1>6, <1>7, <1>8, <1>9, PlacesStep

\* The new request is in one place, too.
LEMMA OnePlaceNew ==
  ASSUME CreditInv, NEW s \in Sessions, NEW svc \in Asked, StoreRequest(s, svc),
         NEW n \in Nonces, n = drawn + 1
  PROVE  OnePlace(n)'
<1>1. n \notin Drawn /\ UNCHANGED <<verifiedPops, post, poll>>
  BY RequestFacts DEF StoreRequest, CreditInv, Drawn
<1>2. /\ \A w \in Workers : ~ClaimedBy(w, n)
      /\ \A r \in RequestIds : verifiedPops[r] # Nil => verifiedPops[r].proof # n
      /\ \A m \in Nonces : ~GrantedBy(m, n)
  BY <1>1, NowherePlaces DEF Claimed, Verified, Granting, ClaimedBy, GrantedBy, Busy
<1>3. request'[n].id \in RequestIds
  BY RequestFacts DEF StoreRequest, CreditInv, TypeOK, BrowserOK
<1>4. ~InVerified(n)'
  BY <1>1, <1>2, <1>3 DEF InVerified
<1>5. /\ \A w \in Workers : ~ClaimedBy(w, n)'
      /\ \A m \in Nonces : ~GrantedBy(m, n)'
  BY <1>1, <1>2 DEF ClaimedBy, GrantedBy
<1> QED BY <1>4, <1>5 DEF OnePlace, IsClaimed, IsGranting

\* Only storage.store draws requests.
LEMMA DrawnStep ==
  ASSUME CreditInv, [Next]_vars, NEW n \in Drawn', n \notin Drawn
  PROVE  /\ n \in Nonces /\ n = drawn + 1
         /\ \E s \in Sessions, svc \in Asked : StoreRequest(s, svc)
<1>1. drawn' # drawn
  BY DEF Drawn
<1>2. \A w \in Workers : ~PopStep(w)
  BY <1>1 DEF PopStep, AcceptPop, RejectPop, ClaimRequest, CheckVerified,
     CheckInvalidated, FailNullRequest, UpdateService, FailUpdate,
     ReplacePaidService, PutVerifiedPop, browserVars
<1>3. \E s \in Sessions, svc \in Asked : StoreRequest(s, svc)
  BY <1>1, <1>2 DEF Next, StorePayment, AnswerBrowser, ReceivePop, StartPoll,
     TakeVerifiedPop, GrantAccess, Logout, ExpirePopRequest, ExpireVerifiedPop,
     ExpirePaidService, Crash, Redeploy, vars, browserVars
<1>4. drawn \in Nat /\ drawn < MaxRequests /\ drawn' = drawn + 1
  BY <1>3, RequestFacts DEF StoreRequest, CreditInv
<1> QED BY <1>3, <1>4, BoundAssumption DEF Drawn

LEMMA OneLiveStep ==
  ASSUME CreditInv, HolderInv, [Next]_vars
  PROVE  OneLive'
<1> SUFFICES ASSUME NEW n \in Drawn', NEW m \in Drawn', Live(n)', Live(m)',
                    request'[n].id = request'[m].id
             PROVE  n = m
  BY DEF OneLive
<1>1. CASE Restart
  <2>1. UNCHANGED <<drawn, request>>
    BY <1>1 DEF Restart, Crash, Redeploy, browserVars
  <2>2. ASSUME NEW k \in Drawn, Live(k)' PROVE Live(k)
    <3>1. \A w \in Workers : ~ClaimedBy(w, k)'
      BY <1>1, PlacesRestart
    <3>2. InPending(k)' \/ InVerified(k)'
      BY <2>2, <3>1 DEF Live, InPending, InVerified, ClaimedBy, Busy
    <3> QED BY <1>1, <3>2, PlacesRestart, LivePlaces
  <2> QED BY <2>1, <2>2 DEF HolderInv, OneLive, Drawn
<1>2. CASE ~Restart
  <2>1. \A k \in Drawn : Live(k)' => Live(k) /\ request[k].id < id
                                 /\ request'[k] = request[k]
    BY <1>2, LiveStays, LiveBehind, RequestStays DEF CreditInv
  <2>2. \/ UNCHANGED <<id, drawn>>
        \/ /\ drawn' = drawn + 1
           /\ request'[drawn + 1].id = id
    BY <1>2, CounterGrows DEF CreditInv
  <2>3. \A k \in Drawn' : \/ k \in Drawn
                          \/ k = drawn + 1 /\ request'[k].id = id
    BY <2>2, RequestFacts DEF CreditInv, Drawn
  <2>4. \A k \in Drawn : request[k].id \in Int
    BY DrawnFacts
  <2> QED BY <2>1, <2>3, <2>4, RequestFacts DEF HolderInv, OneLive, CreditInv
<1> QED BY <1>1, <1>2

LEMMA HolderStep ==
  ASSUME CreditInv, HolderInv, [Next]_vars
  PROVE  HolderInv'
<1>1. ASSUME NEW n \in Drawn' PROVE OnePlace(n)'
  <2>1. CASE n \in Drawn
    BY <2>1, OnePlaceStep
  <2>2. CASE n \notin Drawn
    <3>1. PICK s \in Sessions, svc \in Asked : StoreRequest(s, svc)
      BY <2>2, DrawnStep
    <3>2. n \in Nonces /\ n = drawn + 1
      BY <2>2, DrawnStep
    <3> QED BY <3>1, <3>2, OnePlaceNew
  <2> QED BY <2>1, <2>2
<1> QED BY <1>1, OneLiveStep DEF HolderInv

LEMMA HolderAlways == Spec => [](CreditInv /\ HolderInv)
<1>1. CreditInv /\ HolderInv /\ [Next]_vars => HolderInv'
  BY HolderStep
<1> QED BY <1>1, HolderInit, CreditAlways, PTL DEF Spec

\* With several PoPs, polls, expiries and restarts, a PopRequest is in at most
\* one place on its way to an access.
THEOREM SingleHolderCorrect == Spec => []SingleHolder
BY HolderSingle, HolderAlways, PTL

-----------------------------------------------------------------------------
(* Nothing is overwritten.                                                 *)

LEMMA OverwriteStep ==
  ASSUME CreditInv, HolderInv, [Next]_vars, NEW r \in RequestIds
  PROVE  /\ popRequests[r] # Nil => popRequests'[r] \in {popRequests[r], Nil}
         /\ verifiedPops[r] # Nil => verifiedPops'[r] \in {verifiedPops[r], Nil}
<1>1. /\ popRequests \in [RequestIds -> NonceOrNil]
      /\ verifiedPops \in [RequestIds -> VerifiedPop \cup {Nil}]
  BY DEF CreditInv, TypeOK, StorageOK
<1>2. ASSUME NEW s \in Sessions, NEW svc \in Asked, StoreRequest(s, svc)
      PROVE  /\ popRequests[r] # Nil => popRequests'[r] = popRequests[r]
             /\ verifiedPops' = verifiedPops
  <2>1. popRequests' = [popRequests EXCEPT ![id] = drawn + 1]
        /\ verifiedPops' = verifiedPops
    BY <1>2 DEF StoreRequest
  <2>2. popRequests[r] # Nil => r < id
    BY DEF CreditInv, IdsBehind
  <2> QED BY <1>1, <2>1, <2>2
<1>3. ASSUME NEW w \in Workers, PutVerifiedPop(w)
      PROVE  /\ verifiedPops[r] # Nil => verifiedPops'[r] = verifiedPops[r]
             /\ popRequests' = popRequests
  <2>1. PICK v : verifiedPops' = [verifiedPops EXCEPT ![PostedId(w)] = v]
                 /\ popRequests' = popRequests
    BY <1>3 DEF PutVerifiedPop
  <2>2. post[w].popRequest \in Drawn
    BY <1>3, PostFacts DEF PutVerifiedPop, CreditInv, Drawn
  <2>3. verifiedPops[PostedId(w)] = Nil
    BY <1>3, <2>2, PlacesPut
  <2> QED BY <1>1, <2>1, <2>3
<1>4. ASSUME NEW w \in Workers, PopStep(w), ~PutVerifiedPop(w)
      PROVE  /\ popRequests'[r] \in {popRequests[r], Nil}
             /\ verifiedPops' = verifiedPops
  BY <1>1, <1>4 DEF PopStep, AcceptPop, RejectPop, ClaimRequest, CheckVerified,
     CheckInvalidated, FailNullRequest, UpdateService, FailUpdate,
     ReplacePaidService, storageVars
<1>5. CASE \/ \E l \in Nonces : TakeVerifiedPop(l)
           \/ \E q \in RequestIds : ExpirePopRequest(q) \/ ExpireVerifiedPop(q)
  BY <1>1, <1>5 DEF TakeVerifiedPop, ExpirePopRequest, ExpireVerifiedPop
<1>6. CASE UNCHANGED <<popRequests, verifiedPops>>
  BY <1>6
<1> QED BY <1>2, <1>3, <1>4, <1>5, <1>6
        DEF Next, StorePayment, AnswerBrowser, ReceivePop, StartPoll, GrantAccess,
            Logout, ExpirePaidService, Crash, Redeploy, LoadStorage, vars,
            storageVars

\* Ids start over after a restart, yet no step puts a request or a verified
\* PoP over another one that is still there.
THEOREM NoOverwriteCorrect == Spec => NoOverwrite
<1>1. CreditInv /\ HolderInv /\ [Next]_vars =>
        [\A r \in RequestIds :
           /\ popRequests[r] # Nil => popRequests'[r] \in {popRequests[r], Nil}
           /\ verifiedPops[r] # Nil => verifiedPops'[r] \in {verifiedPops[r], Nil}
        ]_vars
  BY OverwriteStep
<1> QED BY <1>1, HolderAlways, PTL DEF Spec, NoOverwrite

-----------------------------------------------------------------------------
(* The paid services, in memory and in the file store.                     *)

LEMMA UpdateDurableStep ==
  ASSUME TypeOK, UpdateDurable, [Next]_vars
  PROVE  UpdateDurable'
<1> USE DEF UpdateDurable
<1>1. /\ paidServices \in [Txids -> ServiceTypes \cup {Nil}]
      /\ stored \in [Txids -> ServiceTypes \cup {Nil}]
      /\ post \in [Workers -> PostState]
  BY DEF TypeOK, StorageOK, PostOK
<1>2. CASE Crash \/ Redeploy
  BY <1>2 DEF Crash, Redeploy, LoadStorage
<1>3. ASSUME NEW tx \in Txids, StorePayment(tx) \/ ExpirePaidService(tx)
      PROVE  UpdateDurable'
  BY <1>1, <1>3 DEF StorePayment, ExpirePaidService
<1>4. ASSUME NEW w \in Workers, UpdateService(w) PROVE UpdateDurable'
  BY <1>1, <1>4 DEF UpdateService, PostState
<1>5. ASSUME NEW w \in Workers, ReplacePaidService(w) PROVE UpdateDurable'
  BY <1>1, <1>5 DEF ReplacePaidService, PostState
<1>6. ASSUME NEW w \in Workers, UNCHANGED <<paidServices, stored>>,
             post[w].pc # "replace",
             \A v \in Workers \ {w} : post'[v] = post[v]
      PROVE  UpdateDurable'
  BY <1>6
<1>7. ASSUME NEW w \in Workers, PopStep(w), ~UpdateService(w), ~ReplacePaidService(w)
      PROVE  UpdateDurable'
  BY <1>1, <1>6, <1>7 DEF PopStep, AcceptPop, RejectPop, ClaimRequest,
     CheckVerified, CheckInvalidated, FailNullRequest, FailUpdate,
     PutVerifiedPop, storageVars
<1>8. ASSUME NEW w \in Workers, NEW n \in Nonces, NEW tx \in Txids,
             ReceivePop(w, n, tx)
      PROVE  UpdateDurable'
  BY <1>1, <1>6, <1>8 DEF ReceivePop, storageVars
<1>9. CASE UNCHANGED <<paidServices, stored, post>>
  BY <1>9
<1> QED BY <1>2, <1>3, <1>4, <1>5, <1>7, <1>8, <1>9
        DEF Next, StoreRequest, AnswerBrowser, StartPoll, TakeVerifiedPop,
            GrantAccess, Logout, ExpirePopRequest, ExpireVerifiedPop, vars,
            storageVars

\* A restart loses an update only if it comes between update and replace.
THEOREM UpdateDurableCorrect == Spec => []UpdateDurable
<1>1. Init => UpdateDurable
  BY DEF Init, UpdateDurable
<1>2. TypeOK /\ UpdateDurable /\ [Next]_vars => UpdateDurable'
  BY UpdateDurableStep
<1> QED BY <1>1, <1>2, TypeCorrect, PTL DEF Spec

\* The service was asked for in a PopRequest that is used up.
Asking(svc) == \E n \in Drawn : request[n].svc = svc /\ ~InPending(n)

MessageInv ==
  \A tx \in Txids :
    \A svc \in {paidServices[tx], stored[tx]} \ {Ordered[tx], Nil} : Asking(svc)

\* A request that is used up is never pending again.
LEMMA UsedUp ==
  ASSUME CreditInv, HolderInv, [Next]_vars, NEW n \in Drawn, InPending(n)'
  PROVE  InPending(n)
<1>1. CASE Same(n)
  BY <1>1 DEF Same
<1> QED BY <1>1, PlacesStep, PlacesClaim, PlacesFailUpdate, PlacesPut, PlacesTake,
           PlacesGrant, PlacesExpire, PlacesRestart DEF Restart

LEMMA AskingStays ==
  ASSUME CreditInv, HolderInv, [Next]_vars, NEW svc, Asking(svc)
  PROVE  Asking(svc)'
BY UsedUp, RequestStays DEF Asking, CreditInv

LEMMA UpdateAsked ==
  ASSUME NEW bought \in ServiceTypes, NEW naked \in ServiceTypes,
         AcceptsUpdate(bought, naked)
  PROVE  Update(bought, naked) \in {bought, naked}
<1>1. CASE bought = SimpleService /\ bought.serviceId = SimpleId
  BY <1>1 DEF Update, SimpleId, PayMessId
<1>2. CASE /\ bought.serviceId = PayMessId
           /\ bought = PayMessService(bought.space, bought.message)
  <2>1. naked.serviceId = PayMessId
    BY <1>2 DEF AcceptsUpdate
  <2>2. naked = PayMessService(naked.space, naked.message)
    BY <2>1, ServiceCases DEF SimpleId, PayMessId
  <2>3. Update(bought, naked) = PayMessService(naked.space, naked.message)
    BY <1>2 DEF Update, PayMessService
  <2> QED BY <2>2, <2>3
<1> QED BY <1>1, <1>2, ServiceCases

LEMMA MessageStep ==
  ASSUME CreditInv, HolderInv, MessageInv, [Next]_vars
  PROVE  MessageInv'
<1>1. /\ paidServices \in [Txids -> ServiceTypes \cup {Nil}]
      /\ stored \in [Txids -> ServiceTypes \cup {Nil}]
  BY DEF CreditInv, TypeOK, StorageOK
<1>2. ASSUME \A tx \in Txids :
               /\ paidServices'[tx] \in {paidServices[tx], stored[tx], Ordered[tx], Nil}
               /\ stored'[tx] \in {paidServices[tx], stored[tx], Ordered[tx], Nil}
      PROVE  MessageInv'
  <2> SUFFICES ASSUME NEW tx \in Txids, NEW svc,
                      svc \in {paidServices'[tx], stored'[tx]} \ {Ordered[tx], Nil}
               PROVE  Asking(svc)'
    BY DEF MessageInv
  <2>1. Asking(svc)
    BY <1>2 DEF MessageInv
  <2> QED BY <2>1, AskingStays
<1>3. ASSUME NEW w \in Workers, UpdateService(w) PROVE MessageInv'
  <2> DEFINE n   == post[w].popRequest
             old == paidServices[post[w].tx]
             new == Update(old, request[n].svc)
  <2>1. /\ post[w].pc = "claimed" /\ old # Nil /\ AcceptsUpdate(old, request[n].svc)
        /\ paidServices' = [paidServices EXCEPT ![post[w].tx] = new]
        /\ UNCHANGED stored
    BY <1>3 DEF UpdateService, CanUpdate
  <2>2. n \in Drawn /\ post[w].tx \in Txids
    BY <2>1, PostFacts DEF CreditInv, Drawn
  <2>3. new \in {old, request[n].svc}
    BY <1>1, <2>1, <2>2, UpdateAsked, RequestFacts DEF CreditInv, Drawn
  <2>4. Asking(request[n].svc)
    <3>1. ClaimedBy(w, n)
      BY <2>1 DEF ClaimedBy, Busy
    <3> QED BY <2>2, <3>1 DEF HolderInv, OnePlace, IsClaimed, Asking
  <2> HIDE DEF n, new
  <2> SUFFICES ASSUME NEW tx \in Txids, NEW svc,
                      svc \in {paidServices'[tx], stored'[tx]} \ {Ordered[tx], Nil}
               PROVE  Asking(svc)'
    BY DEF MessageInv
  <2>5. svc \in {paidServices[tx], stored[tx], request[n].svc}
    BY <1>1, <2>1, <2>2, <2>3
  <2>6. Asking(svc)
    BY <2>4, <2>5 DEF MessageInv
  <2> QED BY <2>6, AskingStays
<1>4. ASSUME NEW w \in Workers, ReplacePaidService(w) PROVE MessageInv'
  BY <1>1, <1>2, <1>4 DEF ReplacePaidService
<1>5. ASSUME NEW tx \in Txids, StorePayment(tx) \/ ExpirePaidService(tx)
      PROVE  MessageInv'
  BY <1>1, <1>2, <1>5 DEF StorePayment, ExpirePaidService
<1>6. CASE Crash \/ Redeploy
  BY <1>2, <1>6 DEF Crash, Redeploy, LoadStorage
<1>7. CASE UNCHANGED <<paidServices, stored>>
  BY <1>2, <1>7
<1>8. ASSUME NEW w \in Workers, PopStep(w), ~UpdateService(w), ~ReplacePaidService(w)
      PROVE  UNCHANGED <<paidServices, stored>>
  BY <1>8 DEF PopStep, AcceptPop, RejectPop, ClaimRequest, CheckVerified,
     CheckInvalidated, FailNullRequest, FailUpdate, PutVerifiedPop, storageVars
<1> QED BY <1>3, <1>4, <1>5, <1>6, <1>7, <1>8
        DEF Next, StoreRequest, AnswerBrowser, ReceivePop, StartPoll,
            TakeVerifiedPop, GrantAccess, Logout, ExpirePopRequest,
            ExpireVerifiedPop, vars, storageVars

\* A message differs from the ordered one only by a PopRequest that asked for
\* it and that no other PoP can use again.
THEOREM ProvenMessageCorrect == Spec => []ProvenMessage
<1>1. Init => MessageInv
  BY DEF Init, MessageInv
<1>2. CreditInv /\ HolderInv /\ MessageInv /\ [Next]_vars => MessageInv'
  BY MessageStep
<1>3. CreditInv /\ MessageInv => ProvenMessage
  <2> SUFFICES ASSUME CreditInv, MessageInv, NEW tx \in Txids,
                      paidServices[tx] \notin {Ordered[tx], Nil}
               PROVE  \E n \in Drawn : /\ request[n].svc = paidServices[tx]
                                       /\ Pending(n) = {}
    BY DEF ProvenMessage, Drawn
  <2> QED BY PlacesAre DEF MessageInv, Asking
<1> QED BY <1>1, <1>2, <1>3, HolderAlways, PTL DEF Spec
-----------------------------------------------------------------------------
(* PopLogin implements LoginTickets.                                       *)

Stage(n) ==
  IF n \notin Drawn THEN "unissued"
  ELSE IF InPending(n) THEN "open"
  ELSE IF IsClaimed(n) THEN "claimed"
  ELSE IF InVerified(n) \/ IsGranting(n) THEN "proven"
  ELSE "closed"

LEMMA StatusIsStage ==
  CreditInv /\ HolderInv => \A n \in Nonces : TicketStatus(n) = Stage(n)
<1> SUFFICES ASSUME CreditInv, HolderInv, NEW n \in Nonces
             PROVE  TicketStatus(n) = Stage(n)
  OBVIOUS
<1>1. n > drawn <=> n \notin Drawn
  BY RequestFacts DEF CreditInv, Drawn
<1>2. CASE n \notin Drawn
  <2>1. /\ ~(Pending(n) # {}) /\ ~(Claimed(n) # {})
        /\ ~(Verified(n) # {} \/ Granting(n) # {})
    BY <1>2, NowherePlaces
  <2> QED BY <1>1, <1>2, <2>1 DEF TicketStatus, Stage
<1>3. CASE n \in Drawn
  <2>1. /\ Pending(n) # {} <=> InPending(n)
        /\ Claimed(n) # {} <=> IsClaimed(n)
        /\ Verified(n) # {} \/ Granting(n) # {} <=> InVerified(n) \/ IsGranting(n)
    BY <1>3, PlacesAre DEF IsClaimed, IsGranting
  <2>2. OnePlace(n)
    BY <1>3 DEF HolderInv
  <2>3. CASE InPending(n)
    BY <1>1, <1>3, <2>1, <2>2, <2>3 DEF TicketStatus, Stage, OnePlace
  <2>4. CASE IsClaimed(n)
    BY <1>1, <1>3, <2>1, <2>2, <2>4 DEF TicketStatus, Stage, OnePlace
  <2>5. CASE ~InPending(n) /\ ~IsClaimed(n)
    BY <1>1, <1>3, <2>1, <2>5 DEF TicketStatus, Stage
  <2> QED BY <2>3, <2>4, <2>5
<1> QED BY <1>2, <1>3

LEMMA StatusIsStageNext ==
  CreditInv' /\ HolderInv' => (\A n \in Nonces : TicketStatus(n) = Stage(n))'
BY StatusIsStage, PTL

\* What the refinement mapping makes of a PopRequest.
OwnerOf(n) == IF n > drawn THEN Nil ELSE request[n].session
ForOf(n)   == IF n > drawn THEN Nil ELSE request[n].svc.serviceId

\* Steps that draw no request keep owners, and what the tickets are for.
LEMMA OwnersStay ==
  ASSUME UNCHANGED <<drawn, request>>
  PROVE  /\ UNCHANGED [n \in Nonces |-> OwnerOf(n)]
         /\ UNCHANGED [n \in Nonces |-> ForOf(n)]
BY DEF OwnerOf, ForOf

Status == [n \in Nonces |-> TicketStatus(n)]

\* One ticket moves, the others stay.
LEMMA StatusMoves ==
  ASSUME NEW t \in Nonces, NEW to,
         \A n \in Nonces : TicketStatus(n)' = IF n = t THEN to ELSE TicketStatus(n)
  PROVE  Status' = [Status EXCEPT ![t] = to]
BY DEF Status

LEMMA StatusStays ==
  ASSUME \A n \in Nonces : TicketStatus(n)' = TicketStatus(n)
  PROVE  UNCHANGED Status
BY DEF Status

\* What does not move keeps its stage.
LEMMA SameStage ==
  ASSUME NEW n \in Drawn, n \in Drawn', Same(n)
  PROVE  Stage(n)' = Stage(n)
BY DEF Same, Stage, IsClaimed, IsGranting

LEMMA TicketsInit == Init => Tickets!Init
<1> SUFFICES ASSUME Init PROVE Tickets!Init
  OBVIOUS
<1>1. CreditInv /\ HolderInv
  BY InitType, CreditInit, HolderInit DEF CreditInv
<1>2. Drawn = {} /\ drawn = 0 /\ \A n \in Nonces : n > drawn
  BY DEF Init, Drawn
<1>3. \A n \in Nonces : TicketStatus(n) = "unissued"
  BY <1>1, <1>2, StatusIsStage DEF Stage
<1>4. authorizedFor = [s \in Sessions |-> [k \in ServiceIds |-> Nil]]
  BY DEF Init
<1> QED BY <1>2, <1>3, <1>4 DEF Tickets!Init, Tickets!NoAccess

\* A step that moves one PopRequest at most, draws none and changes no session.
LEMMA OneTicket ==
  ASSUME CreditInv, HolderInv, CreditInv', HolderInv', UNCHANGED <<drawn, request>>,
         NEW t \in Drawn, \A m \in Drawn \ {t} : Same(m)
  PROVE  /\ Status[t] = Stage(t)
         /\ Status' = [Status EXCEPT ![t] = Stage(t)']
<1>1. t \in Nonces
  BY DrawnFacts
<1>2. ASSUME NEW n \in Nonces, n # t PROVE TicketStatus(n)' = TicketStatus(n)
  <2>1. TicketStatus(n) = Stage(n) /\ TicketStatus(n)' = Stage(n)'
    BY StatusIsStage, StatusIsStageNext
  <2>2. CASE n \in Drawn
    <3>1. n \in Drawn' /\ Same(n)
      BY <1>2, <2>2 DEF Drawn
    <3> QED BY <2>1, <2>2, <3>1, SameStage
  <2>3. CASE n \notin Drawn
    <3>1. n \notin Drawn'
      BY <2>3 DEF Drawn
    <3> QED BY <2>1, <2>3, <3>1 DEF Stage
  <2> QED BY <2>2, <2>3
<1>3. TicketStatus(t) = Stage(t) /\ TicketStatus(t)' = Stage(t)'
  BY <1>1, StatusIsStage, StatusIsStageNext
<1>4. \A n \in Nonces :
        TicketStatus(n)' = IF n = t THEN Stage(t)' ELSE TicketStatus(n)
  BY <1>2, <1>3
<1>5. Status' = [Status EXCEPT ![t] = Stage(t)']
  BY <1>1, <1>4, StatusMoves
<1> QED BY <1>1, <1>3, <1>5 DEF Status

LEMMA NoTicket ==
  ASSUME CreditInv, HolderInv, CreditInv', HolderInv', UNCHANGED <<drawn, request>>,
         \A m \in Drawn : Same(m)
  PROVE  UNCHANGED Status
<1> SUFFICES ASSUME NEW n \in Nonces PROVE TicketStatus(n)' = TicketStatus(n)
  BY StatusStays
<1>1. TicketStatus(n) = Stage(n) /\ TicketStatus(n)' = Stage(n)'
  BY StatusIsStage, StatusIsStageNext
<1>2. CASE n \in Drawn
  <2>1. n \in Drawn' /\ Same(n)
    BY <1>2 DEF Drawn
  <2> QED BY <1>1, <1>2, <2>1, SameStage
<1>3. CASE n \notin Drawn
  <2>1. n \notin Drawn'
    BY <1>3 DEF Drawn
  <2> QED BY <1>1, <1>3, <2>1 DEF Stage
<1> QED BY <1>2, <1>3

\* The stages that a moving request passes.
Passes(from, to) == <<from, to>> \in {<<"open", "claimed">>, <<"claimed", "proven">>,
  <<"open", "closed">>, <<"claimed", "closed">>, <<"proven", "closed">>}

\* Owners, services and accesses stay; a ticket moves on.
LEMMA TicketPasses ==
  ASSUME CreditInv, HolderInv, CreditInv', HolderInv',
         UNCHANGED <<drawn, request, authorizedFor>>,
         NEW t \in Drawn, \A m \in Drawn \ {t} : Same(m),
         Passes(Stage(t), Stage(t)')
  PROVE  Tickets!Next
<1>1. t \in Nonces
  BY DrawnFacts
<1>2. /\ Status[t] = Stage(t)
      /\ Status' = [Status EXCEPT ![t] = Stage(t)']
  BY OneTicket
<1>3. /\ UNCHANGED [n \in Nonces |-> OwnerOf(n)]
      /\ UNCHANGED [n \in Nonces |-> ForOf(n)]
  BY OwnersStay
<1>4. CASE Stage(t) = "open" /\ Stage(t)' = "claimed"
  <2>1. Tickets!Claim(t)
    BY <1>2, <1>3, <1>4
       DEF Tickets!Claim, Tickets!Move, Status, OwnerOf, ForOf
  <2> QED BY <1>1, <2>1 DEF Tickets!Next
<1>5. CASE Stage(t) = "claimed" /\ Stage(t)' = "proven"
  <2>1. Tickets!Prove(t)
    BY <1>2, <1>3, <1>5
       DEF Tickets!Prove, Tickets!Move, Status, OwnerOf, ForOf
  <2> QED BY <1>1, <2>1 DEF Tickets!Next
<1>6. CASE Stage(t) \in Tickets!Live /\ Stage(t)' = "closed"
  <2>1. Tickets!Lose(t)
    BY <1>2, <1>3, <1>6
       DEF Tickets!Lose, Tickets!Move, Status, OwnerOf, ForOf
  <2> QED BY <1>1, <2>1 DEF Tickets!Next
<1> QED BY <1>4, <1>5, <1>6 DEF Passes, Tickets!Live

\* Nothing that the tickets show changes.
LEMMA TicketsStutter ==
  ASSUME CreditInv, HolderInv, CreditInv', HolderInv',
         UNCHANGED <<drawn, request, authorizedFor>>, \A m \in Drawn : Same(m)
  PROVE  UNCHANGED Tickets!vars
<1>1. UNCHANGED Status
  BY NoTicket
<1>2. /\ UNCHANGED [n \in Nonces |-> OwnerOf(n)]
      /\ UNCHANGED [n \in Nonces |-> ForOf(n)]
  BY OwnersStay
<1> QED BY <1>1, <1>2 DEF Tickets!vars, Status, OwnerOf, ForOf

\* What storage.store does is to issue a ticket.
LEMMA TicketIssued ==
  ASSUME CreditInv, HolderInv, CreditInv', HolderInv',
         NEW s \in Sessions, NEW svc \in Asked, StoreRequest(s, svc)
  PROVE  Tickets!Next
<1>1. PICK t \in Nonces : t = drawn + 1
  BY RequestFacts, BoundAssumption DEF StoreRequest, CreditInv
<1>2. /\ drawn \in Nat /\ t \notin Drawn /\ t \in Drawn'
      /\ drawn' = t /\ \A n \in Nonces : n \in Drawn' <=> n \in Drawn \/ n = t
  BY <1>1, RequestFacts DEF StoreRequest, CreditInv, Drawn
<1>3. \A n \in Nonces : TicketStatus(n) = Stage(n) /\ TicketStatus(n)' = Stage(n)'
  BY StatusIsStage, StatusIsStageNext
<1>4. InPending(t)' /\ \A n \in Drawn : Same(n)
  BY <1>1, PlacesStore
<1>5. TicketStatus(t) = "unissued" /\ TicketStatus(t)' = "open"
  BY <1>2, <1>3, <1>4 DEF Stage
<1>6. ASSUME NEW n \in Nonces, n # t PROVE TicketStatus(n)' = TicketStatus(n)
  <2>1. CASE n \in Drawn
    BY <1>2, <1>3, <1>4, <2>1, SameStage
  <2>2. CASE n \notin Drawn
    BY <1>2, <1>3, <1>6, <2>2 DEF Stage
  <2> QED BY <2>1, <2>2
<1>7. Status[t] = "unissued" /\ Status' = [Status EXCEPT ![t] = "open"]
  BY <1>5, <1>6, StatusMoves DEF Status
<1>8. /\ request' = [request EXCEPT ![t] = [id |-> id, session |-> s, svc |-> svc]]
      /\ request \in [Nonces -> Request \cup {Nil}]
      /\ UNCHANGED authorizedFor
  BY <1>1 DEF StoreRequest, CreditInv, TypeOK, BrowserOK, sessionVars
<1>9. /\ [n \in Nonces |-> OwnerOf(n)]' = [[n \in Nonces |-> OwnerOf(n)] EXCEPT ![t] = s]
      /\ [n \in Nonces |-> ForOf(n)]' =
           [[n \in Nonces |-> ForOf(n)] EXCEPT ![t] = svc.serviceId]
  <2>1. ASSUME NEW n \in Nonces
        PROVE  /\ OwnerOf(n)' = IF n = t THEN s ELSE OwnerOf(n)
               /\ ForOf(n)' = IF n = t THEN svc.serviceId ELSE ForOf(n)
    BY <1>1, <1>2, <1>8 DEF OwnerOf, ForOf
  <2> QED BY <2>1
<1>10. Tickets!Issue(t, s, svc.serviceId)
  BY <1>7, <1>8, <1>9 DEF Tickets!Issue, Tickets!Move, Status, OwnerOf, ForOf
<1>11. svc.serviceId \in ServiceIds
  BY ShopAssumption, ServiceCases DEF ServiceIds
<1> QED BY <1>10, <1>11 DEF Tickets!Next

\* PopPoll spends the ticket that it carries, for the session and the service
\* of the ticket.
LEMMA TicketGranted ==
  ASSUME CreditInv, HolderInv, AccessInv, CreditInv', HolderInv',
         NEW l \in Nonces, GrantAccess(l)
  PROVE  Tickets!Next
<1> DEFINE v == poll[l].verified
<1>1. /\ v.proof \in Drawn /\ v.serviceId \in ServiceIds
      /\ request[v.proof].session = request[l].session
      /\ request[v.proof].svc.serviceId = v.serviceId
  BY DEF GrantAccess, CreditInv, TypeOK, PollOK, PollState, VerifiedPop, Drawn,
     AccessInv, PollInv, Earned
<1>2. PICK t \in Drawn : t = v.proof
  BY <1>1
<1>3. t \in Nonces /\ t <= drawn /\ drawn \in Nat
  BY DrawnFacts, RequestFacts DEF CreditInv, Drawn
<1>4. authorizedFor' = [authorizedFor EXCEPT
                          ![request[t].session][request[t].svc.serviceId] = t]
  BY <1>1, <1>2 DEF GrantAccess
<1>5. UNCHANGED <<drawn, request>>
  BY DEF GrantAccess, browserVars
<1>6. Stage(t) = "proven" /\ Stage(t)' = "closed"
  <2>1. OnePlace(t) /\ t \in Drawn'
    BY <1>5 DEF HolderInv, Drawn
  <2>2. /\ GrantedBy(l, t)
        /\ InPending(t)' <=> InPending(t)
        /\ \A w \in Workers : ClaimedBy(w, t)' <=> ClaimedBy(w, t)
        /\ InVerified(t)' <=> InVerified(t)
        /\ \A m \in Nonces : GrantedBy(m, t)' <=> GrantedBy(m, t) /\ m # l
    BY <1>2, PlacesGrant
  <2> QED BY <2>1, <2>2 DEF Stage, OnePlace, IsClaimed, IsGranting
<1>7. \A m \in Drawn \ {t} : Same(m)
  BY <1>2, PlacesGrant
<1>8. Status[t] = "proven" /\ Status' = [Status EXCEPT ![t] = "closed"]
  BY <1>5, <1>6, <1>7, OneTicket
<1>9. /\ UNCHANGED [n \in Nonces |-> OwnerOf(n)]
      /\ UNCHANGED [n \in Nonces |-> ForOf(n)]
  BY <1>5, OwnersStay
<1>10. OwnerOf(t) = request[t].session /\ ForOf(t) = request[t].svc.serviceId
  BY <1>3 DEF OwnerOf, ForOf
<1>11. Tickets!Grant(t)
  BY <1>3, <1>4, <1>8, <1>9, <1>10
     DEF Tickets!Grant, Tickets!Move, Status, OwnerOf, ForOf
<1> QED BY <1>3, <1>11 DEF Tickets!Next

\* A crash loses the tickets that threads and polls had in hand.
LEMMA TicketsCrash ==
  ASSUME CreditInv, HolderInv, CreditInv', HolderInv', Crash
  PROVE  Tickets!Crash
<1> DEFINE lost == {n \in Nonces : TicketStatus(n) \in Tickets!Live
                                   /\ TicketStatus(n)' = "closed"}
<1>1. UNCHANGED <<drawn, request>> /\ UNCHANGED Drawn
  BY DEF Crash, browserVars, Drawn
<1>2. \A n \in Nonces : TicketStatus(n) = Stage(n) /\ TicketStatus(n)' = Stage(n)'
  BY StatusIsStage, StatusIsStageNext
<1>3. ASSUME NEW n \in Nonces
      PROVE  TicketStatus(n)' = IF n \in lost THEN "closed" ELSE TicketStatus(n)
  <2>1. CASE n \notin Drawn
    BY <1>1, <1>2, <2>1 DEF Stage
  <2>2. CASE n \in Drawn
    <3>1. /\ InPending(n)' <=> InPending(n)
          /\ InVerified(n)' <=> InVerified(n)
          /\ ~IsClaimed(n)' /\ ~IsGranting(n)'
      BY <2>2, PlacesRestart DEF Restart, IsClaimed, IsGranting
    <3>2. OnePlace(n) /\ n \in Drawn'
      BY <1>1, <2>2 DEF HolderInv
    <3>3. \/ Stage(n)' = Stage(n)
          \/ Stage(n) \in {"claimed", "proven"} /\ Stage(n)' = "closed"
      BY <2>2, <3>1, <3>2 DEF Stage, OnePlace
    <3> QED BY <1>2, <3>3 DEF Tickets!Live
  <2> QED BY <2>1, <2>2
<1>4. lost \subseteq {t \in Nonces : Status[t] \in Tickets!Live}
  BY DEF Status
<1>5. Status' = [t \in Nonces |-> IF t \in lost THEN "closed" ELSE Status[t]]
  BY <1>3 DEF Status
<1>6. authorizedFor' = [s \in Sessions |-> [k \in ServiceIds |-> Nil]]
  BY DEF Crash, NoSession
<1>7. /\ UNCHANGED [n \in Nonces |-> OwnerOf(n)]
      /\ UNCHANGED [n \in Nonces |-> ForOf(n)]
  BY <1>1, OwnersStay
<1> HIDE DEF lost
<1> QED BY <1>4, <1>5, <1>6, <1>7
        DEF Tickets!Crash, Tickets!NoAccess, Status, OwnerOf, ForOf

\* No step but these changes what the tickets show besides their status.
LEMMA SilentSteps ==
  ASSUME [Next]_vars, ~Crash,
         ~\E s \in Sessions, svc \in Asked : StoreRequest(s, svc),
         ~\E s \in Sessions, k \in ServiceIds : Logout(s, k),
         ~\E l \in Nonces : GrantAccess(l)
  PROVE  UNCHANGED <<drawn, request, authorizedFor>>
<1>1. ASSUME NEW w \in Workers, PopStep(w)
      PROVE  UNCHANGED <<drawn, request, authorizedFor>>
  BY <1>1 DEF PopStep, AcceptPop, RejectPop, ClaimRequest, CheckVerified,
     CheckInvalidated, FailNullRequest, UpdateService, FailUpdate,
     ReplacePaidService, PutVerifiedPop, browserVars, sessionVars
<1> QED BY <1>1 DEF Next, StorePayment, AnswerBrowser, ReceivePop, StartPoll,
     TakeVerifiedPop, ExpirePopRequest, ExpireVerifiedPop, ExpirePaidService,
     Redeploy, vars, browserVars, sessionVars

\* A verified PoP that a poll has taken is proven as before.
LEMMA StageStutter ==
  ASSUME CreditInv, HolderInv, CreditInv', HolderInv',
         UNCHANGED <<drawn, request, authorizedFor>>,
         \A t \in Drawn : Stage(t)' = Stage(t)
  PROVE  UNCHANGED Tickets!vars
<1>1. ASSUME NEW n \in Nonces PROVE TicketStatus(n)' = TicketStatus(n)
  <2>1. TicketStatus(n) = Stage(n) /\ TicketStatus(n)' = Stage(n)'
    BY StatusIsStage, StatusIsStageNext
  <2>2. CASE n \notin Drawn
    <3>1. n \notin Drawn'
      BY <2>2 DEF Drawn
    <3> QED BY <2>1, <2>2, <3>1 DEF Stage
  <2> QED BY <2>1, <2>2
<1>2. UNCHANGED Status
  BY <1>1, StatusStays
<1>3. /\ UNCHANGED [n \in Nonces |-> OwnerOf(n)]
      /\ UNCHANGED [n \in Nonces |-> ForOf(n)]
  BY OwnersStay
<1> QED BY <1>2, <1>3 DEF Tickets!vars, Status, OwnerOf, ForOf

\* A logout revokes the access and keeps the tickets.
LEMMA LogoutRevokes ==
  ASSUME CreditInv, HolderInv, CreditInv', HolderInv',
         NEW s \in Sessions, NEW k \in ServiceIds, Logout(s, k)
  PROVE  Tickets!Revoke(s, k)
<1>1. UNCHANGED <<drawn, request, popRequests, verifiedPops, post, poll>>
  BY DEF Logout, storageVars, browserVars
<1>2. \A m \in Drawn : Same(m)
  BY <1>1, SameFrame DEF ClaimedBy
<1>3. UNCHANGED Status
  BY <1>1, <1>2, NoTicket
<1>4. /\ UNCHANGED [n \in Nonces |-> OwnerOf(n)]
      /\ UNCHANGED [n \in Nonces |-> ForOf(n)]
  BY <1>1, OwnersStay
<1>5. /\ authorizedFor[s][k] # Nil
      /\ authorizedFor' = [authorizedFor EXCEPT ![s][k] = Nil]
  BY DEF Logout
<1> QED BY <1>3, <1>4, <1>5 DEF Tickets!Revoke, Status, OwnerOf, ForOf

LEMMA TicketsStep ==
  ASSUME CreditInv, HolderInv, AccessInv, CreditInv', HolderInv', [Next]_vars
  PROVE  [Tickets!Next]_Tickets!vars
<1> DEFINE Goal == Tickets!Next \/ UNCHANGED Tickets!vars
<1> SUFFICES Goal
  OBVIOUS
<1> HIDE DEF Goal
<1> USE DEF OnePlace, IsClaimed, IsGranting, Stage, Passes
<1>1. \A n \in Drawn : OnePlace(n)
  BY DEF HolderInv
<1>2. ASSUME UNCHANGED <<drawn, request, authorizedFor>>,
             \A m \in Drawn : Same(m)
      PROVE  Goal
  BY <1>2, TicketsStutter DEF Goal
<1>3. ASSUME UNCHANGED <<drawn, request, authorizedFor>>, NEW t \in Drawn,
             \A m \in Drawn \ {t} : Same(m), Passes(Stage(t), Stage(t)')
      PROVE  Goal
  <2> HIDE DEF Passes
  <2> QED BY <1>3, TicketPasses DEF Goal
<1>4. CASE \E s \in Sessions, svc \in Asked : StoreRequest(s, svc)
  BY <1>4, TicketIssued DEF Goal
<1>5. ASSUME NEW w \in Workers, ClaimRequest(w) PROVE Goal
  <2>1. UNCHANGED <<drawn, request, authorizedFor>> /\ UNCHANGED Drawn
    BY <1>5 DEF ClaimRequest, sessionVars, browserVars, Drawn
  <2>2. ASSUME NEW t \in Drawn, ~Same(t) PROVE Goal
    <3>1. Passes(Stage(t), Stage(t)')
      BY <1>1, <1>5, <2>1, <2>2, PlacesClaim
    <3>2. \A m \in Drawn \ {t} : Same(m)
      BY <1>5, <2>2, PlacesClaim
    <3> QED BY <1>3, <2>1, <3>1, <3>2
  <2> QED BY <1>2, <2>1, <2>2
<1>6. ASSUME NEW w \in Workers, FailUpdate(w) PROVE Goal
  <2>1. UNCHANGED <<drawn, request, authorizedFor>> /\ UNCHANGED Drawn
    BY <1>6 DEF FailUpdate, sessionVars, browserVars, Drawn
  <2>2. ASSUME NEW t \in Drawn, ~Same(t) PROVE Goal
    <3>1. Passes(Stage(t), Stage(t)')
      BY <1>1, <1>6, <2>1, <2>2, PlacesFailUpdate
    <3>2. \A m \in Drawn \ {t} : Same(m)
      BY <1>6, <2>2, PlacesFailUpdate
    <3> QED BY <1>3, <2>1, <3>1, <3>2
  <2> QED BY <1>2, <2>1, <2>2
<1>7. ASSUME NEW w \in Workers, PutVerifiedPop(w) PROVE Goal
  <2>1. UNCHANGED <<drawn, request, authorizedFor>> /\ UNCHANGED Drawn
    BY <1>7 DEF PutVerifiedPop, sessionVars, browserVars, Drawn
  <2>2. ASSUME NEW t \in Drawn, ~Same(t) PROVE Goal
    <3>1. Passes(Stage(t), Stage(t)')
      BY <1>1, <1>7, <2>1, <2>2, PlacesPut
    <3>2. \A m \in Drawn \ {t} : Same(m)
      BY <1>7, <2>2, PlacesPut
    <3> QED BY <1>3, <2>1, <3>1, <3>2
  <2> QED BY <1>2, <2>1, <2>2
<1>8. ASSUME NEW l \in Nonces, TakeVerifiedPop(l) PROVE Goal
  <2>1. UNCHANGED <<drawn, request, authorizedFor>> /\ UNCHANGED Drawn
    BY <1>8 DEF TakeVerifiedPop, sessionVars, browserVars, Drawn
  <2>2. ASSUME NEW t \in Drawn PROVE Stage(t)' = Stage(t)
    <3>1. CASE Same(t)
      BY <2>1, <3>1, SameStage
    <3>2. CASE ~Same(t)
      BY <1>1, <1>8, <2>1, <3>2, PlacesTake
    <3> QED BY <3>1, <3>2
  <2> QED BY <2>1, <2>2, StageStutter DEF Goal
<1>9. ASSUME NEW l \in Nonces, GrantAccess(l) PROVE Goal
  BY <1>9, TicketGranted DEF Goal
<1>10. ASSUME NEW r \in RequestIds, ExpirePopRequest(r) \/ ExpireVerifiedPop(r)
       PROVE  Goal
  <2>1. UNCHANGED <<drawn, request, authorizedFor>> /\ UNCHANGED Drawn
    BY <1>10 DEF ExpirePopRequest, ExpireVerifiedPop, sessionVars, browserVars,
       Drawn
  <2>2. ASSUME NEW t \in Drawn, ~Same(t) PROVE Goal
    <3>1. Passes(Stage(t), Stage(t)')
      BY <1>1, <1>10, <2>1, <2>2, PlacesExpire
    <3>2. \A m \in Drawn \ {t} : Same(m)
      BY <1>10, <2>2, PlacesExpire
    <3> QED BY <1>3, <2>1, <3>1, <3>2
  <2> QED BY <1>2, <2>1, <2>2
<1>11. CASE Crash
  BY <1>11, TicketsCrash DEF Goal, Tickets!Next
<1>12. ASSUME NEW s \in Sessions, NEW k \in ServiceIds, Logout(s, k)
       PROVE  Goal
  <2>1. Tickets!Revoke(s, k)
    BY <1>12, LogoutRevokes
  <2> QED BY <2>1 DEF Goal, Tickets!Next
<1>13. ASSUME ~\E s \in Sessions, svc \in Asked : StoreRequest(s, svc),
              ~\E s \in Sessions, k \in ServiceIds : Logout(s, k),
              ~\E l \in Nonces : GrantAccess(l), ~Crash
       PROVE  UNCHANGED <<drawn, request, authorizedFor>>
  BY <1>13, SilentSteps
<1> HIDE DEF OnePlace, IsClaimed, IsGranting, Stage, Passes
<1> QED BY <1>2, <1>4, <1>5, <1>6, <1>7, <1>8, <1>9, <1>10, <1>11, <1>12, <1>13,
           PlacesStep

\* What holds of the tickets in LoginTickets, PopLogin promises: it never
\* grants more than one access for a ticket, none to another session or for
\* another service, and none without a claimed and proven request.
THEOREM TicketsCorrect ==
  ASSUME "redeploy" \notin Faults PROVE Spec => ImplementsTickets
<1>1. CreditInv /\ HolderInv /\ AccessInv /\ (CreditInv /\ HolderInv)' /\ [Next]_vars
        => [Tickets!Next]_Tickets!vars
  BY TicketsStep
<1> QED BY <1>1, TicketsInit, AccessAlways, HolderAlways, PTL
        DEF Spec, ImplementsTickets, Tickets!Spec

-----------------------------------------------------------------------------
(* Accesses rest on spent tickets.                                         *)

\* A request that has gone through stays nowhere.
LEMMA ClosedStays ==
  ASSUME CreditInv, HolderInv, [Next]_vars, NEW n \in Drawn, Stage(n) = "closed"
  PROVE  Stage(n)' = "closed"
<1>1. n \in Drawn'
  BY RequestStays DEF CreditInv
<1>2. /\ ~InPending(n) /\ ~InVerified(n)
      /\ \A w \in Workers : ~ClaimedBy(w, n)
      /\ \A m \in Nonces : ~GrantedBy(m, n)
  BY DEF Stage, IsClaimed, IsGranting
<1>3. CASE Crash
  BY <1>1, <1>2, <1>3, PlacesRestart DEF Restart, Stage, IsClaimed, IsGranting
<1>4. CASE ~Crash
  <2>1. Same(n) \/ \E l \in Nonces : GrantAccess(l)
    BY <1>2, <1>4, PlacesStep, PlacesClaim, PlacesFailUpdate, PlacesPut,
       PlacesTake, PlacesExpire
  <2>2. /\ ~InPending(n)' /\ ~InVerified(n)'
        /\ \A w \in Workers : ~ClaimedBy(w, n)'
        /\ \A m \in Nonces : ~GrantedBy(m, n)'
    BY <1>2, <2>1, PlacesGrant DEF Same
  <2> QED BY <1>1, <2>2 DEF Stage, IsClaimed, IsGranting
<1> QED BY <1>3, <1>4

AccessSpent ==
  \A s \in Sessions, k \in ServiceIds :
    authorizedFor[s][k] # Nil => Stage(authorizedFor[s][k]) = "closed"

LEMMA AccessSpentStep ==
  ASSUME CreditInv, HolderInv, AccessInv, AccessSpent, [Next]_vars
  PROVE  AccessSpent'
<1> SUFFICES ASSUME NEW s \in Sessions, NEW k \in ServiceIds,
                    authorizedFor'[s][k] # Nil
             PROVE  \E n \in Nonces : /\ n = authorizedFor'[s][k]
                                      /\ Stage(n)' = "closed"
  BY DEF AccessSpent
<1>1. authorizedFor \in [Sessions -> [ServiceIds -> NonceOrNil]]
  BY DEF CreditInv, TypeOK, BrowserOK
<1>2. CASE authorizedFor'[s][k] = authorizedFor[s][k]
  <2>1. PICK n \in Drawn : n = authorizedFor[s][k]
    BY <1>2 DEF AccessInv, AccessDrawn
  <2>2. Stage(n) = "closed"
    BY <1>2, <2>1 DEF AccessSpent
  <2> QED BY <1>2, <2>1, <2>2, ClosedStays, DrawnFacts
<1>3. CASE authorizedFor'[s][k] # authorizedFor[s][k]
  <2>1. ~Crash
    BY DEF Crash, NoSession
  <2>2. ~\E u \in Sessions, j \in ServiceIds : Logout(u, j)
    BY <1>1, <1>3 DEF Logout
  <2>3. ~\E u \in Sessions, svc \in Asked : StoreRequest(u, svc)
    BY <1>3 DEF StoreRequest, sessionVars
  <2>4. PICK l \in Nonces : GrantAccess(l)
    BY <1>3, <2>1, <2>2, <2>3, SilentSteps
  <2>5. authorizedFor'[s][k] = poll[l].verified.proof
    BY <1>1, <1>3, <2>4 DEF GrantAccess
  <2>6. PICK n \in Drawn : n = poll[l].verified.proof
    BY <2>4 DEF GrantAccess, CreditInv, TypeOK, PollOK, PollState, VerifiedPop, Drawn
  <2>7. OnePlace(n) /\ n \in Drawn'
    BY RequestStays DEF HolderInv, CreditInv
  <2>8. Stage(n)' = "closed"
    BY <2>4, <2>6, <2>7, PlacesGrant DEF Stage, OnePlace, IsClaimed, IsGranting
  <2> QED BY <2>5, <2>6, <2>8, DrawnFacts
<1> QED BY <1>2, <1>3

\* A request that has earned an access is spent: it can be neither posted to
\* nor polled again.
THEOREM AccessIsEarnedCorrect ==
  ASSUME "redeploy" \notin Faults PROVE Spec => []AccessIsEarned
<1>1. Init => AccessSpent
  BY DEF Init, AccessSpent
<1>2. CreditInv /\ HolderInv /\ AccessInv /\ AccessSpent /\ [Next]_vars => AccessSpent'
  BY AccessSpentStep
<1>3. CreditInv /\ HolderInv /\ AccessInv /\ AccessSpent => AccessIsEarned
  <2> SUFFICES ASSUME CreditInv, HolderInv, AccessInv, AccessSpent,
                      NEW s \in Sessions, NEW k \in ServiceIds,
                      authorizedFor[s][k] # Nil,
                      NEW n, n = authorizedFor[s][k]
               PROVE  /\ n \in Nonces
                      /\ OwnerOf(n) = s /\ ForOf(n) = k /\ Status[n] = "closed"
    BY DEF AccessIsEarned, Tickets!AccessIsEarned, Status, OwnerOf, ForOf
  <2>1. n \in Drawn
    BY DEF AccessInv, AccessDrawn
  <2>2. n \in Nonces /\ ~(n > drawn)
    BY <2>1, DrawnFacts, RequestFacts DEF CreditInv, Drawn
  <2>3. request[n].session = s /\ request[n].svc.serviceId = k
    BY DEF AccessInv, OwnAccess
  <2>4. Status[n] = "closed"
    BY <2>2, StatusIsStage DEF AccessSpent, Status
  <2> QED BY <2>2, <2>3, <2>4 DEF OwnerOf, ForOf
<1> QED BY <1>1, <1>2, <1>3, HolderAlways, AccessAlways, PTL DEF Spec
=============================================================================
