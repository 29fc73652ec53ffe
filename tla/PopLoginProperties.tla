------------------------- MODULE PopLoginProperties -------------------------
(* What should hold of logging in with a Proof of Payment.                 *)
EXTENDS PopLogin

\* The places where a PopRequest can be on its way to an access.
Pending(n)  == {r \in RequestIds : popRequests[r] = n}
Claimed(n)  == {w \in Workers : /\ post[w].popRequest = n
                                /\ post[w].pc \in {"claimed", "replace",
                                                   "putVerified"}}
Verified(n) == {r \in RequestIds : verifiedPops[r] # Nil
                                    /\ verifiedPops[r].proof = n}
Granting(n) == {m \in Nonces : poll[m].pc = "granting"
                                /\ poll[m].verified.proof = n}

\* A PopRequest is in at most one place: with several PoPs for it in
\* PopServlet, several polls of it and a restart at any moment, it is
\* pending, or claimed by one thread, or verified once, or being granted
\* once.  So one request never earns two accesses.
SingleHolder ==
  \A n \in Nonces :
    /\ \A a, b \in Pending(n)  : a = b
    /\ \A a, b \in Claimed(n)  : a = b
    /\ \A a, b \in Verified(n) : a = b
    /\ \A a, b \in Granting(n) : a = b
    /\ Pending(n) # {} => Claimed(n) = {} /\ Verified(n) = {} /\ Granting(n) = {}
    /\ Claimed(n) # {} => Verified(n) = {} /\ Granting(n) = {}
    /\ Verified(n) # {} => Granting(n) = {}

\* Request ids are short and start over after a restart, yet no request is
\* stored over another that is pending, and no verified PoP over another
\* that has not been polled.
NoOverwrite ==
  [][\A r \in RequestIds :
       /\ popRequests[r] # Nil => popRequests'[r] \in {popRequests[r], Nil}
       /\ verifiedPops[r] # Nil => verifiedPops'[r] \in {verifiedPops[r], Nil}
    ]_vars

\* The request that storeVerifiedPop takes is the one whose nonce the PoP
\* carries, though it looks the request up a second time, and though its id
\* may have belonged to another request before a restart.
CreditedAsAsked ==
  \A w \in Workers :
    post[w].pc \in {"claimed", "replace", "putVerified"} =>
      post[w].popRequest = post[w].pop

\* A session is authorized only by a PopRequest that it made itself, for the
\* service that the request asked for, and after a transaction has paid for it.
OwnAccess ==
  \A s \in Sessions, k \in ServiceIds :
    authorizedFor[s][k] # Nil =>
      LET r == request[authorizedFor[s][k]] IN
      /\ r.session = s
      /\ r.svc.serviceId = k
      /\ \E tx \in paid : IsSameServiceType(Ordered[tx], r.svc)

\* What paidServices shows and what a restart would bring back differ only
\* while some thread is between the update and the replace.
UpdateDurable ==
  \A tx \in Txids :
    paidServices[tx] # stored[tx] =>
      \E w \in Workers : post[w].pc = "replace" /\ post[w].tx = tx

\* A transaction stands for a service only when it has paid, and the service
\* remains the one that was ordered: update changes the message of a message
\* space, never the space.
SpacesStay ==
  \A tx \in Txids :
    \A svc \in {paidServices[tx], stored[tx]} \ {Nil} :
      tx \in paid /\ IsSameServiceType(Ordered[tx], svc)

\* A message other than the ordered one was asked for in a PopRequest that
\* is used up.
ProvenMessage ==
  \A tx \in Txids :
    paidServices[tx] \notin {Ordered[tx], Nil} =>
      \E n \in 1 .. drawn : request[n].svc = paidServices[tx]
                            /\ Pending(n) = {}

-----------------------------------------------------------------------------
(* Liveness, under LiveSpec and without expiries or restarts.              *)

PageAwaits(n) ==
  /\ n \in urls
  /\ popRequestId[request[n].session] = request[n].id
  /\ \A m \in Nonces \ {n} :
       m <= drawn /\ request[m].session = request[n].session =>
         poll[m].pc = "idle"

Granted(n) ==
  /\ n <= drawn
  /\ authorizedFor[request[n].session][request[n].svc.serviceId] = n

\* The session has come to wait for another request.
Superseded(n) ==
  /\ n <= drawn
  /\ popRequestId[request[n].session] \notin {request[n].id, Nil}

\* A PoP that has claimed its request brings access to the page that waits
\* for it, unless the session comes to wait for another.  A page that polls at
\* the same moment for an older request of the session is excluded: PopPoll
\* then removes the request id that the session has come to wait for.
AcceptedIsGranted ==
  \A n \in Nonces :
    Claimed(n) # {} /\ PageAwaits(n) ~> Granted(n) \/ Superseded(n)

-----------------------------------------------------------------------------
(* What a comment or a page says, and the code does not keep.              *)

\* storeVerifiedPop: a request that is gone was either "already verified" or
\* "invalidated (too old)", and both return.
GoneRequestReturns == \A w \in Workers : post[w].pc # "nullRequest"
=============================================================================
