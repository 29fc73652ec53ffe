-------------------------- MODULE PopLoginInvariant -------------------------
(***************************************************************************)
(* The inductive invariant behind CreditedAsAsked, SpacesStay and          *)
(* OwnAccess.  Its first half, CreditInv, is about Storage and PopServlet  *)
(* and survives every restart; the second, AccessInv, is about sessions    *)
(* and polls and needs that a restart ends the sessions.                   *)
(***************************************************************************)
EXTENDS PopLoginProperties

\* tx has paid for the service that PopRequest n asks for.
Pays(n, tx) == tx \in paid /\ IsSameServiceType(Ordered[tx], request[n].svc)

\* What a verified PoP must stand for.
Earned(n, k) == /\ request[n].svc.serviceId = k
                /\ \E tx \in Txids : Pays(n, tx)

\* Request ids are given out in order: what is in the caches or in the hands
\* of a thread is behind the counter, under the id of its own request.
IdsBehind ==
  /\ \A r \in RequestIds :
       /\ popRequests[r] # Nil => r < id /\ request[popRequests[r]].id = r
       /\ verifiedPops[r] # Nil =>
            /\ r < id
            /\ request[verifiedPops[r].proof].id = r
            /\ Earned(verifiedPops[r].proof, verifiedPops[r].serviceId)
  /\ \A w \in Workers : post[w].pc # "idle" => PostedId(w) < id

\* What a thread knows of the request it works on.  Until it claims, the
\* request is where it was or gone.
PostInv ==
  \A w \in Workers :
    LET p == post[w] IN
    /\ p.pc \in {"validate", "store"} =>
         popRequests[PostedId(w)] \in {p.popRequest, Nil}
    /\ p.pc \in {"store", "claimed", "replace", "putVerified"} =>
         p.popRequest = p.pop /\ Pays(p.pop, p.tx)
    /\ p.pc \in {"replace", "putVerified"} =>
         p.serviceId = request[p.pop].svc.serviceId

CreditInv == TypeOK /\ SpacesStay /\ IdsBehind /\ PostInv

-----------------------------------------------------------------------------
\* PopRequest n is on its way from popRequests to verifiedPops.
Live(n) ==
  \/ popRequests[request[n].id] = n
  \/ \E w \in Workers : /\ post[w].pc \in {"claimed", "replace", "putVerified"}
                        /\ post[w].popRequest = n
  \/ /\ verifiedPops[request[n].id] # Nil
     /\ verifiedPops[request[n].id].proof = n

Drawn == 1 .. drawn

\* Request id i has been given out, and no request that is on its way under
\* it was made by another session than s.
HeldBy(i, s) ==
  /\ i < id
  /\ \A n \in Drawn : Live(n) /\ request[n].id = i => request[n].session = s

\* Whoever waits for a request id waits for a request of their own: when the
\* id is in the session, on its way there, or just compared by a poll.
SessionInv ==
  \A s \in Sessions : popRequestId[s] # Nil => HeldBy(popRequestId[s], s)

CreatingInv ==
  \A m \in creating : HeldBy(request[m].id, request[m].session)

PollInv ==
  \A m \in Nonces :
    /\ poll[m].pc = "checked" => HeldBy(request[m].id, request[m].session)
    /\ poll[m].pc = "granting" =>
         /\ request[poll[m].verified.proof].session = request[m].session
         /\ Earned(poll[m].verified.proof, poll[m].verified.serviceId)

AccessDrawn ==
  \A s \in Sessions, k \in ServiceIds : authorizedFor[s][k] \in Drawn \cup {Nil}

AccessInv == SessionInv /\ CreatingInv /\ PollInv /\ AccessDrawn /\ OwnAccess
=============================================================================
