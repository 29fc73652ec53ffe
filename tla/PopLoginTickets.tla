-------------------------- MODULE PopLoginTickets ---------------------------
(***************************************************************************)
(* PopLogin implements LoginTickets: a PopRequest is a ticket, open while  *)
(* it is in popRequests, claimed while a thread of PopServlet has it,      *)
(* proven while its verified PoP is in verifiedPops or carried by a poll.  *)
(***************************************************************************)
EXTENDS PopLoginProperties

TicketStatus(n) ==
  CASE n > drawn                          -> "unissued"
    [] Pending(n) # {}                    -> "open"
    [] Claimed(n) # {}                    -> "claimed"
    [] Verified(n) # {} \/ Granting(n) # {} -> "proven"
    [] OTHER                              -> "closed"

Tickets == INSTANCE LoginTickets WITH
  Services <- ServiceIds,
  Tickets  <- Nonces,
  None     <- Nil,
  status   <- [n \in Nonces |-> TicketStatus(n)],
  owner    <- [n \in Nonces |-> IF n > drawn THEN Nil ELSE request[n].session],
  for      <- [n \in Nonces |-> IF n > drawn THEN Nil
                                ELSE request[n].svc.serviceId],
  access   <- authorizedFor

\* Every run of the servlets is a run of the tickets: no interleaving of
\* posts, polls, expiries and crashes grants an access twice, to another
\* session, for another service, or without a claimed and proven request.
ImplementsTickets == Tickets!Spec

\* An access rests on a spent ticket of its session; a ticket that earned an
\* access never becomes redeemable again, although its request id may.
AccessIsEarned == Tickets!AccessIsEarned
=============================================================================
