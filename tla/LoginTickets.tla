---------------------------- MODULE LoginTickets ----------------------------
(***************************************************************************)
(* What logging in with a Proof of Payment promises, without threads,      *)
(* caches or request ids.  A PopRequest is a ticket: a session takes one   *)
(* out for a service, a wallet redeems it with a PoP, and the session that *)
(* took it out exchanges the proven ticket for access, once.  A ticket may *)
(* be lost on the way, and a crash ends every access.                      *)
(***************************************************************************)
CONSTANTS
  Sessions,    \* who can take out a ticket and hold access
  Services,    \* what access is for
  Tickets,     \* the tickets there can ever be
  None         \* no ticket, no owner, no service

VARIABLES
  status,      \* ticket -> how far it has come
  owner,       \* ticket -> the session that took it out
  for,         \* ticket -> the service it is for
  access       \* session -> service -> the ticket that earned the access

vars == <<status, owner, for, access>>

Statuses == {"unissued", "open", "claimed", "proven", "closed"}
Live     == {"open", "claimed", "proven"}

TicketsOK ==
  /\ status \in [Tickets -> Statuses]
  /\ owner \in [Tickets -> Sessions \cup {None}]
  /\ for \in [Tickets -> Services \cup {None}]
  /\ access \in [Sessions -> [Services -> Tickets \cup {None}]]

NoAccess == [s \in Sessions |-> [k \in Services |-> None]]

Init ==
  /\ status = [t \in Tickets |-> "unissued"]
  /\ owner  = [t \in Tickets |-> None]
  /\ for    = [t \in Tickets |-> None]
  /\ access = NoAccess

Move(t, from, to) ==
  /\ status[t] = from
  /\ status' = [status EXCEPT ![t] = to]

Issue(t, s, k) ==
  /\ Move(t, "unissued", "open")
  /\ owner' = [owner EXCEPT ![t] = s]
  /\ for' = [for EXCEPT ![t] = k]
  /\ UNCHANGED access

\* A PoP for the ticket is accepted; nobody else can redeem it any more.
Claim(t) == Move(t, "open", "claimed") /\ UNCHANGED <<owner, for, access>>

Prove(t) == Move(t, "claimed", "proven") /\ UNCHANGED <<owner, for, access>>

\* The one way to access: for the owner, for the ticket's service, and the
\* ticket is spent.
Grant(t) ==
  /\ Move(t, "proven", "closed")
  /\ access' = [access EXCEPT ![owner[t]][for[t]] = t]
  /\ UNCHANGED <<owner, for>>

Lose(t) ==
  /\ \E from \in Live : Move(t, from, "closed")
  /\ UNCHANGED <<owner, for, access>>

Revoke(s, k) ==
  /\ access[s][k] # None
  /\ access' = [access EXCEPT ![s][k] = None]
  /\ UNCHANGED <<status, owner, for>>

\* A crash closes any of the live tickets and ends every access.
Crash ==
  /\ access' = NoAccess
  /\ \E lost \in SUBSET {t \in Tickets : status[t] \in Live} :
       status' = [t \in Tickets |-> IF t \in lost THEN "closed" ELSE status[t]]
  /\ UNCHANGED <<owner, for>>

Next ==
  \/ \E t \in Tickets, s \in Sessions, k \in Services : Issue(t, s, k)
  \/ \E t \in Tickets : Claim(t) \/ Prove(t) \/ Grant(t) \/ Lose(t)
  \/ \E s \in Sessions, k \in Services : Revoke(s, k)
  \/ Crash

Spec == Init /\ [][Next]_vars

\* The promise in one formula: an access rests on a ticket that its session
\* took out for that service and that is spent.
AccessIsEarned ==
  \A s \in Sessions, k \in Services :
    access[s][k] # None =>
      /\ owner[access[s][k]] = s
      /\ for[access[s][k]] = k
      /\ status[access[s][k]] = "closed"
=============================================================================
