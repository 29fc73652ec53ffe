------------------------------ MODULE Services ------------------------------
(***************************************************************************)
(* The service types a customer pays for and later proves payment of:      *)
(* SimpleService (id 1, "log in") and PayMessService (id 2, the right to   *)
(* edit one message space).  A ServiceType object is abstracted to the     *)
(* data that the PoP checks read: its service id and, for PayMess, the     *)
(* message space it stands for and the message shown there.                *)
(***************************************************************************)
CONSTANTS
  Spaces,     \* ids of message spaces
  Messages,   \* message texts
  Nil         \* Java null, and the value a cache returns for a missing key

SimpleId   == 1
PayMessId  == 2
ServiceIds == {SimpleId, PayMessId}

\* A SimpleService carries no data of its own.
SimpleService == [serviceId |-> SimpleId, space |-> Nil, message |-> Nil]

\* A PayMessService after useParameters has built its MessageSpace.
PayMessService(space, message) ==
  [serviceId |-> PayMessId, space |-> space, message |-> message]

PayMessServices == {PayMessService(s, m) : s \in Spaces, m \in Messages}
ServiceTypes    == {SimpleService} \cup PayMessServices

\* StandardService compares the ids, PayMessService also the message space.
IsSameServiceType(paid, requested) ==
  /\ requested.serviceId = paid.serviceId
  /\ paid.serviceId = PayMessId => requested.space = paid.space

\* PayMessService.update throws IllegalArgumentException on any other type.
AcceptsUpdate(paid, naked) ==
  paid.serviceId = PayMessId => naked.serviceId = PayMessId

\* PayMessService takes over the whole MessageSpace, id and message; a
\* StandardService ignores the update.
Update(paid, naked) ==
  IF paid.serviceId = PayMessId
    THEN [paid EXCEPT !.space = naked.space, !.message = naked.message]
    ELSE paid
=============================================================================
