------------------------------ MODULE MCPoppoc ------------------------------
(* For TLC: a customer orders the login service and a message space.  Two  *)
(* transactions, with two outputs each, pay the message space; it takes    *)
(* three of these outputs.  A third transaction pays the login.            *)
EXTENDS Poppoc, TLC

CONSTANTS simple, mess, t1, t2, t3, a, old, new

MCService == simple :> SimpleService @@ mess :> PayMessService(a, old)
MCPrice   == simple :> 1 @@ mess :> 5
MCOutputs == [tx \in Txids |-> simple :> (IF tx = t3 THEN 1 ELSE 0)
                                 @@ mess :> (IF tx = t3 THEN 0 ELSE 2)]
MCPays    == MCOutputs
MCAsked   == {SimpleService, PayMessService(a, new)}

Symmetry == Permutations({t1, t2})
=============================================================================
