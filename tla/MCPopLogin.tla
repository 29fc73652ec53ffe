----------------------------- MODULE MCPopLogin -----------------------------
(* A small shop for TLC: one customer pays for the login service, another  *)
(* for message space "a"; "b" is a space that nobody pays for.             *)
EXTENDS PopLoginTickets, TLC

CONSTANTS s1, s2, w1, w2, login, mess, a, b, old, new

MCSessions == {s1, s2}
MCWorkers  == {w1, w2}
MCTxids    == {login, mess}
MCSpaces   == {a, b}
MCMessages == {old, new}
MCOrdered  == login :> SimpleService @@ mess :> PayMessService(a, old)
MCAsked    == {SimpleService, PayMessService(a, new)}
MCSimple  == {SimpleService}
MCAskedSpaces == {PayMessService(a, new), PayMessService(b, new)}

Symmetry == Permutations(MCSessions) \cup Permutations(MCWorkers)
=============================================================================
