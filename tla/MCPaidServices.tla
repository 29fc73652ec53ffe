--------------------------- MODULE MCPaidServices ---------------------------
(* Two message spaces of one tick, each with the transaction that pays for  *)
(* it, which a crash may let the wallet see again; a verified PoP lives one *)
(* tick, and a call of storeVerifiedPop may take one.                       *)
EXTENDS PaidServices, TLC

CONSTANTS w1, w2, mess, mess2, t1, t2, r1, r2

MCWorkers     == {w1, w2}
MCOrders      == {mess, mess2}
MCTxids       == {t1, t2}
MCOrder       == [tx \in MCTxids |-> IF tx = t1 THEN mess ELSE mess2]
MCServiceTime == [o \in MCOrders |-> 1]

\* The spaces change places with their transactions.
Swap == [x \in MCOrders \cup MCTxids |->
           CASE x = mess -> mess2 [] x = mess2 -> mess
             [] x = t1 -> t2      [] x = t2 -> t1]
Symmetry == Permutations(MCWorkers) \cup Permutations(Requests) \cup {Swap}
=============================================================================
