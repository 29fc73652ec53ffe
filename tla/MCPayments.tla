----------------------------- MODULE MCPayments -----------------------------
(* Orders and transactions for TLC: mess and mess2 are orders of message   *)
(* spaces, simple one of the login service, which any amount pays for.     *)
EXTENDS PaymentProperties, TLC

CONSTANTS simple, mess, mess2, t1, t2

\* Prices in thirds of a message space: t1 has two outputs of a third each to
\* mess, which count for four thirds; t2 has one of two thirds.
OrderedHere == {simple, mess}
PriceHere   == simple :> 1 @@ mess :> 3
OutputsHere == [tx \in Txids |->
                  simple :> 0 @@ mess :> (IF tx = t1 THEN 2 ELSE 1)]
PaysHere    == [tx \in Txids |-> simple :> 0 @@ mess :> 2]

\* Prices in halves: t1 has an output to each of two message spaces; in Batch
\* of the full price, in Halves of half of it.
TwoSpaces    == {mess, mess2}
PriceTwo     == mess :> 2 @@ mess2 :> 2
OutputsBatch == [tx \in Txids |-> mess :> 1 @@ mess2 :> (IF tx = t1 THEN 1 ELSE 0)]
PaysBatch    == [tx \in Txids |-> mess :> 2 @@ mess2 :> (IF tx = t1 THEN 2 ELSE 0)]
PaysHalves   == [tx \in Txids |-> mess :> 1 @@ mess2 :> 1]
=============================================================================
