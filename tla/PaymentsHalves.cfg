SPECIFICATION Spec
CONSTANTS
  simple = simple
  mess = mess
  mess2 = mess2
  t1 = t1
  t2 = t2
  Nil = Nil
  MaxLost = 0
  MovesFunds = TRUE
  LeastFunds = 2
  Addresses <- TwoSpaces
  Txids = {t1}
  Price <- PriceTwo
  Outputs <- OutputsBatch
  Pays <- PaysHalves
  Faults = {"sendFails"}
INVARIANTS
  PriceIsPaid
CHECK_DEADLOCK FALSE
