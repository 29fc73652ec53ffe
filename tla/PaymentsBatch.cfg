SPECIFICATION Spec
CONSTANTS
  simple = simple
  mess = mess
  mess2 = mess2
  t1 = t1
  t2 = t2
  Nil = Nil
  MaxLost = 0
  MovesFunds = FALSE
  LeastFunds = 2
  Addresses <- TwoSpaces
  Txids = {t1, t2}
  Price <- PriceTwo
  Outputs <- OutputsBatch
  Pays <- PaysBatch
  Faults = {}
INVARIANTS
  RecordIsMoved
CHECK_DEADLOCK FALSE
