SPECIFICATION LiveSpec
CONSTANTS
  simple = simple
  mess = mess
  mess2 = mess2
  t1 = t1
  t2 = t2
  Nil = Nil
  MaxLost = 1
  MovesFunds = TRUE
  LeastFunds = 2
  Addresses <- OrderedHere
  Txids = {t1, t2}
  Price <- PriceHere
  Outputs <- OutputsHere
  Pays <- PaysHere
  Faults = {"crash", "expireRequest", "expireReceived"}
INVARIANTS
  TypeOK
  NoServiceUnpaid
  ToldMeansPaid
  DeliveredOnce
  MoveNeverLoses
  PartialPaymentKept
PROPERTIES
  PaymentHonoured
  FundsMove
  ImplementsOrders
CHECK_DEADLOCK FALSE
