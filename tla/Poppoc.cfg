SPECIFICATION Spec
CONSTANTS
  simple = simple
  mess = mess
  t1 = t1
  t2 = t2
  t3 = t3
  a = a
  old = old
  new = new
  Nil = Nil
  Addresses = {simple, mess}
  Txids = {t1, t2, t3}
  Outputs <- MCOutputs
  Pays <- MCPays
  Price <- MCPrice
  MovesFunds = FALSE
  LeastFunds = 2
  PaymentFaults = {"crash"}
  Spaces = {a}
  Messages = {old, new}
  Service <- MCService
  Sessions = {s1}
  Workers = {w1}
  Asked <- MCAsked
  MaxRequests = 1
  LoginFaults = {"crash", "expirePopRequest", "expireVerifiedPop"}
SYMMETRY Symmetry
INVARIANTS
  AccessIsPaid
  ToldIsProvable
CHECK_DEADLOCK FALSE
