SPECIFICATION Spec
CONSTANTS
  s1 = s1
  s2 = s2
  w1 = w1
  w2 = w2
  login = login
  mess = mess
  a = a
  b = b
  old = old
  new = new
  Nil = Nil
  Sessions <- MCSessions
  Workers = {w1}
  Txids <- MCTxids
  Spaces <- MCSpaces
  Messages <- MCMessages
  Ordered <- MCOrdered
  Asked <- MCSimple
  MaxRequests = 3
  Faults = {"redeploy", "crash", "expirePopRequest", "expireVerifiedPop"}
SYMMETRY Symmetry
INVARIANTS
  SingleHolder
  CreditedAsAsked
PROPERTIES
  NoOverwrite
CHECK_DEADLOCK FALSE
