SPECIFICATION Spec
CONSTANTS
  s1 = s1
  s2 = s2
  w1 = w1
  w2 = w2
  login = login
  mess = mess
  a = a
  b = b
  old = old
  new = new
  Nil = Nil
  Sessions <- MCSessions
  Workers <- MCWorkers
  Txids <- MCTxids
  Spaces <- MCSpaces
  Messages <- MCMessages
  Ordered <- MCOrdered
  Asked <- MCSimple
  MaxRequests = 2
  Faults = {}
SYMMETRY Symmetry
INVARIANTS
  GoneRequestReturns
CHECK_DEADLOCK FALSE
