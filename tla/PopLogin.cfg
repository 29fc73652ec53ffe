SPECIFICATION Spec
CONSTANTS
  s1 = s1
  s2 = s2
  w1 = w1
  w2 = w2
  login = login
  mess = mess
  a = a
  b = b
  old = old
  new = new
  Nil = Nil
  Sessions <- MCSessions
  Workers <- MCWorkers
  Txids <- MCTxids
  Spaces <- MCSpaces
  Messages <- MCMessages
  Ordered <- MCOrdered
  Asked <- MCAskedSpaces
  MaxRequests = 2
  Faults = {"crash", "expirePopRequest", "expireVerifiedPop", "expirePaidService"}
SYMMETRY Symmetry
INVARIANTS
  TypeOK
  SingleHolder
  CreditedAsAsked
  OwnAccess
  UpdateDurable
  SpacesStay
  ProvenMessage
  AccessIsEarned
PROPERTIES
  NoOverwrite
  ImplementsTickets
CHECK_DEADLOCK FALSE
