SPECIFICATION Spec
CONSTANTS
  w1 = w1
  w2 = w2
  mess = mess
  mess2 = mess2
  t1 = t1
  t2 = t2
  r1 = r1
  r2 = r2
  Nil = Nil
  Workers <- MCWorkers
  Orders <- MCOrders
  PayMessOrders <- MCOrders
  Txids <- MCTxids
  Order <- MCOrder
  Requests = {r1, r2}
  ServiceTime <- MCServiceTime
  PopLife = 1
  MaxDelay = 1
  MaxTime = 4
  MaxRestarts = 1
SYMMETRY Symmetry
INVARIANTS
  TypeOK
  EndsInTime
  NotCutShort
  GrantedInTime
  UpdatesMoveNoSpace
CHECK_DEADLOCK FALSE
