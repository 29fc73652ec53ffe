SPECIFICATION Spec
CONSTANTS
  w1 = w1
  w2 = w2
  w3 = w3
  f1 = f1
  f2 = f2
  f3 = f3
  a1 = a1
  a2 = a2
  a3 = a3
  Nil = Nil
  Workers = {w1, w2}
  Forms = {f1, f2, f3}
  Addresses = {a1, a2, a3}
  MaxIds = 5
  Longs = {}
INVARIANTS
  ExclusiveSpace
