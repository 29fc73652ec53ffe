SPECIFICATION LiveSpec
CONSTANTS
  pay = pay
  pop = pop
  Nil = Nil
  PaymentPages <- MCPaymentPages
  PopPages <- MCPopPages
  Calls = {1, 2, 3}
INVARIANTS
  TypeOK
  OnePoll
  NeverSilent
  GrantIsTold
PROPERTIES
  ReadyIsTold
CHECK_DEADLOCK FALSE
