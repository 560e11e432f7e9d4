SPECIFICATION FairSpec
CONSTANTS
  Main = main
  Callers = {c1, c2}
  Senders = {s1}
  MaxPosts = 3
INVARIANTS
  TypeOK
PROPERTIES
  IsContextQueue
  CallReturnsHandled
  CallReturns
  StartReturns
  StopReturns
  IdleGoesOn
CHECK_DEADLOCK FALSE
