SPECIFICATION FairSpec
CONSTANTS
  a = a
  b = b
  NoEnd = NoEnd
  Drv = Drv
  Svc = Svc
  App = App
  NoId = NoId
  Peers = {a, b}
  Remotes = {}
  Fds = {1, 2}
  Budgets <- OneIsSlow
  Wrong = {"short", "wraps"}
  Window = 1
  MayStop = FALSE
CHECK_DEADLOCK FALSE
PROPERTIES
  GoneIsDropped
  AnsweredOrClosed
