SPECIFICATION Spec
CONSTANTS
  a = a
  b = b
  NoEnd = NoEnd
  Drv = Drv
  Svc = Svc
  App = App
  NoId = NoId
  Peers = {a}
  Remotes = {b}
  Fds = {1, 2}
  Budgets <- BothTalk
  Wrong = {"short", "wraps"}
  Window = 1
  MayStop = TRUE
INVARIANTS
  TypeOK
  FramedInOrder
  RepliesInOrder
  NothingAfterDrop
  EventsOfLiveConns
  UnlockFindsConnection
  OnlySharedIdsFail
  OnlyHalfRegisteredFails
  StopClosesAll
CHECK_DEADLOCK FALSE
