CONSTANTS
  t1 = t1  t2 = t2  t3 = t3  None = None
  Threads = {t1, t2, t3}
  Bound = {t1, t2}
  Wakers = {w1}
  Priority <- Priorities
  MaxGreenThreads = 3
  MaxYields = 1
  MayStop = TRUE
  Procs = {g1, g2, g3}
  Values = {v1, v2}
  NoValue = NoValue
  Sizes <- AllSizes
  Ops = {"Send", "SendNonBlocking", "Receive", "ReceiveNonBlocking", "Select", "Close"}
  NoConn = NoConn
  Conns = {c1, c2}
  Peers = {p1, p2}
  Breaks = TRUE
SPECIFICATION RTSpec
INVARIANTS   FifoExact AnswerTruthful UnregisteredIsClosed
PROPERTIES   SilentRemoved ClosedLoopEnds
CHECK_DEADLOCK FALSE
