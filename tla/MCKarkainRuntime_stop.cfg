CONSTANTS
  NWorkers = 2
  k1 = k1  k2 = k2  m1 = m1  m2 = m2  m3 = m3  a1 = a1  main = main  none = none
  Main = main
  None = none
  Tasks = {k1}
  Actors = {a1}
  Msgs = {m1}
  MainOps <- AllMain
  TaskOps <- PlainTask
  HandlerOps <- PlainHandler
SPECIFICATION FairSpec
PROPERTIES FinishReturns
CHECK_DEADLOCK FALSE
