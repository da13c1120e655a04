CONSTANTS
  Procs = {p1, p2}
  Values = {v1}
  NoValue = NoValue
  Sizes = {1}
  Ops = {"Send", "Receive", "Close"}
SPECIFICATION ChanSpec
INVARIANTS SendsReturn
CHECK_DEADLOCK FALSE
