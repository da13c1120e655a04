\* Four callers race on three messages: the wait loops, and FifoChannel,
\* progress included.
SPECIFICATION FairSpec
CONSTANTS
  Threads = {t1, t2, t3, t4}
  Msgs = {m1, m2, m3}
  NoMsg = NoMsg
  Caps <- AllCaps
INVARIANTS WaiterCounts NoLostWakeup PayloadOwnership
PROPERTY FifoSpec
CHECK_DEADLOCK FALSE
