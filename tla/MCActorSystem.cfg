CONSTANTS
  Actors = {a1}
  Msgs = {m1, m2, m3, m4}
  Requests = {m3}
  Remote = {m4}
  Shut = Shut
  None = None
  MaxMailboxSize = 2
  StartFails = TRUE
  LateSpawn = TRUE
SPECIFICATION FairSpec
INVARIANTS OnlyWindowIsLost AcceptedIsSomewhere
PROPERTIES ShutdownStops
CHECK_DEADLOCK FALSE
