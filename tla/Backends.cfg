SPECIFICATION Spec
CONSTANTS
  NameOrder <- MCNameOrder
  AllocRegs <- MCAllocRegs
  Programs <- MCPrograms
  Fuel = 12
  MaxBinDepth = 4
  Junk <- MCJunk
  Stretch = 16
  MaxSteps = 60
INVARIANTS NativeAgrees  
CHECK_DEADLOCK FALSE
