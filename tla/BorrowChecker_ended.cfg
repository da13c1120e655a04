CONSTANTS
  Names = {x}
  MaxDepth = 4
  MaxBorrows = 0
SPECIFICATION BCSpec
INVARIANTS EndedNamesReported
