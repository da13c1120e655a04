SPECIFICATION ToolsSpec
CONSTANTS
  N = 3
  Root = 0
  FilesOf <- MCFilesOf
  Imported <- MCImported
  Dirs = {1, 2, 3}
  Spellings = {"rel", "abs"}
  MaxEntries = 3
  Names = {x}
  MaxDepth = 3
  MaxBorrows = 2
INVARIANTS VerdictExact OrderSound  WorkspaceOrderSound DiagnosticsExact DeadNamesLocal
PROPERTIES RunnerEnds
CHECK_DEADLOCK FALSE
