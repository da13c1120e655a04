CONSTANTS
  lib = lib  main = main
  l1 = l1  l2 = l2  l3 = l3  m1 = m1  m2 = m2  mc = mc
  k1 = k1  k2 = k2  i1 = i1  i2 = i2
  Absent = Absent  Nil = Nil  Partial = Partial
  Assembly <- TwoFiles
  ContentsOf <- FewContents
  IfaceOf <- MCInterfaces
  Imports <- Chain
  Uses <- Chain
  Concurrent = {}
  Removable = {}
  Keys = {k1}
  Failures = TRUE
SPECIFICATION IBSpec
INVARIANTS ManifestSound
