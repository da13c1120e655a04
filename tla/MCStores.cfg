SPECIFICATION StoresSpec
CONSTANTS
  lib = lib  main = main
  l1 = l1  l2 = l2  l3 = l3  m1 = m1  m2 = m2  mc = mc
  k1 = k1  k2 = k2  i1 = i1  i2 = i2
  Absent = Absent  Nil = Nil  Partial = Partial
  Assembly <- TwoFiles
  ContentsOf <- AllContents
  IfaceOf <- MCInterfaces
  Imports <- Chain
  Uses <- Chain
  Concurrent = {mc}
  Removable = {}
  Keys = {k1, k2}
  Failures = TRUE
  p1 = p1  p2 = p2  p3 = p3  None = None
  Publishers <- MCPublishers
  Versions <- MCVersions
  Reqs <- MCReqs
  Allows <- MCAllows
  Dir <- MCDir
INVARIANTS
  BuildCurrent ManifestSoundIfTrusted NoopReplays
  IndexSound ListedUnlessOverlap CacheSound 
PROPERTIES PublishedImmutable
CONSTRAINT Trusted
SYMMETRY Symmetry
