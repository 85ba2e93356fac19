SPECIFICATION JobSpec
CONSTANTS
  JobIds = {j1, j2, j3}
  Specs = {s1, s2}
  Keys = {k1, k2, k3}
  NoKey = NoKey
  Times = {1}
  MaxDedupKeys = 2
SYMMETRY Symmetry
INVARIANTS
  JobTypeOK
  StampsTellHistory
  DedupIsSound
PROPERTIES
  TerminalIsFrozen
  LifecycleEdges
  EvictsLeastRecentlyUsed
