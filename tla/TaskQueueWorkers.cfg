SPECIFICATION Spec
CONSTANTS
  JobIds = {c1, c2, c3}
  Workers = {w1, w2}
  Handlers = {h1, h2}
  Faults = {f1}
  Specs = {ok, bad}
  FailSpecs = {bad}
  BigSpecs = {}
  Times = {1}
  Keys = {k1}
  NoKey = NoKey
  MaxDedupKeys = 1
  MaxAttempts = 2
  NoJob = NoJob
  NoSpec = NoSpec
  NoWorker = NoWorker
  NoHandler = NoHandler
SYMMETRY Symmetry
INVARIANTS
  EachFailureStrandsOneJob
  CanceledNeverRuns
  RescueIsDead
  NoQueuedJobIsDropped
  OneJobPerKey
  NoDuplicates
PROPERTIES
  FirstWriteWins
  NoOvertaking
CHECK_DEADLOCK FALSE
