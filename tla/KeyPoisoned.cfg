SPECIFICATION Spec
CONSTANTS
  JobIds = {c1, c2}
  Workers = {w1}
  Handlers = {h1}
  Faults = {f1}
  Specs = {ok}
  FailSpecs = {}
  BigSpecs = {}
  Times = {1}
  Keys = {k1}
  NoKey = NoKey
  MaxDedupKeys = 1
  MaxAttempts = 2
  NoJob = NoJob
  NoSpec = NoSpec
  NoWorker = NoWorker
  NoHandler = NoHandler
SYMMETRY Symmetry
INVARIANT RepeatedSubmitSucceeds
CHECK_DEADLOCK FALSE
