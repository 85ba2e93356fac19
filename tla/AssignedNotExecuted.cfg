SPECIFICATION FairSpec
CONSTANTS
  JobIds = {c1}
  Workers = {w1, w2}
  Handlers = {h1}
  Faults = {f1}
  Specs = {ok}
  FailSpecs = {}
  BigSpecs = {}
  Times = {1}
  Keys = {}
  NoKey = NoKey
  MaxDedupKeys = 1
  MaxAttempts = 2
  NoJob = NoJob
  NoSpec = NoSpec
  NoWorker = NoWorker
  NoHandler = NoHandler
PROPERTY AssignedJobsAreExecuted
CHECK_DEADLOCK FALSE
