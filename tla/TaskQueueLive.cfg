SPECIFICATION FairSpec
CONSTANTS
  JobIds = {c1, c2}
  Workers = {w1, w2}
  Handlers = {h1, h2}
  Faults = {}
  Specs = {ok, big}
  FailSpecs = {}
  BigSpecs = {big}
  Times = {1}
  Keys = {k1}
  NoKey = NoKey
  MaxDedupKeys = 1
  MaxAttempts = 2
  NoJob = NoJob
  NoSpec = NoSpec
  NoWorker = NoWorker
  NoHandler = NoHandler
PROPERTIES
  AcceptedJobsEnd
