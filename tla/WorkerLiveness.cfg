SPECIFICATION LivenessSpec
CONSTANTS
  Workers = {w1}
  Interval = 2
  HeartbeatTimeout = 1
  FetchTimeout = 1
  WorkerTimeout = 3
  MaxStall = 1
  MaxTime = 6
  MaxCalls = 3
SYMMETRY Symmetry
CHECK_DEADLOCK FALSE
INVARIANTS LivenessTypeOK AcceptedWorkerIsLive
