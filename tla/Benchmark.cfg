SPECIFICATION FairSpec
CONSTANTS
  n1 = n1
  n2 = n2
  Nodes = {n1, n2}
  Targets <- TwoNodes
  DefaultOrder <- TwoNodes
  NodeOrders <- Orders
  Start = 0
  Gateway = gateway
  JobIds <- Ids
  JobHash <- HashOfJob
  KeyHash <- HashOfKey
  NoJob = NoJob
  NoKey = NoKey
  Threads = {0, 1}
  Designs = {"A_microservices", "B_monolith"}
  Modes = {"empty", "unique_non_empty"}
  Mixes <- Shuffles
  Deadline = 1
  Interval = 0
  MaxAttempts = 2
  MaxFailures = 1
  Durations <- Short
  Repetitions <- LiveOnce
  Executions <- OneLive
INVARIANTS
  TypeOK
  OneJobPerOperation
  SubmissionsAreNotMerged
  FollowUpsFindTheirJob
  FallbackIsDead
  EveryOperationHasItsRow
  CountedJobsHaveEnded
  AggregatedRunsAgree
PROPERTIES
  EarlierFilesAreKept
  InvocationsEnd
CHECK_DEADLOCK FALSE
