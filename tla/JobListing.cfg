CONSTANTS
  JobIds <- Ids
  Specs = {ok}
  Keys = {}
  NoKey = nokey
  Times <- Clock
  MaxDedupKeys = 1
  PageSize = 1
  Filters <- ListFilters
  MaxTime = 1
  Targets <- ListTargets
  MaxWrites = 2
SPECIFICATION ListingSpec
INVARIANTS ListingTypeOK WalkSkipsNothing AscendingWalkRepeatsNothing StableFilterIsExact
