SPECIFICATION FairSpec
INVARIANTS PendingHasEvent PassedOnlyWhenPostponed
PROPERTIES WorksOnlyWhenStarted BlitsEnd
CONSTANTS
  WRAP = 9
  Ev <- MCEv
  HSYNCTIME = 3
  Durations = {1, 2}
  StartTimes <- MCStartTimes
  Blits = {1, 5}
  Slows = {1}
  FirstLine = 2
  WAIT = 2
  STUCK = 2
  MaxSlow = 1
  MaxOps = 3
