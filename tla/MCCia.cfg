SPECIFICATION CiaSpec
INVARIANTS NothingMissed RequestStands
PROPERTIES CountsEveryClock
CONSTANTS
  WRAP = 15
  Ev <- MCEv
  HSYNCTIME = 5
  Durations = {1, 3}
  StartTimes <- MCStartTimes
  Chips = {"A", "B"}
  DIV10 = 2
  BYTE = 2
  BITS = 2
  Stored <- MCStored
  Driven = {"A"}
  Cras <- MCCras
  Crbs <- MCCrbs
  MaxWrites = 2
