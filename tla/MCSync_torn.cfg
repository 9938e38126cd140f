SPECIFICATION Spec
CONSTANTS
  Machine = {a, b}
  Joined = {}
  Skew <- SameClock
  Perils = {"torn"}
  Retention = 3
  MaxClock = 3
  MaxRev = 3
  MaxId = 3
  MaxBody = 3
INVARIANT
  SyncedIsSeen
SYMMETRY MachineSymmetry
