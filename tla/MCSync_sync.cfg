SPECIFICATION Spec
CONSTANTS
  Machine = {a, b}
  Joined = {b}
  Skew <- OneAhead
  Perils = {}
  Retention = 0
  MaxClock = 3
  MaxRev = 3
  MaxId = 3
  MaxBody = 3
INVARIANTS
  NoEditLost
  SyncedIsSeen
  SyncedMachinesAgree
ACTION_CONSTRAINTS
  Prompt
  OneAtRisk
  SavedInTime
VIEW SyncView
CONSTRAINT IdsLeft
