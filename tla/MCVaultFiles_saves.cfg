SPECIFICATION Spec
CONSTANTS
  Default = default
  Profile = {default, other}
  NoProfile = none
  MaxOwner = 2
  MaxVersion = 3
  Legacy = FALSE
  CleanupFails = FALSE
INVARIANTS
  NothingSavedIsLost
