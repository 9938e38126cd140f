SPECIFICATION Spec
CONSTANTS
  Default = default
  Profile = {default, other}
  NoProfile = none
  MaxOwner = 2
  MaxVersion = 2
  Legacy = TRUE
  CleanupFails = TRUE
INVARIANT
  OpenVaultIsSelected
PROPERTY
  LiveOnlyMovesForward
CONSTRAINT FewTombs
VIEW NoHistory
