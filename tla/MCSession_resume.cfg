SPECIFICATION Spec
CONSTANTS
  Vault = {v, w}
  Default = v
  Password = {p, q}
  NoVault = NoVault
  NoPassword = NoPassword
  Remember = 2
  MaxClock = 5
PROPERTY
  OpensOnlyIfAllowed
SYMMETRY PasswordSymmetry
