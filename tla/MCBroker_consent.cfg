SPECIFICATION RunSpec
CONSTANTS
  Request = {r1, r2, r3}
  Target = {t1}
  Reveal = reveal
  Scope = {reveal, cmd}
  Disclosing = {reveal}
  Program = {p1}
  Unidentified = anon
  Vault = {v1}
  NoVault = none
  OnceSeconds = 1
  WindowSeconds = 2
  WindowUses = 2
  AuditCapacity = 1
  MaxClock = 1
  DiskFails = FALSE
SYMMETRY RequestSymmetry
VIEW GrantView
ACTION_CONSTRAINT Attended
PROPERTY
  ImplementsConsent
