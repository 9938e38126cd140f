SPECIFICATION LiveSpec
CONSTANTS
  Request = {r1}
  Target = {t1}
  Reveal = reveal
  Scope = {reveal, cmd}
  Disclosing = {reveal}
  Program = {p1}
  Unidentified = anon
  Vault = {v1, v2}
  NoVault = none
  OnceSeconds = 1
  WindowSeconds = 2
  WindowUses = 2
  AuditCapacity = 1
  MaxClock = 1
  DiskFails = TRUE
  Caller = {c, d}
  Nobody = nobody
  CreateAttempts = 2
  AcceptFailures = 2
INVARIANT
  NameIsOwned
PROPERTY
  RequestsEnd
  ConnectedAreServed
