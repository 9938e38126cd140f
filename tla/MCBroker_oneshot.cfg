SPECIFICATION RunSpec
CONSTANTS
  Request = {r1, r2, r3}
  Target = {t1}
  Reveal = reveal
  Scope = {reveal, cmd}
  Disclosing = {reveal}
  Program = {p1}
  Unidentified = anon
  Vault = {v1}
  NoVault = none
  OnceSeconds = 1
  WindowSeconds = 2
  WindowUses = 2
  AuditCapacity = 1
  MaxClock = 0
  DiskFails = FALSE
VIEW GrantView
ACTION_CONSTRAINT StaysOpen
INVARIANT
  OneShotIsSpent
