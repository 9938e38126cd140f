SPECIFICATION AgentsSpec
CONSTANTS
  Request = {r1, r2}
  Target = {t1}
  Reveal = reveal
  Scope = {reveal, cmd}
  Disclosing = {reveal}
  Program = {p1}
  Unidentified = anon
  Vault = {v1, v2}
  First = v1
  NoVault = none
  OnceSeconds = 1
  WindowSeconds = 2
  WindowUses = 2
  AuditCapacity = 1
  MaxClock = 1
  DiskFails = FALSE
SYMMETRY RequestSymmetry
VIEW AgentsView
ACTION_CONSTRAINT AgentsMove
INVARIANTS
  LockedGrantsAreInFlight
  DisclosuresNeverStand
  DisclosureWasAsked
  ReuseWasConsented
  AuditedUnlessInterrupted
PROPERTY
  SavedEntriesStay
