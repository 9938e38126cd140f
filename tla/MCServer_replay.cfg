SPECIFICATION SpecServer
CONSTANTS
  Account = {a, b}
  Legacy = {b}
  Device = {d, e}
  Invite = {i}
  Nonce = {l, m, n}
  Handler = {g, h}
  NoAccount = NoAccount
  NoInvite = NoInvite
  NoMessage = NoMessage
  Skew = 1
  Drift = 1
  InviteLife = 1
  MaxClock = 2
  Address = {d, e}
  Domain = {x, y}
  NotADomain = NotADomain
  Serving = {g, h}
  PerWindow = 2
  MaxTracked = 1
  MaxAge = 1
  MissAge = 0
  MaxCacheBytes = 1
  MaxCacheEntries = 1
  LastWindow = 1
  MaxRequests = 3
  MaxSpoiled = 1
SYMMETRY Symmetric
INVARIANT ForgottenIsRefused
