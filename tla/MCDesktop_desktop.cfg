SPECIFICATION SpecDesktop
CONSTANTS
  Secret = {r1, r2}
  Nothing = Nothing
  Other = Other
  MaxCopies = 3
  Vault = {v, w}
  Password = {p, q}
  Task = {t1, t2, t3}
  NoSync = NoSync
  NoVault = NoVault
  NoRow = NoRow
  name1 = name1 name2 = name2 seed1 = seed1 seed2 = seed2
  folder1 = folder1 folder2 = folder2
  Id = {i, j}
  Name = {name1, name2}
  Seed = {seed1, seed2}
  FolderName = {folder1, folder2}
  NoFolder = NoFolder
  NoExport = NoExport
  Export <- Exports
  Retention = 1
  Capacity = 1
  NoWord = NoWord
  CsvRow <- CsvRows
  JsonEntry <- JsonEntries
  Codes <- Uris
  Cards <- CardJson
  Word <- WordsOf
  Times <- Numbers
  NoReading = NoReading
  Classes <- ClassesOf
  MinimumLength = 3
  MaximumLength = 4
  NoPassword = NoPassword
  InvalidRecipe = InvalidRecipe
  a = a b = b uri = uri poor = poor bare = bare whole = whole empty = empty
  number = number code = code pin = pin day = day
SYMMETRY Symmetric
INVARIANTS
  NeverForgotten
  HonestReports
  StillWatched
  StillOpens
  SyncsUnderItsKey
  SignsAsRegistered
  NeverBothHereAndBuried
  FiledWhereListed
  NothingLostSilently
  SecretsStayMasked
  AskedForByName
  PasswordsAreFair
PROPERTIES
  ItemsStay
  ForgottenLast
  ChangesAreStamped
  ImportsAddNoTwins
