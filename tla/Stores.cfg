CONSTANTS
  MaxId = 4
  MaxFile = 2
  Found <- FoundMC
  KeepRecentTokens = 1
  Sizes = {1}
  MaxEntries = 5
  Compactors = {c1}
  Processes = {a, b}
  NoProcess = none
  Keys = {k1, k2}
  MaxSets = 3
  MaxCrashes = 2
  MaxChanges = 1
  MaxTroubles = 3
SPECIFICATION SpecStores
INVARIANTS Durable LabelsAreTheirEntries NothingForgotten ResultsKeepTheirCalls SettingsKept SettingsSaved SpentOnce CredentialsKept
CHECK_DEADLOCK FALSE
