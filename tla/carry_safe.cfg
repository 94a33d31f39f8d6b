CONSTANTS
  k1 = k1
  k2 = k2
  Key <- WalletKeys
  MARGIN = 2
  InitUses = {0, 1}
  MaxUse = 5
  MaxSwitches = 3
  Faults <- BenignFaults
  HomeAsk = {"x1", "x2"}
  MaxPresses = 2
  MaxCardVisits = 1
  ImportEntry = {"e1"}
  ImportRun = {"i1", "i2"}
  ListLoad = {"q1", "q2"}
  MaxImports = 2
  MaxUps = 2
  RelayHost = {"r1", "r2"}
  PageCall = {"w1", "w2"}
  MaxCalls = 2
  MaxNodeTurns = 2
  Copy = {"u1", "u2", "u3"}
  NoCopy = "none"
  ProvRun = {"p1", "p2"}
  Bundle = 2
  CatalogVersion = 3
  PROVISION_MAX_TRIES = 3
  MaxRestarts = 2
  MaxUserSteps = 1
  MaxRpcFailures = 1
  PanelCall = {"a1", "a2"}
  MaxAccountStarts = 2
  MaxApiCalls = 2
  MaxCheckFails = 1
  MaxLinkTries = 1
SPECIFICATION SettingsSpec
SYMMETRY KeySymmetry
INVARIANTS
  TypeOK
  NoSlotReused
  NoDebtWhenIdle
  PagesHonest
  Provisioned
PROPERTIES
  WalletSpec
  NoSilentSwitch
  SettingsSettle
