CONSTANTS
  k1 = k1
  k2 = k2
  Key <- WalletKeys
  MARGIN = 2
  InitUses = {0, 1}
  MaxUse = 4
  MaxSwitches = 3
  Faults <- FaultClasses
  h1 = h1
  h2 = h2
  l1 = l1
  l2 = l2
  l3 = l3
  c1 = c1
  c2 = c2
  Host <- Relays
  NoHost = NoHost
  Link <- Links
  Caller <- Calls
  MaxRelayChanges = 2
  MaxRelayFails = 1
  RelayFaults <- RelayFaultClasses
SPECIFICATION NodesSpec
INVARIANTS
  CarriedMeansSameWallet
  RelayTypeOK
  Serialised
  FollowsSettings
PROPERTIES
  OkCoversNodeLeft
  FailedRaiseIsNamed
  SwitchEnds
  Settles
