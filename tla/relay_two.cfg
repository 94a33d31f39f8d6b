CONSTANTS
  h1 = h1
  h2 = h2
  l1 = l1
  l2 = l2
  l3 = l3
  c1 = c1
  c2 = c2
  Host <- Relays
  NoHost = NoHost
  Link <- Links
  Caller <- Calls
  MaxRelayChanges = 2
  MaxRelayFails = 0
  RelayFaults <- NoFaults
SPECIFICATION RelaySpec
INVARIANT OneRelay
