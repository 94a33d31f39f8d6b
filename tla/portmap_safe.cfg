CONSTANTS
  r1 = r1
  r2 = r2
  r3 = r3
  s1 = s1
  s2 = s2
  Cycle <- Cycles3
  NoCycle = NoCycle
  Stopper <- Stops2
  Faults <- FaultClasses
  Responder = {"b1", "b2"}
  MAX_CHUNKS = 2
  l1 = l1
  l2 = l2
  l3 = l3
  Link <- Links3
  MAXCONNS = 2
  SVC_MAX = 1
  MaxStarts = 2
  k1 = k1
  k2 = k2
  x1 = x1
  x2 = x2
  d1 = d1
  d2 = d2
  Pk <- Recipients
  Sealed <- SealedMessages
  Conn <- Connections
  Nobody = Nobody
  RECIPIENT_CAP = 2
  TOTAL_CAP = 2
  TTL = 1
  MaxClock = 2
  Slot = {"s1", "s2"}
  LIMIT = 1
  MaxJobs = 3
  MaxSaveFails = 1
  MediaReader = {"g1", "g2"}
  Contents = 2
  TooBig = {2}
SPECIFICATION PortsSpec
INVARIANTS
  NoClientLost
  MappingAsAsked
  HonestStatus
  LinksAccounted
  MediaAsAsked
PROPERTIES
  MailboxKeeps
  NothingHangs
