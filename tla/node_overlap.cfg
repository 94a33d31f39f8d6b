CONSTANTS
  p1 = p1
  p2 = p2
  c1 = c1
  c2 = c2
  Proc <- Procs
  NoProc = NoProc
  Client <- TwoCalls
  Ops <- Operations
  SELF_RESTART_MAX = 1
  ADOPTED_DEAD_AFTER = 2
  Faults <- Contained
  Program = {"n1", "n2", "n3"}
  NoProgram = "none"
  Port = {1, 2}
  Folder = {"f1", "f2"}
  MaxAppKills = 2
  MaxHangs = 2
  MaxApplies = 2
  SecretText = {"s1"}
  Jar = {"minima"}
  RestartCall <- TwoCalls
  MaxMishaps = 1
  Check <- TwoCalls
  Download <- Procs
  RowKind <- RowKinds
  LastVersion = 3
  FirstWord = 8
  Samples <- MCSamples
  IconFetch = {"f1", "f2"}
  MaxIconUpdates = 2
  MaxIconFails = 1
  MAGIC_LEN = 3
  HEAD = 2
  MAX_FRAME = 2
  MaxFrames = 3
  Scope = {"media"}
  Mirror = {"m1"}
  Call = {"c1", "c2"}
  MaxStores = 3
SPECIFICATION ProcessSpec
SYMMETRY Symmetry
INVARIANTS
  OneConfiguredNode
  OwnedOrAdopted
  KeptHonest
  FramesSound
PROPERTIES
  FaultsPlannedStopNotCrash
  StartsAsSaved
