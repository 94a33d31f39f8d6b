CONSTANTS
  Check = {"c1"}
  Download = {"l1"}
  RowKind = {"built", "none"}
  LastVersion = 3
SPECIFICATION UpdaterSpec
INVARIANT DownloadsVerified
