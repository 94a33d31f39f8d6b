CONSTANTS
  PanelCall = {"a1"}
  MaxAccountStarts = 1
  MaxApiCalls = 2
  MaxCheckFails = 0
  MaxLinkTries = 1
SPECIFICATION AccountSpec
INVARIANT TabUndisturbed
