CONSTANTS
  Program = {"n1", "n2", "n3"}
  NoProgram = "none"
  Port = {1, 2}
  Folder = {"f1"}
  MaxAppKills = 1
  MaxHangs = 0
  MaxApplies = 1
SPECIFICATION LaunchSpec
PROPERTY NeverOutlives
