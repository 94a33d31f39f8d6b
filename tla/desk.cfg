CONSTANTS
  a = a
  t1 = t1
  t2 = t2
  q1 = q1
  q2 = q2
  Dapp <- OneDapp
  AutoWrite <- OneDapp
  Nobody = Nobody
  MaxChanges = 1
  MaxFails = 1
  Tab <- Tabs
  Request <- Requests
  NoRead = NoRead
  Press = {"b1", "b2"}
  MaxRpcFails = 1
  Refresh = {"r1", "r2"}
  MaxTable = 3
  MaxMdsFails = 1
  Dapps = {"d1"}
  Submit = {"s1", "s2"}
  MaxFormFails = 1
  Question = {"a1", "a2"}
  MaxDowns = 1
  m1 = m1
  b1 = b1
  b2 = b2
  s1 = s1
  p1 = p1
  Msg <- OneMessage
  Box <- Boxes
  Primary = b1
  NoBox = NoBox
  Poll <- OnePoll
  Sub = s1
  MaxRestarts = 1
  MailFaults <- Interruptions
  Proc = {n1, n2}
  NoProc = NoProc
  Client = {c1}
  SELF_RESTART_MAX = 1
  ADOPTED_DEAD_AFTER = 2
SPECIFICATION DeskSpec
INVARIANTS
  PromptHonest
  MailTypeOK
  NoMailLost
  NobodySleeps
  HonestStopped
PROPERTIES
  TabsFollowNode
  FormsHonest
  DeskSettles
  MailArrives
  OpsEnd
  DeathNoticed
