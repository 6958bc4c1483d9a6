SPECIFICATION Spec
CONSTANTS
  n1 = n1
  n2 = n2
  Nodes = {n1, n2}
  Logs <- MCLogs
  RequestOf <- MCRequestOf
  Requests <- MCRequests
  Public = {n1}
  Clock <- MCClock
  UpgradeHeight = 2
  FromVersion <- MCFromVersion
  MaxFaults = 2
  MaxAsked = 1
INVARIANTS
  NodesAgree
  OwnAnswers
PROPERTIES
  RefinesChain
  UpgradePasses
CHECK_DEADLOCK FALSE
