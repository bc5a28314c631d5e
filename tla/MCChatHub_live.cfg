CONSTANTS
  c1 = c1
  c2 = c2
  c3 = c3
  Clients = {c1}
  Teams <- MCTeams
  TeamOf <- MCTeamOf
  Publishers = {p1, p2}
  Incoming <- MCIncoming
  SendCap = 1
  BroadcastCap = 1
  MaxEvents = 4
SPECIFICATION FairSpec
PROPERTIES KickedLeaves NoLeak PublishersReturn
