CONSTANTS
  c1 = c1
  c2 = c2
  c3 = c3
  Clients = {c1, c2}
  Teams <- MCTeams
  TeamOf <- MCTeamOf
  Publishers = {p1}
  Incoming <- MCIncoming
  SendCap = 1
  BroadcastCap = 1
  MaxEvents = 3
SPECIFICATION Spec
INVARIANTS TypeOK Membership SafeSend OrderedFeed GapFree
PROPERTY ImplementsTeamFeed
SYMMETRY Teammates
