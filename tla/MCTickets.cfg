CONSTANTS
  user = user
  nobody = nobody
  team1 = team1
  team2 = team2
  org1 = org1
  org2 = org2
  doc1 = doc1
  doc2 = doc2
  site = site
  elsewhere = elsewhere
  NoOrigin = NoOrigin
  Users = {user, nobody}
  Teams = {team1, team2}
  Documents = {doc1, doc2}
  UUIDs = {user, team1, team2, org1, org2, doc1, doc2}
  Org <- MCOrg
  Number <- MCNumber
  NameLengths = {0, 200, 201}
  Origins = {site, elsewhere, NoOrigin}
  AllowedOrigins = {site}
  Setting <- MCSetting
  Former <- MCFormer
  Lifetime = 1
  MaxTime = 2
SPECIFICATION Spec
INVARIANTS ChatAsIssued EditingAsIssued
