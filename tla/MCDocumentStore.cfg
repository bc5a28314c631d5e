CONSTANTS
  s1 = s1
  s2 = s2
  i1 = i1
  i2 = i2
  u1 = u1
  u2 = u2
  Editors = {s1}
  Updates = {u1, u2}
  Inits = {i1, i2}
  Bytes <- MCBytes
  Payload <- MCPayload
  Slack = 1
  Projection <- MCProjection
  Json <- MCJson
  MaxDocumentBytes = 5
  MaxMessageBytes = 5
  MaxResponseBytes = 15
SPECIFICATION FairSpec
INVARIANTS TypeOK NoSilentLoss OpenFits StoredLoads
PROPERTIES EditsReachCore NeverShrinks
