CONSTANTS
  r1 = r1
  r2 = r2
  s1 = s1
  s2 = s2
  d1 = d1
  d2 = d2
  Replicas = {r1}
  Sessions = {s1, s2}
  Deletes = {d1}
  Home <- OneHome
SPECIFICATION FairSpec
INVARIANT TypeOK
PROPERTIES DeleteAnswers NoticeCloses SessionsDecided
