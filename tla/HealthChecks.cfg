CONSTANTS
  Probes = {p1}
  Scrapers = {m1}
  MaxFlips = 3
SPECIFICATION FairSpec
INVARIANTS TypeOK GoodIsBacked
PROPERTIES RequestsAnswered FlightEnds
