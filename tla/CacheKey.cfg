SPECIFICATION RequestSpec
CONSTANTS
  Readers = {r1, r2}
  Routes = {"locations", "location", "rankings"}
  ByID = {"location"}
  Ids = {a, b}
  NoId = none
  Cap = 2
  TTL = 2
  MaxRun = 1
  MaxTime = 4
INVARIANT ServesWhatWasAsked
