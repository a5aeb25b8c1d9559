SPECIFICATION Spec
CONSTANTS
  r1 = r1
  r2 = r2
  r3 = r3
  s1 = s1
  s2 = s2
  s3 = s3
  Requests = {r1, r2, r3}
  Subjects = {s1, s2, s3}
  Admins = {s1, s2}
  Plain = {}
  Bootstrap = s1
  OldKey = OldKey
  None = None
  Gone = Gone
  EmailOf <- Emails
  Mixes <- OperationMixes
  Parts = {"identity", "ranking", "evaluation", "comparison", "trends", "decompose", "lists"}
  Null = Null
  Components <- ThreeComponents
  CohortInputs <- SmallInputs
  Rows <- SmallRows
  Size = 2
  Listed = 3
  Nil = Null
  StoredPairs <- SmallPairs
  Deliveries <- SmallDeliveries
  Forecasts <- SmallForecasts
  Sightings <- SmallSightings
  Queries <- SmallRequests
  Horizon = 2
  Blank = Null
  TrendRows <- SmallTrends
  Zones <- SmallZones
  MonthStarts <- MonthDays
  Since = 0
  Until = 3000
  Absent = Null
  Garbled = Garbled
  Columns <- SmallColumns
  Items <- SmallItems
  WindowEnd = 3600
  ListIds = {1, 2, 3, 4}
  NoCursor = NoCursor
  DefaultLimit = 1
  MaxLimit = 2
  NoLimit = NoLimit
  Limits = {NoLimit, 0, 1, 2, 3}
  Lists = {"collections", "locations", "audit", "users"}
SYMMETRY RequestSymmetry
INVARIANTS ReportsTypeOK
  AccessIsEarned ProviderAgrees RecordsHold
   MetricsAreSound RankingIsSound
    WalkIsSound
PROPERTY LastAdminGoes
CHECK_DEADLOCK FALSE
