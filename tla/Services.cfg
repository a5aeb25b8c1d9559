SPECIFICATION Spec
CONSTANTS
  None = None
  siteA = siteA
  siteB = siteB
  w1 = w1
  w2 = w2
  Parts = {"catalog", "client", "limit", "request", "keys", "publication", "serve"}
  Commands = {w1, w2}
  Sites = {siteA, siteB}
  Near <- Nearby
  Names = {"m", "n"}
  Offsets = {0, 1}
  Demo = demo
  DemoSite = siteA
  DemoName = "m"
  Mixes <- CommandMixes
  Tickers = {p}
  Hour = 2
  ObsOffset = 1
  AnalysisOffsets = {0}
  MaxOutage = 2
  MaxNow = 5
  Token = 2
  BucketMax = 7
  Refill = 3
  Fetchers = {w1, w2}
  MaxAttempts = 2
  MaxBudget = 2
  Day = 2
  Advice = {1}
  MaxUtc = 3
  Addresses = {w1, w2}
  Arrivals = {w1, w2}
  NoAddress = NoAddress
  MaxTick = 3
  Readers = {w1, w2}
  Routes = {"locations", "location", "rankings"}
  ByID = {"location"}
  Ids = {siteA}
  NoId = None
  Cap = 2
  TTL = 1
  MaxRun = 1
  MaxTime = 3
  Verifiers = {w1, w2}
  Kids = {k1, k2}
  MinRefresh = 2
  MaxFetch = 1
  Never = Never
  MaxRotations = 1
  MaxHour = 5
  Null = Null
  Batches = {w1, w2, w3}
  Providers = {1, 2}
  CellSets = {{}, {1, 2}}
  Unlinked = Unlinked
  MaxEvidence <- EvidenceBound
  RunModes = {"api", "worker", "all"}
  Work = {w1, w2}
SYMMETRY Actors
INVARIANTS ServicesTypeOK
  CatalogIsSound  RequestsAreMetered RateIsPerAddress
  CacheIsSound RotationTolerated
  NeverUnpublished SupersededByAnother TurnsAreWhole EndIsOrderly
PROPERTIES  NoRegression
CHECK_DEADLOCK FALSE
