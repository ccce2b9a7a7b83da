SPECIFICATION Spec
CONSTANTS
  lBase = lBase  lBaseArm = lBaseArm  lAb = lAb  lBash = lBash
  Absent = Absent  Torn = Torn
  Requests = {r1, r2}
  Names <- Colliding
  PackageOrder <- SortedPackages
  Spelling <- Tokens
  Layers = {lBase, lBaseArm, lAb, lBash}
  Contents <- FewLayers
  Rating <- Ratings
  Cacheable = TRUE
  Backend = "gcs"
  MaxTasks = 2
  MaxCrashes = 1
INVARIANTS TornOnlyAfterFailure ServedUnderItsKey ReferencedObjectsStored
SYMMETRY AnyRequest
CHECK_DEADLOCK FALSE
