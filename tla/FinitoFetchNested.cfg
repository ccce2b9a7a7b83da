SPECIFICATION FairSpec
CONSTANTS
  m1 = m1  m2 = m2  t1 = t1  t2 = t2  None = None  NoState = NoState
  Codes = {"1337"}
  NoCode = "none"
  Machines = {m1}
  Threads = {t1, t2}
  States <- FetchStates
  Events <- FetchEvents
  Kinds <- FetchKinds
  AdvanceFSM <- FetchFSM
  Returns <- FetchReturns
  Initial <- WaitingOnly
  PoolSize = 3
  DatabaseFails = TRUE
  Crashes = TRUE
  MaxTransactions = 2
CHECK_DEADLOCK FALSE
INVARIANTS NoLockWhileWaiting ConnectionsAccounted EffectsInOrder
PROPERTIES CallsEnd
