SPECIFICATION Spec
CONSTANTS
  m1 = m1  m2 = m2  t1 = t1  t2 = t2  None = None  NoState = NoState
  Codes = {"1337", "0000"}
  NoCode = "none"
  Machines = {m1}
  Threads = {t1, t2}
  States <- DoorStates
  Events <- KeypadEvents
  Kinds <- DoorActions
  AdvanceFSM <- KeypadFSM
  Returns <- DoorReturns
  Initial <- LockedDoor
  PoolSize = 3
  DatabaseFails = TRUE
  Crashes = TRUE
  MaxTransactions = 3
CHECK_DEADLOCK FALSE
INVARIANTS PoliceCalledOnce
PROPERTIES ImplementsFSMBackend
