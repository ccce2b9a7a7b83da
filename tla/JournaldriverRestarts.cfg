SPECIFICATION FairSpec
CONSTANTS
  MaxEntries = 4
  MaxStarts = 3
  ChunkSize = 2
  ReadsFail = TRUE
  WritesFail = TRUE
INVARIANTS TypeOK OnlyErrorsLose OncePerRun
PROPERTIES CursorAdvances EventuallySettled
