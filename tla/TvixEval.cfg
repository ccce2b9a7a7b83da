SPECIFICATION Spec
CONSTANTS
  Fuel = 40
  Programs <- Accepted
  Code <- Compiled
  Intended <- SourceMeaning
INVARIANTS TypeOK ResultIsMeaning UpvaluesFinalised EvaluatedOnce
PROPERTIES FramesBalance EvaluatedStays Terminates
