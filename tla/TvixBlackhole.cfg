SPECIFICATION Spec
CONSTANTS
  Fuel = 40
  Programs <- OnlyCaughtTwice
  Code <- Compiled
  Intended <- SourceMeaning
INVARIANTS BlackholeMeansRecursion
