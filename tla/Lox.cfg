SPECIFICATION Spec
CONSTANTS
  Names <- MCNames
  Quoted <- MCQuoted
  NumberOf <- MCNumberOf
  Now = 3
  Spelling <- MCSpelling
  Sessions <- Typed
  Scanned <- ScanOnce
  Parsed <- ParseOnce
  Compiled <- CompileOnce
  Meaning <- MeaningAtPrompt
INVARIANTS TreewalkIsLox BytecodeIsLox EnvironmentRestored
