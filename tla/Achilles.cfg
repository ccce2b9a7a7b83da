SPECIFICATION Spec
CONSTANTS
  Parsed <- ParseOnce
  Texts <- MCTexts
  Sources <- MCSources
INVARIANTS ReadAsWritten SoundTypings EvaluationIsMeaning PassesKeepMeaning CompiledIsMeaning
