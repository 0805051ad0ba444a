SPECIFICATION Spec
CONSTANTS
  Redefinable <- MCNone
  Editable <- MCConfigYml
  Crashable <- MCNone
  CrashStates <- MCNone
  Fallible <- MCAllSteps
  MaxUpsets = 2
INVARIANT
  DoneIsCurrent
