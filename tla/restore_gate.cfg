SPECIFICATION Spec
CONSTANTS
  Redefinable <- MCNone
  Editable <- MCNone
  Crashable <- MCNone
  CrashStates <- MCNone
  Fallible <- MCNone
  MaxUpsets = 1
INVARIANT
  RestoreIsGated
