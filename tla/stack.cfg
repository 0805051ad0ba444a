SPECIFICATION Spec
CONSTANTS
  Redefinable <- MCRedefinable
  Editable <- MCAllFiles
  Crashable <- MCCrashable
  CrashStates <- MCRestartingExited
  Fallible <- MCAllSteps
  MaxUpsets = 4
INVARIANTS
  TypeOK
  RolloutIsComplete
  TraefikFollowsGerbil
  RedialRemembered
PROPERTIES
  TunnelsKeptUp
  ShutdownKeepsPangolinDown
