SPECIFICATION Spec
CONSTANTS
  Hosts = {h1, h2}
  OnlySets <- MCNone
  ReplaySets <- MCReplaySets
  MayEdit = TRUE
  Fallible <- MCAllPhases
  MaxUpsets = 3
INVARIANTS
  TypeOK
  SoundFoundation
  DoneIsSound
PROPERTIES
  IsResumable
