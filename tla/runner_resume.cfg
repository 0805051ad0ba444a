SPECIFICATION FairSpec
CONSTANTS
  Hosts = {h1}
  OnlySets <- MCOnlySets
  ReplaySets <- MCReplayLater
  MayEdit = TRUE
  Fallible <- MCAllPhases
  MaxUpsets = 3
INVARIANTS
  AdoptionFollowsRestore
PROPERTIES
  CompletedIsLeftAlone
  Converges
