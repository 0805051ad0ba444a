SPECIFICATION FairSpec
CONSTANTS
  Ids <- MCIds
  Orgs <- MCOrgs
  Dumps <- MCDumps
  NoDump = NoDump
  Fresh <- BootstrappedDb
  Targets = {0, 4, 8}
  GerbilGroup <- MCGroup
  BlockSize = 2
  MaxUpsets = 3
  Broken = TRUE
INVARIANTS TypeOK HalfDataStaysDown SecretsDeleted RestoredIsWhole RangesAreSafe NoSilentOverflow
PROPERTIES IsReplacement RestoreEnds
CHECK_DEADLOCK FALSE
