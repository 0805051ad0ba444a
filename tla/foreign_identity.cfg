SPECIFICATION Spec
CONSTANTS
  Ids <- MCIds
  Orgs <- MCOrgs
  Dumps <- MCDumps
  NoDump = NoDump
  Fresh <- BootstrappedDb
  Targets = {0, 4, 8}
  GerbilGroup <- MCGroup
  BlockSize = 2
  MaxUpsets = 2
  Broken = TRUE
INVARIANT SnapshotIsOwn
CHECK_DEADLOCK FALSE
