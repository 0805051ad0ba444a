SPECIFICATION FairSpec
CONSTANTS
  Sources = {a1, a2}
  Within <- MCWithin
  Users <- MCUsers
  Ports <- MCPorts
  Machines <- MCMachines
  MaxUpsets = 2
INVARIANTS
  TypeOK
  CleanReportKeepsTheDoor
  AbortRestoresSshd
  WayInIsKept
  DoneIsKeyOnly
  ScopingIsReal
PROPERTIES
  ComesToDone
CHECK_DEADLOCK FALSE
