SPECIFICATION Spec
CONSTANTS
  Sources = {a1, a2}
  Within <- MCWithin
  Users <- MCSudo
  Ports <- MCPort22
  Machines <- MCOrdinary
  MaxUpsets = 0
INVARIANT
  NeverLocksItselfOut
