SPECIFICATION Spec
CONSTANTS
  h1 = h1
  h2 = h2
  None = None
  Foreign = Foreign
  Hosts <- MCHosts
  Old <- MCOld
  Legacy <- MCLegacy
  MaxMints = 2
  MaxUpsets = 3
INVARIANT
  TwoNeverRun
