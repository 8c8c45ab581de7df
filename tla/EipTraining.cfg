SPECIFICATION EipSpec
CONSTANTS
  c1 = c1  e1 = e1  e2 = e2
  NoEip = NoEip
  Cores <- MCCores
  MasterOf <- MCMasterOf
  Eips <- MCEips
INVARIANT TrainsWithAccessingInstruction
