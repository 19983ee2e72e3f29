SPECIFICATION FairSpec
CONSTANTS
  d1 = d1  d2 = d2
  Drainers <- MCDrainers
  Capacity = 2
  MaxPushes = 3
PROPERTIES DrainEnds
