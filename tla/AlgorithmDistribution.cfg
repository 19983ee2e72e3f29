SPECIFICATION Spec
CONSTANTS
  u1 = u1  u2 = u2  yolo = yolo
  Users <- MCUsers
  Algorithms <- MCAlgorithms
  MaxTransfers = 2
SYMMETRY UserSymmetry
INVARIANTS JobsHonest WatchersEnd
PROPERTIES OutcomeFinal
