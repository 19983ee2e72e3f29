SPECIFICATION Spec
CONSTANTS
  u1 = u1  u2 = u2
  Users <- MCUsers
  MaxConcurrent = 2
  MaxTransfers = 3
SYMMETRY UserSymmetry
INVARIANTS TransfersOwned CancelReachesTransport
PROPERTIES ImplementsContract
