SPECIFICATION Spec
CONSTANTS
  u1 = u1  u2 = u2
  Users <- MCUsers
  MaxConcurrent = 2
  MaxTransfers = 2
INVARIANTS CancelWins
