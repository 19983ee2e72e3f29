SPECIFICATION FairSpec
CONSTANTS
  u1 = u1  u2 = u2  ls = ls
  Users <- MCUsers
  Programs <- MCPrograms
  MaxConcurrent = 1
  MaxJobs = 2
INVARIANTS SlotsBalanced NothingEscapes
PROPERTIES CancelReleases UnmountReturns
