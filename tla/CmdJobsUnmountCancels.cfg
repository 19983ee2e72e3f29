SPECIFICATION Spec
CONSTANTS
  u1 = u1  u2 = u2  ls = ls
  Users <- MCUsers
  Programs <- MCPrograms
  MaxConcurrent = 2
  MaxJobs = 2
INVARIANT UnmountCancelsAll
