SPECIFICATION AccessSpec
CONSTANTS
  u1 = u1  edge = edge  cloud = cloud  x1 = x1  x2 = x2
  NoSecret = NoSecret  NoFile = NoFile  Torn = Torn
  Users <- MCUsers
  Subjects <- MCSubjects
  Secrets <- MCSecrets
  Clients <- MCSecrets
  MaxTokens = 2  MaxFiles = 3  keyringSnapshotMaxSize = 1
  Local = Local  Credentials = {"t1"}  Names = {n1, n2}  edgeMaxCapCount = 1  cloudMaxServiceCount = 1
SYMMETRY Symmetry
INVARIANTS FileSound TokensSound CommandsGated
