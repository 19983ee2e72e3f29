SPECIFICATION FairSpec
CONSTANTS
  db = db  api = api  job = job  p1 = p1  p2 = p2
  Components <- MCComponents
  Abilities <- MCAbilities
  NameOf <- MCNameOf
  Deps <- MCDeps
  Unmounters <- MCUnmounters
  Runners <- MCRunners
  Callers <- MCCallers
  MaxMounts = 2
INVARIANTS TypeOK OneTransaction DependenciesUp NothingLeftUp StoppedIsQuiet
PROPERTIES ImplementsContract TeardownEnds RunAllEnds
