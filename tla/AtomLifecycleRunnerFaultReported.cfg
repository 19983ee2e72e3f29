SPECIFICATION Spec
CONSTANTS
  db = db  api = api  job = job  p1 = p1  p2 = p2
  Components <- MCComponents
  Abilities <- MCAbilities
  NameOf <- MCNameOf
  Deps <- MCDeps
  Unmounters <- MCUnmounters
  Runners <- MCRunners
  Callers <- OneCaller
  MaxMounts = 2
INVARIANTS RunnerFaultReported
