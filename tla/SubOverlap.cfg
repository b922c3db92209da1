\* A request and the timer interleave at every database call; faults, restarts, fair scheduling.
CONSTANTS
  Subs = {s1}
  NoSub = NoSub
  Requests = {r1}
  Timer = timer
  Members = {}
  Configs <- OnePolicy
  DefaultConfig <- MCDefaultConfig
  MonthlyTerm = 1
  YearlyTerm = 2
  CreateDtos <- TrialOnly
  UpdateDtos <- MCUpdateDtos
  Horizon = 2
  MaxFaults = 1
  Overlap = TRUE
SPECIFICATION FairSpec
INVARIANTS
  GraceOnlyAfterLapse
PROPERTIES
  TermEnds
  GraceEnds
