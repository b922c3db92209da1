\* The code against ExpiryOnlyAfterGrace, with overlapping handlers.
CONSTANTS
  Subs = {s1}
  NoSub = NoSub
  Requests = {r1}
  Timer = timer
  Members = {}
  Configs <- MCConfigs
  DefaultConfig <- MCDefaultConfig
  MonthlyTerm = 1
  YearlyTerm = 2
  CreateDtos <- TrialOnly
  UpdateDtos <- FewUpdateDtos
  Horizon = 2
  MaxFaults = 0
  Overlap = TRUE
SPECIFICATION Spec
PROPERTIES
  ExpiryOnlyAfterGrace
