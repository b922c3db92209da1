\* The code against AtMostOneLive, without overlap.
CONSTANTS
  Subs = {s1, s2}
  NoSub = NoSub
  Requests = {r1}
  Timer = timer
  Members = {}
  Configs <- MCConfigs
  DefaultConfig <- MCDefaultConfig
  MonthlyTerm = 1
  YearlyTerm = 2
  CreateDtos <- TrialOnly
  UpdateDtos <- FewUpdateDtos
  Horizon = 2
  MaxFaults = 0
  Overlap = FALSE
SPECIFICATION Spec
INVARIANTS
  AtMostOneLive
SYMMETRY Symmetry
