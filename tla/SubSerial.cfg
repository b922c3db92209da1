\* One handler at a time, two rows, one member who reads notices.
CONSTANTS
  Subs = {s1, s2}
  NoSub = NoSub
  Requests = {r1}
  Timer = timer
  Members = {m1}
  Configs <- MCConfigs
  DefaultConfig <- MCDefaultConfig
  MonthlyTerm = 1
  YearlyTerm = 1
  CreateDtos <- TrialOnly
  UpdateDtos <- SuspendOnly
  Horizon = 2
  MaxFaults = 0
  Overlap = FALSE
SPECIFICATION Spec
INVARIANTS
  TypeOK
  OneUnreadNotice
PROPERTIES
  LapseOnlyAtTermEnd
  ExpiryOnlyAfterGrace
  KeepsRules
  EndedStaysEnded
  InsertOnlyWithoutLive
SYMMETRY Symmetry
