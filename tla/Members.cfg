\* Accounts, browsers and tickets in turn; tickets with and without overlapping handlers.
CONSTANTS
  Tokens = {t1, t2}
  Links = {l1}
  Handlers = {h1}
  NoToken = NoToken
  LastInstant = 4
  Concurrent = FALSE
  Pairs = {p1, p2, p3}
  NoPair = NoPair
  Calls = {c1, c2}
  oneTab = oneTab
  TabOf <- MCTabOf
  Tickets = {k1, k2}
  Raisers = {m1, m2}
  Desks = {d1, d2}
  NoOne = NoOne
  RetryLimit = 3
SPECIFICATION Spec
INVARIANTS
  TypeOK
  EvictedStaysOut
  StoredIsCurrent
  UnshownIsUnread
PROPERTIES
  OnlyAdminsReadmit
  ExchangedOnce
  CallsEnd
  ResolvedIsFinal
