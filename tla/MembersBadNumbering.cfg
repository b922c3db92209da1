\* The number a ticket is to get next may be taken for ever.
CONSTANTS
  Tokens = {t1, t2}
  Links = {l1}
  Handlers = {h1}
  NoToken = NoToken
  LastInstant = 4
  Concurrent = FALSE
  Pairs = {p1, p2, p3}
  NoPair = NoPair
  Calls = {c1, c2}
  oneTab = oneTab
  TabOf <- MCTabOf
  Tickets = {k1, k2}
  Raisers = {m1, m2}
  Desks = {d1, d2}
  NoOne = NoOne
  RetryLimit = 3
SPECIFICATION Spec
INVARIANT NextNumberIsFree
