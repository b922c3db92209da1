\* The organisation's row keeps an assignment that its domain has lost.
CONSTANTS
  Orgs = {o1, o2}
  o1 = o1
  Hosts = {a1, a2}
  Pages = {lp1}
  OwnerOf <- MCOwnerOf
  NoHost = NoHost
  NoPage = NoPage
  MaxRequests = 3
  Leadgens = {g1}
  Workers = {w1, w2}
  NoLead = NoLead
  MaxStops = 1
  PageIds = {e1, e2}
  Home = e1
  Blocks = {b1}
  Looks = {s1, s2}
  MaxUndo = 2
SPECIFICATION Spec
INVARIANT RowInStep
