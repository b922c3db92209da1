\* One handler at a time.
CONSTANTS
  Pages = {p1, p2, p3, p4}
  NoPage = NoPage
  Workers = {w1}
  t1 = t1
  t2 = t2
  y1 = y1
  Templates = {t1, t2}
  ThankYous = {y1}
  NoTemplate = NoTemplate
  ThankYouOf <- MCThankYouOf
  Bills <- MCBills
  free = free
  pro = pro
  Plans = {free, pro}
  Basic = free
  Terms <- MCTerms
  Overlap = FALSE
SPECIFICATION Spec
INVARIANTS
  TypeOK
  SiteAsPublished
PROPERTIES
  KeepsSlots
  PublishEntitled
  PublishWithinLimits
  OneCompanionEach
  RemovedWithCompanions
SYMMETRY Symmetry
