\* Two handlers interleave: a template is taken back while a page is built from it.
CONSTANTS
  Pages = {p1, p2}
  NoPage = NoPage
  Workers = {w1, w2}
  t1 = t1
  t2 = t2
  y1 = y1
  Templates = {t1, t2}
  ThankYous = {y1}
  NoTemplate = NoTemplate
  ThankYouOf <- MCThankYouOf
  Bills <- MCBills
  free = free
  pro = pro
  Plans = {free, pro}
  Basic = free
  Terms <- MCTerms
  Overlap = TRUE
SPECIFICATION Spec
INVARIANTS
  SlotHeld
SYMMETRY Symmetry
