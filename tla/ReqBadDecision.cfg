\* Two handlers that overlap: an approval and a cancellation of one request.
CONSTANTS
  Requests = {q1}
  NoRequest = NoRequest
  Workers = {w1, w2}
  Plans = {basic}
  Basic = basic
  Offers <- OneOffer
  MaxUsage = 0
  Overlap = TRUE
SPECIFICATION Spec
PROPERTIES
  DecidedIsFinal
SYMMETRY Symmetry
