CONSTANTS
  Drivers = {d1, d2}
  Near = {d1, d2}
  Loops = {l1, l2}
  Polls = 1
  MaxRequests = 2
  Actors = {"driver"}
  None = None
SPECIFICATION Spec
INVARIANTS OpenIsSearched OfferWatched
PROPERTIES AskedOnce
SYMMETRY Symmetry
CHECK_DEADLOCK FALSE
