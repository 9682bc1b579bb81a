CONSTANTS
  Drivers = {d1, d2}
  Near = {d1, d2}
  Loops = {l1}
  Polls = 2
  MaxRequests = 2
  Actors = {"customer", "driver", "switch"}
  None = None
SPECIFICATION FairSpec
INVARIANTS TypeOK
PROPERTIES SearchEnds OfferEnds
CHECK_DEADLOCK FALSE
