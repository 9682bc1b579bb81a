CONSTANTS
  Drivers = {d1, d2}
  Near = {}
  Loops = {l1}
  Polls = 1
  MaxRequests = 0
  Actors = {}
  None = None
SPECIFICATION FairSpec
PROPERTIES SearchEnds
CHECK_DEADLOCK FALSE
