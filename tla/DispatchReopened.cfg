CONSTANTS
  Bookings = {trip}
  Scheduled = {}
  Drivers = {d1, d2}
  Calls = {c1, c2}
  Actors = {"driver"}
  None = None
SPECIFICATION Spec
INVARIANT SearchedIsAcceptable
SYMMETRY Symmetry
