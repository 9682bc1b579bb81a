CONSTANTS
  Bookings = {trip}
  Scheduled = {trip}
  Drivers = {d1, d2}
  Calls = {c1, c2}
  Actors = {"driver", "dispatcher"}
  None = None
SPECIFICATION Spec
INVARIANT CancelResetsDriver
SYMMETRY Symmetry
