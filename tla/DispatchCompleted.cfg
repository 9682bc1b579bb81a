CONSTANTS
  Bookings = {trip}
  Scheduled = {}
  Drivers = {d1, d2}
  Calls = {c1, c2}
  Actors = {"driver", "customer"}
  None = None
SPECIFICATION Spec
PROPERTY CompletedNotCancelled
SYMMETRY Symmetry
