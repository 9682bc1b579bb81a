CONSTANTS
  Bookings = {trip}
  Scheduled = {}
  Drivers = {d1, d2}
  Calls = {c1, c2}
  Actors = {"driver", "customer", "search"}
  None = None
SPECIFICATION Spec
INVARIANTS OnlyWinners
PROPERTIES ImplementsLifecycle
SYMMETRY Symmetry
