CONSTANTS
  Bookings = {trip}
  Scheduled = {trip}
  Drivers = {d1, d2}
  Calls = {c1, c2}
  Actors = {"driver", "customer", "dispatcher", "cron"}
  None = None
SPECIFICATION Spec
INVARIANTS TypeOK OnlyWinners StatusAgreesWithDriver FlagHasBooking
PROPERTIES StrandedOnlyByAssign ImplementsLifecycle
SYMMETRY Symmetry
