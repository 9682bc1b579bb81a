CONSTANTS
  Bookings = {b1}
  Drivers = {d1}
  Ticks = {t1, t2}
  Requests = {r1}
  Due = 6
  Times = {0, 3, 6, 7}
  MaxEvents = 1
  None = None
SPECIFICATION FairSpec
INVARIANTS TypeOK MarkedIsLooped OneLoop ToldIsHandedOver 
PROPERTIES ScheduledIsSettled
CHECK_DEADLOCK FALSE
