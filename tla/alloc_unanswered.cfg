SPECIFICATION FairSpec
CONSTANTS
  Bookings = {b1}
  Users = {u1}
  Handlers = {h1}
  NoUser = NoUser
  NoBooking = NoBooking
  StatusRequests = {}
  SlowAcceptance = FALSE
  Expiring = {}
  Faults = {}
PROPERTY TimeoutDecides
CHECK_DEADLOCK FALSE
