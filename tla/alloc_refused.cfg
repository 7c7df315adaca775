SPECIFICATION Spec
CONSTANTS
  Bookings = {b1}
  Users = {u1, u2}
  Handlers = {h1, h2}
  NoUser = NoUser
  NoBooking = NoBooking
  StatusRequests = {}
  SlowAcceptance = FALSE
  Expiring = {}
  Faults = {}
INVARIANT FailedIsNotAccepted
CHECK_DEADLOCK FALSE
