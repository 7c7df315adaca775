SPECIFICATION FairSpec
CONSTANTS
  Bookings = {b1}
  Users = {u1, u2}
  Handlers = {h1, h2, h3}
  NoUser = NoUser
  NoBooking = NoBooking
  StatusRequests = {}
  SlowAcceptance = FALSE
  Expiring = {"request"}
  Faults = {}
PROPERTIES SettledAcceptanceStays LastToLeaveDecides
CHECK_DEADLOCK FALSE
