SPECIFICATION Spec
CONSTANTS
  Bookings = {b1}
  Users = {u1, u2}
  Handlers = {h1, h2, h3}
  NoUser = NoUser
  NoBooking = NoBooking
  StatusRequests = {"CANCELLED"}
  SlowAcceptance = FALSE
  Expiring = {"pending", "status"}
  Faults = {"throw", "crash"}
SYMMETRY Interchangeable
INVARIANTS TypeOK SingleWinner RowNamesWinner ClaimInv
PROPERTY AwardedOnceDecided
CHECK_DEADLOCK FALSE
