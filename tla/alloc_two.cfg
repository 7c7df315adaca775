SPECIFICATION Spec
CONSTANTS
  Bookings = {b1, b2}
  Users = {u1, u2}
  Handlers = {h1, h2}
  NoUser = NoUser
  NoBooking = NoBooking
  StatusRequests = {}
  SlowAcceptance = FALSE
  Expiring = {"request"}
  Faults = {}
SYMMETRY Interchangeable
INVARIANTS AcceptedHasWinner PendingIsUnlocked LeftoversAreHarmless

CHECK_DEADLOCK FALSE
