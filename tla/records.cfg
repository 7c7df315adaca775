SPECIFICATION SpecApart
CONSTANTS
  Messages = {m1}
  Unknown = {x1}
  Clients = {c1, c2}
  Instances = {i1}
  MaxMarks = 3
  Bookings = {b1, b2}
  Calls = {k1, k2, k3}
  Earnings = {e1}
  Created = Created
  Given = {"PENDING", "DISPUTED"}
SYMMETRY Alike
INVARIANTS
  TypeOK ReceiptsTrue ReferencesHold LostOnlyToOverlap
CHECK_DEADLOCK FALSE
