SPECIFICATION Spec
CONSTANTS
  Users = {u1}
  Passwords = {w1}
  Handlers = {h1}
  Sweepers = {s1, s2}
  NoUser = NoUser
  NoPassword = NoPassword
  NoSweeper = NoSweeper
  Lifetime = 1
  BatchSize = 1
  Edits = {}
  MaxTime = 3
  MaxFaults = 1
PROPERTY RunDeletesAll
CHECK_DEADLOCK FALSE
