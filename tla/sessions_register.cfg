SPECIFICATION Spec
CONSTANTS
  Users = {u1}
  Passwords = {w1, w2}
  Handlers = {h1, h2}
  Sweepers = {s1}
  NoUser = NoUser
  NoPassword = NoPassword
  NoSweeper = NoSweeper
  Lifetime = 1
  BatchSize = 1
  Edits = {}
  MaxTime = 2
  MaxFaults = 0
INVARIANT PasswordsMatch
CHECK_DEADLOCK FALSE
