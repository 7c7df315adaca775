SPECIFICATION FairSpec
CONSTANTS
  Users = {u1}
  Passwords = {w1}
  Handlers = {h1}
  Sweepers = {s1, s2}
  NoUser = NoUser
  NoPassword = NoPassword
  NoSweeper = NoSweeper
  Lifetime = 1
  BatchSize = 1
  Edits = {}
  MaxTime = 3
  MaxFaults = 1
INVARIANT LockNamesSweeper
PROPERTY ExpiredIsSwept
CHECK_DEADLOCK FALSE
