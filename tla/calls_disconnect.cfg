SPECIFICATION Spec
CONSTANTS
  s1 = s1
  s2 = s2
  s3 = s3
  Sockets = {s1, s2, s3}
  Candidates = {i1}
  Contacts <- TwoCallers
PROPERTIES DisconnectClearsCalls
CHECK_DEADLOCK FALSE
