CONSTANTS
  Urls = {u1, u2}
  Portless = {}
  Ids = {i1, i2, i3}
  Loop = loop
  Deleters = {d1, d2}
  Blank = blank
  Torn = torn
  MaxRequests = 5
SPECIFICATION Spec
INVARIANT RemovalReachesFile
CHECK_DEADLOCK FALSE
