CONSTANTS
  Urls = {u1, u2, u3}
  Portless = {u3}
  Ids = {i1, i2, i3}
  Loop = loop
  Deleters = {d1, d2}
  Blank = blank
  Torn = torn
  MaxRequests = 5
SPECIFICATION Spec
INVARIANTS
  TypeOK
  OneHandlePerUrl
  FileFollowsRegistry
  ReadersSeeWholeLists
CHECK_DEADLOCK FALSE
PROPERTIES
  FeedsTheRegistry
