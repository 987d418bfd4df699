SPECIFICATION Spec
CONSTANTS
  Sockets = {s1, s2}
  Messages = {m1}
  POINTS = 2
  Requests = {r1}
  Overlap = FALSE
  MayFail = FALSE
  None = None
INVARIANT OverLimitIsClosed
