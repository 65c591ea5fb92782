SPECIFICATION FairSpec
CONSTANTS
  e1 = e1
  e2 = e2
  r1 = r1
  r2 = r2
  w1 = w1
  w2 = w2
  NoEvent = NoEvent
  Events = {e1, e2}
  Routes = {r1, r2}
  RouteOf <- TwoRoutes
  Workers = {w1}
  BatchLimit = 2
  Verdicts = {"deliver", "error"}
  MaxFaults = 0
PROPERTY EventuallySettled
CHECK_DEADLOCK FALSE
