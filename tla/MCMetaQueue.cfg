SPECIFICATION FairSpec
CONSTANTS
  e1 = e1
  e2 = e2
  r1 = r1
  r2 = r2
  w1 = w1
  w2 = w2
  NoEvent = NoEvent
  Events = {e1, e2}
  Routes = {r1}
  RouteOf <- OneRoute
  Workers = {w1, w2}
  BatchLimit = 2
  Verdicts = {"deliver", "skip", "error"}
  MaxFaults = 3
INVARIANTS TypeOK LeaseExclusion SentWasAccepted BoundedDuplicates
PROPERTIES SettledOnceReadable SentIsFinal ImplementsOutbox
CHECK_DEADLOCK FALSE
