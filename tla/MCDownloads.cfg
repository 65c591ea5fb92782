SPECIFICATION Spec
CONSTANTS
  q1 = q1
  q2 = q2
  q3 = q3
  q4 = q4
  k1 = k1
  k2 = k2
  o1 = o1
  o2 = o2
  NoProc = NoProc
  c1 = c1
  c2 = c2
  Codes = {c1, c2}
  CodeOf <- CodeOfPage
  HomeOf <- FirstHome
  NoCode = NoCode
  NoRoute = NoRoute
  Requests = {q1, q2, q3, q4}
  Keys = {k1, k2}
  KeyOf <- ThreeAndOne
  Routes = {o1, o2}
  RouteOf <- RouteOfKey
  Procs = {p1, p2}
  MaxFaults = 2
SYMMETRY ReportSymmetry
INVARIANTS OneRowPerDownload LeadHasDownload TakenForAReason NothingLost
PROPERTY CreditStays
CHECK_DEADLOCK FALSE
