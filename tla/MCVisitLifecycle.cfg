SPECIFICATION Spec
CONSTANTS
  Procs = {p1, p2}
  Routes = {r1, r2}
  Clients = {c1}
  Requests = {q1, q2}
  Visits = {v1, v2}
  None = none
  MaxRequests = 4
  Addresses <- MCAddresses
  Networks <- MCNetworks
  MaxLines = 3
SYMMETRY Symmetry
INVARIANTS TypeOK HandedOutIsReal PagesAreAnnounced TokensMatchRoute
PROPERTIES VerdictIsFinal HonestBrowsersPass SearchFindsTheLine IspIsWhatWasJudged
