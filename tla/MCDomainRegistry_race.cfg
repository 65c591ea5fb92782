SPECIFICATION Spec
CONSTANTS
  External = External
  NoId = NoId
  Names = {a, b}
  Ids = {d1, d2}
  RouteIds = {r1}
  Admins = {adm1, adm2}
SYMMETRY Interchangeable
INVARIANT RoutesReady
