SPECIFICATION Spec
CONSTANTS
  Pictures = {a1, a2}
  Templates = {t1}
  Holders = {h1, h2}
  Ops = {o1, o2, o3}
  None = none
SYMMETRY Symmetry
INVARIANT RowHasFile
PROPERTIES InUseStays
