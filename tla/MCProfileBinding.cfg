SPECIFICATION Spec
CONSTANTS
  Profiles = {l1}
  Policies = {s1}
  Routes = {r1}
  Pictures = {a}
  Tokens = {t1}
  NoToken = noToken
  None = none
  Gone = gone
  Ops = {o1, o2}
SYMMETRY Symmetry
INVARIANTS TypeOK BoundIsEnabled CopiesFollow
PROPERTIES DeletionKeepsPage
