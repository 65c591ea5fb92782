SPECIFICATION FairSpec
CONSTANTS
  Procs = {p1}
  Keys = {k1}
  Requests = {q1, q2}
  Tokens = {t1, t2}
  Limit = 2
  Window = 1
  Lockout = 2
  MaxChanges = 2
INVARIANTS TypeOK OldPasswordGone BoundedGuesses
PROPERTIES LockEnds
