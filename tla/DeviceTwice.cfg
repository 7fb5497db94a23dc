SPECIFICATION Spec
CONSTANTS
  None = None
  Codes = {c1}
  Users = {u1, u2}
  Sids = {s1, s2}
  Polls = {p1, p2}
  Lifespan = 1
  Grace = 1
  Interval = 1
SYMMETRY Symmetry
INVARIANTS
  RedeemedOnce
CHECK_DEADLOCK FALSE
