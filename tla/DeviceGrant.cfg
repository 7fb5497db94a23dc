SPECIFICATION Spec
CONSTANTS
  None = None
  Codes = {c1}
  Users = {u1, u2}
  Sids = {s1, s2}
  Polls = {p1, p2, p3}
  Lifespan = 3
  Grace = 1
  Interval = 2
SYMMETRY Symmetry
INVARIANTS
  TypeOK
  TokensFromOneApproval
  DeniedIsFinal
  NotValidAfterSuccess
CHECK_DEADLOCK FALSE
