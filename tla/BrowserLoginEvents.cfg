SPECIFICATION Spec
CONSTANTS
  None = None
  Users = {u1, u2}
  Clients = {b}
  ConsentClients = {b}
  Sids = {s1, s2}
  TabIds = {t1, t2}
  CodeIds = {k1, k2}
  Providers <- OneForm
  Prompts <- PlainAndLogin
  Events = {"exchange", "admin", "logout", "clock"}
  Lifespan = 1
INVARIANTS
  ConsentBeforeCode
PROPERTIES
  OnlyConsentSkipsTheQueue
  SessionStartsWithPassword
CHECK_DEADLOCK FALSE
SYMMETRY UserSymmetry
