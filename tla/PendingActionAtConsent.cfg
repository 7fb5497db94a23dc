SPECIFICATION Spec
CONSTANTS
  None = None
  Users = {u1, u2}
  Clients = {b}
  ConsentClients = {b}
  Sids = {s1, s2}
  TabIds = {t1, t2}
  CodeIds = {k1, k2}
  Providers <- OneForm
  Prompts <- PlainAndLogin
  Events = {}
  Lifespan = 1
PROPERTIES
  NoCodeOverPendingAction
CHECK_DEADLOCK FALSE
