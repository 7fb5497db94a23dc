SPECIFICATION Spec
CONSTANTS
  None = None
  Users = {u1}
  Clients = {a}
  ConsentClients = {}
  Sids = {s1, s2}
  TabIds = {t1, t2}
  CodeIds = {k1, k2}
  Providers <- NoProviders
  Prompts <- PlainAndLogin
  Events = {"overlap"}
  Lifespan = 1
INVARIANTS
  OneCodePerTab
CHECK_DEADLOCK FALSE
