SPECIFICATION Spec
CONSTANTS
  None = None
  Users = {u1, u2}
  Clients = {a}
  ConsentClients = {}
  Sids = {s1, s2}
  TabIds = {t1, t2, t3}
  CodeIds = {k1, k2, k3}
  Providers <- NoProviders
  Prompts <- PlainAndLogin
  Events = {}
  Lifespan = 1
INVARIANTS
  IdentityNamesSessionOwner
CHECK_DEADLOCK FALSE
