SPECIFICATION Spec
CONSTANTS
  None = None
  Users = {u1}
  Clients = {b}
  ConsentClients = {b}
  Sids = {s1, s2}
  TabIds = {t1, t2, t3}
  CodeIds = {k1, k2}
  Providers <- NoProviders
  Prompts <- PlainAndConsent
  Events = {"exchange", "logout"}
  Lifespan = 1
INVARIANTS
  EndedTokensStayDead
CHECK_DEADLOCK FALSE
