SPECIFICATION Spec
CONSTANTS
  None = None
  Users = {u1}
  Clients = {b}
  ConsentClients = {b}
  Sids = {s1, s2}
  TabIds = {t1, t2}
  CodeIds = {k1, k2}
  Providers <- FourActions
  Prompts <- EveryPrompt
  Events = {"overlap", "crash"}
  Lifespan = 1
INVARIANTS
  TypeOK
  ConsentBeforeCode
PROPERTIES
  OnlyOverlapsAnswerTwice
  ActionsClearedInOrder
CHECK_DEADLOCK FALSE
