SPECIFICATION Spec
CONSTANTS
  Requests = {q1, q2, q3}
  Sids = {s1, s2}
  Clients = {app, robot}
  BackClients = {app}
  Robot = robot
  Users = {ann}
  Accounts = {acc1}
  None = None
SYMMETRY RaceSymmetry
INVARIANT
  TypeOK
PROPERTIES
  ImplementsAuthority
  LogoutTellsMembers
  LogoutAllMissesOnlyNew
  AccountRaceHasNoLoser
CHECK_DEADLOCK FALSE
