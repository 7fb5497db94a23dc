SPECIFICATION ServerSpec
CONSTANTS
  Roles = {ra, rb, own}
  OwnRoles = {own}
  RoleRequests = {t1, t2}
  NoRole = NoRole
  Starts = {p1, p2}
  SeedCount = 2
  MaxRemovals = 1
  RealmNames = {n1, n2}
  RealmIds = {i1, i2}
  ContainerIds = {x1, x2}
  AdminRoles = {k1, k2}
  RealmRequests = {q1, q2, q3}
  Nobody = Nobody
  fb = fb
  fs = fs
  fu = fu
  f1 = f1
  f2 = f2
  e1 = e1
  e2 = e2
  e3 = e3
  e4 = e4
  c0 = c0
  c1 = c1
  x1 = x1
  x2 = x2
  FlowIds = {fb, fs, fu, f1, f2}
  ExecIds = {e1, e2, e3, e4, x1, x2}
  ConfigIds = {c0, c1}
  BuiltInFlows = {fb, fs}
  SeedFlows = {fb, fs, fu}
  SeedExecs <- MCSeedExecs
  SeedConfigs = {c0}
  CallerPriorities = {0}
  FlowRequests = {t1, t2}
  Nil = Nil
  g1 = g1
  g2 = g2
  g3 = g3
  g4 = g4
  g5 = g5
  o1 = o1
  o2 = o2
  GroupIds = {g1, g2, g3, g4, g5, x1, x2}
  OrgIds = {o1, o2}
  GroupUsers = {w}
  SeedGroups <- MCSeedGroups
  SeedOrgs = {o1}
  GroupRequests = {q1, q2, q3}
  NoGroup = NoGroup
  People = {w}
  SilentActions = {"VERIFY"}
  MaxCredentials = 2
  UserRequests = {t1, t2}
  NoUser = NoUser
  RegClients = {ra, rb}
  RegTokens = {k1, k2, k3}
  RegRequests = {q1, q2, q3}
  NoToken = NoToken
  Proofs = {k1, k2}
  ProofLifetime = 1
  ProofSkew = 1
  ProofRequests = {q1, q2, q3}
  NoProof = NoProof
  MaxTime = 4
SYMMETRY
  MCSymmetry
INVARIANTS
  RolesTypeOK
  FlagFollowsChildren
  TokenHoldsReachable
  SeedingTypeOK
  RestartDuplicatesNothing
  ContainersTypeOK
  GrantsFollowRealms
  FlowsTypeOK
  NoDanglingConfig
  SubFlowsNotShared
  PrioritiesDense
  GroupsTypeOK
  DeleteLeavesNoOrphans
  OrganizationGroupsGo
  LastWordHolds
  HolderKeepsAccess
  ProofUsedOnce
PROPERTIES
  StartConverges
CHECK_DEADLOCK FALSE
